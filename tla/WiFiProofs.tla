----------------------------- MODULE WiFiProofs -----------------------------
(***************************************************************************)
(* The safety properties of WiFi and WiFiHistory, for any number of        *)
(* entries and networks and any times that fit into the clock.  They are   *)
(* not inductive: a retry is to the right network because of what the      *)
(* table holds, the table has no name twice because a reset while it is    *)
(* written only cuts it off, and a restart brings it back because RAM and  *)
(* flash agree between two handlers.                                       *)
(***************************************************************************)
EXTENDS WiFiHistory, ClockProofs, WellFoundedInduction

-----------------------------------------------------------------------------
(* The table.                                                              *)

Names == Ssids \cup {Empty, Torn}

\* What a table is, in RAM or in flash.
TableOK(t) ==
  /\ t \in [Table -> Ssids \cup {Empty, Torn, "ownAP"}]
  /\ \A i \in Entries : t[i] \in Names
  /\ \A i, j \in Entries : i # j /\ t[i] = t[j] => t[i] \notin Ssids

\* There is a first one among the entries that match.
LEMMA LeastEntry ==
  ASSUME NEW T \in SUBSET Nat, T # {}
  PROVE  \E i \in T : \A j \in T : i <= j
<1>1. PICK i \in T : \A j \in T : ~ (<<j, i>> \in OpToRel(<, Nat))
  BY NatLessThanWellFounded, WFMin, Zenon
<1>2. ASSUME NEW j \in T PROVE i <= j
  <2>1. ~ (j < i)
    BY <1>1 DEF OpToRel
  <2> QED BY <2>1
<1> QED BY <1>2

\* RetrieveSsidData and FindEmptySsidEntry return an entry that holds s, or
\* there is none.
LEMMA FirstEntryFinds ==
  ASSUME NEW s
  PROVE  \/ FirstEntry(s) = null /\ \A i \in Entries : table[i] # s
         \/ FirstEntry(s) \in Entries /\ table[FirstEntry(s)] = s
<1>1. CASE \E i \in Entries : table[i] = s
  <2> DEFINE found == {i \in Entries : table[i] = s}
  <2>1. found \in SUBSET Nat /\ found # {}
    BY <1>1, WiFiAssumption DEF Entries
  <2>2. \E i \in found : \A j \in found : i <= j
    BY <2>1, LeastEntry
  <2>3. \E i \in Entries :
          table[i] = s /\ \A j \in Entries : table[j] = s => i <= j
    BY <2>2
  <2>4. /\ FirstEntry(s) \in Entries
        /\ table[FirstEntry(s)] = s
    BY <1>1, <2>3 DEF FirstEntry
  <2> QED BY <2>4
<1>2. CASE ~ \E i \in Entries : table[i] = s
  BY <1>2 DEF FirstEntry
<1> QED BY <1>1, <1>2

\* The entry of our own access point is none of the entries for networks.
LEMMA EntriesInTable == Entries \subseteq Table /\ null \notin Entries /\ OwnEntry \notin Entries
BY WiFiAssumption DEF Entries, Table, OwnEntry, null

\* Each command leaves a table, and no torn name in an entry that had none.
LEMMA AddedOK ==
  ASSUME TableOK(table), NEW s \in Ssids, EntryFor(s) # null
  PROVE  /\ TableOK(Added(s))
         /\ \A i \in Entries : Added(s)[i] \in {table[i], s}
<1> DEFINE e == EntryFor(s)
<1>1. /\ e \in Entries
      /\ \A i \in Entries : i # e => table[i] # s
  <2>1. CASE FirstEntry(s) # null
    <3>1. e = FirstEntry(s)
      BY <2>1 DEF EntryFor
    <3>2. e \in Entries /\ table[e] = s
      BY <2>1, <3>1, FirstEntryFinds
    <3> QED BY <3>2 DEF TableOK
  <2>2. CASE FirstEntry(s) = null
    <3>1. e = FirstEntry(Empty) /\ e # null
      BY <2>2 DEF EntryFor
    <3>2. e \in Entries
      BY <3>1, FirstEntryFinds
    <3>3. \A i \in Entries : table[i] # s
      BY <2>2, FirstEntryFinds, EntriesInTable
    <3> QED BY <3>2, <3>3
  <2> QED BY <2>1, <2>2
<1>2. Added(s) = [table EXCEPT ![e] = s]
  BY DEF Added
<1>3. \A i \in Table : Added(s)[i] = IF i = e THEN s ELSE table[i]
  BY <1>2 DEF TableOK
<1>4. Added(s) \in [Table -> Ssids \cup {Empty, Torn, "ownAP"}]
  BY <1>1, <1>2, EntriesInTable DEF TableOK
<1> HIDE DEF e
<1> QED BY <1>1, <1>3, <1>4, EntriesInTable DEF TableOK, Names

\* Erasing an entry leaves a table.
LEMMA ErasedOK ==
  ASSUME TableOK(table), NEW e \in Entries
  PROVE  /\ TableOK(Erased(e))
         /\ \A i \in Entries : Erased(e)[i] \in {table[i], Empty}
<1>1. /\ Erased(e) \in [Table -> Ssids \cup {Empty, Torn, "ownAP"}]
      /\ \A i \in Table : Erased(e)[i] = IF i = e THEN Empty ELSE table[i]
  BY EntriesInTable DEF TableOK, Erased
<1> QED BY <1>1, EntriesInTable, WiFiAssumption DEF TableOK, Names

\* So does configuring our own access point, which touches no network.
LEMMA ConfiguredOK ==
  ASSUME TableOK(table), NEW own \in {Empty, "ownAP"}
  PROVE  /\ TableOK(Configured(own))
         /\ \A i \in Entries : Configured(own)[i] = table[i]
<1>1. /\ Configured(own) \in [Table -> Ssids \cup {Empty, Torn, "ownAP"}]
      /\ \A i \in Entries : Configured(own)[i] = table[i]
  BY EntriesInTable DEF TableOK, Configured, OwnEntry
<1> QED BY <1>1, EntriesInTable DEF TableOK

\* So does a factory reset.
LEMMA ResetOK == TableOK([i \in Table |-> Empty])
BY EntriesInTable, WiFiAssumption DEF TableOK, Names

\* So does a reset while a table is written.
LEMMA CutOK ==
  ASSUME TableOK(table), NEW new \in Stores, NEW k \in Table,
         NEW cut \in {Empty, Torn}
  PROVE  TableOK([i \in Table |->
            IF i < k THEN new[i]
            ELSE IF i = k /\ new[i] # Empty THEN cut ELSE Empty])
<1>1. TableOK(new)
  <2>1. CASE new = [i \in Table |-> Empty]
    BY <2>1, ResetOK
  <2>2. CASE new \in {Configured(Empty), Configured("ownAP")}
    BY <2>2, ConfiguredOK
  <2>3. ASSUME NEW s \in Ssids, EntryFor(s) # null, new = Added(s)
        PROVE  TableOK(new)
    BY <2>3, AddedOK
  <2>4. ASSUME NEW s \in Ssids, FirstEntry(s) # null, new = Erased(FirstEntry(s))
        PROVE  TableOK(new)
    BY <2>4, ErasedOK, FirstEntryFinds
  <2> QED BY <2>1, <2>2, <2>3, <2>4 DEF Stores
<1> DEFINE t == [i \in Table |-> IF i < k THEN new[i]
                   ELSE IF i = k /\ new[i] # Empty THEN cut ELSE Empty]
<1>2. \A i \in Table : t[i] \in {new[i], Empty, Torn}
  OBVIOUS
<1>3. t \in [Table -> Ssids \cup {Empty, Torn, "ownAP"}]
  BY <1>1, <1>2 DEF TableOK
<1>4. \A i \in Entries : t[i] \in {new[i], Empty, Torn}
  BY <1>2, EntriesInTable
<1> HIDE DEF t
<1>5. TableOK(t)
  BY <1>1, <1>3, <1>4, WiFiAssumption DEF TableOK, Names
<1> QED BY <1>5 DEF t

-----------------------------------------------------------------------------
(* The inductive invariant.                                                *)

\* The types of all but the tables.
StateOK ==
  /\ currentState \in WiFiState
  /\ ssidData \in Entries \cup {null}
  /\ currentSsid \in Ssids \cup {Empty, "ownAP"}
  /\ connectStartTime \in 0 .. ClockMod - 1 /\ now \in 0 .. ClockMod - 1
  /\ lastError \in {"null", "set"}
  /\ status \in StationStatus
  /\ mode \in {"OFF", "SCAN", "STA", "AP"}

MachineOK == StateOK /\ RetryHasTarget /\ RadioFollowsState

\* What ssidData points to is a name, or has been erased since, also where
\* the reset that tore an entry was long ago.
TargetOK == ssidData \in Entries => table[ssidData] \in Ssids \cup {Empty}

TablesOK == TableOK(table) /\ flash = table /\ TargetOK

WInv == MachineOK /\ TablesOK

\* The properties follow from it.
LEMMA InvProperties ==
  WInv => TypeOK /\ RetryHasTarget /\ RadioFollowsState /\ SsidsUnique
<1>1. WInv => TypeOK
  BY DEF WInv, MachineOK, StateOK, TablesOK, TableOK, TypeOK
<1>2. WInv => RetryHasTarget /\ RadioFollowsState
  BY DEF WInv, MachineOK
<1>3. WInv => SsidsUnique
  BY DEF WInv, TablesOK, TableOK, SsidsUnique
<1> QED BY <1>1, <1>2, <1>3

\* With RAM and flash equal, a restart reads back what was there.
LEMMA InvRestart == WInv /\ Restart => table' = table
BY DEF WInv, TablesOK, Restart, Boot

\* A clock starts at 0.
LEMMA ClockStarts == ClockMod \in Nat \ {0} /\ 0 \in 0 .. ClockMod - 1
<1>1. ClockMod \in Nat \ {0}
  BY WiFiAssumption
<1> QED BY <1>1

\* millis() stays in its range.
LEMMA LaterInRange ==
  ASSUME now \in 0 .. ClockMod - 1, NEW d \in 0 .. MaxLoopTime
  PROVE  Later(d) \in 0 .. ClockMod - 1
<1>1. ClockMod \in Nat \ {0} /\ MaxLoopTime \in Nat
  BY WiFiAssumption
<1>2. now + d \in Nat
  BY <1>1
<1>3. (now + d) % ClockMod \in 0 .. ClockMod - 1
  BY <1>1, <1>2
<1> QED BY <1>3 DEF Later

\* The program starts in it.
LEMMA InitInv == Init => WInv
<1> SUFFICES ASSUME Init PROVE WInv
  OBVIOUS
<1>1. MachineOK
  BY ClockStarts DEF Init, MachineOK, StateOK, RetryHasTarget,
     RadioFollowsState, WiFiState, StationStatus, Station
<1>2. /\ table \in [Table -> Ssids \cup {Empty, "ownAP"}]
      /\ \A i \in Entries : table[i] \in Ssids \cup {Empty}
      /\ \A i, j \in Entries : i # j /\ table[i] = table[j] => table[i] = Empty
  BY EntriesInTable DEF Init
<1>3. TableOK(table)
  BY <1>2, WiFiAssumption DEF TableOK, Names
<1>4. flash = table /\ TargetOK
  BY <1>2 DEF Init, TargetOK
<1> QED BY <1>1, <1>3, <1>4 DEF WInv, TablesOK

-----------------------------------------------------------------------------
(* The commands that write the tables.                                     *)

\* They do not touch the state machine.
LEMMA MachineKept ==
  ASSUME MachineOK, UNCHANGED Elsewhere, lastError' \in {"null", "set"}
  PROVE  MachineOK'
BY DEF Elsewhere, MachineOK, StateOK, RetryHasTarget, RadioFollowsState

\* They leave names in the entries that had one.
LEMMA TableStored ==
  ASSUME WInv, NEW t, Store(t), TableOK(t), UNCHANGED ssidData,
         \A i \in Entries : t[i] \in Ssids \cup {table[i], Empty}
  PROVE  TablesOK'
<1>1. table' = t /\ flash' = t
  BY DEF Store
<1>2. TableOK(table)' /\ (flash = table)'
  BY <1>1 DEF TableOK
<1>3. TargetOK'
  BY <1>1 DEF WInv, TablesOK, TargetOK
<1> QED BY <1>2, <1>3 DEF TablesOK

\* A handler that writes no table keeps them, if it lets ssidData point to a
\* name or to nothing.
LEMMA TablesKept ==
  ASSUME TablesOK, UNCHANGED <<table, flash>>,
         \/ ssidData' \in {ssidData, null}
         \/ ssidData' \in Entries /\ table[ssidData'] \in Ssids
  PROVE  TablesOK'
<1>1. TableOK(table)' /\ (flash = table)'
  BY DEF TablesOK, TableOK
<1>2. TargetOK'
  BY EntriesInTable DEF TablesOK, TargetOK
<1> QED BY <1>1, <1>2 DEF TablesOK

\* networkAddSsid.
LEMMA AddStep ==
  ASSUME WInv, NEW s \in Ssids, networkAddSsid(s) PROVE WInv'
<1>1. MachineOK'
  BY MachineKept DEF networkAddSsid, WInv, MachineOK, StateOK
<1>2. UNCHANGED ssidData
  BY DEF networkAddSsid, Elsewhere
<1>3. CASE EntryFor(s) # null
  <2>1. Store(Added(s))
    BY <1>3 DEF networkAddSsid
  <2>2. /\ TableOK(Added(s))
        /\ \A i \in Entries : Added(s)[i] \in {table[i], s}
    BY <1>3, AddedOK DEF WInv, TablesOK
  <2> QED BY <1>1, <1>2, <2>1, <2>2, TableStored DEF WInv
<1>4. CASE EntryFor(s) = null
  BY <1>1, <1>2, <1>4, TablesKept DEF networkAddSsid, WInv
<1> QED BY <1>3, <1>4

\* networkDeleteSsid.
LEMMA DeleteStep ==
  ASSUME WInv, NEW s \in Ssids, networkDeleteSsid(s) PROVE WInv'
<1>1. MachineOK'
  BY MachineKept DEF networkDeleteSsid, WInv, MachineOK, StateOK
<1>2. UNCHANGED ssidData
  BY DEF networkDeleteSsid, Elsewhere
<1>3. CASE FirstEntry(s) # null
  <2>1. Store(Erased(FirstEntry(s)))
    BY <1>3 DEF networkDeleteSsid
  <2>2. FirstEntry(s) \in Entries
    BY <1>3, FirstEntryFinds
  <2>3. /\ TableOK(Erased(FirstEntry(s)))
        /\ \A i \in Entries : Erased(FirstEntry(s))[i] \in {table[i], Empty}
    BY <2>2, ErasedOK DEF WInv, TablesOK
  <2> QED BY <1>1, <1>2, <2>1, <2>3, TableStored DEF WInv
<1>4. CASE FirstEntry(s) = null
  BY <1>1, <1>2, <1>4, TablesKept DEF networkDeleteSsid, WInv
<1> QED BY <1>3, <1>4

\* networkConfigureAccessPoint.
LEMMA ConfigureStep ==
  ASSUME WInv, networkConfigureAccessPoint PROVE WInv'
<1>1. MachineOK'
  BY MachineKept DEF networkConfigureAccessPoint, WInv, MachineOK, StateOK
<1>2. UNCHANGED ssidData
  BY DEF networkConfigureAccessPoint, Elsewhere
<1>3. PICK own \in {Empty, "ownAP"} : Store(Configured(own))
  BY DEF networkConfigureAccessPoint
<1>4. /\ TableOK(Configured(own))
      /\ \A i \in Entries : Configured(own)[i] = table[i]
  BY ConfiguredOK DEF WInv, TablesOK
<1>5. TablesOK'
  BY <1>2, <1>3, <1>4, TableStored
<1> QED BY <1>1, <1>5 DEF WInv

\* FactoryReset.
LEMMA FactoryResetStep == ASSUME WInv, FactoryReset PROVE WInv'
<1> DEFINE t == [i \in Table |-> Empty]
<1>1. UNCHANGED Elsewhere /\ lastError' = "null" /\ Store(t)
  BY DEF FactoryReset, Elsewhere
<1>2. \A i \in Entries : t[i] = Empty
  BY EntriesInTable
<1>3. TableOK(t)
  BY ResetOK
<1> HIDE DEF t
<1>4. TablesOK'
  BY <1>1, <1>2, <1>3, TableStored DEF Elsewhere
<1> QED BY <1>1, <1>4, MachineKept DEF WInv

-----------------------------------------------------------------------------
(* The state machine.                                                      *)

\* A retry finds its entry, and joins it.
LEMMA RetryJoins ==
  ASSUME WInv, currentState \in Station, ConnectToAccessPoint(ssidData, TRUE)
  PROVE  /\ currentSsid' \in Ssids \cup {Empty}
         /\ mode' = "STA" /\ status' \in StationStatus
         /\ currentState' = "reconnecting"
<1>1. ssidData \in Entries
  BY DEF WInv, MachineOK, RetryHasTarget
<1>2. table[ssidData] \in Ssids \cup {Empty}
  BY <1>1 DEF WInv, TablesOK, TargetOK
<1> QED BY <1>2 DEF ConnectToAccessPoint, StationStatus

\* What one call does to the state machine while it is a station.
LEMMA StationPolls ==
  ASSUME WInv, NEW t \in 0 .. ClockMod - 1,
         Trying(t) \/ Connected(t) \/ AutoReconnecting(t)
  PROVE  /\ currentState \in Station
         /\ currentState' \in Station => mode' = "STA"
         /\ currentState' \in Station \cup {"idle"}
         /\ currentSsid' \in Ssids \cup {Empty, "ownAP"}
         /\ connectStartTime' \in 0 .. ClockMod - 1
         /\ lastError' \in {"null", "set"}
         /\ status' \in StationStatus
         /\ mode' \in {"OFF", "STA"}
<1>1. currentState \in Station
  BY DEF Trying, Connected, AutoReconnecting, Station
<1>2. /\ currentSsid \in Ssids \cup {Empty, "ownAP"}
      /\ connectStartTime \in 0 .. ClockMod - 1
      /\ lastError \in {"null", "set"}
      /\ status \in StationStatus
      /\ mode = "STA"
  BY <1>1 DEF WInv, MachineOK, StateOK, RadioFollowsState
<1>3. ConnectToAccessPoint(ssidData, TRUE) =>
        /\ currentSsid' \in Ssids \cup {Empty}
        /\ mode' = "STA" /\ status' \in StationStatus
        /\ currentState' = "reconnecting"
  BY <1>1, RetryJoins
<1> HIDE DEF ConnectToAccessPoint
<1>4. CASE Trying(t)
  BY <1>1, <1>2, <1>3, <1>4 DEF Trying, Station, StationStatus
<1>5. CASE Connected(t)
  BY <1>1, <1>2, <1>3, <1>5 DEF Connected, Station
<1>6. CASE AutoReconnecting(t)
  BY <1>1, <1>2, <1>3, <1>6 DEF AutoReconnecting, Station
<1> QED BY <1>1, <1>4, <1>5, <1>6

\* ConnectPoll.
LEMMA ConnectPollStep ==
  ASSUME WInv, NEW d \in 0 .. MaxLoopTime, ConnectPoll(d) PROVE WInv'
<1>1. /\ now' = Later(d)
      /\ UNCHANGED <<ssidData, table, flash>>
  BY DEF ConnectPoll
<1>2. Later(d) \in 0 .. ClockMod - 1
  BY LaterInRange DEF WInv, MachineOK, StateOK
<1>3. TablesOK'
  BY <1>1, TablesKept DEF WInv
<1>4. CASE Trying(Later(d)) \/ Connected(Later(d)) \/ AutoReconnecting(Later(d))
  <2>1. /\ currentState \in Station
        /\ currentState' \in Station => mode' = "STA"
        /\ currentState' \in Station \cup {"idle"}
        /\ currentSsid' \in Ssids \cup {Empty, "ownAP"}
        /\ connectStartTime' \in 0 .. ClockMod - 1
        /\ lastError' \in {"null", "set"}
        /\ status' \in StationStatus
        /\ mode' \in {"OFF", "STA"}
    BY <1>2, <1>4, StationPolls
  <2>2. StateOK'
    BY <1>1, <1>2, <2>1 DEF WInv, MachineOK, StateOK, WiFiState, Station
  <2>3. RetryHasTarget'
    BY <1>1, <2>1 DEF WInv, MachineOK, RetryHasTarget
  <2>4. RadioFollowsState'
    BY <2>1 DEF RadioFollowsState, Station
  <2> QED BY <1>3, <2>2, <2>3, <2>4 DEF WInv, MachineOK
<1>5. CASE UNCHANGED <<currentState, currentSsid, connectStartTime, lastError,
                       status, mode>>
  BY <1>1, <1>2, <1>3, <1>5 DEF WInv, MachineOK, StateOK, RetryHasTarget,
     RadioFollowsState
<1> QED BY <1>4, <1>5 DEF ConnectPoll

\* A connection is begun with an entry that holds a name, or with none.
LEMMA Begins ==
  ASSUME WInv, NEW e \in Entries, table[e] \in Ssids, Begin(e),
         UNCHANGED <<table, flash, now>>
  PROVE  WInv'
<1>1. /\ ssidData' = e /\ lastError' = "null" /\ connectStartTime' = now
      /\ currentSsid' = table[e] /\ mode' = "STA" /\ status' = "CONNECTING"
      /\ currentState' = "connecting"
  BY DEF Begin, ConnectToAccessPoint
<1>2. TablesOK'
  BY <1>1, TablesKept DEF WInv
<1>3. StateOK'
  BY <1>1 DEF WInv, MachineOK, StateOK, WiFiState, StationStatus
<1>4. RetryHasTarget' /\ RadioFollowsState'
  BY <1>1 DEF RetryHasTarget, RadioFollowsState
<1> QED BY <1>2, <1>3, <1>4 DEF WInv, MachineOK

\* Or there is no network to connect to.
LEMMA BeginsNot ==
  ASSUME WInv, currentState = "idle", NoNetwork,
         status' = status, mode' \in {mode, "SCAN"},
         UNCHANGED <<table, flash, now>>
  PROVE  WInv'
<1>1. /\ ssidData' = null /\ lastError' = "set"
      /\ UNCHANGED <<currentState, currentSsid, connectStartTime>>
  BY DEF NoNetwork
<1>2. TablesOK'
  BY <1>1, TablesKept DEF WInv
<1>3. StateOK'
  BY <1>1 DEF WInv, MachineOK, StateOK
<1>4. RetryHasTarget' /\ RadioFollowsState'
  BY <1>1 DEF WInv, MachineOK, RetryHasTarget, RadioFollowsState, Station
<1> QED BY <1>2, <1>3, <1>4 DEF WInv, MachineOK

\* networkStartClient, with and without a name.
LEMMA StartClientSteps ==
  ASSUME WInv, (\E s \in Ssids : StartClient(s)) \/ StartClientScan
  PROVE  WInv'
<1>1. ASSUME NEW s \in Ssids, FirstEntry(s) # null, Begin(FirstEntry(s)),
             UNCHANGED <<table, flash, now>>
      PROVE  WInv'
  <2>1. FirstEntry(s) \in Entries /\ table[FirstEntry(s)] = s
    BY <1>1, FirstEntryFinds
  <2> QED BY <1>1, <2>1, Begins
<1>2. ASSUME NEW s \in Ssids, StartClient(s) PROVE WInv'
  BY <1>1, <1>2, BeginsNot DEF StartClient
<1>3. CASE StartClientScan
  BY <1>1, <1>3, BeginsNot DEF StartClientScan
<1> QED BY <1>2, <1>3

\* StartAccessPoint.
LEMMA StartAccessPointStep ==
  ASSUME WInv, NEW ok \in BOOLEAN, NEW dnsOk \in BOOLEAN,
         StartAccessPoint(ok, dnsOk)
  PROVE  WInv'
<1>1. /\ currentState = "idle"
      /\ UNCHANGED <<ssidData, table, flash, connectStartTime, now>>
      /\ currentSsid' \in {currentSsid, "ownAP"}
      /\ lastError' \in {"null", "set"}
      /\ \/ currentState' = "runningAsAccessPoint" /\ mode' = "AP"
         \/ currentState' = "idle" /\ mode' \in {mode, "OFF"}
      /\ status' \in {status, "IDLE"}
  BY DEF StartAccessPoint
<1>2. TablesOK'
  BY <1>1, TablesKept DEF WInv
<1>3. StateOK'
  BY <1>1 DEF WInv, MachineOK, StateOK, WiFiState, StationStatus
<1>4. RetryHasTarget' /\ RadioFollowsState'
  BY <1>1 DEF WInv, MachineOK, RetryHasTarget, RadioFollowsState, Station
<1> QED BY <1>2, <1>3, <1>4 DEF WInv, MachineOK

\* networkStop.
LEMMA StopStep == ASSUME WInv, networkStop PROVE WInv'
<1>1. /\ UNCHANGED <<ssidData, table, flash, currentSsid, connectStartTime, now>>
      /\ lastError' = "null" /\ currentState' = "idle"
      /\ \/ mode' = "OFF" /\ status' = "IDLE"
         \/ /\ currentState \notin Disconnects
            /\ UNCHANGED <<mode, status>>
  BY DEF networkStop
<1>2. TablesOK'
  BY <1>1, TablesKept DEF WInv
<1>3. StateOK'
  BY <1>1 DEF WInv, MachineOK, StateOK, WiFiState, StationStatus
<1>4. RetryHasTarget' /\ RadioFollowsState'
  BY <1>1 DEF WInv, MachineOK, RetryHasTarget, RadioFollowsState, Station,
              Disconnects
<1> QED BY <1>2, <1>3, <1>4 DEF WInv, MachineOK

-----------------------------------------------------------------------------
(* The rest.                                                               *)

\* Commands that touch neither the tables nor the state machine.
LEMMA OtherSteps ==
  ASSUME WInv, OtherDeferred \/ networkGetLastError \/ OtherError
  PROVE  WInv'
<1>1. /\ UNCHANGED Elsewhere /\ UNCHANGED <<table, flash>>
      /\ lastError' \in {"null", "set"}
  BY DEF OtherDeferred, networkGetLastError, OtherError, Elsewhere
<1>2. MachineOK'
  BY <1>1, MachineKept DEF WInv
<1>3. TablesOK'
  BY <1>1, TablesKept DEF WInv, Elsewhere
<1> QED BY <1>2, <1>3 DEF WInv

\* The SDK.
LEMMA SdkStep == ASSUME WInv, SdkEvent PROVE WInv'
<1>1. MachineOK'
  BY DEF SdkEvent, WInv, MachineOK, StateOK, RetryHasTarget, RadioFollowsState
<1>2. TablesOK'
  BY TablesKept DEF SdkEvent, WInv
<1> QED BY <1>1, <1>2 DEF WInv

\* setup, from any table that can be in the flash.
LEMMA BootStep == ASSUME Boot, TableOK(flash)' PROVE WInv'
<1>1. MachineOK'
  BY ClockStarts DEF Boot, MachineOK, StateOK, RetryHasTarget,
     RadioFollowsState, WiFiState, StationStatus, Station
<1>2. TablesOK'
  BY EntriesInTable DEF Boot, TablesOK, TargetOK, TableOK
<1> QED BY <1>1, <1>2 DEF WInv

\* The resets.
LEMMA RestartSteps == ASSUME WInv, Restart \/ RestartInCommit PROVE WInv'
<1>1. CASE Restart
  BY <1>1, BootStep DEF Restart, WInv, TablesOK, TableOK
<1>2. CASE RestartInCommit
  <2>1. PICK new \in Stores, k \in Table, cut \in {Empty, Torn} :
          flash' = [i \in Table |->
                     IF i < k THEN new[i]
                     ELSE IF i = k /\ new[i] # Empty THEN cut ELSE Empty]
    BY <1>2 DEF RestartInCommit
  <2> DEFINE t == [i \in Table |-> IF i < k THEN new[i]
                     ELSE IF i = k /\ new[i] # Empty THEN cut ELSE Empty]
  <2>2. TableOK(t)
    BY CutOK DEF WInv, TablesOK
  <2>3. flash' = t
    BY <2>1
  <2> HIDE DEF t
  <2>4. TableOK(flash)'
    BY <2>2, <2>3 DEF TableOK
  <2> QED BY <1>2, <2>4, BootStep DEF RestartInCommit
<1> QED BY <1>1, <1>2

\* Every step keeps the invariant.
LEMMA NextInv == WInv /\ [Next]_wvars => WInv'
<1> SUFFICES ASSUME WInv, [Next]_wvars PROVE WInv'
  OBVIOUS
<1>1. CASE \E d \in 0 .. MaxLoopTime : ConnectPoll(d)
  BY <1>1, ConnectPollStep
<1>2. CASE SamCommand
  BY <1>2, StartClientSteps, AddStep, DeleteStep, StartAccessPointStep,
     ConfigureStep, StopStep, FactoryResetStep, OtherSteps DEF SamCommand
<1>3. CASE SdkEvent
  BY <1>3, SdkStep
<1>4. CASE Restart \/ RestartInCommit
  BY <1>4, RestartSteps
<1>5. CASE UNCHANGED wvars
  <2>1. MachineOK'
    BY <1>5 DEF wvars, WInv, MachineOK, StateOK, RetryHasTarget,
       RadioFollowsState
  <2>2. TablesOK'
    BY <1>5, TablesKept DEF wvars, WInv
  <2> QED BY <2>1, <2>2 DEF WInv
<1> QED BY <1>1, <1>2, <1>3, <1>4, <1>5 DEF Next

\* The invariant holds in every reachable state.
THEOREM WInvHolds == Spec => []WInv
BY InitInv, NextInv, PTL DEF Spec

\* The variables of the state machine, the tables and the SDK keep their types.
THEOREM WiFiTypes == Spec => []TypeOK
BY InvProperties, WInvHolds, PTL

\* ConnectPoll never dereferences a null ssidData, whatever commands came
\* between the one that set it and the retry.
THEOREM RetryTargets == Spec => []RetryHasTarget
BY InvProperties, WInvHolds, PTL

\* currentState never says of the radio what is not so.
THEOREM RadioState == Spec => []RadioFollowsState
BY InvProperties, WInvHolds, PTL

\* No network is in the table twice, whatever was added, deleted, reset or
\* cut short.
THEOREM OneEntryEach == Spec => []SsidsUnique
BY InvProperties, WInvHolds, PTL

\* A reset between two handlers loses no network.
THEOREM RestartKeeps == Spec => RestartKeepsNetworks
<1>1. WInv /\ [Next]_wvars => [Restart => table' = table]_wvars
  BY InvRestart
<1> QED BY <1>1, WInvHolds, PTL DEF Spec, RestartKeepsNetworks

-----------------------------------------------------------------------------
(* The history of an attempt.                                              *)

\* While a first attempt lasts its timer shows its age.
AgeOK ==
  currentState = "connecting" =>
    age \in Nat /\ age < MaxConnectTime /\ Elapsed(now) = age

\* A station's entry holds its network, unless that was deleted.
SameOK ==
  currentState \in Station /\ ~forgotten =>
    currentSsid \in Ssids /\ table[ssidData] = currentSsid

HInv == WInv /\ AgeOK /\ SameOK

\* The times, and how far they are from the wrap of the clock.
LEMMA Times ==
  /\ MaxConnectTime \in Nat \ {0} /\ MaxLoopTime \in Nat /\ ClockMod \in Nat \ {0}
  /\ MaxConnectTime + MaxLoopTime <= ClockMod
BY WiFiAssumption

\* The next poll of a first attempt finds its true age.
LEMMA AgeSeen ==
  ASSUME HInv, currentState = "connecting", NEW d \in 0 .. MaxLoopTime
  PROVE  age + d \in Nat /\ Elapsed(Later(d)) = age + d
<1>1. age \in Nat /\ age < MaxConnectTime /\ Elapsed(now) = age
  BY DEF HInv, AgeOK
<1>2. now \in 0 .. ClockMod - 1 /\ connectStartTime \in 0 .. ClockMod - 1
  BY DEF HInv, WInv, MachineOK, StateOK
<1>3. age + d < ClockMod /\ d \in Nat
  BY <1>1, Times
<1> QED BY <1>1, <1>2, <1>3, DifferenceGrows, Times DEF Elapsed, Later

\* A poll after which a first attempt goes on has found it within its time.
LEMMA PollConnecting ==
  ASSUME NEW d \in 0 .. MaxLoopTime, ConnectPoll(d), currentState' = "connecting"
  PROVE  /\ currentState = "connecting" /\ UNCHANGED connectStartTime
         /\ now' = Later(d)
         /\ ~(Elapsed(Later(d)) >= MaxConnectTime)
<1>1. Trying(Later(d)) /\ now' = Later(d)
  BY DEF ConnectPoll, Connected, AutoReconnecting, ConnectToAccessPoint
<1>2. /\ ~(Elapsed(Later(d)) >= MaxConnectTime)
      /\ UNCHANGED <<currentState, connectStartTime>>
  BY <1>1 DEF Trying, ConnectToAccessPoint
<1> QED BY <1>1, <1>2

\* What the other steps do to an attempt and its network.
LEMMA Others ==
  ASSUME WInv, SamCommand \/ SdkEvent \/ Restart \/ RestartInCommit,
         currentState' \in Station
  PROVE  \/ /\ currentState = "idle" /\ currentState' = "connecting"
            /\ connectStartTime' = now /\ now' = now
            /\ ssidData' \in Entries /\ table[ssidData'] \in Ssids
            /\ currentSsid' = table[ssidData'] /\ UNCHANGED table
         \/ UNCHANGED <<currentState, ssidData, currentSsid, connectStartTime, now>>
<1>1. ASSUME NEW s \in Ssids, FirstEntry(s) # null, Begin(FirstEntry(s))
      PROVE  /\ currentState' = "connecting" /\ connectStartTime' = now
             /\ ssidData' \in Entries /\ table[ssidData'] \in Ssids
             /\ currentSsid' = table[ssidData']
  <2>1. FirstEntry(s) \in Entries /\ table[FirstEntry(s)] = s
    BY <1>1, FirstEntryFinds
  <2> QED BY <1>1, <2>1 DEF Begin, ConnectToAccessPoint
<1>2. NoNetwork => UNCHANGED currentState
  BY DEF NoNetwork
<1>3. ASSUME NEW s \in Ssids, StartClient(s)
      PROVE  /\ currentState = "idle" /\ currentState' = "connecting"
             /\ connectStartTime' = now /\ now' = now
             /\ ssidData' \in Entries /\ table[ssidData'] \in Ssids
             /\ currentSsid' = table[ssidData'] /\ UNCHANGED table
  BY <1>1, <1>2, <1>3 DEF StartClient, Station
<1>4. CASE StartClientScan
  BY <1>1, <1>2, <1>4 DEF StartClientScan, Station
<1>5. CASE \/ \E s \in Ssids : networkAddSsid(s) \/ networkDeleteSsid(s)
           \/ networkConfigureAccessPoint \/ FactoryReset \/ OtherDeferred
           \/ networkGetLastError \/ OtherError \/ SdkEvent
  BY <1>5 DEF networkAddSsid, networkDeleteSsid, networkConfigureAccessPoint,
     FactoryReset, OtherDeferred, networkGetLastError, OtherError, SdkEvent,
     Elsewhere
<1>6. CASE networkStop \/ \E ok, dnsOk \in BOOLEAN : StartAccessPoint(ok, dnsOk)
  BY <1>6 DEF networkStop, StartAccessPoint, Station
<1>7. CASE Restart \/ RestartInCommit
  BY <1>7 DEF Restart, RestartInCommit, Boot, Station
<1> QED BY <1>3, <1>4, <1>5, <1>6, <1>7 DEF SamCommand

\* Every step keeps the age in step with the timer.
LEMMA AgeStep == ASSUME HInv, HistoryNext PROVE AgeOK'
<1> SUFFICES ASSUME currentState' = "connecting" PROVE AgeOK'
  BY DEF AgeOK
<1>1. ASSUME NEW d \in 0 .. MaxLoopTime, ConnectPoll(d), Grow(d) PROVE AgeOK'
  <2>1. /\ currentState = "connecting" /\ UNCHANGED connectStartTime
        /\ now' = Later(d) /\ ~(Elapsed(Later(d)) >= MaxConnectTime)
    BY <1>1, PollConnecting
  <2>2. age + d \in Nat /\ Elapsed(Later(d)) = age + d
    BY <2>1, AgeSeen
  <2>3. age + d < MaxConnectTime
    BY <2>1, <2>2, Times
  <2>4. age' = age + d
    BY <1>1, <2>1, <2>3 DEF Grow, Attempt
  <2>5. Elapsed(now)' = Elapsed(Later(d))
    BY <2>1 DEF Elapsed
  <2> QED BY <2>2, <2>3, <2>4, <2>5 DEF AgeOK
<1>2. CASE /\ SamCommand \/ SdkEvent \/ Restart \/ RestartInCommit
           /\ Grow(0)
  <2>1. now \in 0 .. ClockMod - 1
    BY DEF HInv, WInv, MachineOK, StateOK
  <2>2. CASE /\ currentState = "idle"
             /\ connectStartTime' = now /\ now' = now
    <3>1. age' = 0
      BY <1>2, <2>2 DEF Grow
    <3>2. Elapsed(now)' = 0
      BY <2>1, <2>2, Difference, Times DEF Elapsed
    <3> QED BY <3>1, <3>2, Times DEF AgeOK
  <2>3. CASE UNCHANGED <<currentState, connectStartTime, now>>
    <3>1. age \in Nat /\ age < MaxConnectTime /\ Elapsed(now) = age
      BY <2>3 DEF HInv, AgeOK
    <3>2. age' = age
      BY <1>2, <2>3, <3>1 DEF Grow, Attempt
    <3>3. Elapsed(now)' = Elapsed(now)
      BY <2>3 DEF Elapsed
    <3> QED BY <3>1, <3>2, <3>3 DEF AgeOK
  <2> QED BY <1>2, <2>2, <2>3, Others DEF HInv, Station
<1> QED BY <1>1, <1>2 DEF HistoryNext

\* A poll leaves the network as it is, or joins it again.
LEMMA PollSame ==
  ASSUME HInv, NEW d \in 0 .. MaxLoopTime, ConnectPoll(d),
         currentState' \in Station
  PROVE  /\ currentState \in Station /\ UNCHANGED <<ssidData, table>>
         /\ ~forgotten => currentSsid' = currentSsid
<1>1. UNCHANGED <<ssidData, table>>
  BY DEF ConnectPoll
<1>2. currentState \in Station
  BY DEF ConnectPoll, Trying, Connected, AutoReconnecting, Station
<1>3. currentSsid' \in {currentSsid, table[ssidData]}
  BY <1>2 DEF ConnectPoll, Trying, Connected, AutoReconnecting,
     ConnectToAccessPoint
<1> QED BY <1>1, <1>2, <1>3 DEF HInv, SameOK

\* The commands that write the table leave the entry alone whose name is s, if
\* they do not delete it.
LEMMA EntryKept ==
  ASSUME WInv, NEW i \in Entries, table[i] \in Ssids,
         \/ \E s \in Ssids : networkAddSsid(s)
         \/ \E s \in Ssids \ {table[i]} : networkDeleteSsid(s)
         \/ networkConfigureAccessPoint
  PROVE  table'[i] = table[i]
<1>1. i \in Table /\ table \in [Table -> Ssids \cup {Empty, Torn, "ownAP"}]
  BY EntriesInTable DEF WInv, TablesOK, TableOK
<1>2. ASSUME NEW s \in Ssids, networkAddSsid(s) PROVE table'[i] = table[i]
  <2>1. CASE EntryFor(s) = null
    BY <1>2, <2>1 DEF networkAddSsid
  <2>2. CASE EntryFor(s) # null
    <3>1. table' = [table EXCEPT ![EntryFor(s)] = s]
      BY <1>2, <2>2 DEF networkAddSsid, Store, Added
    <3>2. table[EntryFor(s)] \in {s, Empty}
      BY <2>2, FirstEntryFinds DEF EntryFor
    <3> QED BY <1>1, <3>1, <3>2, WiFiAssumption
  <2> QED BY <2>1, <2>2
<1>3. ASSUME NEW s \in Ssids \ {table[i]}, networkDeleteSsid(s)
      PROVE  table'[i] = table[i]
  <2>1. CASE FirstEntry(s) = null
    BY <1>3, <2>1 DEF networkDeleteSsid
  <2>2. CASE FirstEntry(s) # null
    <3>1. table' = [table EXCEPT ![FirstEntry(s)] = Empty]
      BY <1>3, <2>2 DEF networkDeleteSsid, Store, Erased
    <3>2. table[FirstEntry(s)] = s
      BY <2>2, FirstEntryFinds
    <3> QED BY <1>1, <1>3, <3>1, <3>2
  <2> QED BY <2>1, <2>2
<1>4. CASE networkConfigureAccessPoint
  <2>1. PICK own \in {Empty, "ownAP"} : table' = [table EXCEPT ![OwnEntry] = own]
    BY <1>4 DEF networkConfigureAccessPoint, Store, Configured
  <2> QED BY <1>1, <2>1, EntriesInTable
<1> QED BY <1>2, <1>3, <1>4

\* What happens to the table while a station's network is not forgotten.
LEMMA TargetKept ==
  ASSUME HInv, SamCommand \/ SdkEvent \/ Restart \/ RestartInCommit,
         currentState \in Station, currentState' \in Station, ~forgotten,
         ~FactoryReset, \A s \in Ssids : ~Forget(s)
  PROVE  table'[ssidData] = table[ssidData]
<1>1. ssidData \in Entries
  BY DEF HInv, WInv, MachineOK, RetryHasTarget
<1>2. currentSsid \in Ssids /\ table[ssidData] = currentSsid
  BY DEF HInv, SameOK
<1>3. ASSUME NEW s \in Ssids, networkDeleteSsid(s)
      PROVE  s \in Ssids \ {table[ssidData]}
  BY <1>2, <1>3 DEF Forget
<1>4. CASE \/ \E s \in Ssids : networkAddSsid(s) \/ networkDeleteSsid(s)
           \/ networkConfigureAccessPoint
  BY <1>1, <1>2, <1>3, <1>4, EntryKept DEF HInv
<1>5. CASE \/ StartClientScan \/ \E s \in Ssids : StartClient(s)
           \/ \E ok, dnsOk \in BOOLEAN : StartAccessPoint(ok, dnsOk)
           \/ networkStop \/ OtherDeferred \/ networkGetLastError
           \/ OtherError \/ SdkEvent
  BY <1>5 DEF StartClientScan, StartClient, StartAccessPoint, networkStop,
     OtherDeferred, networkGetLastError, OtherError, SdkEvent
<1>6. CASE Restart \/ RestartInCommit
  BY <1>6 DEF Restart, RestartInCommit, Boot, Station
<1> QED BY <1>4, <1>5, <1>6 DEF SamCommand

\* Every step keeps the network of the station in its entry.
LEMMA SameStep == ASSUME HInv, HistoryNext PROVE SameOK'
<1> SUFFICES ASSUME currentState' \in Station, ~forgotten' PROVE SameOK'
  BY DEF SameOK
<1>1. /\ ~FactoryReset /\ \A s \in Ssids : ~Forget(s)
      /\ currentState # "idle" => ~forgotten
  BY DEF HistoryNext
<1>2. currentState \in Station => currentState # "idle"
  BY DEF Station
<1>3. ASSUME NEW d \in 0 .. MaxLoopTime, ConnectPoll(d) PROVE SameOK'
  <2>1. /\ currentState \in Station /\ UNCHANGED <<ssidData, table>>
        /\ ~forgotten => currentSsid' = currentSsid
    BY <1>3, PollSame
  <2> QED BY <1>1, <1>2, <2>1 DEF HInv, SameOK
<1>4. CASE SamCommand \/ SdkEvent \/ Restart \/ RestartInCommit
  <2>1. CASE /\ table[ssidData'] \in Ssids
             /\ currentSsid' = table[ssidData'] /\ UNCHANGED table
    BY <2>1 DEF SameOK
  <2>2. CASE UNCHANGED <<currentState, ssidData, currentSsid>>
    <3>1. currentState \in Station /\ ~forgotten
      BY <1>1, <1>2, <2>2
    <3>2. table'[ssidData] = table[ssidData]
      BY <1>1, <1>4, <3>1, TargetKept
    <3> QED BY <2>2, <3>1, <3>2 DEF HInv, SameOK
  <2> QED BY <1>4, <2>1, <2>2, Others DEF HInv
<1> QED BY <1>3, <1>4 DEF HistoryNext

\* Every step, or stutter, of the specification with history.
LEMMA NextHInv == HInv /\ [HistoryNext]_hvars => HInv'
<1> SUFFICES ASSUME HInv, [HistoryNext]_hvars PROVE HInv'
  OBVIOUS
<1>1. [Next]_wvars
  BY DEF HistoryNext, Next, hvars
<1>2. WInv'
  BY <1>1, NextInv DEF HInv
<1>3. CASE HistoryNext
  BY <1>2, <1>3, AgeStep, SameStep DEF HInv
<1>4. CASE UNCHANGED hvars
  BY <1>2, <1>4 DEF HInv, AgeOK, SameOK, Elapsed, hvars, wvars
<1> QED BY <1>3, <1>4

\* The first state.
LEMMA InitHInv == HistoryInit => HInv
BY InitInv DEF HistoryInit, HInv, AgeOK, SameOK, Init, Station

\* The invariant with history holds in every reachable state.
LEMMA HInvHolds == HistorySpec => []HInv
BY InitHInv, NextHInv, PTL DEF HistorySpec

\* The server does not wait for a first connection beyond the poll that
\* follows MaxConnectTime.
THEOREM ConnectsInTime == HistorySpec => []ConnectEnds
<1>1. HInv => ConnectEnds
  BY DEF HInv, AgeOK, ConnectEnds
<1> QED BY <1>1, HInvHolds, PTL

\* What ConnectGetsItsTime and ReconnectsToSame say of one step.
GetsItsTime ==
  \A d \in 0 .. MaxLoopTime :
    ConnectPoll(d) /\ TimesOut("connecting") => age + d >= MaxConnectTime

ToSame ==
  currentState' = "reconnecting" /\ ~forgotten => currentSsid' = currentSsid

\* And does not give it up before that, wherever millis() wraps around.
THEOREM ConnectsWithTime == HistorySpec => ConnectGetsItsTime
<1>1. ASSUME HInv, NEW d \in 0 .. MaxLoopTime, ConnectPoll(d),
             TimesOut("connecting")
      PROVE  age + d >= MaxConnectTime
  <2>1. currentState = "connecting" /\ status = "CONNECTING" /\ currentState' = "idle"
    BY <1>1 DEF TimesOut
  <2>2. Elapsed(Later(d)) >= MaxConnectTime
    BY <1>1, <2>1 DEF ConnectPoll, Trying, Connected, AutoReconnecting
  <2> QED BY <1>1, <2>1, <2>2, AgeSeen
<1>2. HInv /\ [HistoryNext]_hvars => [GetsItsTime]_hvars
  BY <1>1 DEF GetsItsTime
<1> QED BY <1>2, HInvHolds, PTL DEF HistorySpec, ConnectGetsItsTime, GetsItsTime

\* A reconnection is to the network that was lost, through any sequence of
\* commands that do not delete it.
THEOREM ReconnectsSame == HistorySpec => ReconnectsToSame
<1>1. ASSUME HInv, HistoryNext, currentState' = "reconnecting", ~forgotten
      PROVE  currentSsid' = currentSsid
  <2>1. ASSUME NEW d \in 0 .. MaxLoopTime, ConnectPoll(d)
        PROVE  currentSsid' = currentSsid
    BY <1>1, <2>1, PollSame DEF Station
  <2>2. CASE SamCommand \/ SdkEvent \/ Restart \/ RestartInCommit
    BY <1>1, <2>2, Others DEF HInv, Station
  <2> QED BY <1>1, <2>1, <2>2 DEF HistoryNext
<1>2. HInv /\ [HistoryNext]_hvars => [ToSame]_hvars
  BY <1>1 DEF ToSame
<1> QED BY <1>2, HInvHolds, PTL DEF HistorySpec, ReconnectsToSame, ToSame

\* The history variables add no step, so the theorems above hold with them.
THEOREM HistoryIsWiFi == HistorySpec => Spec
<1>1. HistoryInit => Init
  BY DEF HistoryInit
<1>2. [HistoryNext]_hvars => [Next]_wvars
  BY DEF HistoryNext, Next, hvars
<1> QED BY <1>1, <1>2, PTL DEF HistorySpec, Spec
=============================================================================
