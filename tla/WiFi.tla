-------------------------------- MODULE WiFi --------------------------------
(***************************************************************************)
(* The WiFi side of src/SocketServer.cpp: the state machine that ConnectPoll*)
(* and the network commands run, and the table of remembered networks in   *)
(* EEPROM that it reads through the pointer ssidData.  status and mode are *)
(* the part of the SDK it can see: wifi_station_get_connect_status() and   *)
(* WiFi.mode(), where SCAN is a station that has not been told to join a   *)
(* network.  A handler is one step; the SDK moves between handlers.        *)
(***************************************************************************)
EXTENDS Integers

CONSTANTS
  MaxRememberedNetworks,
  Ssids,           \* names of networks
  Empty,           \* what an erased table entry holds
  Torn,            \* what an entry holds whose writing was interrupted
  MaxConnectTime,  \* ms to wait for a connection
  ClockMod,        \* millis() counts modulo this
  MaxLoopTime      \* upper bound on the ms between two calls of ConnectPoll

Entries == 1 .. MaxRememberedNetworks
OwnEntry == 0                           \* for our own access point
Table == OwnEntry .. MaxRememberedNetworks
null == 0

ASSUME WiFiAssumption ==
  /\ {MaxRememberedNetworks, MaxConnectTime, ClockMod, MaxLoopTime}
       \subseteq Nat \ {0}
  /\ Empty \notin Ssids /\ Torn \notin Ssids \cup {Empty}
  /\ MaxConnectTime + MaxLoopTime <= ClockMod

VARIABLES
  currentState,
  ssidData,          \* the entry it points to, or null
  table,             \* the ssid in each entry of the copy of the EEPROM in RAM;
                     \* "ownAP" for a valid configuration, Empty for any other
  flash,             \* the same in the flash sector that EEPROM.commit writes
  currentSsid,       \* a name, or garbage from an erased entry
  connectStartTime,
  now,               \* millis()
  lastError,         \* whether it is nullptr is all that is tested
  status, mode       \* SDK: station status and radio mode

wvars == <<currentState, ssidData, table, flash, currentSsid, connectStartTime, now,
           lastError, status, mode>>

WiFiState == {"idle", "connecting", "connected", "runningAsAccessPoint",
              "autoReconnecting", "reconnecting"}
\* A status the code does not know is treated like WRONG_PASSWORD.
StationStatus == {"IDLE", "CONNECTING", "WRONG_PASSWORD", "NO_AP_FOUND",
                  "CONNECT_FAIL", "GOT_IP"}
Station == {"connecting", "connected", "autoReconnecting", "reconnecting"}

Init ==
  /\ currentState = "idle"
  /\ ssidData = null
  /\ table \in [Table -> Ssids \cup {Empty, "ownAP"}]
  /\ table[OwnEntry] \in {Empty, "ownAP"}
  /\ \A i \in Entries : table[i] # "ownAP"
  /\ \A i, j \in Entries : i # j /\ table[i] = table[j] => table[i] = Empty
  /\ flash = table
  /\ currentSsid = Empty
  /\ connectStartTime = 0 /\ now = 0
  /\ lastError = "null"
  /\ status = "IDLE" /\ mode = "OFF"

\* Mutant of Elapsed: the difference is taken as signed.
ElapsedSigned(t) == t - connectStartTime
Elapsed(t) == (t - connectStartTime) % ClockMod

-----------------------------------------------------------------------------
(* RetrieveSsidData and FindEmptySsidEntry: the first entry that matches.  *)

FirstEntry(s) ==
  IF \E i \in Entries : table[i] = s
  THEN CHOOSE i \in Entries :
         table[i] = s /\ \A j \in Entries : table[j] = s => i <= j
  ELSE null

-----------------------------------------------------------------------------

\* WiFi.begin with the data of entry e: the SDK starts to connect.  Only the
\* caller that is no retry, Begin, restarts connectStartTime.
ConnectToAccessPoint(e, isRetry) ==
  /\ currentSsid' = table[e]
  /\ mode' = "STA"
  /\ status' = "CONNECTING"
  /\ currentState' = IF isRetry THEN "reconnecting" ELSE "connecting"

\* The failures after which a reconnection is tried again.
Retryable == {"NO_AP_FOUND", "CONNECT_FAIL"}

Trying(t) ==
  LET failed == \/ status \notin {"CONNECTING", "GOT_IP"}
                \/ status = "CONNECTING" /\ Elapsed(t) >= MaxConnectTime
      retry == currentState = "reconnecting" /\ status \in Retryable
  IN /\ currentState \in {"connecting", "reconnecting"}
     /\ \/ /\ status = "CONNECTING" /\ ~failed
           /\ UNCHANGED <<currentState, currentSsid, lastError, status, mode>>
        \/ /\ status = "GOT_IP"
           /\ currentState' = "connected"
           /\ lastError' = IF currentState = "reconnecting" THEN "set"
                           ELSE lastError
           /\ UNCHANGED <<currentSsid, status, mode>>
        \/ /\ failed /\ retry
           /\ lastError' = "set"
           /\ ConnectToAccessPoint(ssidData, TRUE)
        \/ /\ failed /\ ~retry
           /\ lastError' = "set"
           /\ currentState' = "idle"
           /\ mode' = "OFF" /\ status' = "IDLE"
           /\ UNCHANGED currentSsid
     /\ UNCHANGED connectStartTime

Connected(t) ==
  /\ currentState = "connected"
  /\ IF status = "GOT_IP"
     THEN UNCHANGED <<currentState, currentSsid, connectStartTime, lastError,
                      status, mode>>
     ELSE /\ connectStartTime' = t
          /\ lastError' = "set"
          /\ \/ /\ status = "CONNECTING"
                /\ currentState' = "autoReconnecting"
                /\ UNCHANGED <<currentSsid, status, mode>>
             \/ /\ status \in Retryable \cup {"IDLE"}
                /\ ConnectToAccessPoint(ssidData, TRUE)
             \/ /\ status = "WRONG_PASSWORD"
                /\ currentState' = "idle"
                /\ UNCHANGED <<currentSsid, status, mode>>

\* Mutant of Expired: the timer only runs while the SDK is connecting.
ExpiredConnecting(t) ==
  status = "CONNECTING" /\ Elapsed(t) >= MaxConnectTime

\* An automatic reconnection has taken too long, whatever the SDK says of it.
Expired(t) ==
  status # "GOT_IP" /\ Elapsed(t) >= MaxConnectTime

AutoReconnecting(t) ==
  LET failed == status \notin {"CONNECTING", "GOT_IP"} /\ lastError = "null"
      expired == ~failed /\ Expired(t)
  IN /\ currentState = "autoReconnecting"
     /\ \/ /\ status = "GOT_IP"
           /\ lastError' = "set"
           /\ currentState' = "connected"
           /\ UNCHANGED <<currentSsid, connectStartTime, status, mode>>
        \/ /\ failed \/ expired
           /\ lastError' = "set"
           /\ connectStartTime' = IF failed THEN t ELSE connectStartTime
           /\ ConnectToAccessPoint(ssidData, TRUE)
        \/ /\ status # "GOT_IP" /\ ~failed /\ ~expired
           /\ UNCHANGED <<currentState, currentSsid, connectStartTime,
                          lastError, status, mode>>

Later(d) == (now + d) % ClockMod

\* d ms after the previous call.
ConnectPoll(d) ==
  LET t == Later(d) IN
  /\ now' = t
  /\ \/ Trying(t)
     \/ Connected(t)
     \/ AutoReconnecting(t)
     \/ /\ currentState \in {"idle", "runningAsAccessPoint"}
        /\ UNCHANGED <<currentState, currentSsid, connectStartTime, lastError,
                       status, mode>>
  /\ UNCHANGED <<ssidData, table, flash>>

-----------------------------------------------------------------------------
(* The deferred commands: ProcessRequest clears lastError before it runs   *)
(* them.                                                                   *)

\* Nothing to connect to.
NoNetwork ==
  /\ ssidData' = null
  /\ lastError' = "set"
  /\ UNCHANGED <<currentState, currentSsid, connectStartTime>>

\* Mutant of Begin: connectStartTime is not set.
BeginUntimed(e) ==
  /\ ssidData' = e
  /\ lastError' = "null"
  /\ UNCHANGED connectStartTime
  /\ ConnectToAccessPoint(e, FALSE)

Begin(e) ==
  /\ ssidData' = e
  /\ lastError' = "null"
  /\ connectStartTime' = now
  /\ ConnectToAccessPoint(e, FALSE)

\* Mutant of StartClient: the command is accepted in any state.
StartClientAnyTime(s) ==
  /\ \/ FirstEntry(s) = null /\ NoNetwork /\ UNCHANGED <<status, mode>>
     \/ FirstEntry(s) # null /\ Begin(FirstEntry(s))
  /\ UNCHANGED <<table, flash, now>>

\* networkStartClient with the name s.
StartClient(s) ==
  /\ currentState = "idle"
  /\ \/ FirstEntry(s) = null /\ NoNetwork /\ UNCHANGED <<status, mode>>
     \/ FirstEntry(s) # null /\ Begin(FirstEntry(s))
  /\ UNCHANGED <<table, flash, now>>

\* networkStartClient without a name: the scan turns the station on and fails,
\* or finds no network of the table, or s is the strongest of them.
StartClientScan ==
  /\ currentState = "idle"
  /\ \/ /\ NoNetwork
        /\ mode' \in {mode, IF mode = "OFF" THEN "SCAN" ELSE mode}
        /\ UNCHANGED status
     \/ \E s \in Ssids : FirstEntry(s) # null /\ Begin(FirstEntry(s))
  /\ UNCHANGED <<table, flash, now>>

\* ok: the SDK accepts the configuration, which an invalid one does not reach;
\* dnsOk: the DNS server starts.
StartAccessPoint(ok, dnsOk) ==
  LET valid == table[OwnEntry] = "ownAP" IN
  /\ currentState = "idle"
  /\ IF valid /\ ok
     THEN /\ currentState' = "runningAsAccessPoint"
          /\ mode' = "AP" /\ status' = "IDLE"
          /\ lastError' = IF dnsOk THEN "null" ELSE "set"
     ELSE /\ lastError' = "set"
          /\ mode' = IF valid THEN "OFF" ELSE mode
          /\ status' = IF valid THEN "IDLE" ELSE status
          /\ UNCHANGED currentState
  /\ currentSsid' = IF valid THEN "ownAP" ELSE currentSsid
  /\ UNCHANGED <<ssidData, table, flash, connectStartTime, now>>

\* Mutant of Store: EEPROM.commit is forgotten.
StoreInRam(t) == table' = t /\ UNCHANGED flash

\* EEPROM.put, which changes the copy in RAM, and EEPROM.commit.
Store(t) == table' = t /\ flash' = t

\* Mutant of Disconnects: our own access point is forgotten.
DisconnectsStation == {"connected", "connecting", "reconnecting"}

\* The states in which networkStop turns the radio off.
Disconnects ==
  {"connected", "connecting", "reconnecting", "runningAsAccessPoint"}

networkStop ==
  /\ lastError' = "null"
  /\ IF currentState \in Disconnects
     THEN mode' = "OFF" /\ status' = "IDLE"
     ELSE UNCHANGED <<mode, status>>
  /\ currentState' = "idle"
  /\ UNCHANGED <<ssidData, table, flash, currentSsid, connectStartTime, now>>

FactoryReset ==
  /\ lastError' = "null"
  /\ Store([i \in Table |-> Empty])
  /\ UNCHANGED <<currentState, ssidData, currentSsid, connectStartTime, now,
                 status, mode>>

\* diagnostics and networkSetClockControl.
OtherDeferred ==
  /\ lastError' = "null"
  /\ UNCHANGED <<currentState, ssidData, table, flash, currentSsid,
                 connectStartTime, now, status, mode>>

-----------------------------------------------------------------------------
(* Commands that are not deferred.                                         *)

Elsewhere == <<currentState, ssidData, currentSsid, connectStartTime, now,
               status, mode>>

\* Mutant of EntryFor: the name is not looked up.
EntryForNew(s) == FirstEntry(Empty)

EntryFor(s) ==
  IF FirstEntry(s) # null THEN FirstEntry(s) ELSE FirstEntry(Empty)

Added(s) == [table EXCEPT ![EntryFor(s)] = s]

networkAddSsid(s) ==
  /\ IF EntryFor(s) # null
     THEN Store(Added(s)) /\ UNCHANGED lastError
     ELSE lastError' = "set" /\ UNCHANGED <<table, flash>>
  /\ UNCHANGED Elsewhere

\* Mutant of Erased: the last entry moves up to fill the gap.
ErasedCompacting(i) ==
  [table EXCEPT ![i] = table[MaxRememberedNetworks],
                ![MaxRememberedNetworks] = Empty]
Erased(i) == [table EXCEPT ![i] = Empty]

networkDeleteSsid(s) ==
  /\ IF FirstEntry(s) # null
     THEN Store(Erased(FirstEntry(s))) /\ UNCHANGED lastError
     ELSE lastError' = "set" /\ UNCHANGED <<table, flash>>
  /\ UNCHANGED Elsewhere

Configured(own) == [table EXCEPT ![OwnEntry] = own]

networkConfigureAccessPoint ==
  /\ \E own \in {Empty, "ownAP"} : Store(Configured(own))
  /\ UNCHANGED <<lastError, Elsewhere>>

networkGetLastError ==
  /\ lastError' = "null"
  /\ UNCHANGED <<table, flash, Elsewhere>>

\* Commands of other parts of the server that fail.
OtherError ==
  /\ lastError' = "set"
  /\ UNCHANGED <<table, flash, Elsewhere>>

\* While it is a station the SDK connects, loses the connection and, since
\* auto-reconnect is on, connects again.
SdkEvent ==
  /\ mode = "STA"
  /\ status' \in StationStatus
  /\ UNCHANGED <<currentState, ssidData, table, flash, currentSsid,
                 connectStartTime, now, lastError, mode>>

\* setup: the copy in RAM is read from the flash.
Boot ==
  /\ currentState' = "idle" /\ ssidData' = null /\ currentSsid' = Empty
  /\ connectStartTime' = 0 /\ now' = 0 /\ lastError' = "null"
  /\ status' = "IDLE" /\ mode' = "OFF"
  /\ table' = flash'

\* The module is reset between two handlers.
Restart == UNCHANGED flash /\ Boot

\* It is reset while EEPROM.commit writes the tables of Stores: the sector
\* has been erased and is written from its beginning.
Stores ==
  {[i \in Table |-> Empty], Configured(Empty), Configured("ownAP")}
    \cup {Added(s) : s \in {r \in Ssids : EntryFor(r) # null}}
    \cup {Erased(FirstEntry(s)) : s \in {r \in Ssids : FirstEntry(r) # null}}

RestartInCommit ==
  /\ \E new \in Stores, k \in Table, cut \in {Empty, Torn} :
       /\ k = OwnEntry => cut = Empty
       /\ flash' = [i \in Table |->
            IF i < k THEN new[i]
            ELSE IF i = k /\ new[i] # Empty THEN cut ELSE Empty]
  /\ Boot

SamCommand ==
  \/ \E s \in Ssids : StartClient(s) \/ networkAddSsid(s) \/ networkDeleteSsid(s)
  \/ StartClientScan
  \/ \E ok, dnsOk \in BOOLEAN : StartAccessPoint(ok, dnsOk)
  \/ networkConfigureAccessPoint
  \/ networkStop
  \/ FactoryReset
  \/ OtherDeferred
  \/ networkGetLastError
  \/ OtherError

Next ==
  \/ \E d \in 0 .. MaxLoopTime : ConnectPoll(d)
  \/ SamCommand
  \/ SdkEvent
  \/ Restart
  \/ RestartInCommit

Spec == Init /\ [][Next]_wvars
-----------------------------------------------------------------------------
(* Properties.                                                             *)

TypeOK ==
  /\ currentState \in WiFiState
  /\ ssidData \in Entries \cup {null}
  /\ {table, flash} \subseteq [Table -> Ssids \cup {Empty, Torn, "ownAP"}]
  /\ currentSsid \in Ssids \cup {Empty, "ownAP"}
  /\ connectStartTime \in 0 .. ClockMod - 1 /\ now \in 0 .. ClockMod - 1
  /\ lastError \in {"null", "set"}
  /\ status \in StationStatus
  /\ mode \in {"OFF", "SCAN", "STA", "AP"}

\* ConnectPoll dereferences ssidData on any retry, long after StartClient set
\* it: it points to an entry whenever a retry can come.
RetryHasTarget == currentState \in Station => ssidData \in Entries

\* What the state says of the radio holds: in a station state the station is
\* on and was told to join, and an access point is up exactly in its state.
RadioFollowsState ==
  /\ currentState \in Station => mode = "STA"
  /\ currentState = "runningAsAccessPoint" <=> mode = "AP"

\* A network is remembered once, so Delete forgets it and Retrieve finds what
\* was stored last.
SsidsUnique ==
  \A i, j \in Entries : i # j /\ table[i] = table[j] => table[i] \notin Ssids

\* A restart brings back the networks the main processor was told of, unless
\* it falls into the moment in which the flash is being written.
RestartKeepsNetworks == [][Restart => table' = table]_wvars

\* The server does not wait for ever for an SDK that keeps "connecting",
\* wherever millis() wraps around and however it got into the waiting state;
\* nor for one that reconnects by itself and has failed, when an error nobody
\* fetches keeps ConnectPoll from looking at that.
NeverStuckConnecting ==
  []<>~(\/ /\ currentState \in {"connecting", "reconnecting"}
           /\ status = "CONNECTING"
        \/ currentState = "autoReconnecting" /\ status # "GOT_IP")

\* "idle = 1, // neither connected nor running as an access point"
\* (MessageFormats.h:130)
IdleMeansDisconnected == currentState = "idle" => status # "GOT_IP"

\* networkStop: "disconnect from an access point, or close down our own access
\* point" (SocketServer.cpp:692)
StopDisconnects == [][networkStop /\ currentState # "idle" => mode' = "OFF"]_wvars
=============================================================================
