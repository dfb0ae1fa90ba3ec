----------------------------- MODULE MdnsProofs -----------------------------
(***************************************************************************)
(* AdvertisesListener, for any number of listeners.  AdvertiseService does *)
(* nothing when the service is the one it advertises already, so that the  *)
(* port it advertised before is still right needs the rest of Told: as     *)
(* long as nothing was missed no protocol is on two ports, and Listen      *)
(* replaces a listener only by one on the same port.                       *)
(***************************************************************************)
EXTENDS Mdns, ListenerProofs

\* A listener serves protocol x on port y.
Here(x, y) == Serves(activeList, obj, x, y)

\* What the responder was told is still right.
Told ==
  /\ currentService = Chosen
  /\ ~OnTwoPorts
  /\ currentService # noService =>
       \E l \in Open : /\ l.protocol = currentService
                      /\ services = {<<serviceNames[l.protocol], l.port>>}

\* The inductive invariant.
MdnsInv ==
  /\ ListenerInv
  /\ currentService = noService => services = {}
  /\ ~behind /\ ~hung => Told

\* The definitions of Mdns in terms of the protocols and ports served.
ChosenOK ==
  /\ Chosen = noService =>
       Open = {} /\ \A x \in Advertisable : \A y : ~Here(x, y)
  /\ Chosen # noService =>
       /\ Chosen \in Advertisable
       /\ Here(Chosen, GetPortByProtocol(Chosen))
       /\ \A x \in Advertisable : \A y : Here(x, y) => Chosen <= x

PortsOK ==
  OnTwoPorts <=>
    \E x \in Advertisable : \E y, z : Here(x, y) /\ Here(x, z) /\ y # z

\* The advertised listeners, one by one.
LEMMA OpenIs ==
  ASSUME ListenerInv
  PROVE  /\ \A l \in Open : l.protocol \in Advertisable /\ Here(l.protocol, l.port)
         /\ \A x \in Advertisable : \A y :
              Here(x, y) => \E l \in Open : l.protocol = x /\ l.port = y
<1>1. DOMAIN activeList = 1 .. Len(activeList)
  BY DEF ListenerInv, Good, Typed
<1>2. ASSUME NEW l \in Open
      PROVE  l.protocol \in Advertisable /\ Here(l.protocol, l.port)
  <2>1. PICK k \in 1 .. Len(activeList) : l = obj[activeList[k]]
    BY <1>1 DEF Open
  <2> QED BY <2>1 DEF Open, Here, Serves
<1>3. ASSUME NEW x \in Advertisable, NEW y, Here(x, y)
      PROVE  \E l \in Open : l.protocol = x /\ l.port = y
  <2>1. PICK k \in 1 .. Len(activeList) :
          obj[activeList[k]].protocol = x /\ obj[activeList[k]].port = y
    BY <1>3 DEF Here, Serves
  <2>2. obj[activeList[k]] \in Open
    BY <1>1, <2>1 DEF Open
  <2> QED BY <2>1, <2>2
<1> QED BY <1>2, <1>3

\* So OnTwoPorts can be told from the listeners' ports and protocols.
LEMMA OnTwoPortsIs == ListenerInv => PortsOK
<1> SUFFICES ASSUME ListenerInv PROVE PortsOK
  OBVIOUS
<1>1. ASSUME OnTwoPorts
      PROVE  \E x \in Advertisable : \E y, z : Here(x, y) /\ Here(x, z) /\ y # z
  <2>1. PICK l \in Open, m \in Open : l.protocol = m.protocol /\ l.port # m.port
    BY <1>1 DEF OnTwoPorts
  <2>2. /\ l.protocol \in Advertisable /\ Here(l.protocol, l.port)
        /\ Here(l.protocol, m.port)
    BY <2>1, OpenIs
  <2> QED BY <2>1, <2>2
<1>2. ASSUME NEW x \in Advertisable, NEW y, NEW z, Here(x, y), Here(x, z), y # z
      PROVE  OnTwoPorts
  <2>1. PICK l \in Open : l.protocol = x /\ l.port = y
    BY <1>2, OpenIs
  <2>2. PICK m \in Open : m.protocol = x /\ m.port = z
    BY <1>2, OpenIs
  <2> QED BY <1>2, <2>1, <2>2 DEF OnTwoPorts
<1> QED BY <1>1, <1>2 DEF PortsOK

\* Chosen is the lowest protocol served, or noService, and GetPortByProtocol
\* finds a port where it is served.
LEMMA ChosenIs == ListenerInv => ChosenOK
<1> SUFFICES ASSUME ListenerInv PROVE ChosenOK
  OBVIOUS
<1> DEFINE P == {l.protocol : l \in Open}
<1>1. CASE Open = {}
  <2>1. Chosen = noService
    BY <1>1 DEF Chosen
  <2>2. \A x \in Advertisable : \A y : ~Here(x, y)
    BY <1>1, OpenIs
  <2> QED BY <1>1, <2>1, <2>2 DEF ChosenOK
<1>2. CASE Open # {}
  <2>1. P \in SUBSET Nat /\ P # {} /\ \A x \in P : x \in Advertisable
    BY <1>2, OpenIs DEF Advertisable
  <2>2. \E i \in P : \A j \in P : i <= j
    BY <2>1, Least
  <2>3. Chosen = Min(P)
    BY <1>2 DEF Chosen
  <2> HIDE DEF P
  <2>4. Chosen \in P /\ \A j \in P : Chosen <= j
    BY <2>2, <2>3 DEF Min
  <2>5. Chosen \in Advertisable /\ Chosen # noService
    BY <2>1, <2>4 DEF Advertisable, noService
  <2>6. \A x \in Advertisable : \A y : Here(x, y) => Chosen <= x
    BY <2>4, OpenIs DEF P
  <2>7. PICK y : Here(Chosen, y)
    BY <2>4, OpenIs DEF P
  <2> DEFINE found == {k \in DOMAIN activeList :
                         obj[activeList[k]].protocol = Chosen}
  <2>8. activeList \in Seq(1 .. created) /\ DOMAIN activeList = 1 .. Len(activeList)
    BY DEF ListenerInv, Good, Typed
  <2>9. found \in SUBSET Nat /\ found # {}
    BY <2>7, <2>8 DEF Here, Serves
  <2>10. \E i \in found : \A j \in found : i <= j
    <3> HIDE DEF found
    <3> QED BY <2>9, Least
  <2>11. GetPortByProtocol(Chosen) = obj[activeList[Min(found)]].port
    BY <2>9 DEF GetPortByProtocol
  <2>12. Min(found) \in found
    <3> HIDE DEF found
    <3> QED BY <2>10 DEF Min
  <2>13. Here(Chosen, GetPortByProtocol(Chosen))
    BY <2>8, <2>11, <2>12 DEF Here, Serves
  <2> QED BY <2>5, <2>6, <2>13 DEF ChosenOK
<1> QED BY <1>1, <1>2

\* The same of the listeners a step leaves.
LEMMA ChosenNext == ListenerInv' => ChosenOK' /\ PortsOK'
BY ChosenIs, OnTwoPortsIs, PTL

\* OpenIs as a formula, to be stated of the next state.
OpenOK ==
  /\ \A l \in Open : l.protocol \in Advertisable /\ Here(l.protocol, l.port)
  /\ \A x \in Advertisable : \A y :
       Here(x, y) => \E l \in Open : l.protocol = x /\ l.port = y

\* Open after a step.
LEMMA OpenNext == ListenerInv' => OpenOK'
<1>1. ListenerInv => OpenOK
  BY OpenIs DEF OpenOK
<1> QED BY <1>1, PTL

\* The invariant implies the property.
LEMMA MdnsInvImplies == MdnsInv => AdvertisesListener
<1> SUFFICES ASSUME MdnsInv, ~behind, ~hung
             PROVE  IF Open = {} THEN services = {}
                    ELSE \E l \in Open : /\ services = {<<serviceNames[l.protocol], l.port>>}
                                        /\ \A m \in Open : l.protocol <= m.protocol
  BY DEF AdvertisesListener
<1>1. ListenerInv /\ Told /\ ChosenOK
  BY ChosenIs DEF MdnsInv
<1>2. CASE Open = {}
  BY <1>1, <1>2 DEF MdnsInv, Told, Chosen
<1>3. CASE Open # {}
  <2>1. PICK m \in Open : TRUE
    BY <1>3
  <2>2. Chosen # noService
    BY <1>1, <2>1 DEF ChosenOK
  <2>3. PICK l \in Open : /\ l.protocol = currentService
                         /\ services = {<<serviceNames[l.protocol], l.port>>}
    BY <1>1, <2>2 DEF Told
  <2>4. \A n \in Open : l.protocol <= n.protocol
    BY <1>1, <2>2, <2>3, OpenIs DEF ChosenOK, Told
  <2> QED BY <1>3, <2>3, <2>4
<1> QED BY <1>2, <1>3

-----------------------------------------------------------------------------
(* The steps.                                                              *)

\* The state of the responder after a step that ends with RebuildServices.
\* When it leaves the responder alone, the port told before has to be right.
LEMMA RebuildKeeps ==
  ASSUME MdnsInv, ListenerInv', ~hung, RebuildServices,
         Chosen' = currentService /\ Chosen' # noService /\ ~behind /\ ~behind'
           => \A y : Here(currentService, y)
                     => Serves(activeList', obj', currentService, y)
  PROVE  MdnsInv'
<1>1. ListenerInv /\ ChosenOK' /\ PortsOK' /\ OpenOK'
  BY ChosenNext, OpenNext DEF MdnsInv
<1>2. currentService' = Chosen'
  BY DEF RebuildServices, AdvertiseService
<1>3. Chosen' = noService => services' = {}
  BY DEF RebuildServices, AdvertiseService, MdnsInv
<1>4. ASSUME ~behind' PROVE Told'
  <2>1. /\ ~OnTwoPorts'
        /\ ~(behind /\ Chosen' = currentService /\ Chosen' # noService)
    BY <1>4 DEF RebuildServices
  <2>2. ASSUME Chosen' # noService
        PROVE  \E l \in Open' : /\ l.protocol = Chosen'
                               /\ services' = {<<serviceNames[l.protocol], l.port>>}
    <3>1. /\ Chosen' \in Advertisable
          /\ Here(Chosen, GetPortByProtocol(Chosen))'
      BY <1>1, <2>2 DEF ChosenOK
    <3>2. PICK m \in Open' : m.protocol = Chosen' /\ m.port = GetPortByProtocol(Chosen)'
      BY <1>1, <3>1 DEF OpenOK
    <3>3. CASE Chosen' # currentService
      <4>1. services' = {<<serviceNames[Chosen], GetPortByProtocol(Chosen)>>'}
        BY <2>2, <3>3 DEF RebuildServices, AdvertiseService
      <4> QED BY <3>2, <4>1
    <3>4. CASE Chosen' = currentService
      <4>1. ~behind
        BY <2>1, <2>2, <3>4
      <4>2. Told
        BY <4>1 DEF MdnsInv
      <4>3. PICK l \in Open : /\ l.protocol = currentService
                             /\ services = {<<serviceNames[l.protocol], l.port>>}
        BY <2>2, <3>4, <4>2 DEF Told
      <4>4. Here(currentService, l.port)
        BY <1>1, <4>3, OpenIs
      <4>5. Serves(activeList', obj', currentService, l.port)
        BY <1>4, <2>2, <3>4, <4>1, <4>4
      <4>6. PICK n \in Open' : n.protocol = Chosen' /\ n.port = l.port
        BY <1>1, <3>1, <3>4, <4>5 DEF OpenOK, Here
      <4>7. services' = services
        BY <3>4 DEF RebuildServices, AdvertiseService
      <4> QED BY <3>4, <4>3, <4>6, <4>7
    <3> QED BY <3>3, <3>4
  <2> QED BY <1>2, <2>1, <2>2 DEF Told
<1> QED BY <1>2, <1>3, <1>4 DEF MdnsInv

\* A step without RebuildServices is noticed by behind, if it matters.
LEMMA NoRebuildKeeps ==
  ASSUME MdnsInv, ListenerInv', ~hung, NoRebuild
  PROVE  MdnsInv'
<1>1. ASSUME ~behind' PROVE Told'
  <2>1. ~behind /\ Open' = Open
    BY <1>1 DEF NoRebuild
  <2>2. Told /\ Chosen' = Chosen /\ OnTwoPorts' = OnTwoPorts
    BY <2>1 DEF MdnsInv, Chosen, OnTwoPorts
  <2> QED BY <2>1, <2>2 DEF Told, NoRebuild
<1> QED BY <1>1 DEF MdnsInv, NoRebuild

\* networkListen: either it rebuilds the service from the listeners it leaves,
\* or what is open is the same as before, or behind becomes true.
LEMMA networkListenKeeps ==
  ASSUME MdnsInv, NEW ip \in Ips, NEW port \in Ports, NEW protocol \in Protocols,
         NEW maxConns \in 0 .. MaxConns, NEW ok \in BOOLEAN,
         networkListen(ip, port, protocol, maxConns, ok)
  PROVE  MdnsInv'
<1>1. ListenerInv /\ Listen(ip, port, protocol, maxConns, ok) /\ ~hung
  BY DEF MdnsInv, networkListen, Listen
<1>2. /\ ListenerInv'
      /\ ~hung' =>
           \A x, y :
             /\ Serves(activeList, obj, x, y) /\ y # port
                  => Serves(activeList', obj', x, y)
             /\ Serves(activeList', obj', x, y)
                  => Serves(activeList, obj, x, y) \/ <<x, y>> = <<protocol, port>>
  BY <1>1, ListenKeeps
<1>3. CASE NoRebuild
  BY <1>1, <1>2, <1>3, NoRebuildKeeps
<1>4. CASE RebuildServices /\ ~hung'
  <2>1. ASSUME Chosen' = currentService, Chosen' # noService, ~behind, ~behind',
               NEW y, Here(currentService, y)
        PROVE  Serves(activeList', obj', currentService, y)
    <3>1. CASE y # port
      BY <1>2, <1>4, <2>1, <3>1 DEF Here
    <3>2. CASE y = port
      <4>1. ChosenOK' /\ ListenerInv
        BY <1>1, <1>2, ChosenNext
      <4>2. /\ Chosen' \in Advertisable
            /\ Serves(activeList', obj', Chosen', GetPortByProtocol(Chosen)')
        BY <2>1, <4>1 DEF ChosenOK, Here
      <4>3. PICK z : z = GetPortByProtocol(Chosen)'
        OBVIOUS
      <4>4. Serves(activeList', obj', currentService, z)
        BY <2>1, <4>2, <4>3
      <4>5. \/ Here(currentService, z)
            \/ <<currentService, z>> = <<protocol, port>>
        BY <1>2, <1>4, <4>4 DEF Here
      <4>6. PortsOK /\ ~OnTwoPorts
        BY <1>1, <2>1, OnTwoPortsIs DEF MdnsInv, Told
      <4>7. currentService \in Advertisable
        BY <2>1, <4>2
      <4>8. Here(currentService, z) => z = y
        BY <2>1, <4>6, <4>7 DEF PortsOK
      <4> QED BY <3>2, <4>4, <4>5, <4>8
    <3> QED BY <3>1, <3>2
  <2> QED BY <1>1, <1>2, <1>4, <2>1, RebuildKeeps
<1> QED BY <1>3, <1>4 DEF networkListen

\* networkStop: there is nothing left to advertise.
LEMMA networkStopKeeps ==
  ASSUME MdnsInv, networkStop
  PROVE  MdnsInv'
<1>1. ListenerInv /\ StopListening /\ ~hung
  BY DEF MdnsInv, networkStop, StopListening
<1>2. ListenerInv' /\ activeList' = <<>>
  BY <1>1, StopListeningKeeps
<1>3. Open' = {}
  BY <1>2 DEF Open
<1>4. Chosen' = noService /\ OnTwoPorts' = FALSE
  BY <1>3 DEF Chosen, OnTwoPorts
<1>5. CASE RebuildServices
  BY <1>1, <1>2, <1>4, <1>5, RebuildKeeps
<1>6. CASE ~RebuildServices
  <2>1. /\ services' \in {services, {}}
        /\ behind' = (behind \/ Open # {})
        /\ currentService' = currentService
    BY <1>6 DEF networkStop
  <2>2. currentService' = noService => services' = {}
    BY <2>1 DEF MdnsInv
  <2>3. ASSUME ~behind' PROVE Told'
    <3>1. ~behind /\ Open = {}
      BY <2>1, <2>3
    <3>2. currentService = noService
      BY <1>1, <3>1 DEF MdnsInv, Told, Chosen
    <3> QED BY <1>4, <2>1, <3>2 DEF Told
  <2> QED BY <1>2, <2>2, <2>3 DEF MdnsInv
<1> QED BY <1>5, <1>6

\* Every step, and every stutter, keeps the invariant.
LEMMA MdnsNextKeeps ==
  ASSUME MdnsInv, [MdnsNext]_mvars
  PROVE  MdnsInv'
<1>1. ASSUME NEW ip \in Ips, NEW port \in Ports, NEW protocol \in Protocols,
             NEW maxConns \in 0 .. MaxConns, NEW ok \in BOOLEAN,
             networkListen(ip, port, protocol, maxConns, ok)
      PROVE  MdnsInv'
  BY <1>1, networkListenKeeps
<1>2. CASE networkStop
  BY <1>2, networkStopKeeps
<1>3. CASE AcceptCallback
  <2>1. PICK l \in 1 .. created, numConns \in 0 .. MaxConns, slotFree \in BOOLEAN :
          ListenerAccept(l, numConns, slotFree)
    BY <1>3 DEF AcceptCallback
  <2>2. ListenerInv /\ l \in Ids /\ ~hung
    BY <2>1, ListenerAssumption
       DEF MdnsInv, ListenerInv, Good, Typed, Ids, ListenerAccept
  <2>3. ListenerInv'
    BY <2>1, <2>2, ListenerAcceptKeeps
  <2> QED BY <1>3, <2>2, <2>3, NoRebuildKeeps DEF AcceptCallback
<1>4. CASE StateChanges \/ UNCHANGED mvars
  <2>1. UNCHANGED <<lvars, currentService, services, behind>>
    BY <1>4 DEF StateChanges, mvars
  <2>2. Open' = Open
    BY <2>1 DEF lvars, Open
  <2>3. Chosen' = Chosen /\ OnTwoPorts' = OnTwoPorts
    BY <2>2 DEF Chosen, OnTwoPorts
  <2>4. ListenerInv' <=> ListenerInv
    BY <2>1 DEF lvars, ListenerInv
  <2> QED BY <2>1, <2>2, <2>3, <2>4 DEF MdnsInv, Told, lvars
<1>5. CASE Reboot
  <2>1. ListenerInv'
    BY <1>5, NoListeners DEF Reboot, WatchdogReset, ListenerInv
  <2>2. Open' = {}
    BY <1>5 DEF Reboot, WatchdogReset, Open
  <2>3. Chosen' = noService /\ OnTwoPorts' = FALSE
    BY <2>2 DEF Chosen, OnTwoPorts
  <2> QED BY <1>5, <2>1, <2>3 DEF Reboot, MdnsInv, Told
<1> QED BY <1>1, <1>2, <1>3, <1>4, <1>5 DEF MdnsNext

\* With no listeners and nothing advertised the invariant holds.
LEMMA MdnsInitInv == MdnsInit => MdnsInv
<1> SUFFICES ASSUME MdnsInit PROVE MdnsInv
  OBVIOUS
<1>1. ListenerInv
  BY ListenerInitInv DEF MdnsInit
<1>2. Open = {}
  BY DEF MdnsInit, ListenerInit, Open
<1>3. Chosen = noService /\ ~OnTwoPorts
  BY <1>2 DEF Chosen, OnTwoPorts
<1> QED BY <1>1, <1>3 DEF MdnsInit, MdnsInv, Told

\* Unless RebuildServices has missed something, what is advertised is right.
THEOREM AdvertisingHolds == MdnsSpec => []AdvertisesListener
BY MdnsInitInv, MdnsNextKeeps, MdnsInvImplies, PTL DEF MdnsSpec

\* Advertising takes no step with the listeners that Listener does not have, so
\* the theorems of ListenerProofs hold of this specification too.
THEOREM MdnsListens == MdnsSpec => ListenerSpec
<1>1. MdnsInit => ListenerInit
  BY DEF MdnsInit
<1>2. ASSUME [MdnsNext]_mvars PROVE [ListenerNext]_lvars
  <2>1. ASSUME NEW ip \in Ips, NEW port \in Ports, NEW protocol \in Protocols,
               NEW maxConns \in 0 .. MaxConns, NEW ok \in BOOLEAN,
               networkListen(ip, port, protocol, maxConns, ok)
        PROVE  ListenerNext
    <3>1. Listen(ip, port, protocol, maxConns, ok)
      BY <2>1 DEF networkListen
    <3> QED BY <3>1 DEF ListenerNext
  <2>2. CASE networkStop \/ AcceptCallback \/ Reboot
    BY <2>2 DEF networkStop, AcceptCallback, Reboot, ListenerNext
  <2>3. CASE StateChanges \/ UNCHANGED mvars
    BY <2>3 DEF StateChanges, mvars
  <2> QED BY <1>2, <2>1, <2>2, <2>3 DEF MdnsNext
<1> QED BY <1>1, <1>2, PTL DEF MdnsSpec, ListenerSpec
=============================================================================
