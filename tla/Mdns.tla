-------------------------------- MODULE Mdns --------------------------------
(***************************************************************************)
(* What the server advertises over mDNS: RebuildServices and               *)
(* AdvertiseService of src/SocketServer.cpp (the build for lwIP 1.4), on   *)
(* top of the listeners they look at.  The responder can carry a single    *)
(* service and keeps it until it is told otherwise.                        *)
(***************************************************************************)
EXTENDS Listener

VARIABLES
  connected,       \* currentState is connected
  currentService,  \* the static variable of AdvertiseService
  services,        \* MDNS: the services it answers for, as <<name, port>>
  behind           \* history: RebuildServices has missed a change, or could
                   \* not have seen it

mvars == <<lvars, connected, currentService, services, behind>>

Advertisable == 0 .. 2
noService == -1

\* The names AdvertiseService looks up, and those of the protocols, which the
\* build for lwIP 2 announces for the same codes.
serviceNames == [service \in Advertisable |-> <<"http", "tcp", "ftp">>[service + 1]]
MdnsServiceStrings ==
  [service \in Advertisable |-> <<"http", "ftp", "telnet">>[service + 1]]

MdnsInit ==
  /\ ListenerInit
  /\ connected = FALSE /\ currentService = noService /\ services = {}
  /\ behind = FALSE

\* The active listeners for a protocol that is advertised.
Open == {l \in {obj[activeList[k]] : k \in DOMAIN activeList} :
           l.protocol \in Advertisable}

\* Mutant of Chosen: the loop does not stop at the first protocol.
ChosenLast == IF Open = {} THEN noService ELSE Max({l.protocol : l \in Open})

\* The service RebuildServices passes on.
Chosen == IF Open = {} THEN noService ELSE Min({l.protocol : l \in Open})

\* With the listeners as the step leaves them.
AdvertiseService ==
  /\ currentService' = Chosen'
  /\ services' = IF Chosen' = currentService THEN services
                 ELSE IF Chosen' = noService THEN {}
                 ELSE {<<serviceNames[Chosen], GetPortByProtocol(Chosen)>>'}

OnTwoPorts == \E l, m \in Open : l.protocol = m.protocol /\ l.port # m.port

\* A step that ends with RebuildServices, and one that does not.  What was
\* missed is made up for when the service differs from the last one.
RebuildServices ==
  /\ connected
  /\ AdvertiseService
  /\ behind' = \/ behind /\ Chosen' = currentService /\ Chosen' # noService
               \/ OnTwoPorts'

NoRebuild ==
  /\ behind' = (behind \/ Open' # Open)
  /\ UNCHANGED <<currentService, services>>

\* Whether Listen reports a failure: it got as far as SetUp, without success.
Fails(ip, port, maxConns, ok) ==
  maxConns # 0 /\ Serving(ip, port, maxConns) = {} /\ ~ok

networkListen(ip, port, protocol, maxConns, ok) ==
  /\ Listen(ip, port, protocol, maxConns, ok)
  /\ IF /\ connected /\ protocol \in Advertisable
        /\ ~hung' /\ ~Fails(ip, port, maxConns, ok)
     THEN RebuildServices
     ELSE NoRebuild
  /\ UNCHANGED connected

\* Connecting or reconnecting, it empties the responder all the same.
networkStop ==
  /\ StopListening
  /\ connected' = FALSE
  /\ IF connected
     THEN RebuildServices
     ELSE /\ services' \in {services, {}}
          /\ behind' = (behind \/ Open # {})
          /\ UNCHANGED currentService

\* Called by lwIP: nothing is advertised anew.
AcceptCallback ==
  /\ \E l \in 1 .. created, numConns \in 0 .. MaxConns, slotFree \in BOOLEAN :
       ListenerAccept(l, numConns, slotFree)
  /\ NoRebuild
  /\ UNCHANGED connected

\* By ConnectPoll and StartClient; MDNS.begin leaves the services alone.
StateChanges ==
  /\ ~hung
  /\ connected' = ~connected
  /\ UNCHANGED <<lvars, currentService, services, behind>>

Reboot ==
  /\ WatchdogReset
  /\ connected' = FALSE /\ currentService' = noService /\ services' = {}
  /\ behind' = FALSE

MdnsNext ==
  \/ \E ip \in Ips, port \in Ports, protocol \in Protocols,
        maxConns \in 0 .. MaxConns, ok \in BOOLEAN :
       networkListen(ip, port, protocol, maxConns, ok)
  \/ networkStop
  \/ AcceptCallback
  \/ StateChanges
  \/ Reboot

MdnsSpec == MdnsInit /\ [][MdnsNext]_mvars
-----------------------------------------------------------------------------
\* Unless RebuildServices was not called after a change and the service has
\* been the same since, or a protocol is on two ports, a client is told of the
\* first protocol there is a listener for, by the name serviceNames has for
\* it, and of a port where one listens for it, although AdvertiseService does
\* nothing when only the port has changed.
AdvertisesListener ==
  ~behind /\ ~hung =>
    IF Open = {} THEN services = {}
    ELSE \E l \in Open : /\ services = {<<serviceNames[l.protocol], l.port>>}
                        /\ \A m \in Open : l.protocol <= m.protocol

\* "0 = HTTP, 1 = FTP, 2 = TELNET" (MessageFormats.h:95): a client that asks for
\* a protocol is sent to a port where a listener speaks it.
AdvertisedByProtocol ==
  ~behind /\ ~hung =>
    services \subseteq {<<MdnsServiceStrings[l.protocol], l.port>> : l \in Open}
=============================================================================
