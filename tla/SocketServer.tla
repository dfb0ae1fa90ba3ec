---------------------------- MODULE SocketServer ----------------------------
(***************************************************************************)
(* The connection table and the listeners together, with what happens      *)
(* between a client's first packet and the callback conn_accept.  lwIP     *)
(* gives a connection the argument of its listening pcb, the Listener      *)
(* object, when the first packet arrives.  It keeps it through the         *)
(* handshake, and Stop does not reach it there: the object can have been   *)
(* stopped, and used for another port, when Accept is called on it.        *)
(***************************************************************************)
EXTENDS Connection, Listener

VARIABLES
  handshake,  \* lwIP: handshake[p] is the connection p is being set up for
  foreign,    \* history: the slots accepted through an object that was given
              \* another port during the handshake
  taken,      \* history: connections accepted since Listen set up object l,
              \* if that is for FTP data
  stopped     \* history: networkStop has been the last word on listening

history == <<foreign, taken, stopped>>
svars == <<vars, lvars, handshake, history>>

NoListener == 0
NoHandshake == [l |-> NoListener, port |-> 0]
Pending(p) == handshake[p] # NoHandshake

ServerInit ==
  /\ Init /\ ListenerInit
  /\ handshake = [p \in Pcbs |-> NoHandshake]
  /\ foreign = {} /\ taken = [l \in Ids |-> 0] /\ stopped = TRUE

-----------------------------------------------------------------------------
(* lwIP: handshakes.                                                       *)

\* The first packet of a client for the port of a listening pcb.
Syn(p) ==
  /\ pcb[p].st = "unused" /\ ~Pending(p)
  /\ \E l \in ToSet(activeList) :
       handshake' = [handshake EXCEPT ![p] = [l |-> l, port |-> obj[l].port]]
  /\ UNCHANGED <<vars, lvars, history>>

\* The client does not answer.
HandshakeLost(p) ==
  /\ Pending(p)
  /\ handshake' = [handshake EXCEPT ![p] = NoHandshake]
  /\ UNCHANGED <<vars, lvars, history>>

\* Mutant of Takes: listeningPcb is not looked at.
TakesAlways(l) ==
  /\ CountConnectionsOnPort(obj[l].port) < obj[l].maxConnections
  /\ FreeSlots # {}

\* Whether Listener::Accept takes the connection.
Takes(l) ==
  Accepts(l, CountConnectionsOnPort(obj[l].port), FreeSlots # {})

\* Mutant of AcceptOn: a listener for FTP data goes on listening.
AcceptOnForEver(l) == UNCHANGED lvars

\* What Listener::Accept does to the listeners.
AcceptOn(l) ==
  ListenerAccept(l, CountConnectionsOnPort(obj[l].port), FreeSlots # {})

\* The handshake is complete: conn_accept.
Completed(p) ==
  LET l == handshake[p].l
      port == handshake[p].port
  IN /\ Pending(p)
     /\ handshake' = [handshake EXCEPT ![p] = NoHandshake]
     /\ IF Takes(l)
        THEN /\ \E i \in Slots :
                  /\ Allocate(i)
                  /\ Accept(i, p, port)
                  /\ foreign' = IF port = obj[l].port THEN foreign \ {i}
                                ELSE foreign \cup {i}
             /\ AcceptOn(l)
             /\ taken' = IF obj[l].protocol = protocolFtpData
                         THEN [taken EXCEPT ![l] = @ + 1] ELSE taken
        ELSE UNCHANGED <<conn, pcb, lvars, foreign, taken>>
     /\ UNCHANGED <<nextConnectionToPoll, now, stopped>>

-----------------------------------------------------------------------------
(* The other steps of the two parts.  Arriving data and Read are left out: *)
(* they touch neither the state of a slot nor a listener.                  *)

ConnectionStep ==
  /\ \/ \E p \in Pcbs :
          \/ ConnRecvFin(p)
          \/ \E len \in 1 .. TCP_SND_BUF : ConnSent(p, len)
          \/ ConnError(p)
          \/ LwipFinish(p)
     \/ \E i \in Slots :
          \/ connAbort(i)
          \/ connClose(i)
          \/ \E n \in 0 .. MaxDataLength, flagClose, ok \in BOOLEAN :
               connWrite(i, n, flagClose, ok)
     \/ \E d \in 0 .. MaxLoopTime : PollOne(d)
  /\ UNCHANGED <<lvars, handshake, history>>

\* The command networkListen; RebuildServices, which follows, is in Mdns.
networkListen(ip, port, protocol, maxConns, ok) ==
  /\ Listen(ip, port, protocol, maxConns, ok)
  /\ taken' = [l \in Ids |->
       IF obj'[l] \in {obj[l], [obj[l] EXCEPT !.listening = FALSE]}
       THEN taken[l] ELSE 0]
  /\ stopped' = (stopped /\ activeList' = <<>>)
  /\ UNCHANGED <<vars, handshake, foreign>>

\* The command networkStop.
networkStopAll ==
  /\ networkStop
  /\ StopListening
  /\ stopped' = TRUE
  /\ UNCHANGED <<handshake, foreign, taken>>

\* The restart of a processor that hangs; lwIP starts anew as well.
ServerReset ==
  /\ WatchdogReset
  /\ conn' = [i \in Slots |-> NewConnection]
  /\ nextConnectionToPoll' = 0 /\ now' = 0
  /\ pcb' = [p \in Pcbs |-> IdlePcb("unused")]
  /\ handshake' = [p \in Pcbs |-> NoHandshake]
  /\ foreign' = {} /\ taken' = [l \in Ids |-> 0] /\ stopped' = TRUE

ServerNext ==
  \/ /\ ~hung
     /\ \/ \E p \in Pcbs : Syn(p) \/ HandshakeLost(p) \/ Completed(p)
        \/ ConnectionStep
        \/ \E ip \in Ips, port \in Ports, protocol \in Protocols,
              maxConns \in 0 .. MaxConns, ok \in BOOLEAN :
             networkListen(ip, port, protocol, maxConns, ok)
        \/ networkStopAll
  \/ ServerReset

ServerSpec == ServerInit /\ [][ServerNext]_svars
-----------------------------------------------------------------------------
(* Properties.                                                             *)

\* Both parts keep their types when they share ports and callbacks, and a
\* handshake always has an object that exists.
ServerTypeOK ==
  /\ TypeOK /\ ListenerTypeOK
  /\ \A p \in Pcbs : Pending(p) => handshake[p].l \in 1 .. created

\* The pairing of slots and pcbs survives that both end at once, in
\* networkStop, while others are being set up, and a pcb lwIP is still
\* setting up belongs to nobody.
Ownership ==
  PcbOwnership /\ \A p \in Pcbs : Pending(p) => pcb[p].st = "unused"

\* After networkStop there is no connection until something listens again,
\* whatever handshakes were under way: those that complete are refused.
QuietAfterStop ==
  stopped => \A i \in Slots : conn[i].state = "free"

\* A listener for FTP data hands over one connection, however many clients
\* have begun a handshake with it.
FtpDataOnce ==
  \A l \in Ids : taken[l] <= 1

\* A port never has more connections than a listener was asked to allow,
\* except for those that only wait to be freed (closeReady) and those that
\* came through an object which had been given to this port meanwhile.
PortLimit ==
  \A port \in Ports :
    Cardinality({i \in Slots : /\ conn[i].localPort = port
                               /\ i \notin foreign
                               /\ IsLive(i)
                               /\ conn[i].state # "closeReady"}) <= MaxConns
=============================================================================
