------------------------------ MODULE Listener ------------------------------
(***************************************************************************)
(* The listeners of the socket server: src/Listener.cpp.  Listener objects *)
(* are numbered in the order of their allocation and are never deleted;    *)
(* each is linked through its member "next" into activeList or freeList,   *)
(* here sequences with the head of the list first.                         *)
(***************************************************************************)
EXTENDS Network, Integers, SequencesExt

CONSTANTS
  MaxListeners,  \* bound: number of objects the heap is made to hold
  IPADDR_ANY,    \* the wildcard address
  Addresses,     \* the other addresses a listener can be bound to
  Protocols,     \* protocol codes
  protocolFtpData,
  MaxConns       \* bound: largest maxConnections asked for

Ids == 1 .. MaxListeners
Ips == Addresses \cup {IPADDR_ANY}

ASSUME ListenerAssumption ==
  /\ {MaxListeners, MaxConns} \subseteq Nat \ {0}
  /\ IsFiniteSet(Ports) /\ IsFiniteSet(Addresses)
  /\ IPADDR_ANY \notin Addresses
  /\ protocolFtpData \in Protocols

VARIABLES
  activeList, freeList,  \* the two lists
  created,               \* number of objects allocated with new
  obj,                   \* obj[l]: the other members of object l
  hung                   \* the processor is in an endless loop

lvars == <<activeList, freeList, created, obj, hung>>

\* listening: listeningPcb is not null.
ListenerRec ==
  [ip : Ips, port : Ports \cup {0}, protocol : Protocols \cup {0},
   maxConnections : 0 .. MaxConns, listening : BOOLEAN]

NewListener ==
  [ip |-> IPADDR_ANY, port |-> 0, protocol |-> 0, maxConnections |-> 0,
   listening |-> FALSE]

ListenerInit ==
  /\ activeList = <<>>
  /\ freeList = <<>>
  /\ created = 0
  /\ obj = [l \in Ids |-> NewListener]
  /\ hung = FALSE

-----------------------------------------------------------------------------
(* Stop, called for the listeners at the positions S of activeList, in     *)
(* their order.  Unlink only ever compares with the head of the list: for  *)
(* another listener its loop does not end.                                 *)

Unlinkable(S) == {k \in S : 1 .. k \subseteq S}

\* Mutant of ClosedAt: the members listeningPcb keep their values.
NoneClosed(S) == obj

\* The objects with the pcbs at the positions S closed.
ClosedAt(S) ==
  [l \in Ids |-> IF \E k \in S : l = activeList[k]
                 THEN [obj[l] EXCEPT !.listening = FALSE]
                 ELSE obj[l]]

\* The state when the last Stop has returned, or one does not return.  That
\* one has closed its pcb but is still linked.
Stopped(S) ==
  LET n == Cardinality(Unlinkable(S))
      reached == {k \in S : \A j \in S : j < k => j \in Unlinkable(S)}
  IN [active |-> SubSeq(activeList, n + 1, Len(activeList)),
      free |-> Reverse(SubSeq(activeList, 1, n)) \o freeList,
      obj |-> ClosedAt(reached),
      hung |-> Unlinkable(S) # S]

Becomes(s) ==
  /\ activeList' = s.active
  /\ freeList' = s.free
  /\ obj' = s.obj
  /\ hung' = s.hung

Position(l) == {k \in DOMAIN activeList : activeList[k] = l}

-----------------------------------------------------------------------------

\* The positions where Listen finds the port, that serve ip already.
Serving(ip, port, maxConns) ==
  {k \in DOMAIN activeList :
     /\ obj[activeList[k]].port = port
     /\ maxConns # 0
     /\ obj[activeList[k]].ip \in {IPADDR_ANY, ip}}

\* Mutant of ToStop: a wildcard listener does not replace the others.
ToStopOnRequest(ip, port, maxConns) ==
  {k \in DOMAIN activeList :
     obj[activeList[k]].port = port /\ maxConns = 0}

\* The positions Listen stops: it looks no further than the first of those.
ToStop(ip, port, maxConns) ==
  {k \in DOMAIN activeList :
     /\ \A m \in Serving(ip, port, maxConns) : k < m
     /\ obj[activeList[k]].port = port
     /\ maxConns = 0 \/ ip = IPADDR_ANY}

\* Mutants of Allocated: the objects are miscounted, or never used again.
AllocatedLast(s) == IF s.free # <<>> THEN Head(s.free) ELSE created
AllocatedNew(s) == created + 1

\* The object that Allocate returns when the lists are those of s.
Allocated(s) == IF s.free # <<>> THEN Head(s.free) ELSE created + 1

\* Mutant of Release: a path that forgets it.
NoRelease(l, free) == free
Release(l, free) == <<l>> \o free

\* There is no memory for another object.
CannotAllocate(s) ==
  /\ s.free = <<>>
  /\ Becomes(s)
  /\ UNCHANGED created

\* Set up a new listener.  ok: lwIP has created, bound and opened a pcb; if
\* not, the object goes (back) to the free list.
SetUp(s, ip, port, protocol, maxConns, ok) ==
  LET l == Allocated(s)
      free == IF s.free # <<>> THEN Tail(s.free) ELSE <<>>
  IN /\ l <= MaxListeners
     /\ created' = IF l > created THEN l ELSE created
     /\ Becomes([s EXCEPT
          !.active = IF ok THEN <<l>> \o @ ELSE @,
          !.free = IF ok THEN free ELSE Release(l, free),
          !.obj[l] = [ip |-> ip, port |-> port, protocol |-> protocol,
                      maxConnections |-> maxConns, listening |-> ok]])

Listen(ip, port, protocol, maxConns, ok) ==
  LET s == Stopped(ToStop(ip, port, maxConns))
  IN /\ ~hung
     /\ IF \/ s.hung
           \/ Serving(ip, port, maxConns) # {}
           \/ maxConns = 0
        THEN Becomes(s) /\ UNCHANGED created
        ELSE \/ SetUp(s, ip, port, protocol, maxConns, ok)
             \/ ~ok /\ CannotAllocate(s)

\* StopListening(0), the only call there is.
StopListening ==
  /\ ~hung
  /\ Becomes(Stopped(DOMAIN activeList))
  /\ UNCHANGED created

\* Whether Accept on object l takes a new connection, when its port already
\* has numConns of them and a slot is free or not.
Accepts(l, numConns, slotFree) ==
  obj[l].listening /\ numConns < obj[l].maxConnections /\ slotFree

ListenerAccept(l, numConns, slotFree) ==
  /\ ~hung
  /\ IF Accepts(l, numConns, slotFree) /\ obj[l].protocol = protocolFtpData
     THEN Becomes(Stopped(Position(l)))
     ELSE UNCHANGED <<activeList, freeList, obj, hung>>
  /\ UNCHANGED created

GetPortByProtocol(protocol) ==
  LET found == {k \in DOMAIN activeList :
                  obj[activeList[k]].protocol = protocol}
  IN IF found = {} THEN 0 ELSE obj[activeList[Min(found)]].port

\* loop() feeds the watchdog; it restarts a processor that hangs.
WatchdogReset ==
  /\ hung
  /\ activeList' = <<>>
  /\ freeList' = <<>>
  /\ created' = 0
  /\ obj' = [l \in Ids |-> NewListener]
  /\ hung' = FALSE

\* A handshake may complete on an object that has been stopped since, so
\* Accept is called on any object there is.
ListenerNext ==
  \/ \E ip \in Ips, port \in Ports, protocol \in Protocols,
        maxConns \in 0 .. MaxConns, ok \in BOOLEAN :
       Listen(ip, port, protocol, maxConns, ok)
  \/ StopListening
  \/ \E l \in 1 .. created, numConns \in 0 .. MaxConns, slotFree \in BOOLEAN :
       ListenerAccept(l, numConns, slotFree)
  \/ WatchdogReset

ListenerSpec == ListenerInit /\ [][ListenerNext]_lvars
-----------------------------------------------------------------------------
(* Properties.                                                             *)

ListenerTypeOK ==
  /\ activeList \in Seq(Ids) /\ freeList \in Seq(Ids)
  /\ created \in 0 .. MaxListeners
  /\ obj \in [Ids -> ListenerRec]
  /\ hung \in BOOLEAN

\* Every object is in one of the lists, once: the lists share the member
\* "next", and an object linked twice would tie them together, while one
\* linked nowhere would be lost, which no failure path of Listen may cause.
ListsPartition ==
  LET both == activeList \o freeList
  IN Len(both) = created /\ ToSet(both) = 1 .. created

\* The listeners StopListening and GetPortByProtocol can find are those whose
\* pcb is open: none is left open and forgotten, none is shown but closed.
ActiveMeansListening ==
  ~hung => \A l \in Ids : obj[l].listening <=> l \in ToSet(activeList)

\* No two listeners compete for a connection, however the wildcard and the
\* specific addresses of a port are asked for one after the other.
NoOverlap ==
  \A j, k \in DOMAIN activeList :
    LET a == obj[activeList[j]]
        b == obj[activeList[k]]
    IN j # k /\ a.port = b.port
         => IPADDR_ANY \notin {a.ip, b.ip} /\ a.ip # b.ip

\* The heap does not grow with the number of calls: there are never more
\* objects than ways to listen without overlap.
HeapBounded ==
  created <= Cardinality(Ports) * (IF Addresses = {} THEN 1
                                   ELSE Cardinality(Addresses))

\* "or stop listening of maxConnections = 0" (Listener.cpp:89): the call with
\* maxConnections = 0 ends with no listener on the port.
StopsWhenAsked ==
  [][\A ip \in Ips, port \in Ports, protocol \in Protocols :
       Listen(ip, port, protocol, 0, TRUE) =>
         /\ ~hung'
         /\ \A k \in DOMAIN activeList' : obj'[activeList'[k]].port # port]_lvars
=============================================================================
