---------------------------- MODULE SlotContract ----------------------------
(***************************************************************************)
(* What the Duet main processor may rely on when it looks at a socket: the *)
(* abstract specification Connection implements.  slot[i] is the answer to *)
(* connGetStatus for socket i, cut down to the members with a meaning of   *)
(* their own: state, bytesAvailable (avail) and writeBufferSpace (room).   *)
(* closePending and closeReady "are not of interest to clients"            *)
(* (MessageFormats.h:193) and are one state here.                          *)
(***************************************************************************)
EXTENDS Integers

CONSTANTS
  MaxConnections,  \* number of sockets
  Window,          \* most bytes a socket can have available
  Room             \* write buffer space of a new connection

VARIABLE slot

Slots == 0 .. MaxConnections - 1

Status ==
  [state : {"free", "connected", "otherEndClosed", "closing", "aborted"},
   avail : 0 .. Window, room : 0 .. Room]

Quiet(st) == [state |-> st, avail |-> 0, room |-> 0]

Init == slot = [i \in Slots |-> Quiet("free")]

Become(i, s) == slot' = [slot EXCEPT ![i] = s]

Open(i) ==
  /\ slot[i].state = "free"
  /\ Become(i, [Quiet("connected") EXCEPT !.room = Room])

\* Data only arrives while the other end is connected.
Receive(i) ==
  /\ slot[i].state = "connected"
  /\ \E n \in slot[i].avail + 1 .. Window :
       Become(i, [slot[i] EXCEPT !.avail = n])

\* The other end closes: what it sent before can still be read.
RemoteClose(i) ==
  /\ slot[i].state = "connected"
  /\ Become(i, [slot[i] EXCEPT !.state = "otherEndClosed", !.room = 0])

\* Only a read makes available data go away while the connection lasts.
Take(i) ==
  /\ slot[i].state \in {"connected", "otherEndClosed"}
  /\ \E n \in 0 .. slot[i].avail - 1 : Become(i, [slot[i] EXCEPT !.avail = n])

\* A write uses up room, and acknowledgements give it back.
Put(i) ==
  /\ slot[i].state = "connected"
  /\ \E n \in 0 .. slot[i].room - 1 : Become(i, [slot[i] EXCEPT !.room = n])

Drain(i) ==
  /\ slot[i].state = "connected"
  /\ \E n \in slot[i].room + 1 .. Room : Become(i, [slot[i] EXCEPT !.room = n])

BeginClose(i) == slot[i].state = "connected" /\ Become(i, Quiet("closing"))

\* The connection fails; the main processor will see this.
Fail(i) ==
  /\ slot[i].state \in {"connected", "otherEndClosed", "closing"}
  /\ Become(i, Quiet("aborted"))

Finish(i) == slot[i].state = "closing" /\ Become(i, Quiet("free"))

\* The main processor closes or aborts some sockets.
Release(S) ==
  slot' = [i \in Slots |-> IF i \in S THEN Quiet("free") ELSE slot[i]]

Next ==
  \/ \E i \in Slots :
       \/ Open(i) \/ Receive(i) \/ RemoteClose(i) \/ Take(i) \/ Put(i)
       \/ Drain(i) \/ BeginClose(i) \/ Fail(i) \/ Finish(i)
  \/ \E S \in SUBSET Slots : Release(S)

Spec == Init /\ [][Next]_slot

\* A close is always resolved, one way or the other.
Resolve(i) == slot[i].state = "closing" /\ (Finish(i) \/ Fail(i))
FairSpec == Spec /\ \A i \in Slots : WF_slot(Resolve(i))
=============================================================================
