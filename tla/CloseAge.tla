------------------------------ MODULE CloseAge ------------------------------
(***************************************************************************)
(* Connection together with a history variable that measures a pending     *)
(* close in real time, which the code cannot see: millis() wraps around    *)
(* and each slot is polled only once in MaxConnections passes.             *)
(***************************************************************************)
EXTENDS Connection

VARIABLE age   \* age[i]: ms since slot i entered closePending, else 0

avars == <<conn, nextConnectionToPoll, now, pcb, age>>

Pending(i) == conn[i].state = "closePending"

AgeInit == Init /\ age = [i \in Slots |-> 0]

\* d ms pass, in real time.
Grow(d) ==
  age' = [i \in Slots |-> IF Pending(i) /\ Pending(i)' THEN age[i] + d ELSE 0]

AgeNext ==
  \/ (LwipEvent \/ SamCommand) /\ Grow(0)
  \/ \E d \in 0 .. MaxLoopTime : PollOne(d) /\ Grow(d)

AgeSpec == AgeInit /\ [][AgeNext]_avars
FairAgeSpec == AgeSpec /\ Fairness

\* A pending close is settled within MaxAckTime and one round of polls,
\* wherever millis() wraps around in between: no slot stays occupied longer
\* because the other end has gone silent.
CloseBounded ==
  \A i \in Slots :
    Pending(i) => age[i] < MaxAckTime + (MaxConnections - 1) * MaxLoopTime

\* The loop never gives up on a pending close before the other end has had
\* MaxAckTime to acknowledge the remaining data: if PollOne aborts it, that
\* much real time has passed.
NotAbortedEarly ==
  [][\A i \in Slots : \A d \in 0 .. MaxLoopTime :
       Pending(i) /\ conn'[i].state = "aborted" /\ PollOne(d)
         => age[i] + d >= MaxAckTime]_avars
=============================================================================
