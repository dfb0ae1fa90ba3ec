------------------------ MODULE ConnectionRefinement ------------------------
(* Connection implements SlotContract under the mapping GetStatus.         *)
EXTENDS Connection

Contract == INSTANCE SlotContract
  WITH Window <- TCP_WND, Room <- TCP_SND_BUF,
       slot <- [i \in Slots |-> GetStatus(i)]

\* What the main processor learns from connGetStatus only changes in the ways
\* SlotContract allows: data does not disappear or appear after the other end
\* has closed, write space is conserved, an aborted socket stays aborted, and
\* a socket that is being closed never turns back into an open one.
ImplementsContract == Contract!Spec

\* The same, and every close is resolved.
ImplementsFairContract == Contract!FairSpec
=============================================================================
