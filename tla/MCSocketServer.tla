--------------------------- MODULE MCSocketServer ---------------------------
(* Reductions for the run of SocketServer.                                 *)
EXTENDS SocketServer, TLC

PcbSymmetry == Permutations(Pcbs)

\* States are one that differ only in what nothing will read: the members of
\* a dead slot, which Accept sets again (no data arrives), the members of an
\* object on the free list other than listeningPcb, which Listen sets again, a
\* timer that is not in use, and the time itself, of which only the distance
\* to a timer counts.
ReadFromSlot(c) ==
  IF c.state \in LiveState
  THEN [c EXCEPT !.closeTimer =
          IF c.state = "closePending" THEN Elapsed(now, @) ELSE 0]
  ELSE [NewConnection EXCEPT !.state = c.state, !.ownPcb = c.ownPcb]

Remembered(l) ==
  IF l \in ToSet(freeList)
  THEN [NewListener EXCEPT !.listening = obj[l].listening] ELSE obj[l]

LiveView ==
  <<[i \in Slots |-> ReadFromSlot(conn[i])], nextConnectionToPoll, pcb,
    activeList, freeList, created, hung, handshake,
    {i \in foreign : IsLive(i)}, taken, stopped,
    [l \in Ids |-> Remembered(l)]>>
=============================================================================
