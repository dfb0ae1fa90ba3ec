------------------------ MODULE ConnectionStepProofs ------------------------
(***************************************************************************)
(* What the steps of Connection may do, on top of its inductive invariant: *)
(*  - GracefulClose and ReleasedOnlyBySam.  GracefulClose needs one fact   *)
(*    that IInv does not have: Ends, what the two states in which a slot   *)
(*    may be closed say about its pcb.                                     *)
(*  - Connection implements SlotContract.  Ends is needed here as well:    *)
(*    no data arrives after the other end has closed.                      *)
(*  - A pending close is settled in time and not too early, for any number *)
(*    of slots and any times that millis() does not wrap around within.    *)
(*    CloseBounded alone is not inductive: how much of its last term a     *)
(*    slot may have used depends on how many polls ago its own was, and    *)
(*    what PollOne compares is a difference modulo ClockMod, not the age.  *)
(***************************************************************************)
EXTENDS ConnectionRefinement, CloseAge, ConnectionProofs, ClockProofs

\* The other end has closed, or we wait for nothing any more.
EndOK(i) ==
  /\ conn[i].state = "otherEndClosed" => pcb[conn[i].ownPcb].fin
  /\ conn[i].state = "closeReady" =>
       pcb[conn[i].ownPcb].fin \/ conn[i].unAcked = 0

Ends == \A i \in Slots : EndOK(i)

\* What GracefulClose says of one step.
Graceful ==
  \A p \in Pcbs : pcb[p].st = "open" /\ pcb'[p].st = "closing" =>
    pcb[p].inFlight = 0 \/ pcb[p].fin

\* What ReleasedOnlyBySam says of a step that is no command.
Lost(i) ==
  \/ /\ conn[i].state \in {"connected", "otherEndClosed"}
     /\ conn'[i].state \in {"free", "closePending", "closeReady"}
  \/ conn[i].state = "closePending" /\ conn'[i].state = "free"
  \/ conn[i].state = "aborted" /\ conn'[i].state # "aborted"

Kept == \A i \in Slots : ~Lost(i)

\* A pcb that slot i owns or that is not open belongs to no other live slot.
LEMMA Elsewhere ==
  ASSUME EachHolds, NEW i \in Slots, NEW p,
         p = conn[i].ownPcb \/ (p \in Pcbs /\ pcb[p].st # "open"),
         NEW j \in Slots, j # i, IsLive(j)
  PROVE  conn[j].ownPcb \in Pcbs \ {p}
<1>1. conn[j].ownPcb \in Pcbs /\ pcb[conn[j].ownPcb].st = "open"
  BY LiveSlot DEF Linked
<1>2. conn[j].ownPcb # conn[i].ownPcb
  BY PcbsNotShared
<1>3. QED
  BY <1>1, <1>2

\* A step on slot i and pcb p: only EndOK(i) can be disturbed.
LEMMA EndsFrame ==
  ASSUME EachHolds, Ends, NEW i \in Slots, NEW p,
         p = conn[i].ownPcb \/ (p \in Pcbs /\ pcb[p].st # "open"),
         \A j \in Slots \ {i} : conn'[j] = conn[j],
         \A q \in Pcbs \ {p} : pcb'[q] = pcb[q],
         EndOK(i)'
  PROVE  Ends'
<1>1. ASSUME NEW j \in Slots, j # i, IsLive(j) PROVE EndOK(j)'
  <2>1. conn'[j] = conn[j]
    BY <1>1
  <2>2. conn[j].ownPcb \in Pcbs \ {p}
    BY <1>1, Elsewhere
  <2>3. pcb'[conn[j].ownPcb] = pcb[conn[j].ownPcb]
    BY <2>2
  <2>4. QED
    BY <2>1, <2>3 DEF Ends, EndOK
<1>2. ASSUME NEW j \in Slots, j # i, ~IsLive(j) PROVE EndOK(j)'
  BY <1>2 DEF EndOK, IsLive, LiveState
<1>3. QED
  BY <1>1, <1>2 DEF Ends

\* tcp_abort makes no pcb close.
LEMMA AbortIsGraceful ==
  ASSUME NEW D, pcb' = TcpAbort(D)
  PROVE  Graceful
BY DEF TcpAbort, IdlePcb, Graceful

\* The pcb of a terminated slot is aborted, and the slot is in neither state.
LEMMA TerminateEnds ==
  ASSUME EachHolds, Ends, NEW i \in Slots, NEW external \in BOOLEAN,
         Terminate(i, external)
  PROVE  /\ Ends' /\ Graceful
         /\ ~external => conn'[i].state = "aborted"
         /\ \A j \in Slots \ {i} : conn'[j] = conn[j]
<1>1. conn'[i] = Terminated(conn[i], external)
      /\ \A j \in Slots \ {i} : conn'[j] = conn[j]
  BY DEF Terminate, EachHolds, Tables
<1>2. conn'[i].state = IF external THEN "free" ELSE "aborted"
  BY <1>1, AnySlot DEF Terminated, FreePbuf, ConnRec
<1>3. \A q \in Pcbs \ {conn[i].ownPcb} : pcb'[q] = pcb[q]
  BY DEF Terminate, TcpAbort
<1>4. EndOK(i)'
  BY <1>2 DEF EndOK
<1>5. Graceful
  BY AbortIsGraceful DEF Terminate
<1>6. QED
  BY <1>1, <1>2, <1>3, <1>4, <1>5, EndsFrame

\* Close gives the pcb to tcp_close only when nothing is in flight or the
\* other end has closed.
LEMMA CloseEnds ==
  ASSUME EachHolds, Ends, NEW i \in Slots, NEW t \in Nat, Close(i, t)
  PROVE  /\ Ends' /\ Graceful
         /\ conn'[i].state \in {"closePending", "free"}
         /\ \A j \in Slots \ {i} : conn'[j] = conn[j]
<1>1. \A j \in Slots \ {i} : conn'[j] = conn[j]
  BY DEF Close, EachHolds, Tables
<1>2. /\ conn'[i].state \in {"closePending", "free"}
      /\ conn'[i].state = "free" =>
           /\ conn[i].state # "closePending"
           /\ conn[i].state = "connected" => conn[i].unAcked = 0
  BY AnySlot DEF Close, Closed, FreePbuf, ConnRec, EachHolds, Tables
<1>3. \A q \in Pcbs \ {conn[i].ownPcb} : pcb'[q] = pcb[q]
  BY DEF Close, ClosePcb, TcpClose
<1>4. Ends'
  <2>1. EndOK(i)'
    BY <1>2 DEF EndOK
  <2>2. QED
    BY <1>1, <1>3, <2>1, EndsFrame
<1>5. ASSUME NEW p \in Pcbs, pcb[p].st = "open", pcb'[p].st = "closing"
      PROVE  pcb[p].inFlight = 0 \/ pcb[p].fin
  <2>1. p = conn[i].ownPcb
    BY <1>3, <1>5
  <2>2. IsLive(i)
    BY <2>1, SizesAssumption DEF EachHolds, SlotOK, Dead
  <2>3. conn[i].unAcked = pcb[p].inFlight
    BY <2>1, <2>2, LiveSlot DEF Linked
  <2>4. conn'[i].state = "free"
    BY <1>2, <1>5 DEF Close
  <2>5. CASE conn[i].state = "connected"
    BY <1>2, <2>3, <2>4, <2>5
  <2>6. CASE conn[i].state # "connected"
    BY <1>2, <2>1, <2>2, <2>3, <2>4, <2>6
       DEF Ends, EndOK, IsLive, LiveState
  <2>7. QED
    BY <2>5, <2>6
<1>6. QED
  BY <1>1, <1>2, <1>4, <1>5 DEF Graceful

\* A write keeps the slot connected, makes it closePending or aborts it.
LEMMA WriteEnds ==
  ASSUME EachHolds, Ends, NEW i \in Slots, NEW length \in Nat,
         NEW closeAfterSending \in BOOLEAN, NEW ok \in BOOLEAN,
         Write(i, length, closeAfterSending, ok)
  PROVE  Ends' /\ Graceful
<1>1. CASE UNCHANGED <<conn, pcb>>
  BY <1>1 DEF Ends, EndOK, Graceful
<1>2. CASE Terminate(i, FALSE)
  BY <1>2, TerminateEnds
<1>3. CASE /\ conn[i].state = "connected"
           /\ pcb' = [pcb EXCEPT ![conn[i].ownPcb].inFlight = @ + length]
           /\ conn' = [conn EXCEPT ![i] =
                         Written(@, length, closeAfterSending, now)]
  <2>1. conn'[i].state \in {"connected", "closePending"}
    BY <1>3, AnySlot DEF Written, ConnRec, EachHolds, Tables
  <2>2. /\ \A j \in Slots \ {i} : conn'[j] = conn[j]
        /\ \A q \in Pcbs \ {conn[i].ownPcb} : pcb'[q] = pcb[q]
    BY <1>3 DEF EachHolds, Tables
  <2>3. EndOK(i)'
    BY <2>1 DEF EndOK
  <2>4. \A q \in Pcbs : pcb'[q].st = pcb[q].st
    BY <1>3 DEF EachHolds, Tables, PcbOK, PcbRec
  <2>5. Graceful
    BY <2>4 DEF Graceful
  <2>6. QED
    BY <2>2, <2>3, <2>5, EndsFrame
<1>4. QED
  BY <1>1, <1>2, <1>3 DEF Write

\* A step that changes neither the state of slot i nor whether its pcb is
\* open or finished.
LEMMA SameEnds ==
  ASSUME EachHolds, Ends, NEW i \in Slots, IsLive(i), NEW c, NEW r,
         conn' = [conn EXCEPT ![i] = c],
         pcb' = [pcb EXCEPT ![conn[i].ownPcb] = r],
         c.ownPcb = conn[i].ownPcb,
         c.state = conn[i].state, conn[i].unAcked = 0 => c.unAcked = 0,
         r.st = pcb[conn[i].ownPcb].st, r.fin = pcb[conn[i].ownPcb].fin
  PROVE  Ends' /\ Graceful /\ \A j \in Slots : conn'[j].state = conn[j].state
<1>1. conn[i].ownPcb \in Pcbs
  BY LiveSlot
<1>2. conn'[i] = c /\ pcb'[conn[i].ownPcb] = r
  BY <1>1 DEF EachHolds, Tables
<1>3. /\ \A j \in Slots \ {i} : conn'[j] = conn[j]
      /\ \A q \in Pcbs \ {conn[i].ownPcb} : pcb'[q] = pcb[q]
  BY DEF EachHolds, Tables
<1>4. EndOK(i)'
  BY <1>2 DEF Ends, EndOK
<1>5. Graceful
  BY <1>2, <1>3 DEF Graceful
<1>6. QED
  BY <1>2, <1>3, <1>4, <1>5, EndsFrame

\* A read leaves the state and the pcb's flags alone.
LEMMA ReadEnds ==
  ASSUME EachHolds, Ends, NEW i \in Slots, NEW length \in Nat,
         Read(i, length)
  PROVE  Ends' /\ Graceful
<1> DEFINE n == Lesser(length, CanRead(conn[i]))
           p == conn[i].ownPcb
<1>1. CASE n = 0
  BY <1>1 DEF Read, Ends, EndOK, Graceful
<1>2. CASE n # 0
  <2>1. /\ conn[i].state \in {"connected", "otherEndClosed"}
        /\ conn[i].pbTot # 0 /\ CanRead(conn[i]) = Unread(conn[i])
    BY <1>2 DEF CanRead, Lesser
  <2>2. IsLive(i)
    BY <2>1 DEF IsLive, LiveState
  <2>3. /\ p \in Pcbs /\ Linked(i, conn[i], pcb[p])
        /\ conn[i] \in ConnRec /\ pcb[p] \in PcbRec
    BY <2>2, LiveSlot
  <2>4. Unread(conn[i]) \in Nat
    BY <2>1, <2>3 DEF Unread, Linked, Shaped, ConnRec
  <2>5. n \in 1 .. Unread(conn[i])
    BY <1>2, <2>1, <2>4 DEF Lesser
  <2>6. PICK c \in AfterRead(conn[i], n) :
          /\ conn' = [conn EXCEPT ![i] = Credited(c, n)]
          /\ pcb' = [pcb EXCEPT ![c.ownPcb].rcvWnd = @ + Credit(c, n)]
    BY <1>2 DEF Read
  <2> HIDE DEF n
  <2> DEFINE b == [pcb[p] EXCEPT !.rcvWnd = @ + Credit(c, n)]
             d == Credited(c, n)
  <2>7. Linked(i, d, b) /\ d.ownPcb = p /\ c.ownPcb = p
    BY <2>1, <2>3, <2>5, CreditedIsLinked
  <2>8. /\ c.state = conn[i].state /\ c.unAcked = conn[i].unAcked
        /\ c \in ConnRec
    <3>1. /\ c = [conn[i] EXCEPT !.pbTot = c.pbTot, !.pbLen = c.pbLen,
                                 !.readIndex = c.readIndex]
          /\ c.pbTot \in Nat /\ c.pbLen \in Nat /\ c.readIndex \in Nat
      BY <2>1, <2>3, <2>5, AfterReadMoves DEF Linked
    <3>2. QED
      BY <2>3, <3>1 DEF ConnRec
  <2>9. d.state = conn[i].state /\ d.unAcked = conn[i].unAcked
    BY <2>8 DEF Credited, ConnRec
  <2>10. b.st = pcb[p].st /\ b.fin = pcb[p].fin
    BY <2>3 DEF PcbRec
  <2>11. pcb' = [pcb EXCEPT ![p] = b] /\ conn' = [conn EXCEPT ![i] = d]
    BY <2>3, <2>6, <2>7 DEF EachHolds, Tables
  <2> HIDE DEF b, d
  <2>12. QED
    BY <2>2, <2>7, <2>9, <2>10, <2>11, SameEnds
<1>3. QED
  BY <1>1, <1>2

\* A poll ends only connections that were to be closed, or aborts them.
LEMMA PollEnds ==
  ASSUME EachHolds, Ends, NEW i \in Slots, NEW t \in Nat, Poll(i, t)
  PROVE  Ends' /\ Graceful /\ Kept
<1>1. CASE TimedOut(conn[i], t)
  <2>1. Terminate(i, FALSE) /\ conn[i].state \in {"connected", "closePending"}
    BY <1>1 DEF Poll, TimedOut
  <2>2. /\ Ends' /\ Graceful /\ conn'[i].state = "aborted"
        /\ \A j \in Slots \ {i} : conn'[j] = conn[j]
    BY <2>1, TerminateEnds
  <2>3. QED
    BY <2>2 DEF Kept, Lost
<1>2. CASE ~TimedOut(conn[i], t) /\ conn[i].state = "closeReady"
  <2>1. Close(i, t)
    BY <1>2 DEF Poll
  <2>2. QED
    BY <1>2, <2>1, CloseEnds DEF Kept, Lost
<1>3. CASE /\ ~TimedOut(conn[i], t)
           /\ conn[i].state = "closePending" /\ conn[i].unAcked = 0
  <2> DEFINE d == [conn[i] EXCEPT !.state = "closeReady"]
  <2>1. conn' = [conn EXCEPT ![i] = d] /\ pcb' = pcb
    BY <1>3 DEF Poll, EachHolds, Tables
  <2>2. d.state = "closeReady" /\ d.unAcked = 0
    BY <1>3, AnySlot DEF ConnRec
  <2> HIDE DEF d
  <2>3. conn'[i] = d /\ \A j \in Slots \ {i} : conn'[j] = conn[j]
    BY <2>1 DEF EachHolds, Tables
  <2>4. EndOK(i)'
    BY <2>2, <2>3 DEF EndOK
  <2>5. Ends'
    BY <2>1, <2>3, <2>4, EndsFrame
  <2>6. QED
    BY <1>3, <2>1, <2>2, <2>3, <2>5 DEF Graceful, Kept, Lost
<1>4. CASE /\ ~TimedOut(conn[i], t) /\ conn[i].state # "closeReady"
           /\ ~(conn[i].state = "closePending" /\ conn[i].unAcked = 0)
  <2>1. UNCHANGED <<conn, pcb>>
    BY <1>4 DEF Poll
  <2>2. QED
    BY <2>1 DEF Ends, EndOK, Graceful, Kept, Lost
<1>5. QED
  BY <1>1, <1>2, <1>3, <1>4
-----------------------------------------------------------------------------
(* The callbacks.                                                          *)

\* A new connection takes a free slot and a pcb that is not open.
LEMMA AcceptEnds ==
  ASSUME EachHolds, Ends, NEW i \in FreeSlots, NEW p \in Pcbs,
         NEW port \in Ports, pcb[p].st = "unused", Accept(i, p, port)
  PROVE  Ends' /\ Graceful /\ Kept
<1>1. i \in Slots /\ conn[i].state = "free" /\ conn[i] \in ConnRec
  BY AnySlot DEF FreeSlots
<1>2. /\ conn'[i] = Accepted(conn[i], p, port)
      /\ \A j \in Slots \ {i} : conn'[j] = conn[j]
      /\ \A q \in Pcbs \ {p} : pcb'[q] = pcb[q]
  BY <1>1 DEF Accept, EachHolds, Tables
<1>3. conn'[i].state = "connected"
  BY <1>1, <1>2 DEF Accepted, ConnRec
<1>4. EndOK(i)'
  BY <1>3 DEF EndOK
<1>5. Ends'
  BY <1>1, <1>2, <1>4, EndsFrame
<1>6. QED
  BY <1>1, <1>2, <1>3, <1>5 DEF Graceful, Kept, Lost

\* Received data changes no state.
LEMMA ConnRecvEnds ==
  ASSUME EachHolds, Ends, NEW p \in Pcbs, NEW len \in 1 .. TCP_WND,
         NEW first \in 1 .. len, ConnRecv(p, len, first)
  PROVE  Ends' /\ Graceful /\ Kept
<1> DEFINE i == pcb[p].arg
           d == Received(conn[i], len, first)
           b == [pcb[p] EXCEPT !.rcvWnd = @ - len]
<1>1. /\ i \in Slots /\ IsLive(i) /\ conn[i].ownPcb = p
      /\ conn[i] \in ConnRec /\ pcb[p] \in PcbRec
  BY CallbackSlot DEF ConnRecv, Linked
<1>2. conn' = [conn EXCEPT ![i] = d] /\ pcb' = [pcb EXCEPT ![p] = b]
  BY DEF ConnRecv, EachHolds, Tables
<1>3. /\ d.ownPcb = p /\ d.state = conn[i].state
      /\ d.unAcked = conn[i].unAcked
      /\ b.st = pcb[p].st /\ b.fin = pcb[p].fin
  BY <1>1 DEF Received, ConnRec, PcbRec
<1> HIDE DEF i, d, b
<1>4. QED
  BY <1>1, <1>2, <1>3, SameEnds DEF Kept, Lost

\* The end of the stream is what EndOK asks for.
LEMMA ConnRecvFinEnds ==
  ASSUME EachHolds, Ends, NEW p \in Pcbs, ConnRecvFin(p)
  PROVE  Ends' /\ Graceful /\ Kept
<1>1. PICK i \in Slots : /\ i = pcb[p].arg /\ conn[i].ownPcb = p
                         /\ conn[i] \in ConnRec /\ pcb[p] \in PcbRec
  BY CallbackSlot DEF ConnRecvFin, Linked
<1> DEFINE d == OtherEndClosed(conn[i])
           b == [pcb[p] EXCEPT !.fin = TRUE]
<1>2. conn' = [conn EXCEPT ![i] = d] /\ pcb' = [pcb EXCEPT ![p] = b]
  BY <1>1 DEF ConnRecvFin, EachHolds, Tables
<1>3. /\ d.ownPcb = p
      /\ d.state = CASE conn[i].state = "connected" -> "otherEndClosed"
                     [] conn[i].state = "closePending" -> "closeReady"
                     [] OTHER -> conn[i].state
      /\ b.st = pcb[p].st /\ b.fin = TRUE
  BY <1>1 DEF OtherEndClosed, ConnRec, PcbRec
<1> HIDE DEF d, b
<1>4. /\ conn'[i] = d /\ \A j \in Slots \ {i} : conn'[j] = conn[j]
      /\ pcb'[p] = b /\ \A q \in Pcbs \ {p} : pcb'[q] = pcb[q]
  BY <1>1, <1>2 DEF EachHolds, Tables
<1>5. EndOK(i)'
  BY <1>3, <1>4 DEF EndOK
<1>6. Ends'
  BY <1>1, <1>4, <1>5, EndsFrame
<1>7. Graceful
  BY <1>3, <1>4 DEF Graceful
<1>8. ~Lost(i)
  BY <1>3, <1>4 DEF Lost
<1>9. QED
  BY <1>4, <1>6, <1>7, <1>8 DEF Kept, Lost

\* An acknowledgement only lowers unAcked.
LEMMA ConnSentEnds ==
  ASSUME EachHolds, Ends, NEW p \in Pcbs, NEW len \in Nat, ConnSent(p, len)
  PROVE  Ends' /\ Graceful /\ Kept
<1> DEFINE i == pcb[p].arg
           d == Acknowledged(conn[i], len)
           b == [pcb[p] EXCEPT !.inFlight = @ - len]
<1>1. /\ i \in Slots /\ IsLive(i) /\ conn[i].ownPcb = p
      /\ Linked(i, conn[i], pcb[p])
      /\ conn[i] \in ConnRec /\ pcb[p] \in PcbRec
  BY CallbackSlot DEF ConnSent, Linked
<1>2. conn' = [conn EXCEPT ![i] = d] /\ pcb' = [pcb EXCEPT ![p] = b]
  BY DEF ConnSent, EachHolds, Tables
<1>3. len <= conn[i].unAcked
  BY <1>1 DEF ConnSent, Linked
<1> HIDE DEF i
<1>4. /\ d.ownPcb = p /\ d.state = conn[i].state
      /\ conn[i].unAcked = 0 => d.unAcked = 0
      /\ b.st = pcb[p].st /\ b.fin = pcb[p].fin
  BY <1>1, <1>3 DEF Acknowledged, ConnRec, PcbRec
<1> HIDE DEF d, b
<1>5. QED
  BY <1>1, <1>2, <1>4, SameEnds DEF Kept, Lost

\* An error aborts the slot.
LEMMA ConnErrorEnds ==
  ASSUME EachHolds, Ends, NEW p \in Pcbs, ConnError(p)
  PROVE  Ends' /\ Graceful /\ Kept
<1>1. PICK i \in Slots : /\ i = pcb[p].arg /\ conn[i].ownPcb = p
                         /\ conn[i] \in ConnRec
  BY CallbackSlot DEF ConnError, Linked
<1>2. /\ conn'[i] = Failed(conn[i])
      /\ \A j \in Slots \ {i} : conn'[j] = conn[j]
  BY <1>1 DEF ConnError, EachHolds, Tables
<1>3. \A q \in Pcbs \ {p} : pcb'[q] = pcb[q]
  BY DEF ConnError, TcpAbort
<1>4. conn'[i].state = "aborted"
  BY <1>1, <1>2 DEF Failed, FreePbuf, ConnRec
<1>5. EndOK(i)'
  BY <1>4 DEF EndOK
<1>6. Ends'
  BY <1>1, <1>2, <1>3, <1>5, EndsFrame
<1>7. QED
  BY <1>2, <1>4, <1>6, AbortIsGraceful DEF ConnError, Kept, Lost

\* A pcb that lwIP finishes closing belongs to no slot.
LEMMA LwipFinishEnds ==
  ASSUME EachHolds, Ends, NEW p \in Pcbs, LwipFinish(p)
  PROVE  Ends' /\ Graceful /\ Kept
<1>1. conn' = conn /\ \A q \in Pcbs \ {p} : pcb'[q] = pcb[q]
  BY DEF LwipFinish, TcpAbort
<1>2. ASSUME NEW i \in Slots, IsLive(i) PROVE EndOK(i)'
  <2>1. conn[i].ownPcb \in Pcbs \ {p}
    BY <1>2, LiveSlot DEF Linked, LwipFinish
  <2>2. QED
    BY <1>1, <2>1 DEF Ends, EndOK
<1>3. ASSUME NEW i \in Slots, ~IsLive(i) PROVE EndOK(i)'
  BY <1>1, <1>3 DEF EndOK, IsLive, LiveState
<1>4. QED
  BY <1>1, <1>2, <1>3, AbortIsGraceful DEF LwipFinish, Ends, Kept, Lost
-----------------------------------------------------------------------------
(* GracefulClose and ReleasedOnlyBySam.                                    *)

\* No callback closes a pcb or takes a slot away.
LEMMA LwipEventEnds ==
  ASSUME EachHolds, Ends, LwipEvent
  PROVE  Ends' /\ Graceful /\ Kept
<1>1. PICK p \in Pcbs :
        \/ \E port \in Ports : AcceptNew(p, port)
        \/ \E len \in 1 .. TCP_WND : \E first \in 1 .. len :
             ConnRecv(p, len, first)
        \/ ConnRecvFin(p)
        \/ \E len \in 1 .. TCP_SND_BUF : ConnSent(p, len)
        \/ ConnError(p)
        \/ LwipFinish(p)
  BY DEF LwipEvent
<1>2. ASSUME NEW port \in Ports, AcceptNew(p, port)
      PROVE  Ends' /\ Graceful /\ Kept
  <2>1. PICK i \in FreeSlots : Accept(i, p, port)
    BY <1>2 DEF AcceptNew, Allocate
  <2>2. QED
    BY <1>2, <2>1, AcceptEnds DEF AcceptNew
<1>3. ASSUME NEW len \in 1 .. TCP_SND_BUF, ConnSent(p, len)
      PROVE  Ends' /\ Graceful /\ Kept
  <2>1. len \in Nat
    BY Sizes
  <2>2. QED
    BY <1>3, <2>1, ConnSentEnds
<1>4. ASSUME NEW len \in 1 .. TCP_WND, NEW first \in 1 .. len,
             ConnRecv(p, len, first)
      PROVE  Ends' /\ Graceful /\ Kept
  BY <1>4, ConnRecvEnds
<1>5. CASE ConnRecvFin(p)
  BY <1>5, ConnRecvFinEnds
<1>6. CASE ConnError(p)
  BY <1>6, ConnErrorEnds
<1>7. CASE LwipFinish(p)
  BY <1>7, LwipFinishEnds
<1>8. QED
  BY <1>1, <1>2, <1>3, <1>4, <1>5, <1>6, <1>7

\* The commands close connections in the right order, too.
LEMMA SamCommandEnds ==
  ASSUME EachHolds, Ends, SamCommand
  PROVE  Ends' /\ Graceful
<1>1. now \in Nat
  BY Sizes DEF EachHolds, LoopOK
<1>2. CASE networkStop
  <2>1. ASSUME NEW j \in Slots PROVE EndOK(j)'
    <3>1. conn'[j] = Terminated(conn[j], TRUE)
      BY <1>2 DEF networkStop, TerminateAll
    <3>2. conn'[j].state = "free"
      BY <3>1, AnySlot DEF Terminated, FreePbuf, ConnRec
    <3>3. QED
      BY <3>2 DEF EndOK
  <2>2. QED
    BY <1>2, <2>1, AbortIsGraceful DEF networkStop, TerminateAll, Ends
<1>3. ASSUME NEW i \in Slots, connAbort(i) PROVE Ends' /\ Graceful
  BY <1>3, TerminateEnds DEF connAbort
<1>4. ASSUME NEW i \in Slots, connClose(i) PROVE Ends' /\ Graceful
  BY <1>1, <1>4, CloseEnds DEF connClose
<1>5. ASSUME NEW i \in Slots, NEW n \in 1 .. MaxDataLength, connRead(i, n)
      PROVE  Ends' /\ Graceful
  <2>1. Lesser(n, MaxDataLength) \in Nat
    BY Sizes DEF Lesser
  <2>2. QED
    BY <1>5, <2>1, ReadEnds DEF connRead
<1>6. ASSUME NEW i \in Slots, NEW n \in 0 .. MaxDataLength,
             NEW flagClose \in BOOLEAN, NEW ok \in BOOLEAN,
             connWrite(i, n, flagClose, ok)
      PROVE  Ends' /\ Graceful
  <2> DEFINE acceptedLength == Lesser(CanWrite(i), Lesser(n, MaxDataLength))
             closeAfterSending == acceptedLength = n /\ flagClose
  <2>1. Write(i, acceptedLength, closeAfterSending, ok)
    BY <1>6 DEF connWrite
  <2>2. closeAfterSending \in BOOLEAN
    OBVIOUS
  <2>3. CanWrite(i) \in Nat
    <3>1. conn[i].state = "connected" => IsLive(i)
      BY DEF IsLive, LiveState
    <3>2. QED
      BY <3>1, LiveSlot, Sizes DEF CanWrite, Linked, PcbRec
  <2>4. acceptedLength \in Nat
    BY <2>3, Sizes DEF Lesser
  <2> HIDE DEF acceptedLength, closeAfterSending
  <2>5. QED
    BY <2>1, <2>2, <2>4, WriteEnds
<1>7. QED
  BY <1>2, <1>3, <1>4, <1>5, <1>6 DEF SamCommand

\* A pass through the loop takes no slot away from the main processor.
LEMMA PollOneEnds ==
  ASSUME EachHolds, Ends, NEW d \in 0 .. MaxLoopTime, PollOne(d)
  PROVE  Ends' /\ Graceful /\ Kept
<1> DEFINE t == (now + d) % ClockMod
<1>1. t \in Nat
  BY Sizes DEF EachHolds, LoopOK
<1>2. Poll(nextConnectionToPoll, t) /\ nextConnectionToPoll \in Slots
  BY DEF PollOne, EachHolds, LoopOK
<1> HIDE DEF t
<1>3. QED
  BY <1>1, <1>2, PollEnds

\* Every step, or stutter.
LEMMA StepEnds ==
  ASSUME EachHolds, Ends, [Next]_vars
  PROVE  Ends' /\ Graceful /\ (Kept \/ SamCommand)
<1>1. CASE UNCHANGED vars
  BY <1>1 DEF vars, Ends, EndOK, Graceful, Kept, Lost
<1>2. CASE Next
  BY <1>2, LwipEventEnds, SamCommandEnds, PollOneEnds DEF Next
<1>3. QED
  BY <1>1, <1>2

\* No slot is about to be closed in the first state.
LEMMA InitEnds == Init => Ends
BY DEF Init, NewConnection, Ends, EndOK

\* Ends holds in every reachable state, beside the inductive invariant.
LEMMA EndsHold == Spec => [](EachHolds /\ Ends)
<1>1. Init => EachHolds /\ Ends
  BY InitIInv, IInvEachHolds, InitEnds
<1>2. EachHolds /\ Ends /\ [Next]_vars => (EachHolds /\ Ends)'
  BY NextEachHolds, StepEnds
<1>3. QED
  BY <1>1, <1>2, PTL DEF Spec

\* tcp_close is called only when nothing is in flight or the other end has
\* closed, whatever callbacks came between the request and the poll.
THEOREM ClosesGracefully == Spec => GracefulClose
<1>1. EachHolds /\ Ends /\ [Next]_vars => [Graceful]_vars
  BY StepEnds
<1>2. QED
  BY <1>1, EndsHold, PTL DEF Spec, GracefulClose, Graceful

\* Only a command of the main processor frees a slot it is using, or begins
\* to close it.
THEOREM ReleasedByCommands == Spec => ReleasedOnlyBySam
<1> DEFINE Released ==
      (\E i \in Slots :
         \/ /\ conn[i].state \in {"connected", "otherEndClosed"}
            /\ conn'[i].state \in {"free", "closePending", "closeReady"}
         \/ conn[i].state = "closePending" /\ conn'[i].state = "free"
         \/ conn[i].state = "aborted" /\ conn'[i].state # "aborted")
       => SamCommand
<1>1. EachHolds /\ Ends /\ [Next]_vars => [Released]_vars
  BY StepEnds DEF Kept, Lost
<1>2. QED
  BY <1>1, EndsHold, PTL DEF Spec, ReleasedOnlyBySam

-----------------------------------------------------------------------------
(* The answers to connGetStatus change only as SlotContract allows.        *)

\* The answer for an object c whose pcb is r.
StatusOf(c, r) ==
  [state |-> IF c.state \in {"closePending", "closeReady"}
             THEN "closing" ELSE c.state,
   avail |-> CanRead(c),
   room |-> IF c.state = "connected" THEN TCP_SND_BUF - r.inFlight ELSE 0]

Answers == [i \in Slots |-> GetStatus(i)]

\* One answer, s, becomes t.
Allowed(s, t) ==
  \/ t = s
  \/ /\ s.state = "free"
     /\ t = [state |-> "connected", avail |-> 0, room |-> TCP_SND_BUF]
  \/ /\ s.state = "connected"
     /\ \E n \in s.avail + 1 .. TCP_WND : t = [s EXCEPT !.avail = n]
  \/ /\ s.state = "connected"
     /\ t = [s EXCEPT !.state = "otherEndClosed", !.room = 0]
  \/ /\ s.state \in {"connected", "otherEndClosed"}
     /\ \E n \in 0 .. s.avail - 1 : t = [s EXCEPT !.avail = n]
  \/ /\ s.state = "connected"
     /\ \E n \in 0 .. s.room - 1 : t = [s EXCEPT !.room = n]
  \/ /\ s.state = "connected"
     /\ \E n \in s.room + 1 .. TCP_SND_BUF : t = [s EXCEPT !.room = n]
  \/ s.state = "connected" /\ t = Contract!Quiet("closing")
  \/ /\ s.state \in {"connected", "otherEndClosed", "closing"}
     /\ t = Contract!Quiet("aborted")
  \/ t = Contract!Quiet("free")

\* A step that changes one answer in such a way is one of the contract, or none.
LEMMA AllowedIsStep ==
  ASSUME NEW i \in Slots, NEW t, Allowed(GetStatus(i), t),
         Answers' = [Answers EXCEPT ![i] = t]
  PROVE  [Contract!Next]_Answers
<1> DEFINE s == GetStatus(i)
<1>1. /\ Answers[i] = s /\ i \in Contract!Slots
      /\ Answers = [j \in Slots |-> GetStatus(j)]
      /\ Slots = Contract!Slots
  BY DEF Answers, Slots, Contract!Slots
<1>2. Contract!Become(i, t)
  BY <1>1 DEF Contract!Become, Answers
<1>3. CASE t = s
  BY <1>1, <1>3 DEF Answers
<1>4. CASE /\ s.state = "free"
           /\ t = [state |-> "connected", avail |-> 0, room |-> TCP_SND_BUF]
  <2>1. t = [Contract!Quiet("connected") EXCEPT !.room = TCP_SND_BUF]
    BY <1>4 DEF Contract!Quiet
  <2>2. Contract!Open(i)
    BY <1>1, <1>2, <1>4, <2>1 DEF Contract!Open, Answers
  <2>3. QED
    BY <1>1, <2>2 DEF Contract!Next
<1>5. CASE /\ s.state = "connected"
           /\ \E n \in s.avail + 1 .. TCP_WND : t = [s EXCEPT !.avail = n]
  <2>1. Contract!Receive(i)
    BY <1>1, <1>2, <1>5 DEF Contract!Receive, Answers
  <2>2. QED
    BY <1>1, <2>1 DEF Contract!Next
<1>6. CASE /\ s.state = "connected"
           /\ t = [s EXCEPT !.state = "otherEndClosed", !.room = 0]
  <2>1. Contract!RemoteClose(i)
    BY <1>1, <1>2, <1>6 DEF Contract!RemoteClose, Answers
  <2>2. QED
    BY <1>1, <2>1 DEF Contract!Next
<1>7. CASE /\ s.state \in {"connected", "otherEndClosed"}
           /\ \E n \in 0 .. s.avail - 1 : t = [s EXCEPT !.avail = n]
  <2>1. Contract!Take(i)
    BY <1>1, <1>2, <1>7 DEF Contract!Take, Answers
  <2>2. QED
    BY <1>1, <2>1 DEF Contract!Next
<1>8. CASE /\ s.state = "connected"
           /\ \E n \in 0 .. s.room - 1 : t = [s EXCEPT !.room = n]
  <2>1. Contract!Put(i)
    BY <1>1, <1>2, <1>8 DEF Contract!Put, Answers
  <2>2. QED
    BY <1>1, <2>1 DEF Contract!Next
<1>9. CASE /\ s.state = "connected"
           /\ \E n \in s.room + 1 .. TCP_SND_BUF : t = [s EXCEPT !.room = n]
  <2>1. Contract!Drain(i)
    BY <1>1, <1>2, <1>9 DEF Contract!Drain, Answers
  <2>2. QED
    BY <1>1, <2>1 DEF Contract!Next
<1>10. CASE s.state = "connected" /\ t = Contract!Quiet("closing")
  <2>1. Contract!BeginClose(i)
    BY <1>1, <1>2, <1>10 DEF Contract!BeginClose, Answers
  <2>2. QED
    BY <1>1, <2>1 DEF Contract!Next
<1>11. CASE /\ s.state \in {"connected", "otherEndClosed", "closing"}
            /\ t = Contract!Quiet("aborted")
  <2>1. Contract!Fail(i)
    BY <1>1, <1>2, <1>11 DEF Contract!Fail, Answers
  <2>2. QED
    BY <1>1, <2>1 DEF Contract!Next
<1>12. CASE t = Contract!Quiet("free")
  <2>1. Contract!Release({i})
    BY <1>1, <1>12 DEF Contract!Release, Answers
  <2>2. {i} \in SUBSET Contract!Slots
    BY <1>1
  <2>3. QED
    BY <2>1, <2>2 DEF Contract!Next
<1>13. QED
  BY <1>3, <1>4, <1>5, <1>6, <1>7, <1>8, <1>9, <1>10, <1>11, <1>12 DEF Allowed

\* The answer depends on the object and on its pcb.
LEMMA StatusIs ==
  ASSUME NEW i \in Slots
  PROVE  GetStatus(i) = StatusOf(conn[i], pcb[conn[i].ownPcb])
BY DEF GetStatus, StatusOf, CanWrite

\* A step on slot i and pcb p changes the answer for slot i only.
LEMMA OneAnswer ==
  ASSUME NEW i \in Slots, NEW p, NEW d, EachHolds,
         p = conn[i].ownPcb \/ (p \in Pcbs /\ pcb[p].st # "open"),
         conn' = [conn EXCEPT ![i] = d],
         \A q \in Pcbs \ {p} : pcb'[q] = pcb[q]
  PROVE  /\ Answers' = [Answers EXCEPT ![i] = GetStatus(i)']
         /\ GetStatus(i)' = StatusOf(d, pcb'[d.ownPcb])
<1>1. conn'[i] = d /\ \A j \in Slots \ {i} : conn'[j] = conn[j]
  BY DEF EachHolds, Tables
<1>2. ASSUME NEW j \in Slots \ {i} PROVE GetStatus(j)' = GetStatus(j)
  <2>1. CASE conn[j].state = "connected"
    <3>1. conn[j].ownPcb \in Pcbs \ {p}
      BY <2>1, Elsewhere DEF IsLive, LiveState
    <3>2. QED
      BY <1>1, <3>1 DEF GetStatus, CanWrite
  <2>2. CASE conn[j].state # "connected"
    BY <1>1, <2>2 DEF GetStatus, CanWrite
  <2>3. QED
    BY <2>1, <2>2
<1>3. GetStatus(i)' = StatusOf(d, pcb'[d.ownPcb])
  BY <1>1 DEF GetStatus, CanWrite, StatusOf
<1>4. Answers' = [Answers EXCEPT ![i] = GetStatus(i)']
  BY <1>2 DEF Answers
<1>5. QED
  BY <1>3, <1>4

\* So it is a step of the contract if the new answer for slot i is allowed.
LEMMA AnswerStep ==
  ASSUME NEW i \in Slots, NEW p, NEW d, EachHolds,
         p = conn[i].ownPcb \/ (p \in Pcbs /\ pcb[p].st # "open"),
         conn' = [conn EXCEPT ![i] = d],
         \A q \in Pcbs \ {p} : pcb'[q] = pcb[q],
         Allowed(StatusOf(conn[i], pcb[conn[i].ownPcb]),
                 StatusOf(d, pcb'[d.ownPcb]))
  PROVE  [Contract!Next]_Answers
<1>1. /\ Answers' = [Answers EXCEPT ![i] = GetStatus(i)']
      /\ GetStatus(i)' = StatusOf(d, pcb'[d.ownPcb])
  BY OneAnswer
<1>2. PICK t : t = GetStatus(i)'
  OBVIOUS
<1>3. Allowed(GetStatus(i), t) /\ Answers' = [Answers EXCEPT ![i] = t]
  BY <1>1, <1>2, StatusIs
<1>4. QED
  BY <1>3, AllowedIsStep

\* The answers stay when slots and pcbs do.
LEMMA SameAnswers ==
  ASSUME UNCHANGED <<conn, pcb>>
  PROVE  [Contract!Next]_Answers
BY DEF Answers, GetStatus, CanWrite

-----------------------------------------------------------------------------
(* What the methods and callbacks make of an answer.                       *)

\* The answer of a connection that is in use: all that is unread, and the send
\* buffer that is left.
LEMMA InUse ==
  ASSUME NEW i \in Slots, NEW c, NEW r, Linked(i, c, r),
         c.state \in {"connected", "otherEndClosed"}
  PROVE  /\ StatusOf(c, r).state = c.state
         /\ StatusOf(c, r).avail = c.pbTot - c.readIndex
         /\ c.pbTot - c.readIndex \in 0 .. TCP_WND
         /\ c.state = "connected" =>
              StatusOf(c, r).room = TCP_SND_BUF - r.inFlight
         /\ c.state # "connected" => StatusOf(c, r).room = 0
<1>1. /\ c.pbTot \in Nat /\ c.readIndex \in Nat /\ c.alreadyRead \in Nat
      /\ c.pbLen \in Nat /\ r.rcvWnd \in Nat
  BY DEF Linked, ConnRec, PcbRec
<1>2. CanRead(c) = c.pbTot - c.readIndex
  BY DEF Linked, Shaped, CanRead, Unread
<1>3. c.pbTot - c.readIndex \in 0 .. TCP_WND
  BY <1>1, Sizes DEF Linked, Shaped
<1>4. QED
  BY <1>2, <1>3 DEF StatusOf

\* The answers in which nothing can be read or written.
LEMMA NotInUse ==
  ASSUME NEW c \in ConnRec, NEW r
  PROVE  /\ c.state \in {"closePending", "closeReady"}
              => StatusOf(c, r) = Contract!Quiet("closing")
         /\ c.state \in {"free", "aborted"}
              => StatusOf(c, r) = Contract!Quiet(c.state)
BY DEF StatusOf, Contract!Quiet, CanRead

\* A connection that ends.
LEMMA EndedAnswers ==
  ASSUME NEW c \in ConnRec, NEW r
  PROVE  /\ StatusOf(Terminated(c, TRUE), r) = Contract!Quiet("free")
         /\ StatusOf(Terminated(c, FALSE), r) = Contract!Quiet("aborted")
         /\ StatusOf(Closed(c), r) = Contract!Quiet("free")
         /\ StatusOf(Failed(c), r) = Contract!Quiet("aborted")
<1>1. /\ Terminated(c, TRUE) \in ConnRec /\ Terminated(c, FALSE) \in ConnRec
      /\ Closed(c) \in ConnRec /\ Failed(c) \in ConnRec
  BY EndedIsDead DEF Dead
<1>2. /\ Terminated(c, TRUE).state = "free"
      /\ Terminated(c, FALSE).state = "aborted"
      /\ Closed(c).state = "free" /\ Failed(c).state = "aborted"
  BY DEF Terminated, Closed, Failed, FreePbuf, ConnRec
<1>3. QED
  BY <1>1, <1>2, NotInUse

\* Terminate shows as free, or as aborted if it was not asked for.
LEMMA TerminateAnswers ==
  ASSUME NEW i \in Slots, NEW external \in BOOLEAN, EachHolds,
         external \/ IsLive(i), Terminate(i, external)
  PROVE  [Contract!Next]_Answers
<1> DEFINE c == conn[i]
           d == Terminated(c, external)
           s == StatusOf(c, pcb[c.ownPcb])
           t == StatusOf(d, pcb'[d.ownPcb])
<1>1. c \in ConnRec
  BY AnySlot
<1>2. Allowed(s, t)
  <2>1. CASE external
    <3>1. t = Contract!Quiet("free")
      <4>1. external = TRUE
        BY <2>1
      <4>2. QED
        BY <1>1, <4>1, EndedAnswers
    <3> HIDE DEF s, t
    <3>2. QED
      BY <3>1 DEF Allowed
  <2>2. CASE ~external
    <3>1. t = Contract!Quiet("aborted")
      <4>1. external = FALSE
        BY <2>2
      <4>2. QED
        BY <1>1, <4>1, EndedAnswers
    <3>2. s.state \in {"connected", "otherEndClosed", "closing"}
      BY <2>2 DEF IsLive, LiveState, StatusOf
    <3> HIDE DEF s, t
    <3>3. QED
      BY <3>1, <3>2 DEF Allowed
  <2>3. QED
    BY <2>1, <2>2
<1>3. /\ conn' = [conn EXCEPT ![i] = d]
      /\ \A q \in Pcbs \ {c.ownPcb} : pcb'[q] = pcb[q]
  BY DEF Terminate, TcpAbort
<1> HIDE DEF d
<1>4. QED
  BY <1>2, <1>3, AnswerStep

\* Close shows as closing or as free.
LEMMA CloseAnswers ==
  ASSUME NEW i \in Slots, NEW u \in Nat, EachHolds, Close(i, u)
  PROVE  [Contract!Next]_Answers
<1> DEFINE c == conn[i]
<1>1. c \in ConnRec
  BY AnySlot
<1>2. \A q \in Pcbs \ {c.ownPcb} : pcb'[q] = pcb[q]
  BY DEF Close, ClosePcb, TcpClose
<1>3. CASE c.state = "connected" /\ c.unAcked # 0
  <2> DEFINE d == [c EXCEPT !.closeTimer = u, !.state = "closePending"]
             s == StatusOf(c, pcb[c.ownPcb])
             t == StatusOf(d, pcb'[d.ownPcb])
  <2>1. conn' = [conn EXCEPT ![i] = d]
    BY <1>3 DEF Close
  <2>2. d \in ConnRec /\ d.state = "closePending"
    BY <1>1 DEF ConnRec, ConnState
  <2> HIDE DEF d
  <2>3. t = Contract!Quiet("closing")
    BY <2>2, NotInUse
  <2>4. s.state = "connected"
    BY <1>3 DEF StatusOf
  <2>5. Allowed(s, t)
    <3> HIDE DEF s, t
    <3>1. QED
      BY <2>3, <2>4 DEF Allowed
  <2>6. QED
    BY <1>2, <2>1, <2>5, AnswerStep
<1>4. CASE c.state = "closePending"
  <2>1. UNCHANGED <<conn, pcb>>
    BY <1>4 DEF Close, EachHolds, Tables
  <2>2. QED
    BY <2>1, SameAnswers
<1>5. CASE ~(c.state = "connected" /\ c.unAcked # 0) /\ c.state # "closePending"
  <2> DEFINE d == Closed(c)
             s == StatusOf(c, pcb[c.ownPcb])
             t == StatusOf(d, pcb'[d.ownPcb])
  <2>1. conn' = [conn EXCEPT ![i] = d]
    BY <1>5 DEF Close
  <2>2. t = Contract!Quiet("free")
    BY <1>1, EndedAnswers
  <2>3. Allowed(s, t)
    <3> HIDE DEF s, t
    <3>1. QED
      BY <2>2 DEF Allowed
  <2> HIDE DEF d
  <2>4. QED
    BY <1>2, <2>1, <2>3, AnswerStep
<1>6. QED
  BY <1>3, <1>4, <1>5

\* A connection c, with its pcb r, that stays in use: what can be read only grows
\* while the other end is connected, and does not change together with the send
\* buffer.
GoesOn(c, r, d, b) ==
  /\ d.state = c.state /\ d.ownPcb = c.ownPcb
  /\ \/ /\ b.inFlight = r.inFlight
        /\ c.state = "connected" \/ d.pbTot - d.readIndex <= c.pbTot - c.readIndex
     \/ d.pbTot - d.readIndex = c.pbTot - c.readIndex

\* The answer changes accordingly.
LEMMA InUseAllowed ==
  ASSUME NEW i \in Slots, NEW c, NEW r, Linked(i, c, r),
         NEW d, NEW b, Linked(i, d, b),
         c.state \in {"connected", "otherEndClosed"}, GoesOn(c, r, d, b)
  PROVE  Allowed(StatusOf(c, r), StatusOf(d, b))
<1> USE DEF GoesOn
<1> DEFINE s == StatusOf(c, r)
           t == StatusOf(d, b)
<1>1. /\ s = [state |-> s.state, avail |-> s.avail, room |-> s.room]
      /\ t = [state |-> t.state, avail |-> t.avail, room |-> t.room]
  BY DEF StatusOf
<1>2. /\ s.state = c.state /\ t.state = c.state
      /\ s.avail = c.pbTot - c.readIndex /\ t.avail = d.pbTot - d.readIndex
      /\ s.avail \in 0 .. TCP_WND /\ t.avail \in 0 .. TCP_WND
      /\ c.state = "connected" => /\ s.room = TCP_SND_BUF - r.inFlight
                                  /\ t.room = TCP_SND_BUF - b.inFlight
      /\ c.state # "connected" => s.room = 0 /\ t.room = 0
  BY InUse
<1>3. /\ r.inFlight \in 0 .. TCP_SND_BUF /\ b.inFlight \in 0 .. TCP_SND_BUF
      /\ TCP_SND_BUF \in Nat /\ TCP_WND \in Nat
  BY Sizes DEF Linked, PcbRec
<1>4. s.room \in 0 .. TCP_SND_BUF /\ t.room \in 0 .. TCP_SND_BUF
  <2>1. CASE c.state = "connected"
    BY <1>2, <1>3, <2>1
  <2>2. CASE c.state # "connected"
    BY <1>2, <1>3, <2>2
  <2>3. QED
    BY <2>1, <2>2
<1>5. \/ t.room = s.room /\ (c.state = "connected" \/ t.avail <= s.avail)
      \/ t.avail = s.avail
  BY <1>2
<1> HIDE DEF s, t
<1>6. CASE t.room = s.room /\ t.avail = s.avail
  <2>1. t = s
    BY <1>1, <1>2, <1>6
  <2>2. QED
    BY <2>1 DEF Allowed, s, t
<1>7. CASE t.room = s.room /\ t.avail < s.avail
  <2>1. t = [s EXCEPT !.avail = t.avail]
    BY <1>1, <1>2, <1>7
  <2>2. t.avail \in 0 .. s.avail - 1
    BY <1>2, <1>7
  <2>3. s.state \in {"connected", "otherEndClosed"}
    BY <1>2
  <2>4. QED
    BY <2>1, <2>2, <2>3 DEF Allowed, s, t
<1>8. CASE t.room = s.room /\ c.state = "connected" /\ t.avail > s.avail
  <2>1. t = [s EXCEPT !.avail = t.avail]
    BY <1>1, <1>2, <1>8
  <2>2. t.avail \in s.avail + 1 .. TCP_WND
    BY <1>2, <1>3, <1>8
  <2>3. s.state = "connected"
    BY <1>2, <1>8
  <2>4. QED
    BY <2>1, <2>2, <2>3 DEF Allowed, s, t
<1>9. CASE t.avail = s.avail /\ t.room # s.room
  <2>1. t = [s EXCEPT !.room = t.room]
    BY <1>1, <1>2, <1>9
  <2>2. s.state = "connected"
    BY <1>2, <1>9
  <2>3. \/ t.room \in 0 .. s.room - 1
        \/ t.room \in s.room + 1 .. TCP_SND_BUF
    BY <1>3, <1>4, <1>9
  <2>4. QED
    BY <2>1, <2>2, <2>3 DEF Allowed, s, t
<1>10. QED
  BY <1>2, <1>5, <1>6, <1>7, <1>8, <1>9

\* The same, of the step.
LEMMA InUseStep ==
  ASSUME NEW i \in Slots, NEW p, NEW d, NEW b, EachHolds, EachHolds',
         p = conn[i].ownPcb, conn[i].state \in {"connected", "otherEndClosed"},
         conn' = [conn EXCEPT ![i] = d], pcb' = [pcb EXCEPT ![p] = b],
         GoesOn(conn[i], pcb[p], d, b)
  PROVE  [Contract!Next]_Answers
<1>1. IsLive(i)
  BY DEF IsLive, LiveState
<1>2. p \in Pcbs /\ Linked(i, conn[i], pcb[p])
  BY <1>1, LiveSlot
<1>3. /\ conn'[i] = d /\ pcb'[p] = b
      /\ \A q \in Pcbs \ {p} : pcb'[q] = pcb[q]
  BY <1>2 DEF EachHolds, Tables
<1>4. Linked(i, d, b)
  <2>1. SlotOK(i)' /\ IsLive(i)'
    BY <1>1, <1>3 DEF EachHolds, IsLive, GoesOn
  <2>2. QED
    BY <1>3, <2>1 DEF SlotOK, GoesOn
<1>5. Allowed(StatusOf(conn[i], pcb[p]), StatusOf(d, b))
  BY <1>2, <1>4, InUseAllowed
<1>6. d.ownPcb = p
  BY DEF GoesOn
<1>7. Allowed(StatusOf(conn[i], pcb[conn[i].ownPcb]),
              StatusOf(d, pcb'[d.ownPcb]))
  BY <1>3, <1>5, <1>6
<1>8. QED
  BY <1>3, <1>7, AnswerStep

\* A connection that goes on closing.
LEMMA ClosingStep ==
  ASSUME NEW i \in Slots, NEW p, NEW d \in ConnRec, EachHolds,
         p = conn[i].ownPcb, conn[i].state \in {"closePending", "closeReady"},
         d.state \in {"closePending", "closeReady"},
         conn' = [conn EXCEPT ![i] = d],
         \A q \in Pcbs \ {p} : pcb'[q] = pcb[q]
  PROVE  [Contract!Next]_Answers
<1> DEFINE s == StatusOf(conn[i], pcb[conn[i].ownPcb])
           t == StatusOf(d, pcb'[d.ownPcb])
<1>1. s = Contract!Quiet("closing") /\ t = Contract!Quiet("closing")
  BY AnySlot, NotInUse
<1>2. Allowed(s, t)
  BY <1>1 DEF Allowed
<1>3. QED
  BY <1>2, AnswerStep

\* Write uses up room, begins to close, or aborts.
LEMMA WriteAnswers ==
  ASSUME NEW i \in Slots, NEW length \in Nat, NEW after \in BOOLEAN,
         NEW ok \in BOOLEAN, EachHolds, EachHolds', Write(i, length, after, ok)
  PROVE  [Contract!Next]_Answers
<1>1. CASE UNCHANGED <<conn, pcb>>
  BY <1>1, SameAnswers
<1>2. CASE conn[i].state = "connected" /\ Terminate(i, FALSE)
  BY <1>2, TerminateAnswers DEF IsLive, LiveState
<1>3. CASE /\ conn[i].state = "connected"
           /\ pcb' = [pcb EXCEPT ![conn[i].ownPcb].inFlight = @ + length]
           /\ conn' = [conn EXCEPT ![i] = Written(@, length, after, now)]
  <2> DEFINE p == conn[i].ownPcb
             b == [pcb[p] EXCEPT !.inFlight = @ + length]
             d == Written(conn[i], length, after, now)
  <2>1. p \in Pcbs /\ conn[i] \in ConnRec
    BY <1>3, LiveSlot DEF IsLive, LiveState
  <2>2. conn' = [conn EXCEPT ![i] = d] /\ pcb' = [pcb EXCEPT ![p] = b]
    BY <1>3, <2>1 DEF EachHolds, Tables
  <2>3. CASE ~after
    <3>1. /\ d.state = conn[i].state /\ d.ownPcb = p
          /\ d.pbTot = conn[i].pbTot /\ d.readIndex = conn[i].readIndex
      BY <2>1, <2>3 DEF Written, ConnRec
    <3>2. d.pbTot - d.readIndex = conn[i].pbTot - conn[i].readIndex
      BY <3>1
    <3>3. conn[i].state \in {"connected", "otherEndClosed"}
      BY <1>3
    <3> HIDE DEF d, b
    <3>4. PICK q : q = p
      OBVIOUS
    <3>5. /\ q = conn[i].ownPcb /\ d.ownPcb = q
          /\ pcb' = [pcb EXCEPT ![q] = b]
      BY <2>2, <3>1, <3>4
    <3>6. GoesOn(conn[i], pcb[q], d, b)
      BY <3>1, <3>2, <3>5 DEF GoesOn
    <3>7. QED
      BY <2>2, <3>3, <3>5, <3>6, InUseStep
  <2>4. CASE after
    <3> DEFINE s == StatusOf(conn[i], pcb[conn[i].ownPcb])
               t == StatusOf(d, pcb'[d.ownPcb])
    <3>1. d.state = "closePending" /\ conn'[i] = d
      BY <2>1, <2>2, <2>4 DEF Written, ConnRec, EachHolds, Tables
    <3>2. d \in ConnRec
      <4>1. SlotOK(i)'
        BY DEF EachHolds
      <4> HIDE DEF d
      <4>2. QED
        BY <3>1, <4>1 DEF SlotOK, IsLive, LiveState, Linked
    <3> HIDE DEF d
    <3>3. t = Contract!Quiet("closing")
      BY <3>1, <3>2, NotInUse
    <3>4. s.state = "connected"
      BY <1>3 DEF StatusOf
    <3>5. Allowed(s, t)
      <4> HIDE DEF s, t
      <4>1. QED
        BY <3>3, <3>4 DEF Allowed
    <3>6. \A q \in Pcbs \ {p} : pcb'[q] = pcb[q]
      BY <2>2 DEF EachHolds, Tables
    <3>7. QED
      BY <2>2, <3>5, <3>6, AnswerStep
  <2>5. QED
    BY <2>3, <2>4
<1>4. QED
  BY <1>1, <1>2, <1>3 DEF Write

\* A connection of which n bytes are taken goes on.
LEMMA TakeGoesOn ==
  ASSUME NEW i \in Slots, NEW n, NEW c, EachHolds, EachHolds',
         conn[i].state \in {"connected", "otherEndClosed"}, conn[i].pbTot # 0,
         n \in 1 .. Unread(conn[i]), c \in AfterRead(conn[i], n),
         conn' = [conn EXCEPT ![i] = Credited(c, n)],
         pcb' = [pcb EXCEPT ![c.ownPcb].rcvWnd = @ + Credit(c, n)]
  PROVE  \E q, d, b : /\ q = conn[i].ownPcb /\ conn' = [conn EXCEPT ![i] = d]
                      /\ pcb' = [pcb EXCEPT ![q] = b]
                      /\ GoesOn(conn[i], pcb[q], d, b)
<1> DEFINE p == conn[i].ownPcb
           b == [pcb[p] EXCEPT !.rcvWnd = @ + Credit(c, n)]
           d == Credited(c, n)
<1>1. /\ p \in Pcbs /\ Linked(i, conn[i], pcb[p])
      /\ conn[i] \in ConnRec /\ pcb[p] \in PcbRec
  BY LiveSlot DEF IsLive, LiveState
<1>2. Linked(i, d, b) /\ d.ownPcb = p /\ c.ownPcb = p
  BY <1>1, CreditedIsLinked
<1>3. /\ c = [conn[i] EXCEPT !.pbTot = c.pbTot, !.pbLen = c.pbLen,
                             !.readIndex = c.readIndex]
      /\ c.pbTot \in Nat /\ c.pbLen \in Nat /\ c.readIndex \in Nat
      /\ Unread(c) = Unread(conn[i]) - n
  BY <1>1, AfterReadMoves DEF Linked
<1>4. c.state = conn[i].state /\ c \in ConnRec
  BY <1>1, <1>3 DEF ConnRec
<1>5. /\ d.state = conn[i].state
      /\ d.pbTot = c.pbTot /\ d.readIndex = c.readIndex
  BY <1>4 DEF Credited, ConnRec
<1>6. d.pbTot - d.readIndex <= conn[i].pbTot - conn[i].readIndex
  BY <1>1, <1>3, <1>5 DEF Unread, ConnRec
<1>7. b.inFlight = pcb[p].inFlight
  BY <1>1 DEF PcbRec
<1>8. pcb' = [pcb EXCEPT ![p] = b] /\ conn' = [conn EXCEPT ![i] = d]
  BY <1>1, <1>2 DEF EachHolds, Tables
<1> HIDE DEF b, d
<1>9. PICK q : q = p
  OBVIOUS
<1>10. /\ q = conn[i].ownPcb /\ d.ownPcb = q /\ b.inFlight = pcb[q].inFlight
       /\ pcb' = [pcb EXCEPT ![q] = b]
  BY <1>2, <1>7, <1>8, <1>9
<1>11. GoesOn(conn[i], pcb[q], d, b)
  BY <1>5, <1>6, <1>10 DEF GoesOn
<1>12. QED
  BY <1>8, <1>10, <1>11

\* Read takes available data, if there is any.
LEMMA ReadAnswers ==
  ASSUME NEW i \in Slots, NEW length \in Nat, EachHolds, EachHolds',
         Read(i, length)
  PROVE  [Contract!Next]_Answers
<1> DEFINE n == Lesser(length, CanRead(conn[i]))
<1>1. CASE n = 0
  BY <1>1, SameAnswers DEF Read
<1>2. CASE n # 0
  <2>1. /\ conn[i].state \in {"connected", "otherEndClosed"}
        /\ conn[i].pbTot # 0 /\ CanRead(conn[i]) = Unread(conn[i])
    BY <1>2 DEF CanRead, Lesser
  <2>2. Linked(i, conn[i], pcb[conn[i].ownPcb])
    BY <2>1, LiveSlot DEF IsLive, LiveState
  <2>3. Unread(conn[i]) \in Nat
    BY <2>1, <2>2 DEF Unread, Linked, Shaped, ConnRec
  <2>4. n \in 1 .. Unread(conn[i])
    BY <1>2, <2>1, <2>3 DEF Lesser
  <2>5. PICK c \in AfterRead(conn[i], n) :
          /\ conn' = [conn EXCEPT ![i] = Credited(c, n)]
          /\ pcb' = [pcb EXCEPT ![c.ownPcb].rcvWnd = @ + Credit(c, n)]
    BY <1>2 DEF Read
  <2> HIDE DEF n
  <2>6. PICK m : m = n
    OBVIOUS
  <2>7. /\ m \in 1 .. Unread(conn[i]) /\ c \in AfterRead(conn[i], m)
        /\ conn' = [conn EXCEPT ![i] = Credited(c, m)]
        /\ pcb' = [pcb EXCEPT ![c.ownPcb].rcvWnd = @ + Credit(c, m)]
    BY <2>4, <2>5, <2>6
  <2>8. PICK q, d, b : /\ q = conn[i].ownPcb /\ conn' = [conn EXCEPT ![i] = d]
                       /\ pcb' = [pcb EXCEPT ![q] = b]
                       /\ GoesOn(conn[i], pcb[q], d, b)
    BY <2>1, <2>7, TakeGoesOn
  <2>9. QED
    BY <2>1, <2>8, InUseStep
<1>3. QED
  BY <1>1, <1>2

\* Poll aborts, frees, or does not show.
LEMMA PollAnswers ==
  ASSUME NEW i \in Slots, NEW t \in Nat, EachHolds, Poll(i, t)
  PROVE  [Contract!Next]_Answers
<1>1. CASE TimedOut(conn[i], t)
  <2>1. Terminate(i, FALSE) /\ IsLive(i)
    BY <1>1 DEF Poll, TimedOut, IsLive, LiveState
  <2>2. QED
    BY <2>1, TerminateAnswers
<1>2. CASE ~TimedOut(conn[i], t) /\ conn[i].state = "closeReady"
  BY <1>2, CloseAnswers DEF Poll
<1>3. CASE /\ ~TimedOut(conn[i], t)
           /\ conn[i].state = "closePending" /\ conn[i].unAcked = 0
  <2> DEFINE d == [conn[i] EXCEPT !.state = "closeReady"]
  <2>1. conn' = [conn EXCEPT ![i] = d] /\ UNCHANGED pcb
    BY <1>3 DEF Poll
  <2>2. d \in ConnRec /\ d.state = "closeReady"
    BY AnySlot DEF ConnRec, ConnState
  <2> HIDE DEF d
  <2>3. QED
    BY <1>3, <2>1, <2>2, ClosingStep
<1>4. CASE /\ ~TimedOut(conn[i], t) /\ conn[i].state # "closeReady"
           /\ ~(conn[i].state = "closePending" /\ conn[i].unAcked = 0)
  <2>1. UNCHANGED <<conn, pcb>>
    BY <1>4 DEF Poll
  <2>2. QED
    BY <2>1, SameAnswers
<1>5. QED
  BY <1>1, <1>2, <1>3, <1>4
-----------------------------------------------------------------------------
(* What the callbacks make of an answer.                                   *)

\* A connection that is in use goes on, or one that closes goes on closing.
LEMMA CallbackStep ==
  ASSUME NEW p \in Pcbs, NEW d \in ConnRec, NEW b, EachHolds, EachHolds',
         Registered(p),
         conn' = [conn EXCEPT ![pcb[p].arg] = d], pcb' = [pcb EXCEPT ![p] = b],
         conn[pcb[p].arg].state \in {"connected", "otherEndClosed"}
           => GoesOn(conn[pcb[p].arg], pcb[p], d, b),
         conn[pcb[p].arg].state \in {"closePending", "closeReady"}
           => d.state \in {"closePending", "closeReady"}
  PROVE  [Contract!Next]_Answers
<1>1. PICK i \in Slots : i = pcb[p].arg /\ IsLive(i) /\ conn[i].ownPcb = p
  BY CallbackSlot
<1>2. CASE conn[i].state \in {"connected", "otherEndClosed"}
  BY <1>1, <1>2, InUseStep
<1>3. CASE conn[i].state \in {"closePending", "closeReady"}
  <2>1. \A q \in Pcbs \ {p} : pcb'[q] = pcb[q]
    BY DEF EachHolds, Tables
  <2>2. QED
    BY <1>1, <1>3, <2>1, ClosingStep
<1>4. QED
  BY <1>1, <1>2, <1>3 DEF IsLive, LiveState

\* Received data can be read, unless the slot is being closed; after the other
\* end has closed there is none.
LEMMA ConnRecvAnswers ==
  ASSUME EachHolds, EachHolds', Ends, NEW p \in Pcbs, NEW len \in 1 .. TCP_WND,
         NEW first \in 1 .. len, ConnRecv(p, len, first)
  PROVE  [Contract!Next]_Answers
<1> DEFINE c == conn[pcb[p].arg]
           d == Received(c, len, first)
           b == [pcb[p] EXCEPT !.rcvWnd = @ - len]
<1>1. /\ Registered(p) /\ pcb[p].arg \in Slots /\ c.ownPcb = p
      /\ c \in ConnRec /\ pcb[p] \in PcbRec
  BY CallbackSlot DEF ConnRecv, Linked
<1>2. conn' = [conn EXCEPT ![pcb[p].arg] = d] /\ pcb' = [pcb EXCEPT ![p] = b]
  BY <1>1 DEF ConnRecv, EachHolds, Tables
<1>3. len \in Nat /\ first \in Nat
  BY Sizes
<1>4. /\ d \in ConnRec /\ d.ownPcb = c.ownPcb /\ d.state = c.state
      /\ b.inFlight = pcb[p].inFlight
  <2>1. b.inFlight = pcb[p].inFlight
    BY <1>1 DEF PcbRec
  <2>2. c.pbTot \in Nat /\ c.pbTot + len \in Nat
    BY <1>1, <1>3 DEF ConnRec
  <2> HIDE DEF c
  <2>3. CASE c.pbTot # 0
    BY <1>1, <2>1, <2>2, <2>3 DEF Received, ConnRec
  <2>4. CASE c.pbTot = 0
    BY <1>1, <1>3, <2>1, <2>4 DEF Received, ConnRec
  <2>5. QED
    BY <2>3, <2>4
<1>5. c.state # "otherEndClosed"
  <2>1. ~pcb[p].fin
    BY DEF ConnRecv
  <2>2. EndOK(pcb[p].arg)
    BY <1>1 DEF Ends
  <2>3. QED
    BY <1>1, <2>1, <2>2 DEF EndOK
<1> HIDE DEF d, b
<1>6. c.state \in {"connected", "otherEndClosed"} => GoesOn(c, pcb[p], d, b)
  BY <1>4, <1>5 DEF GoesOn
<1>7. c.state \in {"closePending", "closeReady"}
        => d.state \in {"closePending", "closeReady"}
  BY <1>4
<1> HIDE DEF c
<1>8. conn[pcb[p].arg] = c
  BY DEF c
<1>9. QED
  BY <1>1, <1>2, <1>4, <1>6, <1>7, <1>8, CallbackStep

\* An acknowledgement only makes room.
LEMMA ConnSentAnswers ==
  ASSUME EachHolds, EachHolds', NEW p \in Pcbs, NEW len \in Nat,
         ConnSent(p, len)
  PROVE  [Contract!Next]_Answers
<1> DEFINE c == conn[pcb[p].arg]
           d == Acknowledged(c, len)
           b == [pcb[p] EXCEPT !.inFlight = @ - len]
<1>1. /\ Registered(p) /\ pcb[p].arg \in Slots /\ c.ownPcb = p
      /\ c \in ConnRec /\ pcb[p] \in PcbRec
  BY CallbackSlot DEF ConnSent, Linked
<1>2. conn' = [conn EXCEPT ![pcb[p].arg] = d] /\ pcb' = [pcb EXCEPT ![p] = b]
  BY <1>1 DEF ConnSent, EachHolds, Tables
<1>3. /\ d \in ConnRec /\ d.ownPcb = c.ownPcb /\ d.state = c.state
      /\ d.pbTot = c.pbTot /\ d.readIndex = c.readIndex
  BY <1>1 DEF Acknowledged, ConnRec
<1> HIDE DEF d, b
<1>4. GoesOn(c, pcb[p], d, b)
  BY <1>3 DEF GoesOn
<1>5. c.state \in {"closePending", "closeReady"}
        => d.state \in {"closePending", "closeReady"}
  BY <1>3
<1>6. QED
  BY <1>1, <1>2, <1>3, <1>4, <1>5, CallbackStep

\* The other end closes: a connected slot shows it, and nothing else does.
LEMMA ConnRecvFinAnswers ==
  ASSUME EachHolds, EachHolds', NEW p \in Pcbs, ConnRecvFin(p)
  PROVE  [Contract!Next]_Answers
<1> DEFINE c == conn[pcb[p].arg]
           d == OtherEndClosed(c)
           b == [pcb[p] EXCEPT !.fin = TRUE]
<1>1. /\ Registered(p) /\ pcb[p].arg \in Slots /\ c.ownPcb = p
      /\ c \in ConnRec /\ pcb[p] \in PcbRec
      /\ Linked(pcb[p].arg, c, pcb[p])
  BY CallbackSlot DEF ConnRecvFin, Linked
<1>2. conn' = [conn EXCEPT ![pcb[p].arg] = d] /\ pcb' = [pcb EXCEPT ![p] = b]
  BY <1>1 DEF ConnRecvFin, EachHolds, Tables
<1>3. /\ d \in ConnRec /\ d.ownPcb = c.ownPcb
      /\ d.pbTot = c.pbTot /\ d.readIndex = c.readIndex
      /\ d.state = CASE c.state = "connected" -> "otherEndClosed"
                     [] c.state = "closePending" -> "closeReady"
                     [] OTHER -> c.state
      /\ b.inFlight = pcb[p].inFlight
  BY <1>1 DEF OtherEndClosed, ConnRec, ConnState, PcbRec
<1> HIDE DEF d, b
<1>4. CASE c.state = "connected"
  <2> DEFINE s == StatusOf(c, pcb[p])
             t == StatusOf(d, b)
  <2>1. d.state = "otherEndClosed"
    BY <1>3, <1>4
  <2>2. s.state = "connected"
    BY <1>4 DEF StatusOf
  <2>3. CanRead(d) = CanRead(c)
    BY <1>3, <1>4, <2>1 DEF CanRead, Unread
  <2>4. t = [s EXCEPT !.state = "otherEndClosed", !.room = 0]
    <3>1. /\ s = [state |-> s.state, avail |-> s.avail, room |-> s.room]
          /\ t = [state |-> t.state, avail |-> t.avail, room |-> t.room]
      BY DEF StatusOf
    <3>2. t.state = "otherEndClosed" /\ t.avail = s.avail /\ t.room = 0
      BY <2>1, <2>3 DEF StatusOf
    <3> HIDE DEF s, t
    <3>3. QED
      BY <3>1, <3>2
  <2>5. Allowed(s, t)
    <3> HIDE DEF s, t
    <3>1. QED
      BY <2>2, <2>4 DEF Allowed
  <2> HIDE DEF c
  <2>6. /\ pcb'[p] = b /\ \A q \in Pcbs \ {p} : pcb'[q] = pcb[q]
    BY <1>2 DEF EachHolds, Tables
  <2>7. d.ownPcb = p /\ c = conn[pcb[p].arg]
    BY <1>1, <1>3 DEF c
  <2>8. QED
    BY <1>1, <1>2, <2>5, <2>6, <2>7, AnswerStep
<1>5. CASE c.state # "connected"
  <2>1. c.state \in {"connected", "otherEndClosed"} => GoesOn(c, pcb[p], d, b)
    BY <1>3, <1>5 DEF GoesOn
  <2>2. c.state \in {"closePending", "closeReady"}
          => d.state \in {"closePending", "closeReady"}
    BY <1>3
  <2>3. QED
    BY <1>1, <1>2, <1>3, <2>1, <2>2, CallbackStep
<1>6. QED
  BY <1>4, <1>5

\* An error shows as an aborted socket.
LEMMA ConnErrorAnswers ==
  ASSUME EachHolds, NEW p \in Pcbs, ConnError(p)
  PROVE  [Contract!Next]_Answers
<1>1. PICK i \in Slots : /\ i = pcb[p].arg /\ IsLive(i) /\ conn[i].ownPcb = p
                         /\ conn[i] \in ConnRec
  BY CallbackSlot DEF ConnError, Linked
<1> DEFINE d == Failed(conn[i])
           s == StatusOf(conn[i], pcb[conn[i].ownPcb])
           t == StatusOf(d, pcb'[d.ownPcb])
<1>2. /\ conn' = [conn EXCEPT ![i] = d]
      /\ \A q \in Pcbs \ {p} : pcb'[q] = pcb[q]
  BY <1>1 DEF ConnError, TcpAbort
<1>3. t = Contract!Quiet("aborted")
  BY <1>1, EndedAnswers
<1>4. s.state \in {"connected", "otherEndClosed", "closing"}
  BY <1>1 DEF IsLive, LiveState, StatusOf
<1>5. Allowed(s, t)
  <2> HIDE DEF s, t
  <2>1. QED
    BY <1>3, <1>4 DEF Allowed
<1> HIDE DEF d
<1>6. QED
  BY <1>1, <1>2, <1>5, AnswerStep

\* A pcb that lwIP finishes closing belongs to no slot.
LEMMA LwipFinishAnswers ==
  ASSUME EachHolds, NEW p \in Pcbs, LwipFinish(p)
  PROVE  [Contract!Next]_Answers
<1>1. conn' = conn /\ \A q \in Pcbs \ {p} : pcb'[q] = pcb[q]
  BY DEF LwipFinish, TcpAbort
<1>2. ASSUME NEW i \in Slots PROVE GetStatus(i)' = GetStatus(i)
  <2>1. CASE conn[i].state = "connected"
    <3>1. conn[i].ownPcb \in Pcbs \ {p}
      BY <2>1, LiveSlot DEF Linked, LwipFinish, IsLive, LiveState
    <3>2. QED
      BY <1>1, <3>1 DEF GetStatus, CanWrite
  <2>2. CASE conn[i].state # "connected"
    BY <1>1, <2>2 DEF GetStatus, CanWrite
  <2>3. QED
    BY <2>1, <2>2
<1>3. QED
  BY <1>2 DEF Answers

\* A new connection: nothing to read, and the whole send buffer free.
LEMMA AcceptAnswers ==
  ASSUME EachHolds, NEW i \in FreeSlots, NEW p \in Pcbs, NEW port \in Ports,
         pcb[p].st = "unused", Accept(i, p, port)
  PROVE  [Contract!Next]_Answers
<1>1. i \in Slots /\ conn[i].state = "free" /\ Dead(conn[i])
  BY DEF FreeSlots, EachHolds, SlotOK, IsLive, LiveState
<1> DEFINE d == Accepted(conn[i], p, port)
           s == StatusOf(conn[i], pcb[conn[i].ownPcb])
           t == StatusOf(d, pcb'[d.ownPcb])
<1>2. /\ conn' = [conn EXCEPT ![i] = d]
      /\ pcb'[p].inFlight = 0
      /\ \A q \in Pcbs \ {p} : pcb'[q] = pcb[q]
  BY <1>1 DEF Accept, EachHolds, Tables
<1>3. /\ d.state = "connected" /\ d.ownPcb = p /\ d.pbTot = 0
  BY <1>1 DEF Accepted, ConnRec, Dead
<1>4. s.state = "free"
  BY <1>1 DEF StatusOf
<1> HIDE DEF d
<1>5. t = [state |-> "connected", avail |-> 0, room |-> TCP_SND_BUF]
  <2>1. TCP_SND_BUF - 0 = TCP_SND_BUF
    BY Sizes
  <2>2. QED
    BY <1>2, <1>3, <2>1 DEF StatusOf, CanRead
<1>6. Allowed(s, t)
  <2> HIDE DEF s, t
  <2>1. QED
    BY <1>4, <1>5 DEF Allowed
<1>7. p = conn[i].ownPcb \/ (p \in Pcbs /\ pcb[p].st # "open")
  OBVIOUS
<1>8. QED
  BY <1>1, <1>2, <1>6, <1>7, AnswerStep

\* networkStop gives back every socket.
LEMMA TerminateAllAnswers ==
  ASSUME EachHolds, TerminateAll
  PROVE  [Contract!Next]_Answers
<1>1. ASSUME NEW i \in Slots PROVE GetStatus(i)' = Contract!Quiet("free")
  <2>1. conn[i] \in ConnRec
    BY AnySlot
  <2>2. conn'[i] = Terminated(conn[i], TRUE)
    BY DEF TerminateAll
  <2>3. StatusOf(conn'[i], pcb'[conn'[i].ownPcb]) = Contract!Quiet("free")
    BY <2>1, <2>2, EndedAnswers
  <2>4. GetStatus(i)' = StatusOf(conn'[i], pcb'[conn'[i].ownPcb])
    BY DEF GetStatus, StatusOf, CanWrite
  <2>5. QED
    BY <2>3, <2>4
<1>2. Contract!Release(Slots)
  BY <1>1 DEF Contract!Release, Contract!Slots, Slots
<1>3. QED
  BY <1>2 DEF Contract!Next, Contract!Slots, Slots
-----------------------------------------------------------------------------
(* The refinement.                                                         *)

\* What lwIP does is a step of the contract.
LEMMA LwipEventAnswers ==
  ASSUME EachHolds, EachHolds', Ends, LwipEvent
  PROVE  [Contract!Next]_Answers
<1>1. PICK p \in Pcbs :
        \/ \E port \in Ports : AcceptNew(p, port)
        \/ \E len \in 1 .. TCP_WND : \E first \in 1 .. len :
             ConnRecv(p, len, first)
        \/ ConnRecvFin(p)
        \/ \E len \in 1 .. TCP_SND_BUF : ConnSent(p, len)
        \/ ConnError(p)
        \/ LwipFinish(p)
  BY DEF LwipEvent
<1>2. ASSUME NEW port \in Ports, AcceptNew(p, port)
      PROVE  [Contract!Next]_Answers
  <2>1. PICK i \in FreeSlots : Accept(i, p, port)
    BY <1>2 DEF AcceptNew, Allocate
  <2>2. pcb[p].st = "unused"
    BY <1>2 DEF AcceptNew
  <2>3. QED
    BY <2>1, <2>2, AcceptAnswers
<1>3. ASSUME NEW len \in 1 .. TCP_SND_BUF, ConnSent(p, len)
      PROVE  [Contract!Next]_Answers
  <2>1. len \in Nat
    BY Sizes
  <2>2. QED
    BY <1>3, <2>1, ConnSentAnswers
<1>4. ASSUME NEW len \in 1 .. TCP_WND, NEW first \in 1 .. len,
             ConnRecv(p, len, first)
      PROVE  [Contract!Next]_Answers
  BY <1>4, ConnRecvAnswers
<1>5. CASE ConnRecvFin(p)
  BY <1>5, ConnRecvFinAnswers
<1>6. CASE ConnError(p)
  BY <1>6, ConnErrorAnswers
<1>7. CASE LwipFinish(p)
  BY <1>7, LwipFinishAnswers
<1>8. QED
  BY <1>1, <1>2, <1>3, <1>4, <1>5, <1>6, <1>7

\* So is what a command does.
LEMMA SamCommandAnswers ==
  ASSUME EachHolds, EachHolds', SamCommand
  PROVE  [Contract!Next]_Answers
<1>1. now \in Nat
  BY Sizes DEF EachHolds, LoopOK
<1>2. CASE networkStop
  BY <1>2, TerminateAllAnswers DEF networkStop
<1>3. ASSUME NEW i \in Slots, connAbort(i) PROVE [Contract!Next]_Answers
  BY <1>3, TerminateAnswers DEF connAbort
<1>4. ASSUME NEW i \in Slots, connClose(i) PROVE [Contract!Next]_Answers
  BY <1>1, <1>4, CloseAnswers DEF connClose
<1>5. ASSUME NEW i \in Slots, NEW n \in 1 .. MaxDataLength, connRead(i, n)
      PROVE  [Contract!Next]_Answers
  <2>1. Lesser(n, MaxDataLength) \in Nat
    BY Sizes DEF Lesser
  <2>2. QED
    BY <1>5, <2>1, ReadAnswers DEF connRead
<1>6. ASSUME NEW i \in Slots, NEW n \in 0 .. MaxDataLength,
             NEW flagClose \in BOOLEAN, NEW ok \in BOOLEAN,
             connWrite(i, n, flagClose, ok)
      PROVE  [Contract!Next]_Answers
  <2> DEFINE acceptedLength == Lesser(CanWrite(i), Lesser(n, MaxDataLength))
             closeAfterSending == acceptedLength = n /\ flagClose
  <2>1. Write(i, acceptedLength, closeAfterSending, ok)
    BY <1>6 DEF connWrite
  <2>2. closeAfterSending \in BOOLEAN
    OBVIOUS
  <2>3. CanWrite(i) \in Nat
    <3>1. conn[i].state = "connected" => IsLive(i)
      BY DEF IsLive, LiveState
    <3>2. QED
      BY <3>1, LiveSlot, Sizes DEF CanWrite, Linked, PcbRec
  <2>4. acceptedLength \in Nat
    BY <2>3, Sizes DEF Lesser
  <2> HIDE DEF acceptedLength, closeAfterSending
  <2>5. QED
    BY <2>1, <2>2, <2>4, WriteAnswers
<1>7. QED
  BY <1>2, <1>3, <1>4, <1>5, <1>6 DEF SamCommand

\* And a pass through the loop.
LEMMA PollOneAnswers ==
  ASSUME EachHolds, NEW d \in 0 .. MaxLoopTime, PollOne(d)
  PROVE  [Contract!Next]_Answers
<1> DEFINE t == (now + d) % ClockMod
<1>1. t \in Nat
  BY Sizes DEF EachHolds, LoopOK
<1>2. Poll(nextConnectionToPoll, t) /\ nextConnectionToPoll \in Slots
  BY DEF PollOne, EachHolds, LoopOK
<1> HIDE DEF t
<1>3. QED
  BY <1>1, <1>2, PollAnswers

\* Every step maps to a step of the contract or leaves the answers alone.
LEMMA StepAnswers ==
  ASSUME EachHolds, EachHolds', Ends, [Next]_vars
  PROVE  [Contract!Next]_Answers
<1>1. CASE UNCHANGED vars
  BY <1>1, SameAnswers DEF vars
<1>2. CASE Next
  BY <1>2, LwipEventAnswers, SamCommandAnswers, PollOneAnswers DEF Next
<1>3. QED
  BY <1>1, <1>2

\* All sockets are free in the first state.
LEMMA InitAnswers == Init => Contract!Init
<1> SUFFICES ASSUME Init PROVE Contract!Init
  OBVIOUS
<1>1. ASSUME NEW i \in Slots PROVE GetStatus(i) = Contract!Quiet("free")
  BY DEF Init, NewConnection, GetStatus, CanRead, CanWrite, Contract!Quiet
<1>2. QED
  BY <1>1 DEF Contract!Init, Contract!Slots, Slots

\* connGetStatus only ever shows what SlotContract allows: every step of the
\* methods, the callbacks and the loop is a step of the contract for one socket
\* (for all of them after networkStop), or does not show at all.
THEOREM ImplementsSlotContract == Spec => ImplementsContract
<1>1. Init => Contract!Init
  BY InitAnswers
<1>2. EachHolds /\ Ends /\ (EachHolds /\ Ends)' /\ [Next]_vars
        => [Contract!Next]_Answers
  BY StepAnswers
<1>3. QED
  BY <1>1, <1>2, EndsHold, PTL
     DEF Spec, ImplementsContract, Contract!Spec, Answers

-----------------------------------------------------------------------------
(* Times.                                                                  *)

\* The times, and how far they are from the wrap of the clock.
LEMMA Times ==
  /\ MaxAckTime \in Nat \ {0} /\ MaxLoopTime \in Nat /\ MaxConnections \in Nat \ {0}
  /\ ClockMod \in Nat \ {0}
  /\ MaxAckTime + MaxConnections * MaxLoopTime <= ClockMod
BY SizesAssumption, TimesAssumption

\* What n passes can take at most.
LEMMA Passes ==
  ASSUME NEW n \in Nat
  PROVE  /\ n * MaxLoopTime \in Nat
         /\ (n + 1) * MaxLoopTime = n * MaxLoopTime + MaxLoopTime
         /\ \A k \in Nat : n <= k => n * MaxLoopTime <= k * MaxLoopTime
<1>1. MaxLoopTime \in Nat
  BY Times
<1> QED BY <1>1

-----------------------------------------------------------------------------
(* The invariant.                                                          *)

\* The number of polls of other slots since the last one of slot i, if it
\* has been polled at all.
Turns(i) ==
  IF nextConnectionToPoll > i
  THEN nextConnectionToPoll - i - 1
  ELSE nextConnectionToPoll + MaxConnections - 1 - i

AgeOK(i) ==
  /\ age[i] \in Nat
  /\ age[i] < MaxAckTime + Turns(i) * MaxLoopTime
  /\ conn[i].closeTimer \in 0 .. ClockMod - 1
  /\ Elapsed(now, conn[i].closeTimer) = age[i]

AgeInv == EachHolds /\ \A i \in Slots : Pending(i) => AgeOK(i)

\* Turns counts the slots but one.
LEMMA TurnsInRange ==
  ASSUME LoopOK, NEW i \in Slots
  PROVE  Turns(i) \in 0 .. MaxConnections - 1
BY Times DEF LoopOK, Slots, Turns

\* A pending close has less than one modulus behind it, also after one more
\* pass.
LEMMA AgeFits ==
  ASSUME AgeInv, NEW i \in Slots, Pending(i), NEW d \in 0 .. MaxLoopTime
  PROVE  /\ age[i] \in Nat /\ age[i] + d < ClockMod
         /\ age[i] < MaxAckTime + (MaxConnections - 1) * MaxLoopTime
         /\ Elapsed((now + d) % ClockMod, conn[i].closeTimer) = age[i] + d
<1>1. Turns(i) \in 0 .. MaxConnections - 1
  BY TurnsInRange DEF AgeInv, EachHolds
<1>2. AgeOK(i)
  BY DEF AgeInv
<1> DEFINE n == MaxConnections - 1
<1>3. n \in Nat /\ Turns(i) \in Nat /\ Turns(i) <= n /\ n + 1 = MaxConnections
  BY <1>1, Times
<1> HIDE DEF n
<1>4. /\ Turns(i) * MaxLoopTime \in Nat /\ n * MaxLoopTime \in Nat
      /\ Turns(i) * MaxLoopTime <= n * MaxLoopTime
      /\ MaxConnections * MaxLoopTime = n * MaxLoopTime + MaxLoopTime
  BY <1>3, Passes
<1>5. age[i] \in Nat /\ age[i] < MaxAckTime + n * MaxLoopTime
  BY <1>2, <1>4, Times DEF AgeOK
<1>6. age[i] + d < ClockMod
  BY <1>4, <1>5, Times
<1>7. Elapsed((now + d) % ClockMod, conn[i].closeTimer) = age[i] + d
  BY <1>2, <1>5, <1>6, DifferenceGrows, Times
     DEF AgeOK, AgeInv, EachHolds, LoopOK, Elapsed
<1> QED BY <1>5, <1>6, <1>7 DEF n

-----------------------------------------------------------------------------
(* How slots come to wait for a close: by commands only, which start the   *)
(* timer.                                                                  *)

\* A slot that does not wait afresh after the step.
Waits(i) ==
  Pending(i)' => Pending(i) /\ conn'[i].closeTimer = conn[i].closeTimer

\* Or one that does, with the timer started.
Starts(i) ==
  Pending(i)' => Waits(i) \/ (~Pending(i) /\ conn'[i].closeTimer = now)

\* A step on one slot.
LEMMA OneWaits ==
  ASSUME EachHolds, NEW i \in Slots, NEW c, conn' = [conn EXCEPT ![i] = c],
         c.state = "closePending" =>
           conn[i].state = "closePending" /\ c.closeTimer = conn[i].closeTimer
  PROVE  \A j \in Slots : Waits(j)
BY DEF Waits, Pending, EachHolds, Tables

\* Terminate leaves no slot waiting.
LEMMA TerminateWaits ==
  ASSUME EachHolds, NEW i \in Slots, NEW external \in BOOLEAN,
         Terminate(i, external)
  PROVE  \A j \in Slots : Waits(j)
<1>1. Terminated(conn[i], external).state # "closePending"
  BY AnySlot DEF Terminated, FreePbuf, ConnRec
<1> QED BY <1>1, OneWaits DEF Terminate

\* Close starts the timer at t, once.
LEMMA CloseWaits ==
  ASSUME EachHolds, NEW i \in Slots, NEW t, Close(i, t)
  PROVE  /\ \A j \in Slots :
              Waits(j) \/ (~Pending(j) /\ conn'[j].closeTimer = t)
         /\ conn[i].state # "connected" => \A j \in Slots : Waits(j)
<1>1. \A j \in Slots \ {i} : Waits(j)
  BY DEF Close, Waits, Pending, EachHolds, Tables
<1>2. conn[i].state = "connected" => ~Pending(i)
  BY DEF Pending
<1>3. CASE conn[i].state = "connected" /\ conn[i].unAcked # 0
  <2>1. conn'[i] = [conn[i] EXCEPT !.closeTimer = t, !.state = "closePending"]
    BY <1>3 DEF Close, EachHolds, Tables
  <2>2. conn'[i].closeTimer = t
    BY <2>1, AnySlot DEF ConnRec
  <2> QED BY <1>1, <1>2, <1>3, <2>2
<1>4. CASE conn[i].state = "closePending"
  <2>1. conn'[i] = conn[i]
    BY <1>4 DEF Close, EachHolds, Tables
  <2> QED BY <1>1, <2>1 DEF Waits, Pending
<1>5. CASE ~(conn[i].state = "connected" /\ conn[i].unAcked # 0)
           /\ conn[i].state # "closePending"
  <2>1. conn'[i] = Closed(conn[i])
    BY <1>5 DEF Close, EachHolds, Tables
  <2>2. conn'[i].state = "free"
    BY <2>1, AnySlot DEF Closed, FreePbuf, ConnRec
  <2> QED BY <1>1, <2>2 DEF Waits, Pending
<1> QED BY <1>3, <1>4, <1>5

\* So does a write that is to be the last one.
LEMMA WriteWaits ==
  ASSUME EachHolds, NEW i \in Slots, NEW length \in Nat,
         NEW closeAfterSending \in BOOLEAN, NEW ok \in BOOLEAN,
         Write(i, length, closeAfterSending, ok)
  PROVE  \A j \in Slots : Starts(j)
<1>1. CASE UNCHANGED <<conn, pcb>>
  BY <1>1 DEF Starts, Waits, Pending
<1>2. CASE Terminate(i, FALSE)
  BY <1>2, TerminateWaits DEF Starts
<1>3. CASE /\ conn[i].state = "connected"
           /\ conn' = [conn EXCEPT ![i] =
                         Written(@, length, closeAfterSending, now)]
  <2> DEFINE d == Written(conn[i], length, closeAfterSending, now)
  <2>1. conn'[i] = d /\ \A j \in Slots \ {i} : conn'[j] = conn[j]
    BY <1>3 DEF EachHolds, Tables
  <2>2. d.state = "closePending" => d.closeTimer = now
    BY <1>3, AnySlot DEF Written, ConnRec
  <2> HIDE DEF d
  <2> QED BY <1>3, <2>1, <2>2 DEF Starts, Waits, Pending
<1> QED BY <1>1, <1>2, <1>3 DEF Write

\* A read leaves the state and the timer alone.
LEMMA ReadWaits ==
  ASSUME EachHolds, NEW i \in Slots, NEW length \in Nat, Read(i, length)
  PROVE  \A j \in Slots : Waits(j)
<1> DEFINE n == Lesser(length, CanRead(conn[i]))
<1>1. CASE n = 0
  BY <1>1 DEF Read, Waits, Pending
<1>2. CASE n # 0
  <2>1. conn[i].state \in {"connected", "otherEndClosed"}
    BY <1>2 DEF CanRead, Lesser
  <2>2. PICK c \in AfterRead(conn[i], n) :
          conn' = [conn EXCEPT ![i] = Credited(c, n)]
    BY <1>2 DEF Read
  <2>3. /\ conn[i].pbTot # 0 /\ n \in 1 .. Unread(conn[i])
        /\ conn[i] \in ConnRec /\ Shaped(conn[i])
    <3>1. conn[i].pbTot # 0 /\ CanRead(conn[i]) = Unread(conn[i])
      BY <1>2 DEF CanRead, Lesser
    <3>2. /\ conn[i] \in ConnRec /\ Shaped(conn[i])
      BY <2>1, LiveSlot DEF IsLive, LiveState, Linked
    <3>3. Unread(conn[i]) \in Nat
      BY <3>1, <3>2 DEF Unread, Shaped, ConnRec
    <3> QED BY <1>2, <3>1, <3>2, <3>3 DEF Lesser
  <2> HIDE DEF n
  <2>4. c.state = conn[i].state /\ c \in ConnRec
    <3>1. /\ c = [conn[i] EXCEPT !.pbTot = c.pbTot, !.pbLen = c.pbLen,
                                 !.readIndex = c.readIndex]
          /\ c.pbTot \in Nat /\ c.pbLen \in Nat /\ c.readIndex \in Nat
      BY <2>2, <2>3, AfterReadMoves
    <3> QED BY <2>3, <3>1 DEF ConnRec
  <2>5. Credited(c, n).state = c.state
    BY <2>4 DEF Credited, ConnRec
  <2> QED BY <2>1, <2>2, <2>4, <2>5, OneWaits
<1> QED BY <1>1, <1>2

\* No callback makes a slot wait.
LEMMA LwipEventWaits ==
  ASSUME EachHolds, LwipEvent
  PROVE  \A j \in Slots : Waits(j)
<1>1. PICK p \in Pcbs :
        \/ \E port \in Ports : AcceptNew(p, port)
        \/ \E len \in 1 .. TCP_WND : \E first \in 1 .. len :
             ConnRecv(p, len, first)
        \/ ConnRecvFin(p)
        \/ \E len \in 1 .. TCP_SND_BUF : ConnSent(p, len)
        \/ ConnError(p)
        \/ LwipFinish(p)
  BY DEF LwipEvent
<1>2. Registered(p) => pcb[p].arg \in Slots /\ conn[pcb[p].arg] \in ConnRec
  BY AnySlot, CallbackSlot
<1>3. ASSUME NEW port \in Ports, AcceptNew(p, port)
      PROVE  \A j \in Slots : Waits(j)
  <2>1. PICK i \in Slots :
          conn' = [conn EXCEPT ![i] = Accepted(conn[i], p, port)]
    BY <1>3 DEF AcceptNew, Accept
  <2>2. Accepted(conn[i], p, port).state = "connected"
    BY AnySlot DEF Accepted, ConnRec
  <2> QED BY <2>1, <2>2, OneWaits
<1>4. ASSUME NEW len, NEW first, ConnRecv(p, len, first)
      PROVE  \A j \in Slots : Waits(j)
  <2> DEFINE c == conn[pcb[p].arg]
  <2>1. conn' = [conn EXCEPT ![pcb[p].arg] = Received(c, len, first)]
    BY <1>4 DEF ConnRecv
  <2>2. /\ Received(c, len, first).state = c.state
        /\ Received(c, len, first).closeTimer = c.closeTimer
    BY <1>2, <1>4 DEF ConnRecv, Received, ConnRec
  <2> QED BY <1>2, <1>4, <2>1, <2>2, OneWaits DEF ConnRecv
<1>5. CASE ConnRecvFin(p)
  <2> DEFINE c == conn[pcb[p].arg]
  <2>1. conn' = [conn EXCEPT ![pcb[p].arg] = OtherEndClosed(c)]
    BY <1>5 DEF ConnRecvFin
  <2>2. OtherEndClosed(c).state # "closePending"
    BY <1>2, <1>5 DEF ConnRecvFin, OtherEndClosed, ConnRec
  <2> QED BY <1>2, <1>5, <2>1, <2>2, OneWaits DEF ConnRecvFin
<1>6. ASSUME NEW len, ConnSent(p, len) PROVE \A j \in Slots : Waits(j)
  <2> DEFINE c == conn[pcb[p].arg]
  <2>1. conn' = [conn EXCEPT ![pcb[p].arg] = Acknowledged(c, len)]
    BY <1>6 DEF ConnSent
  <2>2. /\ Acknowledged(c, len).state = c.state
        /\ Acknowledged(c, len).closeTimer = c.closeTimer
    BY <1>2, <1>6 DEF ConnSent, Acknowledged, ConnRec
  <2> QED BY <1>2, <1>6, <2>1, <2>2, OneWaits DEF ConnSent
<1>7. CASE ConnError(p)
  <2> DEFINE c == conn[pcb[p].arg]
  <2>1. conn' = [conn EXCEPT ![pcb[p].arg] = Failed(c)]
    BY <1>7 DEF ConnError
  <2>2. Failed(c).state # "closePending"
    BY <1>2, <1>7 DEF ConnError, Failed, FreePbuf, ConnRec
  <2> QED BY <1>2, <1>7, <2>1, <2>2, OneWaits DEF ConnError
<1>8. CASE LwipFinish(p)
  BY <1>8 DEF LwipFinish, Waits, Pending
<1> QED BY <1>1, <1>3, <1>4, <1>5, <1>6, <1>7, <1>8

\* A command may, and has started the timer then.
LEMMA SamCommandWaits ==
  ASSUME EachHolds, SamCommand
  PROVE  \A j \in Slots : Starts(j)
<1>1. CASE networkStop
  <2>1. ASSUME NEW j \in Slots PROVE ~Pending(j)'
    <3>1. conn'[j] = Terminated(conn[j], TRUE)
      BY <1>1 DEF networkStop, TerminateAll
    <3> QED BY <3>1, AnySlot DEF Terminated, FreePbuf, ConnRec, Pending
  <2> QED BY <2>1 DEF Starts
<1>2. ASSUME NEW i \in Slots, connAbort(i) PROVE \A j \in Slots : Starts(j)
  BY <1>2, TerminateWaits DEF connAbort, Starts
<1>3. ASSUME NEW i \in Slots, connClose(i) PROVE \A j \in Slots : Starts(j)
  BY <1>3, CloseWaits DEF connClose, Starts
<1>4. ASSUME NEW i \in Slots, NEW n \in 1 .. MaxDataLength, connRead(i, n)
      PROVE  \A j \in Slots : Starts(j)
  <2>1. Lesser(n, MaxDataLength) \in Nat
    BY Sizes DEF Lesser
  <2> QED BY <1>4, <2>1, ReadWaits DEF connRead, Starts
<1>5. ASSUME NEW i \in Slots, NEW n \in 0 .. MaxDataLength,
             NEW flagClose \in BOOLEAN, NEW ok \in BOOLEAN,
             connWrite(i, n, flagClose, ok)
      PROVE  \A j \in Slots : Starts(j)
  <2> DEFINE acceptedLength == Lesser(CanWrite(i), Lesser(n, MaxDataLength))
             closeAfterSending == acceptedLength = n /\ flagClose
  <2>1. Write(i, acceptedLength, closeAfterSending, ok)
    BY <1>5 DEF connWrite
  <2>2. closeAfterSending \in BOOLEAN
    OBVIOUS
  <2>3. CanWrite(i) \in Nat
    <3>1. conn[i].state = "connected" => IsLive(i)
      BY DEF IsLive, LiveState
    <3> QED BY <3>1, LiveSlot, Sizes DEF CanWrite, Linked, PcbRec
  <2>4. acceptedLength \in Nat
    BY <2>3, Sizes DEF Lesser
  <2> HIDE DEF acceptedLength, closeAfterSending
  <2> QED BY <2>1, <2>2, <2>4, WriteWaits
<1> QED BY <1>1, <1>2, <1>3, <1>4, <1>5 DEF SamCommand

\* A poll starts no timer, and the slot it is called on only goes on waiting
\* if its time is not over.
LEMMA PollWaits ==
  ASSUME EachHolds, NEW i \in Slots, NEW t, Poll(i, t)
  PROVE  /\ \A j \in Slots : Waits(j)
         /\ Pending(i)' => ~(Elapsed(t, conn[i].closeTimer) >= MaxAckTime)
         /\ \A j \in Slots :
              Pending(j) /\ conn'[j].state = "aborted" =>
                j = i /\ Elapsed(t, conn[i].closeTimer) >= MaxAckTime
<1>1. CASE TimedOut(conn[i], t)
  <2>1. Terminate(i, FALSE)
    BY <1>1 DEF Poll, TimedOut
  <2>2. conn'[i] = Terminated(conn[i], FALSE)
        /\ \A j \in Slots \ {i} : conn'[j] = conn[j]
    BY <2>1 DEF Terminate, EachHolds, Tables
  <2>3. conn'[i].state = "aborted"
    BY <2>2, AnySlot DEF Terminated, FreePbuf, ConnRec
  <2> QED BY <1>1, <2>1, <2>2, <2>3, TerminateWaits DEF TimedOut, Pending
<1>2. CASE ~TimedOut(conn[i], t) /\ conn[i].state = "closeReady"
  <2>1. Close(i, t)
    BY <1>2 DEF Poll
  <2>2. conn'[i] = Closed(conn[i])
        /\ \A j \in Slots \ {i} : conn'[j] = conn[j]
    BY <1>2, <2>1 DEF Close, EachHolds, Tables
  <2>3. conn'[i].state = "free"
    BY <2>2, AnySlot DEF Closed, FreePbuf, ConnRec
  <2> QED BY <2>2, <2>3 DEF Waits, Pending
<1>3. CASE /\ ~TimedOut(conn[i], t)
           /\ conn[i].state = "closePending" /\ conn[i].unAcked = 0
  <2>1. conn'[i] = [conn[i] EXCEPT !.state = "closeReady"]
        /\ \A j \in Slots \ {i} : conn'[j] = conn[j]
    BY <1>3 DEF Poll, EachHolds, Tables
  <2>2. conn'[i].state = "closeReady"
    BY <2>1, AnySlot DEF ConnRec
  <2> QED BY <2>1, <2>2 DEF Waits, Pending
<1>4. CASE /\ ~TimedOut(conn[i], t) /\ conn[i].state # "closeReady"
           /\ ~(conn[i].state = "closePending" /\ conn[i].unAcked = 0)
  <2>1. conn' = conn
    BY <1>4 DEF Poll
  <2> QED BY <1>4, <2>1 DEF TimedOut, Waits, Pending
<1> QED BY <1>1, <1>2, <1>3, <1>4

-----------------------------------------------------------------------------
(* Every step keeps the invariant.                                         *)

\* Without time and polls.
LEMMA EventKeepsAges ==
  ASSUME AgeInv, EachHolds', LwipEvent \/ SamCommand, Grow(0)
  PROVE  AgeInv'
<1>1. UNCHANGED <<now, nextConnectionToPoll>>
  BY DEF LwipEvent, AcceptNew, ConnRecv, ConnRecvFin, ConnSent, ConnError,
     LwipFinish, SamCommand, networkStop, connAbort, connClose, connRead,
     connWrite, SamVars
<1>2. \A i \in Slots : Starts(i)
  BY LwipEventWaits, SamCommandWaits DEF AgeInv, Starts
<1> SUFFICES ASSUME NEW i \in Slots, Pending(i)' PROVE AgeOK(i)'
  BY DEF AgeInv
<1>3. Turns(i)' = Turns(i)
  BY <1>1 DEF Turns
<1>4. CASE Waits(i)
  <2>1. Pending(i) /\ conn'[i].closeTimer = conn[i].closeTimer
    BY <1>4 DEF Waits
  <2>2. AgeOK(i)
    BY <2>1 DEF AgeInv
  <2>3. age'[i] = age[i]
    BY <2>1, <2>2 DEF Grow, AgeOK
  <2>4. Elapsed(now, conn[i].closeTimer)' = Elapsed(now, conn[i].closeTimer)
    BY <1>1, <2>1 DEF Elapsed
  <2> QED BY <1>3, <2>1, <2>2, <2>3, <2>4 DEF AgeOK
<1>5. CASE ~Pending(i) /\ conn'[i].closeTimer = now
  <2>1. age'[i] = 0
    BY <1>5 DEF Grow
  <2>2. now \in 0 .. ClockMod - 1
    BY DEF AgeInv, EachHolds, LoopOK
  <2>3. Elapsed(now, now) = 0
    BY <2>2, Difference, Times DEF Elapsed
  <2>4. Elapsed(now, conn[i].closeTimer)' = 0
    BY <1>1, <1>5, <2>3 DEF Elapsed
  <2>5. Turns(i)' \in Nat
    BY <1>3, TurnsInRange DEF AgeInv, EachHolds
  <2>6. 0 < MaxAckTime + Turns(i)' * MaxLoopTime
    BY <2>5, Passes, Times
  <2> QED BY <1>5, <2>1, <2>2, <2>4, <2>6 DEF AgeOK
<1> QED BY <1>2, <1>4, <1>5 DEF Starts

\* A pass of d ms.
LEMMA PollKeepsAges ==
  ASSUME AgeInv, EachHolds', NEW d \in 0 .. MaxLoopTime, PollOne(d), Grow(d)
  PROVE  AgeInv'
<1>0. PICK k \in Slots : k = nextConnectionToPoll
  BY DEF AgeInv, EachHolds, LoopOK
<1> DEFINE t == (now + d) % ClockMod
<1>1. /\ now' = t /\ Poll(k, t) /\ EachHolds
      /\ nextConnectionToPoll = k /\ nextConnectionToPoll' = NextSlot(k)
  BY <1>0 DEF PollOne, AgeInv
<1> HIDE DEF t
<1>2. /\ \A j \in Slots : Waits(j)
      /\ Pending(k)' => ~(Elapsed(t, conn[k].closeTimer) >= MaxAckTime)
  BY <1>1, PollWaits
<1> SUFFICES ASSUME NEW i \in Slots, Pending(i)' PROVE AgeOK(i)'
  BY <1>1 DEF AgeInv
<1>3. Pending(i) /\ conn'[i].closeTimer = conn[i].closeTimer
  BY <1>2 DEF Waits
<1>4. AgeOK(i) /\ age[i] \in Nat
  BY <1>3 DEF AgeInv, AgeOK
<1>5. age'[i] = age[i] + d
  BY <1>3 DEF Grow
<1>6. Elapsed(t, conn[i].closeTimer) = age[i] + d
  BY <1>3, AgeFits DEF t
<1>7. Elapsed(now, conn[i].closeTimer)' = age'[i]
  BY <1>1, <1>3, <1>5, <1>6 DEF Elapsed
<1>8. age'[i] < MaxAckTime + Turns(i)' * MaxLoopTime
  <2>1. CASE i = k
    <3>1. age'[i] < MaxAckTime
      BY <1>2, <1>4, <1>5, <1>6, <2>1, Times
    <3>2. Turns(i)' = 0
      BY <1>1, <2>1, Times DEF Turns, NextSlot, Slots
    <3>3. Turns(i)' * MaxLoopTime \in Nat
      BY <3>2, Passes
    <3> QED BY <1>4, <1>5, <3>1, <3>3, Times
  <2>2. CASE i # k
    <3>1. Turns(i)' = Turns(i) + 1 /\ Turns(i) \in Nat
      BY <1>1, <2>2, Times DEF Turns, NextSlot, Slots
    <3>2. /\ Turns(i)' * MaxLoopTime = Turns(i) * MaxLoopTime + MaxLoopTime
          /\ Turns(i) * MaxLoopTime \in Nat
      BY <3>1, Passes
    <3> QED BY <1>4, <1>5, <3>2, Times DEF AgeOK
  <2> QED BY <2>1, <2>2
<1> QED BY <1>3, <1>4, <1>5, <1>7, <1>8 DEF AgeOK

\* Nothing waits in the first state.
LEMMA InitAges == AgeInit => AgeInv
<1> SUFFICES ASSUME AgeInit PROVE AgeInv
  OBVIOUS
<1>1. EachHolds
  BY InitIInv, IInvEachHolds DEF AgeInit
<1>2. \A i \in Slots : ~Pending(i)
  BY DEF AgeInit, Init, NewConnection, Pending
<1> QED BY <1>1, <1>2 DEF AgeInv

\* Every step, or stutter.
LEMMA NextAges == AgeInv /\ [AgeNext]_avars => AgeInv'
<1> SUFFICES ASSUME AgeInv, [AgeNext]_avars PROVE AgeInv'
  OBVIOUS
<1>1. CASE UNCHANGED avars
  <2>1. EachHolds'
    BY <1>1, NextEachHolds DEF AgeInv, avars, vars
  <2> QED BY <1>1, <2>1 DEF avars, AgeInv, Pending, AgeOK, Turns, Elapsed
<1>2. CASE AgeNext
  <2>1. Next
    BY <1>2 DEF AgeNext, Next
  <2>2. EachHolds'
    BY <2>1, NextEachHolds DEF AgeInv
  <2> QED BY <1>2, <2>2, EventKeepsAges, PollKeepsAges DEF AgeNext
<1> QED BY <1>1, <1>2

\* The invariant holds in every reachable state.
LEMMA AgesHold == AgeSpec => []AgeInv
BY InitAges, NextAges, PTL DEF AgeSpec

\* A pending close is settled in time, in whatever order the slots are used
\* and wherever millis() wraps around.
THEOREM ClosesInTime == AgeSpec => []CloseBounded
<1>1. AgeInv => CloseBounded
  <2>1. 0 \in 0 .. MaxLoopTime
    BY Times
  <2> QED BY <2>1, AgeFits DEF CloseBounded
<1> QED BY <1>1, AgesHold, PTL

\* What NotAbortedEarly says of one step.
AbortsInTime ==
  \A i \in Slots : \A d \in 0 .. MaxLoopTime :
    Pending(i) /\ conn'[i].state = "aborted" /\ PollOne(d)
      => age[i] + d >= MaxAckTime

\* And it is given its time.
THEOREM AbortsNotEarly == AgeSpec => NotAbortedEarly
<1>1. ASSUME AgeInv, NEW i \in Slots, NEW d \in 0 .. MaxLoopTime,
             Pending(i), conn'[i].state = "aborted", PollOne(d)
      PROVE  age[i] + d >= MaxAckTime
  <2> DEFINE k == nextConnectionToPoll
             t == (now + d) % ClockMod
  <2>1. EachHolds /\ k \in Slots /\ Poll(k, t)
    BY <1>1 DEF PollOne, AgeInv, EachHolds, LoopOK
  <2>2. Elapsed(t, conn[i].closeTimer) >= MaxAckTime
    <3> HIDE DEF t
    <3> QED BY <1>1, <2>1, PollWaits
  <2> QED BY <1>1, <2>2, AgeFits
<1>2. AgeInv /\ [AgeNext]_avars => [AbortsInTime]_avars
  BY <1>1 DEF AbortsInTime
<1> QED BY <1>2, AgesHold, PTL DEF AgeSpec, NotAbortedEarly, AbortsInTime

\* The history variable adds no step, so what holds without it holds with it.
THEOREM AgeIsConnection == AgeSpec => Spec
<1>1. AgeInit => Init
  BY DEF AgeInit
<1>2. [AgeNext]_avars => [Next]_vars
  BY DEF AgeNext, Next, avars, vars
<1> QED BY <1>1, <1>2, PTL DEF AgeSpec, Spec
=============================================================================
