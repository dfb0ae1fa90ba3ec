-------------------------- MODULE ConnectionProofs --------------------------
(***************************************************************************)
(* The invariants of Connection hold for any number of slots and pcbs and  *)
(* any window, buffer and timer sizes.  None of them is inductive alone:   *)
(* that a callback finds its slot needs PcbOwnership, Accept needs         *)
(* NoBufferLeak to start with a full window, Read needs ChainShape.  Their *)
(* conjunction IInv is.                                                    *)
(***************************************************************************)
EXTENDS Connection, TLAPS

\* The inductive invariant.
IInv == /\ TypeOK
        /\ PcbOwnership
        /\ NoBufferLeak
        /\ ChainShape
        /\ WindowConserved
        /\ AckAccounting
        /\ WriteFits

\* What IInv says of a slot that stands for no connection.
Dead(c) == /\ c \in ConnRec
           /\ c.state \notin LiveState
           /\ c.ownPcb = NoPcb
           /\ c.pbTot = 0

\* What IInv says of the slot i of a connection, and of its pcb.
Shaped(c) == IF c.pbTot = 0
             THEN c.readIndex = 0 /\ c.alreadyRead = 0
             ELSE c.readIndex < c.pbLen /\ c.pbLen <= c.pbTot

Linked(i, c, r) == /\ c \in ConnRec
                   /\ r \in PcbRec
                   /\ c.state \in LiveState
                   /\ r.st = "open"
                   /\ r.arg = i
                   /\ Shaped(c)
                   /\ r.rcvWnd + c.alreadyRead + (c.pbTot - c.readIndex) = TCP_WND
                   /\ c.unAcked = r.inFlight
                   /\ c.unAcked <= TCP_SND_BUF

\* The variables no slot shares.
LoopOK == nextConnectionToPoll \in Slots /\ now \in 0 .. ClockMod - 1

\* IInv, slot by slot and pcb by pcb.
SlotOK(i) == IF IsLive(i)
             THEN /\ conn[i].ownPcb \in Pcbs
                  /\ Linked(i, conn[i], pcb[conn[i].ownPcb])
             ELSE Dead(conn[i])

PcbOK(p) == /\ pcb[p] \in PcbRec
            /\ pcb[p].st = "open" => Registered(p)
            /\ Registered(p) => conn[pcb[p].arg].ownPcb = p

Tables == conn = [i \in Slots |-> conn[i]] /\ pcb = [p \in Pcbs |-> pcb[p]]

EachHolds == /\ LoopOK
             /\ Tables
             /\ \A i \in Slots : SlotOK(i)
             /\ \A p \in Pcbs : PcbOK(p)

\* IInv, written slot by slot and pcb by pcb, is what the steps preserve.
LEMMA IInvEachHolds == IInv <=> EachHolds
<1>1. ASSUME IInv PROVE EachHolds
  <2> USE <1>1 DEF IInv, TypeOK
  <2>1. ASSUME NEW i \in Slots PROVE SlotOK(i)
    <3>1. conn[i] \in ConnRec
      OBVIOUS
    <3>2. CASE IsLive(i)
      <4>1. conn[i].ownPcb \in Pcbs /\ pcb[conn[i].ownPcb] \in PcbRec
        BY <3>2 DEF PcbOwnership
      <4>2. QED
        BY <3>1, <3>2, <4>1 DEF SlotOK, Linked, Shaped, IsLive, Unread, PcbOwnership,
           ChainShape, WindowConserved, AckAccounting, WriteFits
    <3>3. CASE ~IsLive(i)
      BY <3>1, <3>3 DEF SlotOK, Dead, IsLive, PcbOwnership, NoBufferLeak
    <3>4. QED
      BY <3>2, <3>3
  <2>2. ASSUME NEW p \in Pcbs PROVE PcbOK(p)
    BY DEF PcbOwnership, PcbOK
  <2>3. QED
    BY <2>1, <2>2 DEF EachHolds, Tables, LoopOK
<1>2. ASSUME EachHolds PROVE IInv
  <2> USE <1>2 DEF EachHolds, Tables
  <2>1. \A i \in Slots : conn[i] \in ConnRec
    BY DEF SlotOK, Linked, Dead
  <2>2. TypeOK
    BY <2>1 DEF TypeOK, LoopOK, PcbOK
  <2>3. PcbOwnership
    BY DEF PcbOwnership, SlotOK, PcbOK, Linked, Dead
  <2>4. NoBufferLeak
    BY DEF NoBufferLeak, SlotOK, Dead
  <2>5. ChainShape
    BY DEF ChainShape, SlotOK, Linked, Shaped
  <2>6. WindowConserved /\ AckAccounting /\ WriteFits
    BY DEF WindowConserved, AckAccounting, WriteFits, Unread, SlotOK, Linked
  <2>7. QED
    BY <2>2, <2>3, <2>4, <2>5, <2>6 DEF IInv
<1>3. QED
  BY <1>1, <1>2
-----------------------------------------------------------------------------
(* The three ways a step changes the table.                                *)

\* Only the loop's own variables change.
LEMMA NothingMoves ==
  ASSUME EachHolds, LoopOK', UNCHANGED <<conn, pcb>>
  PROVE  EachHolds'
BY DEF EachHolds, Tables, SlotOK, PcbOK, IsLive, Registered

\* Slot i and its pcb p change and still belong together, or are now joined:
\* no other slot uses p, since the callbacks of p lead to one slot only.
LEMMA LinkOne ==
  ASSUME EachHolds, LoopOK',
         NEW i \in Slots, NEW p \in Pcbs, NEW c, NEW r,
         IF IsLive(i) THEN conn[i].ownPcb = p ELSE pcb[p].st # "open",
         Linked(i, c, r), c.ownPcb = p,
         conn' = [conn EXCEPT ![i] = c],
         pcb' = [pcb EXCEPT ![p] = r]
  PROVE  EachHolds'
<1>1. conn' = [j \in Slots |-> conn'[j]] /\ pcb' = [q \in Pcbs |-> pcb'[q]]
  BY DEF EachHolds, Tables
<1>2. conn'[i] = c /\ pcb'[p] = r
  BY DEF EachHolds, Tables
<1>3. ASSUME NEW j \in Slots PROVE SlotOK(j)'
  <2>1. CASE j = i
    BY <1>2, <2>1 DEF SlotOK, IsLive, Linked
  <2>2. CASE j # i
    <3>1. conn'[j] = conn[j] /\ SlotOK(j)
      BY <2>2 DEF EachHolds, Tables
    <3>2. CASE IsLive(j)
      <4>1. conn[j].ownPcb # p
        BY <2>2, <3>1, <3>2 DEF SlotOK, Linked, EachHolds, Tables
      <4>2. pcb'[conn[j].ownPcb] = pcb[conn[j].ownPcb]
        BY <3>1, <3>2, <4>1 DEF SlotOK, EachHolds, Tables
      <4>3. QED
        BY <3>1, <3>2, <4>2 DEF SlotOK, IsLive
    <3>3. CASE ~IsLive(j)
      BY <3>1, <3>3 DEF SlotOK, IsLive
    <3>4. QED
      BY <3>2, <3>3
  <2>3. QED
    BY <2>1, <2>2
<1>4. ASSUME NEW q \in Pcbs PROVE PcbOK(q)'
  <2>1. CASE q = p
    BY <1>2, <2>1 DEF PcbOK, Linked, Registered
  <2>2. CASE q # p
    <3>1. pcb'[q] = pcb[q] /\ PcbOK(q)
      BY <2>2 DEF EachHolds, Tables
    <3>2. CASE Registered(q)
      <4>1. pcb[q].arg \in Slots /\ conn[pcb[q].arg].ownPcb = q
        BY <3>1, <3>2 DEF PcbOK, Registered
      <4>2. pcb[q].arg # i
        <5>1. CASE IsLive(i)
          BY <2>2, <4>1, <5>1
        <5>2. CASE ~IsLive(i)
          BY <4>1, <5>2, SizesAssumption DEF EachHolds, Tables, SlotOK, Dead
        <5>3. QED
          BY <5>1, <5>2
      <4>3. conn'[pcb[q].arg] = conn[pcb[q].arg]
        BY <4>1, <4>2 DEF EachHolds, Tables
      <4>4. QED
        BY <3>1, <4>1, <4>3 DEF PcbOK, Registered
    <3>3. CASE ~Registered(q)
      BY <3>1, <3>3 DEF PcbOK, Registered
    <3>4. QED
      BY <3>2, <3>3
  <2>3. QED
    BY <2>1, <2>2
<1>5. QED
  BY <1>1, <1>3, <1>4 DEF EachHolds, Tables

\* The callbacks of a pcb lead to one slot, so no two slots share a pcb.
LEMMA PcbsNotShared ==
  ASSUME EachHolds, NEW i \in Slots, NEW j \in Slots, IsLive(j),
         conn[i].ownPcb = conn[j].ownPcb
  PROVE  i = j
<1>1. SlotOK(i) /\ SlotOK(j) /\ conn[j].ownPcb \in Pcbs
  BY DEF EachHolds, Tables, SlotOK
<1>2. IsLive(i)
  BY <1>1, SizesAssumption DEF SlotOK, Dead
<1>3. QED
  BY <1>1, <1>2 DEF SlotOK, Linked

\* The slots of S and the pcbs of D are given up, none of them without its
\* partner.
LEMMA GiveUp ==
  ASSUME EachHolds, LoopOK',
         NEW S \in SUBSET Slots, NEW st \in {"unused", "closing"}, NEW D,
         \A j \in Slots \ S : IsLive(j) => conn[j].ownPcb \notin D,
         \A q \in Pcbs \ D : Registered(q) => pcb[q].arg \notin S,
         Tables',
         \A i \in S : Dead(conn'[i]),
         \A i \in Slots \ S : conn'[i] = conn[i],
         \A q \in Pcbs : pcb'[q] = IF q \in D THEN IdlePcb(st) ELSE pcb[q]
  PROVE  EachHolds'
<1>1. ASSUME NEW j \in Slots PROVE SlotOK(j)'
  <2>1. CASE j \in S
    BY <2>1 DEF SlotOK, Dead, IsLive
  <2>2. CASE j \notin S /\ IsLive(j)
    <3>1. SlotOK(j) /\ conn'[j] = conn[j] /\ conn[j].ownPcb \notin D
      BY <2>2 DEF EachHolds, Tables
    <3>2. pcb'[conn[j].ownPcb] = pcb[conn[j].ownPcb]
      BY <2>2, <3>1 DEF SlotOK
    <3>3. QED
      BY <2>2, <3>1, <3>2 DEF SlotOK, IsLive
  <2>3. CASE j \notin S /\ ~IsLive(j)
    BY <2>3 DEF EachHolds, Tables, SlotOK, IsLive
  <2>4. QED
    BY <2>1, <2>2, <2>3
<1>2. ASSUME NEW q \in Pcbs PROVE PcbOK(q)'
  <2>1. CASE q \in D
    <3>1. pcb'[q] = IdlePcb(st)
      BY <2>1
    <3>2. /\ IdlePcb(st) \in PcbRec /\ IdlePcb(st).st # "open"
          /\ IdlePcb(st).arg = NoSlot /\ NoSlot \notin Slots
      BY DEF IdlePcb, PcbRec, NoSlot, Slots
    <3>3. QED
      BY <3>1, <3>2 DEF PcbOK, Registered
  <2>2. CASE q \notin D
    <3>1. pcb'[q] = pcb[q] /\ PcbOK(q)
      BY <2>2 DEF EachHolds, Tables
    <3>2. ASSUME Registered(q)
          PROVE pcb[q].arg \in Slots /\ conn'[pcb[q].arg].ownPcb = q
      BY <2>2, <3>1, <3>2 DEF PcbOK, Registered
    <3>3. QED
      BY <3>1, <3>2 DEF PcbOK, Registered
  <2>3. QED
    BY <2>1, <2>2
<1>3. QED
  BY <1>1, <1>2 DEF EachHolds, Tables

\* One slot ends, and its pcb, if it has one, goes to state st.
LEMMA OneEnds ==
  ASSUME EachHolds, LoopOK',
         NEW i \in Slots, NEW st \in {"unused", "closing"}, NEW c, Dead(c),
         conn' = [conn EXCEPT ![i] = c],
         pcb' = [q \in Pcbs |-> IF q = conn[i].ownPcb THEN IdlePcb(st)
                                ELSE pcb[q]]
  PROVE  EachHolds'
<1> DEFINE S == {i}
           D == {conn[i].ownPcb}
<1>1. /\ S \in SUBSET Slots /\ \A j \in S : Dead(conn'[j])
      /\ \A j \in Slots \ S : conn'[j] = conn[j]
      /\ \A q \in Pcbs : pcb'[q] = IF q \in D THEN IdlePcb(st) ELSE pcb[q]
      /\ Tables'
  BY DEF EachHolds, Tables
<1>2. \A j \in Slots \ S : IsLive(j) => conn[j].ownPcb \notin D
  BY PcbsNotShared
<1>3. \A q \in Pcbs \ D : Registered(q) => pcb[q].arg \notin S
  BY DEF EachHolds, Tables, PcbOK, Registered
<1> HIDE DEF S, D
<1>4. QED
  BY <1>1, <1>2, <1>3, GiveUp

-----------------------------------------------------------------------------
(* What the methods make of a Connection object.                           *)

\* A connection that ends leaves its object without pcb and without data.
LEMMA EndedIsDead ==
  ASSUME NEW c \in ConnRec
  PROVE  /\ \A external \in BOOLEAN : Dead(Terminated(c, external))
         /\ Dead(Closed(c))
         /\ Dead(Failed(c))
BY DEF Dead, Terminated, Closed, Failed, FreePbuf, ConnRec, ConnState, LiveState

\* The buffer sizes are natural numbers.
LEMMA Sizes == /\ {TCP_MSS, TCP_WND, TCP_SND_BUF} \subseteq Nat
               /\ ClockMod \in Nat \ {0} /\ MaxConnections \in Nat \ {0}
               /\ MaxLoopTime \in Nat /\ MaxDataLength \in Nat
BY SizesAssumption, TimesAssumption

\* A new connection starts with the whole window open and nothing sent.
LEMMA AcceptedIsLinked ==
  ASSUME NEW i \in Slots, NEW c, Dead(c), NEW p \in Pcbs, NEW port \in Ports
  PROVE  /\ Linked(i, Accepted(c, p, port),
                   [st |-> "open", arg |-> i, inFlight |-> 0,
                    rcvWnd |-> TCP_WND, fin |-> FALSE])
         /\ Accepted(c, p, port).ownPcb = p
<1> DEFINE a == Accepted(c, p, port)
<1>1. /\ a.state = "connected" /\ a.ownPcb = p /\ a.pbTot = 0 /\ a.unAcked = 0
      /\ a.readIndex = 0 /\ a.alreadyRead = 0
  BY DEF Dead, Accepted, ConnRec
<1>2. a \in ConnRec
  BY DEF Dead, Accepted, ConnRec, ConnState
<1>3. TCP_WND \in Nat /\ TCP_SND_BUF \in Nat
  BY Sizes
<1>4. [st |-> "open", arg |-> i, inFlight |-> 0, rcvWnd |-> TCP_WND,
       fin |-> FALSE] \in PcbRec
  BY <1>3 DEF PcbRec
<1>5. QED
  BY <1>1, <1>2, <1>3, <1>4 DEF Linked, Shaped, LiveState

\* Bytes that arrive move from the open window into the chain, and a new chain
\* starts with nothing read.
LEMMA ReceivedIsLinked ==
  ASSUME NEW i \in Slots, NEW c, NEW r, Linked(i, c, r),
         NEW len \in 1 .. r.rcvWnd, NEW first \in 1 .. len
  PROVE  /\ Linked(i, Received(c, len, first), [r EXCEPT !.rcvWnd = @ - len])
         /\ Received(c, len, first).ownPcb = c.ownPcb
<1>1. /\ len \in Nat /\ len > 0 /\ first \in Nat /\ first > 0 /\ first <= len
      /\ len <= r.rcvWnd /\ r.rcvWnd \in Nat
  BY DEF Linked, PcbRec
<1>2. CASE c.pbTot # 0
  <2>1. Received(c, len, first) = [c EXCEPT !.pbTot = c.pbTot + len]
    BY <1>2 DEF Received
  <2>2. c.pbTot \in Nat /\ c.pbLen \in Nat /\ c.readIndex \in Nat
    BY DEF Linked, ConnRec
  <2>3. QED
    BY <1>1, <1>2, <2>1, <2>2 DEF Linked, Shaped, ConnRec, PcbRec
<1>3. CASE c.pbTot = 0
  <2>1. Received(c, len, first) = [c EXCEPT !.pbTot = len, !.pbLen = first,
                                            !.readIndex = 0, !.alreadyRead = 0]
    BY <1>3 DEF Received
  <2> DEFINE a == Received(c, len, first)
  <2>2. /\ a \in ConnRec /\ a.state = c.state /\ a.unAcked = c.unAcked
        /\ a.pbTot = len /\ a.pbLen = first /\ a.readIndex = 0
        /\ a.alreadyRead = 0 /\ a.ownPcb = c.ownPcb
    <3>1. c \in ConnRec
      BY DEF Linked
    <3>2. a = [c EXCEPT !.pbTot = len, !.pbLen = first,
                        !.readIndex = 0, !.alreadyRead = 0]
      BY <2>1
    <3> HIDE DEF a
    <3>3. a \in ConnRec
      BY <1>1, <3>1, <3>2 DEF ConnRec
    <3>4. QED
      BY <3>1, <3>2, <3>3 DEF ConnRec
  <2> DEFINE b == [r EXCEPT !.rcvWnd = @ - len]
  <2>3. /\ b \in PcbRec /\ b.rcvWnd = TCP_WND - len /\ b.st = r.st
        /\ b.arg = r.arg /\ b.inFlight = r.inFlight
    BY <1>1, <1>3 DEF Linked, Shaped, PcbRec
  <2>4. Shaped(a) /\ b.rcvWnd + a.alreadyRead + (a.pbTot - a.readIndex) = TCP_WND
    BY <1>1, <2>2, <2>3, Sizes DEF Shaped
  <2>5. Linked(i, a, b)
    BY <2>2, <2>3, <2>4 DEF Linked
  <2>6. QED
    BY <2>2, <2>5
<1>4. QED
  BY <1>2, <1>3

\* Write counts what it sends as not acknowledged.
LEMMA WrittenIsLinked ==
  ASSUME NEW i \in Slots, NEW c, NEW r, Linked(i, c, r),
         c.state = "connected", NEW length \in Nat,
         c.unAcked + length <= TCP_SND_BUF, NEW closeAfterSending \in BOOLEAN, NEW t \in Nat
  PROVE  LET d == Written(c, length, closeAfterSending, t)
         IN Linked(i, d, [r EXCEPT !.inFlight = @ + length])
            /\ d.ownPcb = c.ownPcb
<1> DEFINE b == [r EXCEPT !.inFlight = @ + length]
           u == c.unAcked + length
           s == [c EXCEPT !.writeTimer = 0, !.unAcked = u]
           d == Written(c, length, closeAfterSending, t)
<1>1. c \in ConnRec /\ r \in PcbRec
  BY DEF Linked
<1>2. /\ b \in PcbRec /\ b.inFlight = r.inFlight + length
      /\ b.st = r.st /\ b.arg = r.arg /\ b.rcvWnd = r.rcvWnd
  BY <1>1 DEF PcbRec
<1>3. /\ s \in ConnRec /\ s.unAcked = u /\ u = c.unAcked + length
      /\ s.state = c.state /\ s.pbTot = c.pbTot /\ s.pbLen = c.pbLen
      /\ s.readIndex = c.readIndex /\ s.alreadyRead = c.alreadyRead
      /\ s.ownPcb = c.ownPcb
  <2>1. u \in Nat /\ u = c.unAcked + length
    BY <1>1 DEF ConnRec
  <2> HIDE DEF u
  <2>2. s \in ConnRec
    BY <1>1, <2>1 DEF ConnRec
  <2>3. QED
    BY <1>1, <2>1, <2>2 DEF ConnRec
<1>4. d = IF closeAfterSending
          THEN [s EXCEPT !.closeTimer = t, !.state = "closePending"] ELSE s
  BY DEF Written
<1> HIDE DEF b, s, d
<1>5. /\ d \in ConnRec /\ d.unAcked = s.unAcked
      /\ d.state \in LiveState /\ d.pbTot = s.pbTot /\ d.pbLen = s.pbLen
      /\ d.readIndex = s.readIndex /\ d.alreadyRead = s.alreadyRead
      /\ d.ownPcb = s.ownPcb
  <2>1. CASE closeAfterSending
    BY <1>3, <1>4, <2>1 DEF ConnRec, ConnState, LiveState
  <2>2. CASE ~closeAfterSending
    BY <1>3, <1>4, <2>2 DEF LiveState
  <2>3. QED
    BY <2>1, <2>2
<1>6. Linked(i, d, b) /\ d.ownPcb = c.ownPcb
  BY <1>2, <1>3, <1>5 DEF Linked, Shaped
<1>7. QED
  BY <1>6 DEF b, d

\* Read moves the position by exactly the n bytes it hands over, and the new
\* position is again inside the first pbuf.
LEMMA AfterReadMoves ==
  ASSUME NEW c \in ConnRec, Shaped(c), c.pbTot # 0,
         NEW n \in 1 .. Unread(c), NEW d \in AfterRead(c, n)
  PROVE  /\ d = [c EXCEPT !.pbTot = d.pbTot, !.pbLen = d.pbLen,
                          !.readIndex = d.readIndex]
         /\ d.pbTot \in Nat /\ d.pbLen \in Nat /\ d.readIndex \in Nat
         /\ Unread(d) = Unread(c) - n
         /\ IF d.pbTot = 0 THEN d.readIndex = 0
            ELSE d.readIndex < d.pbLen /\ d.pbLen <= d.pbTot
<1>0. /\ c.pbTot \in Nat /\ c.pbLen \in Nat /\ c.readIndex \in Nat
      /\ c.readIndex < c.pbLen /\ c.pbLen <= c.pbTot /\ n \in Nat
      /\ Unread(c) = c.pbTot - c.readIndex
  BY DEF ConnRec, Shaped, Unread
<1>1. CASE n = Unread(c)
  <2>1. d = [c EXCEPT !.pbTot = 0, !.pbLen = 0, !.readIndex = 0]
    BY <1>1 DEF AfterRead
  <2>2. d.pbTot = 0 /\ d.pbLen = 0 /\ d.readIndex = 0
    BY <2>1 DEF ConnRec
  <2>3. QED
    BY <1>0, <1>1, <2>1, <2>2 DEF Unread
<1>2. CASE n # Unread(c) /\ c.readIndex + n < c.pbLen
  <2>1. d = [c EXCEPT !.readIndex = c.readIndex + n]
    BY <1>2 DEF AfterRead
  <2>2. d.pbTot = c.pbTot /\ d.pbLen = c.pbLen /\ d.readIndex = c.readIndex + n
    BY <2>1 DEF ConnRec
  <2>3. [c EXCEPT !.readIndex = c.readIndex + n] =
        [c EXCEPT !.pbTot = c.pbTot, !.pbLen = c.pbLen,
                  !.readIndex = c.readIndex + n]
    BY DEF ConnRec
  <2>4. QED
    BY <1>0, <1>2, <2>1, <2>2, <2>3 DEF Unread
<1>3. CASE n # Unread(c) /\ ~(c.readIndex + n < c.pbLen)
  <2>1. PICK idx \in 0 .. c.readIndex + n - c.pbLen :
          \E len \in idx + 1 .. idx + Unread(c) - n :
            d = [c EXCEPT !.pbTot = idx + Unread(c) - n, !.pbLen = len,
                          !.readIndex = idx]
    BY <1>3 DEF AfterRead
  <2>2. PICK len \in idx + 1 .. idx + Unread(c) - n :
            d = [c EXCEPT !.pbTot = idx + Unread(c) - n, !.pbLen = len,
                          !.readIndex = idx]
    BY <2>1
  <2>3. d.pbTot = idx + Unread(c) - n /\ d.pbLen = len /\ d.readIndex = idx
    BY <2>2 DEF ConnRec
  <2>4. QED
    BY <1>0, <2>2, <2>3 DEF Unread
<1>4. QED
  BY <1>1, <1>2, <1>3

\* Every byte read is credited to lwIP now or remembered in alreadyRead.
LEMMA CreditedIsLinked ==
  ASSUME NEW i \in Slots, NEW c, NEW r, Linked(i, c, r), c.pbTot # 0,
         NEW n \in 1 .. Unread(c), NEW d \in AfterRead(c, n)
  PROVE  /\ Linked(i, Credited(d, n), [r EXCEPT !.rcvWnd = @ + Credit(d, n)])
         /\ Credited(d, n).ownPcb = c.ownPcb
         /\ d.ownPcb = c.ownPcb
<1>1. /\ d = [c EXCEPT !.pbTot = d.pbTot, !.pbLen = d.pbLen,
                       !.readIndex = d.readIndex]
      /\ d.pbTot \in Nat /\ d.pbLen \in Nat /\ d.readIndex \in Nat
      /\ d.pbTot - d.readIndex = c.pbTot - c.readIndex - n
      /\ IF d.pbTot = 0 THEN d.readIndex = 0
         ELSE d.readIndex < d.pbLen /\ d.pbLen <= d.pbTot
  BY AfterReadMoves DEF Linked, Unread
<1>2. /\ d \in ConnRec /\ d.alreadyRead = c.alreadyRead /\ d.state = c.state
      /\ d.unAcked = c.unAcked /\ d.ownPcb = c.ownPcb
  BY <1>1 DEF Linked, ConnRec
<1>3. n \in Nat /\ r.rcvWnd \in Nat /\ c.alreadyRead \in Nat /\ r \in PcbRec
  BY DEF Linked, ConnRec, PcbRec, Unread
<1>4. CASE MustTellLwip(d, n)
  <2>1. /\ Credited(d, n) = [d EXCEPT !.alreadyRead = 0]
        /\ Credit(d, n) = c.alreadyRead + n
    BY <1>2, <1>4 DEF Credited, Credit
  <2> DEFINE a == Credited(d, n)
  <2>2. /\ a \in ConnRec /\ a.state = c.state /\ a.unAcked = c.unAcked
        /\ a.pbTot = d.pbTot /\ a.pbLen = d.pbLen
        /\ a.readIndex = d.readIndex /\ a.alreadyRead = 0
        /\ a.ownPcb = c.ownPcb
    BY <1>2, <2>1 DEF ConnRec
  <2> DEFINE b == [r EXCEPT !.rcvWnd = @ + Credit(d, n)]
  <2>3. /\ b \in PcbRec /\ b.rcvWnd = r.rcvWnd + (c.alreadyRead + n)
        /\ b.st = r.st /\ b.arg = r.arg /\ b.inFlight = r.inFlight
    BY <1>3, <2>1 DEF PcbRec
  <2>4. r.rcvWnd + c.alreadyRead + (c.pbTot - c.readIndex) = TCP_WND
    BY DEF Linked
  <2>5. c.pbTot \in Nat /\ c.readIndex \in Nat
    BY DEF Linked, ConnRec
  <2>6. Shaped(a) /\ b.rcvWnd + a.alreadyRead + (a.pbTot - a.readIndex) = TCP_WND
    BY <1>1, <1>3, <2>2, <2>3, <2>4, <2>5 DEF Shaped
  <2>7. Linked(i, a, b)
    BY <2>2, <2>3, <2>6 DEF Linked
  <2>8. QED
    BY <1>2, <2>2, <2>7
<1>5. CASE ~MustTellLwip(d, n)
  BY <1>1, <1>2, <1>3, <1>5
     DEF Linked, Shaped, Credited, Credit, MustTellLwip, ConnRec, PcbRec
<1>6. QED
  BY <1>2, <1>4, <1>5
-----------------------------------------------------------------------------
(* The methods and callbacks.                                              *)

\* A change of the members Linked does not mention.
LEMMA Relabelled ==
  ASSUME NEW i \in Slots, NEW c, NEW d \in ConnRec, NEW r, Linked(i, c, r),
         d.state \in LiveState, d.unAcked = c.unAcked, d.pbTot = c.pbTot,
         d.pbLen = c.pbLen, d.readIndex = c.readIndex,
         d.alreadyRead = c.alreadyRead
  PROVE  Linked(i, d, r)
BY DEF Linked, Shaped

\* Facts about the slot of a live connection.
LEMMA LiveSlot ==
  ASSUME EachHolds, NEW i \in Slots, IsLive(i)
  PROVE  /\ conn[i].ownPcb \in Pcbs /\ Linked(i, conn[i], pcb[conn[i].ownPcb])
         /\ conn[i] \in ConnRec /\ pcb[conn[i].ownPcb] \in PcbRec
BY DEF EachHolds, Tables, SlotOK, Linked

\* What EachHolds says of one slot.
LEMMA AnySlot ==
  ASSUME EachHolds, NEW i \in Slots
  PROVE  conn[i] \in ConnRec
BY DEF EachHolds, Tables, SlotOK, Linked, Dead

\* Terminate gives up the pcb and the data together.
LEMMA TerminateKeeps ==
  ASSUME EachHolds, LoopOK', NEW i \in Slots, NEW external \in BOOLEAN,
         Terminate(i, external)
  PROVE  EachHolds'
<1>1. conn' = [conn EXCEPT ![i] = Terminated(conn[i], external)]
  BY DEF Terminate
<1>2. pcb' = [q \in Pcbs |-> IF q = conn[i].ownPcb THEN IdlePcb("unused")
                             ELSE pcb[q]]
  BY DEF Terminate, TcpAbort
<1>3. Dead(Terminated(conn[i], external))
  BY AnySlot, EndedIsDead
<1>4. QED
  BY <1>1, <1>2, <1>3, OneEnds

\* With the callbacks removed, tcp_close leaves a pcb that reaches no slot.
LEMMA ClosedPcb ==
  ASSUME NEW p
  PROVE  ClosePcb(p) = [q \in Pcbs |-> IF q = p THEN IdlePcb("closing")
                                       ELSE pcb[q]]
BY DEF ClosePcb, TcpClose, Unregistered, IdlePcb

\* Close gives up the pcb and the data together, or only marks the slot.
LEMMA CloseKeeps ==
  ASSUME EachHolds, LoopOK', NEW i \in Slots, NEW t \in Nat, Close(i, t)
  PROVE  EachHolds'
<1>1. CASE conn[i].state = "connected" /\ conn[i].unAcked # 0
  <2> DEFINE d == [conn[i] EXCEPT !.closeTimer = t, !.state = "closePending"]
  <2>1. IsLive(i)
    BY <1>1 DEF IsLive, LiveState
  <2>2. conn[i] \in ConnRec
    BY AnySlot
  <2>3. /\ d \in ConnRec /\ d.state = "closePending"
        /\ d.unAcked = conn[i].unAcked /\ d.pbTot = conn[i].pbTot
        /\ d.pbLen = conn[i].pbLen /\ d.readIndex = conn[i].readIndex
        /\ d.alreadyRead = conn[i].alreadyRead /\ d.ownPcb = conn[i].ownPcb
    BY <2>2 DEF ConnRec, ConnState
  <2>4. conn' = [conn EXCEPT ![i] = d]
    BY <1>1 DEF Close
  <2> HIDE DEF d
  <2>5. conn'[i].state = "closePending"
    BY <2>3, <2>4 DEF EachHolds, Tables
  <2>6. pcb' = [pcb EXCEPT ![conn[i].ownPcb] = pcb[conn[i].ownPcb]]
    BY <2>5, <2>1, LiveSlot DEF Close, EachHolds, Tables
  <2>7. Linked(i, d, pcb[conn[i].ownPcb])
    BY <2>1, <2>3, LiveSlot, Relabelled DEF LiveState
  <2>8. QED
    BY <2>1, <2>3, <2>4, <2>6, <2>7, LiveSlot, LinkOne
<1>2. CASE conn[i].state = "closePending"
  <2>1. conn' = conn /\ conn'[i].state = "closePending"
    BY <1>2 DEF Close, EachHolds, Tables
  <2>2. pcb' = pcb
    BY <2>1 DEF Close
  <2>3. QED
    BY <2>1, <2>2, NothingMoves
<1>3. CASE ~(conn[i].state = "connected" /\ conn[i].unAcked # 0)
           /\ conn[i].state # "closePending"
  <2>1. conn' = [conn EXCEPT ![i] = Closed(conn[i])]
    BY <1>3 DEF Close
  <2>2. conn'[i].state = "free"
    BY <2>1, AnySlot DEF Closed, FreePbuf, ConnRec, EachHolds, Tables
  <2>3. pcb' = [q \in Pcbs |-> IF q = conn[i].ownPcb THEN IdlePcb("closing")
                               ELSE pcb[q]]
    BY <2>2, ClosedPcb DEF Close
  <2>4. QED
    BY <2>1, <2>3, AnySlot, EndedIsDead, OneEnds
<1>4. QED
  BY <1>1, <1>2, <1>3

\* Write counts the bytes on both sides, or terminates the connection.
LEMMA WriteKeeps ==
  ASSUME EachHolds, LoopOK, LoopOK', NEW i \in Slots, NEW length \in Nat,
         IsLive(i) => length <= TCP_SND_BUF - pcb[conn[i].ownPcb].inFlight,
         NEW closeAfterSending \in BOOLEAN, NEW ok \in BOOLEAN,
         Write(i, length, closeAfterSending, ok)
  PROVE  EachHolds'
<1>1. CASE UNCHANGED <<conn, pcb>>
  BY <1>1, NothingMoves
<1>2. CASE Terminate(i, FALSE)
  BY <1>2, TerminateKeeps
<1>3. CASE /\ conn[i].state = "connected"
           /\ pcb' = [pcb EXCEPT ![conn[i].ownPcb].inFlight = @ + length]
           /\ conn' = [conn EXCEPT ![i] =
                         Written(@, length, closeAfterSending, now)]
  <2> DEFINE p == conn[i].ownPcb
             b == [pcb[p] EXCEPT !.inFlight = @ + length]
             d == Written(conn[i], length, closeAfterSending, now)
  <2>1. IsLive(i)
    BY <1>3 DEF IsLive, LiveState
  <2>2. p \in Pcbs /\ Linked(i, conn[i], pcb[p]) /\ now \in Nat
    BY <2>1, LiveSlot DEF LoopOK
  <2>3. pcb' = [pcb EXCEPT ![p] = b] /\ conn' = [conn EXCEPT ![i] = d]
    BY <1>3, <2>2 DEF EachHolds, Tables
  <2>4. Linked(i, d, b) /\ d.ownPcb = p
    <3>1. conn[i].unAcked + length <= TCP_SND_BUF
      BY <2>1, <2>2, Sizes DEF Linked, PcbRec
    <3>2. QED
      BY <1>3, <2>2, <3>1, WrittenIsLinked
  <2> HIDE DEF d, b
  <2>5. QED
    BY <2>1, <2>2, <2>3, <2>4, LinkOne
<1>4. QED
  BY <1>1, <1>2, <1>3 DEF Write

\* Read moves bytes from the chain to the window or to alreadyRead.
LEMMA ReadKeeps ==
  ASSUME EachHolds, LoopOK', NEW i \in Slots, NEW length \in Nat,
         Read(i, length)
  PROVE  EachHolds'
<1> DEFINE n == Lesser(length, CanRead(conn[i]))
           p == conn[i].ownPcb
<1>1. CASE n = 0
  BY <1>1, NothingMoves DEF Read
<1>2. CASE n # 0
  <2>1. /\ conn[i].state \in {"connected", "otherEndClosed"}
        /\ conn[i].pbTot # 0 /\ CanRead(conn[i]) = Unread(conn[i])
    BY <1>2 DEF CanRead, Lesser
  <2>2. IsLive(i)
    BY <2>1 DEF IsLive, LiveState
  <2>3. /\ p \in Pcbs /\ Linked(i, conn[i], pcb[p])
        /\ conn[i] \in ConnRec /\ pcb[p] \in PcbRec
    BY <2>2, LiveSlot
  <2>4. Unread(conn[i]) \in Nat
    BY <2>1, <2>3 DEF Unread, Linked, Shaped, ConnRec
  <2>5. n \in 1 .. Unread(conn[i])
    BY <1>2, <2>1, <2>4 DEF Lesser
  <2>6. PICK c \in AfterRead(conn[i], n) :
          /\ conn' = [conn EXCEPT ![i] = Credited(c, n)]
          /\ pcb' = [pcb EXCEPT ![c.ownPcb].rcvWnd = @ + Credit(c, n)]
    BY <1>2 DEF Read
  <2> HIDE DEF n
  <2> DEFINE b == [pcb[p] EXCEPT !.rcvWnd = @ + Credit(c, n)]
             d == Credited(c, n)
  <2>7. Linked(i, d, b) /\ d.ownPcb = p /\ c.ownPcb = p
    BY <2>1, <2>3, <2>5, CreditedIsLinked
  <2>8. pcb' = [pcb EXCEPT ![p] = b] /\ conn' = [conn EXCEPT ![i] = d]
    BY <2>3, <2>6, <2>7 DEF EachHolds, Tables
  <2> HIDE DEF b, d
  <2>9. QED
    BY <2>2, <2>3, <2>7, <2>8, LinkOne
<1>3. QED
  BY <1>1, <1>2

\* Poll terminates, closes, or only relabels the slot it is called on.
LEMMA PollKeeps ==
  ASSUME EachHolds, LoopOK', NEW i \in Slots, NEW t \in Nat, Poll(i, t)
  PROVE  EachHolds'
<1>1. CASE TimedOut(conn[i], t)
  <2>1. Terminate(i, FALSE)
    BY <1>1 DEF Poll, TimedOut
  <2>2. QED
    BY <2>1, TerminateKeeps
<1>2. CASE ~TimedOut(conn[i], t) /\ conn[i].state = "closeReady"
  BY <1>2, CloseKeeps DEF Poll
<1>3. CASE /\ ~TimedOut(conn[i], t)
           /\ conn[i].state = "closePending" /\ conn[i].unAcked = 0
  <2> DEFINE p == conn[i].ownPcb
             d == [conn[i] EXCEPT !.state = "closeReady"]
  <2>1. IsLive(i)
    BY <1>3 DEF IsLive, LiveState
  <2>2. /\ p \in Pcbs /\ Linked(i, conn[i], pcb[p]) /\ conn[i] \in ConnRec
    BY <2>1, LiveSlot
  <2>3. conn' = [conn EXCEPT ![i] = d] /\ pcb' = [pcb EXCEPT ![p] = pcb[p]]
    BY <1>3, <2>2 DEF Poll, EachHolds, Tables
  <2>4. /\ d \in ConnRec /\ d.state = "closeReady"
        /\ d.unAcked = conn[i].unAcked /\ d.pbTot = conn[i].pbTot
        /\ d.pbLen = conn[i].pbLen /\ d.readIndex = conn[i].readIndex
        /\ d.alreadyRead = conn[i].alreadyRead /\ d.ownPcb = p
    BY <2>2 DEF ConnRec, ConnState
  <2> HIDE DEF d, p
  <2>5. Linked(i, d, pcb[p])
    BY <2>2, <2>4, Relabelled DEF LiveState, p
  <2>6. QED
    BY <2>1, <2>2, <2>3, <2>4, <2>5, LinkOne DEF p
<1>4. CASE /\ ~TimedOut(conn[i], t) /\ conn[i].state # "closeReady"
           /\ ~(conn[i].state = "closePending" /\ conn[i].unAcked = 0)
  <2>1. UNCHANGED <<conn, pcb>>
    BY <1>4 DEF Poll
  <2>2. QED
    BY <2>1, NothingMoves
<1>5. QED
  BY <1>1, <1>2, <1>3, <1>4

\* Accept links a free slot and an unused pcb, and no others.
LEMMA AcceptKeeps ==
  ASSUME EachHolds, LoopOK', NEW i \in FreeSlots, NEW p \in Pcbs,
         NEW port \in Ports, pcb[p].st = "unused", Accept(i, p, port)
  PROVE  EachHolds'
<1> DEFINE d == Accepted(conn[i], p, port)
           b == [st |-> "open", arg |-> i, inFlight |-> 0,
                 rcvWnd |-> TCP_WND, fin |-> FALSE]
<1>1. i \in Slots /\ ~IsLive(i)
  BY DEF FreeSlots, IsLive, LiveState
<1>2. Linked(i, d, b) /\ d.ownPcb = p
  BY <1>1, AcceptedIsLinked DEF EachHolds, SlotOK
<1>3. conn' = [conn EXCEPT ![i] = d] /\ pcb' = [pcb EXCEPT ![p] = b]
  BY DEF Accept
<1> HIDE DEF d, b
<1>4. QED
  BY <1>1, <1>2, <1>3, LinkOne

\* The slot a callback is delivered to is the one that owns the pcb.
LEMMA CallbackSlot ==
  ASSUME EachHolds, NEW p \in Pcbs, Registered(p)
  PROVE  /\ pcb[p].arg \in Slots /\ IsLive(pcb[p].arg)
         /\ conn[pcb[p].arg].ownPcb = p
         /\ Linked(pcb[p].arg, conn[pcb[p].arg], pcb[p])
BY SizesAssumption DEF Registered, EachHolds, PcbOK, SlotOK, Dead

\* Received data goes to the slot that owns the pcb.
LEMMA ConnRecvKeeps ==
  ASSUME EachHolds, LoopOK', NEW p \in Pcbs, NEW len \in 1 .. TCP_WND,
         NEW first \in 1 .. len, ConnRecv(p, len, first)
  PROVE  EachHolds'
<1> DEFINE i == pcb[p].arg
           d == Received(conn[i], len, first)
           b == [pcb[p] EXCEPT !.rcvWnd = @ - len]
<1>1. /\ i \in Slots /\ IsLive(i) /\ conn[i].ownPcb = p
      /\ Linked(i, conn[i], pcb[p])
  BY CallbackSlot DEF ConnRecv
<1>2. len \in 1 .. pcb[p].rcvWnd
  BY <1>1, Sizes DEF ConnRecv, Linked, PcbRec
<1>3. conn' = [conn EXCEPT ![i] = d] /\ pcb' = [pcb EXCEPT ![p] = b]
  BY DEF ConnRecv, EachHolds, Tables
<1> HIDE DEF i
<1>4. Linked(i, d, b) /\ d.ownPcb = p
  BY <1>1, <1>2, ReceivedIsLinked
<1> HIDE DEF d, b
<1>5. QED
  BY <1>1, <1>3, <1>4, LinkOne

\* The end of the stream only relabels the slot that owns the pcb.
LEMMA ConnRecvFinKeeps ==
  ASSUME EachHolds, LoopOK', NEW p \in Pcbs, ConnRecvFin(p)
  PROVE  EachHolds'
<1> DEFINE i == pcb[p].arg
           d == OtherEndClosed(conn[i])
           b == [pcb[p] EXCEPT !.fin = TRUE]
<1>1. /\ i \in Slots /\ IsLive(i) /\ conn[i].ownPcb = p
      /\ Linked(i, conn[i], pcb[p])
  BY CallbackSlot DEF ConnRecvFin
<1>2. conn' = [conn EXCEPT ![i] = d] /\ pcb' = [pcb EXCEPT ![p] = b]
  BY DEF ConnRecvFin, EachHolds, Tables
<1> HIDE DEF i
<1>3. /\ d \in ConnRec /\ d.state \in LiveState
      /\ d.unAcked = conn[i].unAcked /\ d.pbTot = conn[i].pbTot
      /\ d.pbLen = conn[i].pbLen /\ d.readIndex = conn[i].readIndex
      /\ d.alreadyRead = conn[i].alreadyRead /\ d.ownPcb = p
  <2>1. PICK st \in LiveState : d = [conn[i] EXCEPT !.state = st]
    BY <1>1 DEF OtherEndClosed, Linked, LiveState
  <2> HIDE DEF d
  <2>2. QED
    BY <1>1, <2>1 DEF Linked, ConnRec, ConnState, LiveState
<1>4. /\ b \in PcbRec /\ b.st = pcb[p].st /\ b.arg = pcb[p].arg
      /\ b.rcvWnd = pcb[p].rcvWnd /\ b.inFlight = pcb[p].inFlight
  BY <1>1 DEF Linked, PcbRec
<1> HIDE DEF d, b
<1>5. Linked(i, d, b)
  BY <1>1, <1>3, <1>4 DEF Linked, Shaped
<1>6. QED
  BY <1>1, <1>2, <1>3, <1>5, LinkOne

\* An acknowledgement lowers both counts by the same amount.
LEMMA ConnSentKeeps ==
  ASSUME EachHolds, LoopOK', NEW p \in Pcbs, NEW len \in Nat, ConnSent(p, len)
  PROVE  EachHolds'
<1> DEFINE i == pcb[p].arg
           d == Acknowledged(conn[i], len)
           b == [pcb[p] EXCEPT !.inFlight = @ - len]
<1>1. /\ i \in Slots /\ IsLive(i) /\ conn[i].ownPcb = p
      /\ Linked(i, conn[i], pcb[p])
  BY CallbackSlot DEF ConnSent
<1>2. conn' = [conn EXCEPT ![i] = d] /\ pcb' = [pcb EXCEPT ![p] = b]
  BY DEF ConnSent, EachHolds, Tables
<1>3. len <= pcb[p].inFlight
  BY DEF ConnSent
<1> HIDE DEF i
<1> DEFINE rest == pcb[p].inFlight - len
<1>4. /\ rest \in Nat /\ rest <= TCP_SND_BUF
      /\ d = [conn[i] EXCEPT !.unAcked = rest]
      /\ b = [pcb[p] EXCEPT !.inFlight = rest]
  BY <1>1, <1>3, Sizes DEF Acknowledged, Linked, PcbRec, ConnRec
<1> HIDE DEF d, b, rest
<1>5. /\ d \in ConnRec /\ d.state = conn[i].state
      /\ d.unAcked = rest /\ d.pbTot = conn[i].pbTot
      /\ d.pbLen = conn[i].pbLen /\ d.readIndex = conn[i].readIndex
      /\ d.alreadyRead = conn[i].alreadyRead /\ d.ownPcb = p
  BY <1>1, <1>4 DEF Linked, ConnRec
<1>6. /\ b \in PcbRec /\ b.st = pcb[p].st /\ b.arg = pcb[p].arg
      /\ b.rcvWnd = pcb[p].rcvWnd /\ b.inFlight = rest
  BY <1>1, <1>4 DEF Linked, PcbRec
<1>7. Linked(i, d, b)
  BY <1>1, <1>4, <1>5, <1>6 DEF Linked, Shaped
<1>8. QED
  BY <1>1, <1>2, <1>5, <1>7, LinkOne

\* ConnError gives up a pcb that lwIP has freed itself.
LEMMA ConnErrorKeeps ==
  ASSUME EachHolds, LoopOK', NEW p \in Pcbs, ConnError(p)
  PROVE  EachHolds'
<1> DEFINE i == pcb[p].arg
<1>1. i \in Slots /\ conn[i].ownPcb = p /\ conn[i] \in ConnRec
  BY CallbackSlot DEF ConnError, Linked
<1>2. conn' = [conn EXCEPT ![i] = Failed(conn[i])]
  BY DEF ConnError
<1>3. pcb' = [q \in Pcbs |-> IF q = conn[i].ownPcb THEN IdlePcb("unused")
                             ELSE pcb[q]]
  BY <1>1 DEF ConnError, TcpAbort
<1> HIDE DEF i
<1>4. QED
  BY <1>1, <1>2, <1>3, EndedIsDead, OneEnds

\* A pcb that lwIP finishes closing belongs to no slot.
LEMMA LwipFinishKeeps ==
  ASSUME EachHolds, LoopOK', NEW p \in Pcbs, LwipFinish(p)
  PROVE  EachHolds'
<1> DEFINE S == {}
           D == {p}
<1>1. /\ S \in SUBSET Slots /\ \A j \in S : Dead(conn'[j])
      /\ \A j \in Slots \ S : conn'[j] = conn[j]
      /\ \A q \in Pcbs : pcb'[q] = IF q \in D THEN IdlePcb("unused") ELSE pcb[q]
      /\ Tables'
  BY DEF EachHolds, Tables, LwipFinish, TcpAbort
<1>2. \A j \in Slots \ S : IsLive(j) => conn[j].ownPcb \notin D
  BY LiveSlot DEF LwipFinish, Linked
<1>3. \A q \in Pcbs \ D : Registered(q) => pcb[q].arg \notin S
  OBVIOUS
<1> HIDE DEF S, D
<1>4. QED
  BY <1>1, <1>2, <1>3, GiveUp

\* TerminateAll leaves no slot with a pcb and no open pcb.
LEMMA TerminateAllKeeps ==
  ASSUME EachHolds, LoopOK', TerminateAll
  PROVE  EachHolds'
<1> DEFINE S == Slots
           D == {conn[i].ownPcb : i \in Slots}
<1>1. ASSUME NEW j \in Slots PROVE Dead(conn'[j])
  <2>1. conn'[j] = Terminated(conn[j], TRUE)
    BY DEF TerminateAll
  <2>2. QED
    BY <2>1, AnySlot, EndedIsDead
<1>2. /\ \A q \in Pcbs : pcb'[q] = IF q \in D THEN IdlePcb("unused") ELSE pcb[q]
      /\ Tables'
  BY DEF Tables, TerminateAll, TcpAbort
<1>3. \A q \in Pcbs \ D : Registered(q) => pcb[q].arg \notin S
  BY DEF EachHolds, PcbOK, Registered
<1> HIDE DEF D
<1>4. QED
  BY <1>1, <1>2, <1>3, GiveUp
-----------------------------------------------------------------------------
(* The theorems.                                                           *)

\* The state after Connection::Init satisfies the invariant.
LEMMA InitIInv == Init => IInv
<1> SUFFICES ASSUME Init PROVE EachHolds
  BY IInvEachHolds
<1>1. LoopOK
  BY Sizes DEF Init, LoopOK, Slots
<1>2. ASSUME NEW i \in Slots PROVE SlotOK(i)
  <2>1. conn[i] = NewConnection
    BY DEF Init
  <2>2. Dead(NewConnection) /\ ~(NewConnection.state \in LiveState)
    BY DEF Dead, NewConnection, ConnRec, ConnState, LiveState
  <2>3. QED
    BY <2>1, <2>2 DEF SlotOK, IsLive
<1>3. ASSUME NEW p \in Pcbs PROVE PcbOK(p)
  <2>1. pcb[p] = IdlePcb("unused")
    BY DEF Init
  <2>2. /\ IdlePcb("unused") \in PcbRec /\ IdlePcb("unused").st # "open"
        /\ IdlePcb("unused").arg = NoSlot /\ NoSlot \notin Slots
    BY DEF IdlePcb, PcbRec, NoSlot, Slots
  <2>3. QED
    BY <2>1, <2>2 DEF PcbOK, Registered
<1>4. Tables
  BY DEF Init, Tables
<1>5. QED
  BY <1>1, <1>2, <1>3, <1>4 DEF EachHolds

\* Every callback of lwIP preserves the invariant.
LEMMA LwipEventKeeps ==
  ASSUME EachHolds, LwipEvent
  PROVE  EachHolds'
<1>1. PICK p \in Pcbs :
        \/ \E port \in Ports : AcceptNew(p, port)
        \/ \E len \in 1 .. TCP_WND : \E first \in 1 .. len :
             ConnRecv(p, len, first)
        \/ ConnRecvFin(p)
        \/ \E len \in 1 .. TCP_SND_BUF : ConnSent(p, len)
        \/ ConnError(p)
        \/ LwipFinish(p)
  BY DEF LwipEvent
<1>2. LoopOK'
  BY <1>1 DEF EachHolds, LoopOK, AcceptNew, ConnRecv, ConnRecvFin, ConnSent,
             ConnError, LwipFinish
<1>3. ASSUME NEW port \in Ports, AcceptNew(p, port) PROVE EachHolds'
  <2>1. PICK i \in FreeSlots : Accept(i, p, port)
    BY <1>3 DEF AcceptNew, Allocate
  <2>2. QED
    BY <1>2, <1>3, <2>1, AcceptKeeps DEF AcceptNew
<1>4. ASSUME NEW len \in 1 .. TCP_WND, NEW first \in 1 .. len,
             ConnRecv(p, len, first)
      PROVE  EachHolds'
  BY <1>2, <1>4, ConnRecvKeeps
<1>5. ASSUME NEW len \in 1 .. TCP_SND_BUF, ConnSent(p, len) PROVE EachHolds'
  BY <1>2, <1>5, ConnSentKeeps, Sizes
<1>6. CASE ConnRecvFin(p)
  BY <1>2, <1>6, ConnRecvFinKeeps
<1>7. CASE ConnError(p)
  BY <1>2, <1>7, ConnErrorKeeps
<1>8. CASE LwipFinish(p)
  BY <1>2, <1>8, LwipFinishKeeps
<1>9. QED
  BY <1>1, <1>3, <1>4, <1>5, <1>6, <1>7, <1>8

\* Every command of the main processor preserves the invariant.
LEMMA SamCommandKeeps ==
  ASSUME EachHolds, SamCommand
  PROVE  EachHolds'
<1>1. LoopOK /\ LoopOK' /\ now \in Nat
  <2>1. UNCHANGED SamVars
    BY DEF SamCommand, networkStop, connAbort, connClose, connRead, connWrite
  <2>2. LoopOK
    BY DEF EachHolds
  <2>3. QED
    BY <2>1, <2>2, Sizes DEF LoopOK, SamVars
<1>2. CASE networkStop
  BY <1>1, <1>2, TerminateAllKeeps DEF networkStop
<1>3. ASSUME NEW i \in Slots, connAbort(i) PROVE EachHolds'
  BY <1>1, <1>3, TerminateKeeps DEF connAbort
<1>4. ASSUME NEW i \in Slots, connClose(i) PROVE EachHolds'
  BY <1>1, <1>4, CloseKeeps DEF connClose
<1>5. ASSUME NEW i \in Slots, NEW n \in 1 .. MaxDataLength, connRead(i, n)
      PROVE  EachHolds'
  <2>1. Lesser(n, MaxDataLength) \in Nat
    BY Sizes DEF Lesser
  <2>2. QED
    BY <1>1, <1>5, <2>1, ReadKeeps DEF connRead
<1>6. ASSUME NEW i \in Slots, NEW n \in 0 .. MaxDataLength,
             NEW flagClose \in BOOLEAN, NEW ok \in BOOLEAN,
             connWrite(i, n, flagClose, ok)
      PROVE  EachHolds'
  <2> DEFINE acceptedLength == Lesser(CanWrite(i), Lesser(n, MaxDataLength))
             closeAfterSending == acceptedLength = n /\ flagClose
  <2>1. Write(i, acceptedLength, closeAfterSending, ok)
    BY <1>6 DEF connWrite
  <2>2. closeAfterSending \in BOOLEAN
    OBVIOUS
  <2>3. /\ acceptedLength \in Nat
        /\ IsLive(i) =>
             acceptedLength <= TCP_SND_BUF - pcb[conn[i].ownPcb].inFlight
    <3>1. CASE conn[i].state = "connected"
      <4>1. IsLive(i)
        BY <3>1 DEF IsLive, LiveState
      <4>2. /\ CanWrite(i) = TCP_SND_BUF - pcb[conn[i].ownPcb].inFlight
            /\ CanWrite(i) \in Nat
        BY <3>1, <4>1, LiveSlot, Sizes DEF CanWrite, Linked, PcbRec
      <4>3. QED
        BY <4>2, Sizes DEF Lesser
    <3>2. CASE conn[i].state # "connected"
      <4>1. CanWrite(i) = 0
        BY <3>2 DEF CanWrite
      <4>2. IsLive(i) => TCP_SND_BUF - pcb[conn[i].ownPcb].inFlight >= 0
        BY LiveSlot, Sizes DEF Linked, PcbRec
      <4>3. QED
        BY <4>1, <4>2, Sizes DEF Lesser
    <3>3. QED
      BY <3>1, <3>2
  <2> HIDE DEF acceptedLength, closeAfterSending
  <2>4. QED
    BY <1>1, <2>1, <2>2, <2>3, WriteKeeps
<1>7. QED
  BY <1>2, <1>3, <1>4, <1>5, <1>6 DEF SamCommand

\* A pass through the loop preserves the invariant.
LEMMA PollOneKeeps ==
  ASSUME EachHolds, NEW d \in 0 .. MaxLoopTime, PollOne(d)
  PROVE  EachHolds'
<1> DEFINE t == (now + d) % ClockMod
<1>1. now + d \in Nat
  BY Sizes DEF EachHolds, LoopOK
<1>2. t \in 0 .. ClockMod - 1 /\ t \in Nat
  BY <1>1, Sizes
<1>3. LoopOK'
  BY <1>2, Sizes DEF PollOne, NextSlot, EachHolds, LoopOK, Slots
<1>4. Poll(nextConnectionToPoll, t) /\ nextConnectionToPoll \in Slots
  BY DEF PollOne, EachHolds, LoopOK
<1> HIDE DEF t
<1>5. QED
  BY <1>2, <1>3, <1>4, PollKeeps

\* Every step, and every stutter, preserves the invariant.
LEMMA NextEachHolds == EachHolds /\ [Next]_vars => EachHolds'
<1> SUFFICES ASSUME EachHolds, [Next]_vars PROVE EachHolds'
  OBVIOUS
<1>1. CASE LwipEvent
  BY <1>1, LwipEventKeeps
<1>2. CASE SamCommand
  BY <1>2, SamCommandKeeps
<1>3. ASSUME NEW d \in 0 .. MaxLoopTime, PollOne(d) PROVE EachHolds'
  BY <1>3, PollOneKeeps
<1>4. CASE UNCHANGED vars
  BY <1>4, NothingMoves DEF vars, EachHolds, LoopOK
<1>5. QED
  BY <1>1, <1>2, <1>3, <1>4 DEF Next

\* The inductive invariant holds in every reachable state.
THEOREM IInvHolds == Spec => []IInv
BY InitIInv, NextEachHolds, IInvEachHolds, PTL DEF Spec

\* The members of the objects and of the loop keep their types.
THEOREM TypeCorrect == Spec => []TypeOK
<1>1. IInv => TypeOK
  BY DEF IInv
<1>2. QED
  BY <1>1, IInvHolds, PTL

\* Slots and pcbs belong together one to one: no stale pcb, no stray callback.
THEOREM OwnershipHolds == Spec => []PcbOwnership
<1>1. IInv => PcbOwnership
  BY DEF IInv
<1>2. QED
  BY <1>1, IInvHolds, PTL

\* The receive window is conserved over any sequence of receives and reads.
THEOREM WindowHolds == Spec => []WindowConserved
<1>1. IInv => WindowConserved
  BY DEF IInv
<1>2. QED
  BY <1>1, IInvHolds, PTL

\* With nothing left to read, the other end may send a whole window.
THEOREM NoStall == Spec => []NoWindowStall
<1>1. IInv => NoWindowStall
  <2> SUFFICES ASSUME IInv, NEW i \in Slots, IsLive(i), conn[i].pbTot = 0
               PROVE  pcb[conn[i].ownPcb].rcvWnd = TCP_WND
    BY DEF NoWindowStall
  <2>1. Linked(i, conn[i], pcb[conn[i].ownPcb])
    BY IInvEachHolds, LiveSlot
  <2>2. QED
    BY <2>1, Sizes DEF Linked, Shaped, PcbRec
<1>2. QED
  BY <1>1, IInvHolds, PTL

\* unAcked is what lwIP has not seen acknowledged.
THEOREM AcksHold == Spec => []AckAccounting
<1>1. IInv => AckAccounting
  BY DEF IInv
<1>2. QED
  BY <1>1, IInvHolds, PTL

\* And it fits the send buffer of lwIP.
THEOREM WritesFit == Spec => []WriteFits
<1>1. IInv => WriteFits
  BY DEF IInv
<1>2. QED
  BY <1>1, IInvHolds, PTL

\* A slot without a connection holds no data.
THEOREM BuffersHold == Spec => []NoBufferLeak
<1>1. IInv => NoBufferLeak
  BY DEF IInv
<1>2. QED
  BY <1>1, IInvHolds, PTL

\* One with a connection has its read position inside the first pbuf.
THEOREM ChainsHold == Spec => []ChainShape
<1>1. IInv => ChainShape
  BY DEF IInv
<1>2. QED
  BY <1>1, IInvHolds, PTL
=============================================================================
