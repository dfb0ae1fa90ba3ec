------------------------- MODULE SocketServerProofs -------------------------
(***************************************************************************)
(* The properties of the connection table and the listeners together, for  *)
(* any number of slots, pcbs, listeners, ports and connections.  Each part *)
(* keeps its own invariant, since a step of the whole is a step of the     *)
(* part.  What is added here relates the two: a pending handshake, the     *)
(* count of FTP data connections and the limit of a port to the state of   *)
(* the object they came through.                                           *)
(***************************************************************************)
EXTENDS SocketServer, ConnectionProofs, ListenerProofs

\* A handshake has an object, a port and a pcb that lwIP has to itself.
HandshakeOK ==
  /\ handshake = [p \in Pcbs |-> handshake[p]]
  /\ \A p \in Pcbs : Pending(p) =>
       /\ handshake[p].l \in 1 .. created /\ handshake[p].port \in Ports
       /\ pcb[p].st = "unused"

\* A listener for FTP data that still listens has accepted nothing yet.
TakenOK ==
  /\ taken \in [Ids -> 0 .. 1]
  /\ \A l \in Ids :
       obj[l].listening /\ obj[l].protocol = protocolFtpData => taken[l] = 0

\* After networkStop nothing listens, so nothing is accepted.
StoppedOK ==
  stopped => activeList = <<>> /\ \A i \in Slots : conn[i].state = "free"

\* The states in which a slot counts for its port, and the slots that count
\* and came through an object of that port.
UsedState == {"connected", "otherEndClosed", "closePending"}
Users(port) ==
  {i \in Slots : /\ conn[i].localPort = port /\ i \notin foreign
                 /\ conn[i].state \in UsedState}
LimitOK == \A port \in Ports : Cardinality(Users(port)) <= MaxConns

\* The inductive invariant.
ServerInv ==
  /\ EachHolds
  /\ ListenerInv
  /\ HandshakeOK
  /\ TakenOK
  /\ StoppedOK
  /\ LimitOK

-----------------------------------------------------------------------------
(* What the steps of Connection leave alone.                               *)

\* From c to d a slot keeps its port, is not used again, and stays free.
Kept(c, d) ==
  /\ d.localPort = c.localPort
  /\ d.state \in UsedState => c.state \in UsedState
  /\ c.state = "free" => d.state = "free"

SlotsKept == \A i \in Slots : Kept(conn[i], conn'[i])

\* No pcb lwIP has to itself becomes the server's.
PcbsKept == \A p \in Pcbs : pcb[p].st = "unused" => pcb'[p].st = "unused"

\* The methods and callbacks change an object in no other way.
LEMMA MethodsKeep ==
  ASSUME NEW c \in ConnRec
  PROVE  /\ Kept(c, c)
         /\ Kept(c, Terminated(c, TRUE))
         /\ c.state # "free" => Kept(c, Terminated(c, FALSE)) /\ Kept(c, Failed(c))
         /\ Kept(c, Closed(c))
         /\ Kept(c, OtherEndClosed(c))
         /\ \A len : Kept(c, Acknowledged(c, len))
         /\ c.state = "connected" =>
              \A n, t : \A after \in BOOLEAN : Kept(c, Written(c, n, after, t))
         /\ c.state = "connected" =>
              \A t : Kept(c, [c EXCEPT !.closeTimer = t, !.state = "closePending"])
         /\ c.state # "free" => Kept(c, [c EXCEPT !.state = "closeReady"])
<1> USE DEF Kept, UsedState
<1>1. Kept(c, c)
  OBVIOUS
<1>2. Kept(c, Terminated(c, TRUE)) /\ Kept(c, Closed(c))
  BY DEF Terminated, Closed, FreePbuf, ConnRec
<1>3. c.state # "free" => Kept(c, Terminated(c, FALSE)) /\ Kept(c, Failed(c))
  BY DEF Terminated, Failed, FreePbuf, ConnRec
<1>4. Kept(c, OtherEndClosed(c))
  BY DEF OtherEndClosed, ConnRec
<1>5. \A len : Kept(c, Acknowledged(c, len))
  BY DEF Acknowledged, ConnRec
<1>6. c.state = "connected" =>
        \A n, t : \A after \in BOOLEAN : Kept(c, Written(c, n, after, t))
  BY DEF Written, ConnRec
<1>7. c.state = "connected" =>
        \A t : Kept(c, [c EXCEPT !.closeTimer = t, !.state = "closePending"])
  BY DEF ConnRec
<1>8. c.state # "free" => Kept(c, [c EXCEPT !.state = "closeReady"])
  BY DEF ConnRec
<1>9. QED
  BY <1>1, <1>2, <1>3, <1>4, <1>5, <1>6, <1>7, <1>8

\* The slots are kept when one changes in a way that keeps it.
LEMMA OneSlotKept ==
  ASSUME NEW i \in Slots, NEW d, EachHolds, Kept(conn[i], d),
         conn' = [conn EXCEPT ![i] = d]
  PROVE  SlotsKept
<1>1. ASSUME NEW j \in Slots PROVE Kept(conn[j], conn'[j])
  <2>1. CASE j = i
    <3>1. conn'[i] = d
      BY DEF EachHolds, Tables
    <3>2. QED
      BY <2>1, <3>1
  <2>2. CASE j # i
    <3>1. conn'[j] = conn[j]
      BY <2>2 DEF EachHolds, Tables
    <3>2. QED
      BY <3>1 DEF Kept
  <2>3. QED
    BY <2>1, <2>2
<1>2. QED
  BY <1>1 DEF SlotsKept

\* tcp_abort and tcp_close on the pcb of a slot.
LEMMA TcpKeeps ==
  ASSUME NEW i \in Slots, EachHolds
  PROVE  /\ \A S : pcb' = TcpAbort(S) => PcbsKept
         /\ pcb' = ClosePcb(conn[i].ownPcb) => PcbsKept
<1>1. ASSUME NEW S, pcb' = TcpAbort(S) PROVE PcbsKept
  BY <1>1 DEF PcbsKept, TcpAbort, IdlePcb
<1>2. ASSUME pcb' = ClosePcb(conn[i].ownPcb), NEW p \in Pcbs, pcb[p].st = "unused"
      PROVE  pcb'[p].st = "unused"
  <2>1. p # conn[i].ownPcb
    BY <1>2, SizesAssumption DEF EachHolds, SlotOK, Dead, Linked
  <2>2. QED
    BY <1>2, <2>1 DEF ClosePcb, TcpClose
<1>3. QED
  BY <1>1, <1>2 DEF PcbsKept

\* They are kept when nothing changes.
LEMMA SameKept ==
  ASSUME EachHolds, UNCHANGED <<conn, pcb>>
  PROVE  SlotsKept /\ PcbsKept
BY DEF SlotsKept, PcbsKept, Kept

\* Terminate, where it is called: a free slot is only terminated by the main
\* processor, and stays free.
LEMMA TerminateKept ==
  ASSUME NEW i \in Slots, NEW external \in BOOLEAN, EachHolds,
         external \/ conn[i].state # "free", Terminate(i, external)
  PROVE  SlotsKept /\ PcbsKept
<1>1. conn[i] \in ConnRec
  BY AnySlot
<1>2. Kept(conn[i], Terminated(conn[i], external))
  <2>1. external = TRUE \/ external = FALSE
    OBVIOUS
  <2>2. QED
    BY <1>1, <2>1, MethodsKeep
<1>3. /\ conn' = [conn EXCEPT ![i] = Terminated(conn[i], external)]
      /\ pcb' = TcpAbort({conn[i].ownPcb})
  BY DEF Terminate
<1>4. QED
  BY <1>2, <1>3, OneSlotKept, TcpKeeps

\* Close, called with any slot.
LEMMA CloseKept ==
  ASSUME NEW i \in Slots, NEW t, EachHolds, Close(i, t)
  PROVE  SlotsKept /\ PcbsKept
<1> DEFINE c == conn[i]
<1>1. c \in ConnRec
  BY AnySlot
<1>2. PICK d : /\ conn' = [conn EXCEPT ![i] = d] /\ Kept(c, d)
  <2>1. CASE c.state = "connected" /\ c.unAcked # 0
    <3>1. conn' = [conn EXCEPT ![i] =
                     [c EXCEPT !.closeTimer = t, !.state = "closePending"]]
      BY <2>1 DEF Close
    <3>2. QED
      BY <1>1, <2>1, <3>1, MethodsKeep
  <2>2. CASE c.state = "closePending"
    <3>1. conn' = [conn EXCEPT ![i] = c]
      BY <2>2 DEF Close
    <3>2. QED
      BY <1>1, <3>1, MethodsKeep
  <2>3. CASE ~(c.state = "connected" /\ c.unAcked # 0) /\ c.state # "closePending"
    <3>1. conn' = [conn EXCEPT ![i] = Closed(c)]
      BY <2>3 DEF Close
    <3>2. QED
      BY <1>1, <3>1, MethodsKeep
  <2>4. QED
    BY <2>1, <2>2, <2>3
<1>3. SlotsKept
  BY <1>2, OneSlotKept
<1>4. pcb' = pcb \/ pcb' = ClosePcb(conn[i].ownPcb)
  BY DEF Close
<1>5. PcbsKept
  <2>1. CASE pcb' = pcb
    BY <2>1 DEF PcbsKept
  <2>2. QED
    BY <1>4, <2>1, TcpKeeps
<1>6. QED
  BY <1>3, <1>5

\* Write aborts, sends, or sends and begins to close.
LEMMA WriteKept ==
  ASSUME NEW i \in Slots, NEW length, NEW after \in BOOLEAN, NEW ok, EachHolds,
         Write(i, length, after, ok)
  PROVE  SlotsKept /\ PcbsKept
<1>1. CASE UNCHANGED <<conn, pcb>>
  BY <1>1, SameKept
<1>2. CASE conn[i].state = "connected" /\ Terminate(i, FALSE)
  BY <1>2, TerminateKept
<1>3. CASE /\ conn[i].state = "connected"
           /\ pcb' = [pcb EXCEPT ![conn[i].ownPcb].inFlight = @ + length]
           /\ conn' = [conn EXCEPT ![i] = Written(@, length, after, now)]
  <2>1. conn' = [conn EXCEPT ![i] = Written(conn[i], length, after, now)]
    BY <1>3
  <2>2. SlotsKept
    <3>1. conn[i] \in ConnRec
      BY AnySlot
    <3>2. Kept(conn[i], Written(conn[i], length, after, now))
      BY <1>3, <3>1, MethodsKeep
    <3>3. QED
      BY <2>1, <3>2, OneSlotKept
  <2>3. conn[i].ownPcb \in Pcbs /\ pcb[conn[i].ownPcb].st = "open"
    BY <1>3, LiveSlot DEF IsLive, LiveState, Linked
  <2>4. PcbsKept
    BY <1>3, <2>3 DEF PcbsKept, EachHolds, Tables
  <2>5. QED
    BY <2>2, <2>4
<1>4. QED
  BY <1>1, <1>2, <1>3 DEF Write

\* Poll ends or moves on a close, and leaves the other slots alone.
LEMMA PollKept ==
  ASSUME NEW i \in Slots, NEW t, EachHolds, Poll(i, t)
  PROVE  SlotsKept /\ PcbsKept
<1>1. CASE TimedOut(conn[i], t)
  <2>1. Terminate(i, FALSE) /\ conn[i].state # "free"
    BY <1>1 DEF Poll, TimedOut
  <2>2. QED
    BY <2>1, TerminateKept
<1>2. CASE ~TimedOut(conn[i], t) /\ conn[i].state = "closeReady"
  BY <1>2, CloseKept DEF Poll
<1>3. CASE /\ ~TimedOut(conn[i], t)
           /\ conn[i].state = "closePending" /\ conn[i].unAcked = 0
  <2>1. conn' = [conn EXCEPT ![i] = [conn[i] EXCEPT !.state = "closeReady"]]
        /\ UNCHANGED pcb
    BY <1>3 DEF Poll
  <2>2. Kept(conn[i], [conn[i] EXCEPT !.state = "closeReady"])
    BY <1>3, AnySlot, MethodsKeep
  <2>3. QED
    BY <2>1, <2>2, OneSlotKept DEF PcbsKept
<1>4. CASE /\ ~TimedOut(conn[i], t) /\ conn[i].state # "closeReady"
           /\ ~(conn[i].state = "closePending" /\ conn[i].unAcked = 0)
  <2>1. UNCHANGED <<conn, pcb>>
    BY <1>4 DEF Poll
  <2>2. QED
    BY <2>1, SameKept
<1>5. QED
  BY <1>1, <1>2, <1>3, <1>4

\* The steps of Connection that ConnectionStep takes over.
LEMMA ConnectionStepKept ==
  ASSUME EachHolds, ConnectionStep
  PROVE  SlotsKept /\ PcbsKept /\ EachHolds'
<1>1. EachHolds'
  <2>1. Next
    BY DEF ConnectionStep, Next, LwipEvent, SamCommand
  <2>2. QED
    BY <2>1, NextEachHolds
<1>2. ASSUME NEW p \in Pcbs, ConnRecvFin(p) PROVE SlotsKept /\ PcbsKept
  <2> DEFINE i == pcb[p].arg
  <2>1. i \in Slots /\ conn[i] \in ConnRec
    BY <1>2, CallbackSlot DEF ConnRecvFin, Linked
  <2>2. conn' = [conn EXCEPT ![i] = OtherEndClosed(conn[i])]
    BY <1>2 DEF ConnRecvFin
  <2>3. PcbsKept
    BY <1>2 DEF ConnRecvFin, PcbsKept, EachHolds, Tables
  <2> HIDE DEF i
  <2>4. Kept(conn[i], OtherEndClosed(conn[i]))
    BY <2>1, MethodsKeep
  <2>5. QED
    BY <2>1, <2>2, <2>3, <2>4, OneSlotKept
<1>3. ASSUME NEW p \in Pcbs, NEW len, ConnSent(p, len)
      PROVE  SlotsKept /\ PcbsKept
  <2> DEFINE i == pcb[p].arg
  <2>1. i \in Slots /\ conn[i] \in ConnRec
    BY <1>3, CallbackSlot DEF ConnSent, Linked
  <2>2. conn' = [conn EXCEPT ![i] = Acknowledged(conn[i], len)]
    BY <1>3 DEF ConnSent
  <2>3. PcbsKept
    BY <1>3 DEF ConnSent, PcbsKept, EachHolds, Tables
  <2> HIDE DEF i
  <2>4. Kept(conn[i], Acknowledged(conn[i], len))
    BY <2>1, MethodsKeep
  <2>5. QED
    BY <2>1, <2>2, <2>3, <2>4, OneSlotKept
<1>4. ASSUME NEW p \in Pcbs, ConnError(p) PROVE SlotsKept /\ PcbsKept
  <2> DEFINE i == pcb[p].arg
  <2>1. i \in Slots /\ conn[i] \in ConnRec /\ conn[i].state # "free"
    BY <1>4, CallbackSlot DEF ConnError, Linked, LiveState
  <2>2. /\ conn' = [conn EXCEPT ![i] = Failed(conn[i])]
        /\ pcb' = TcpAbort({p})
    BY <1>4 DEF ConnError
  <2> HIDE DEF i
  <2>3. Kept(conn[i], Failed(conn[i]))
    BY <2>1, MethodsKeep
  <2>4. QED
    BY <2>1, <2>2, <2>3, OneSlotKept, TcpKeeps
<1>5. ASSUME NEW p \in Pcbs, LwipFinish(p) PROVE SlotsKept /\ PcbsKept
  <2>1. UNCHANGED conn /\ pcb' = TcpAbort({p})
    BY <1>5 DEF LwipFinish
  <2>2. SlotsKept
    BY <2>1 DEF SlotsKept, Kept
  <2>3. PcbsKept
    BY <2>1 DEF PcbsKept, TcpAbort, IdlePcb
  <2>4. QED
    BY <2>2, <2>3
<1>6. ASSUME NEW i \in Slots, connAbort(i) PROVE SlotsKept /\ PcbsKept
  BY <1>6, TerminateKept DEF connAbort
<1>7. ASSUME NEW i \in Slots, connClose(i) PROVE SlotsKept /\ PcbsKept
  BY <1>7, CloseKept DEF connClose
<1>8. ASSUME NEW i \in Slots, NEW n, NEW flagClose \in BOOLEAN, NEW ok,
             connWrite(i, n, flagClose, ok)
      PROVE  SlotsKept /\ PcbsKept
  <2> DEFINE acceptedLength == Lesser(CanWrite(i), Lesser(n, MaxDataLength))
             after == acceptedLength = n /\ flagClose
  <2>1. Write(i, acceptedLength, after, ok) /\ after \in BOOLEAN
    BY <1>8 DEF connWrite
  <2> HIDE DEF acceptedLength, after
  <2>2. QED
    BY <2>1, WriteKept
<1>9. ASSUME NEW d, PollOne(d) PROVE SlotsKept /\ PcbsKept
  <2>1. nextConnectionToPoll \in Slots
    BY DEF EachHolds, LoopOK
  <2>2. Poll(nextConnectionToPoll, (now + d) % ClockMod)
    BY <1>9 DEF PollOne
  <2>3. QED
    BY <2>1, <2>2, PollKept
<1>10. SlotsKept /\ PcbsKept
  BY <1>2, <1>3, <1>4, <1>5, <1>6, <1>7, <1>8, <1>9 DEF ConnectionStep
<1>11. QED
  BY <1>1, <1>10

-----------------------------------------------------------------------------
(* The added invariants.                                                   *)

\* So that the users of a port can be counted.
LEMMA SlotsAreFinite == IsFiniteSet(Slots)
BY SizesAssumption, FS_Interval DEF Slots

\* A port that gains no users keeps to its limit.
LEMMA FewerUsers ==
  ASSUME LimitOK, \A port \in Ports : Users(port)' \subseteq Users(port)
  PROVE  LimitOK'
<1>1. ASSUME NEW port \in Ports PROVE Cardinality(Users(port)') <= MaxConns
  <2>1. IsFiniteSet(Users(port)) /\ Users(port)' \subseteq Users(port)
    <3>1. Users(port) \subseteq Slots
      BY DEF Users
    <3>2. QED
      BY <3>1, SlotsAreFinite, FS_Subset
  <2>2. /\ Cardinality(Users(port)') <= Cardinality(Users(port))
        /\ Cardinality(Users(port)) \in Nat /\ Cardinality(Users(port)') \in Nat
    BY <2>1, FS_Subset, FS_CardinalityType
  <2>3. Cardinality(Users(port)) <= MaxConns /\ MaxConns \in Nat
    BY ListenerAssumption DEF LimitOK
  <2>4. QED
    BY <2>2, <2>3
<1>2. QED
  BY <1>1 DEF LimitOK

\* A step that keeps the slots and the listeners keeps the added invariants.
LEMMA KeptIsEnough ==
  ASSUME ServerInv, SlotsKept, PcbsKept, EachHolds',
         UNCHANGED <<lvars, handshake, history>>
  PROVE  ServerInv'
<1> USE DEF ServerInv
<1>1. ListenerInv'
  BY DEF ListenerInv, lvars
<1>2. HandshakeOK'
  BY DEF HandshakeOK, Pending, PcbsKept, lvars
<1>3. TakenOK'
  BY DEF TakenOK, lvars, history
<1>4. StoppedOK'
  BY DEF StoppedOK, lvars, history, SlotsKept, Kept
<1>5. LimitOK'
  <2>1. ASSUME NEW port \in Ports PROVE Users(port)' \subseteq Users(port)
    BY DEF Users, SlotsKept, Kept, history
  <2>2. QED
    BY <2>1, FewerUsers
<1>6. QED
  BY <1>1, <1>2, <1>3, <1>4, <1>5

-----------------------------------------------------------------------------
(* The steps.                                                              *)

\* Facts about the numbers of objects and the lists.
LEMMA Objects ==
  ASSUME ListenerInv
  PROVE  /\ created \in Nat /\ 1 .. created \subseteq Ids
         /\ obj \in [Ids -> ListenerRec]
         /\ \A l \in ToSet(activeList) : l \in 1 .. created /\ obj[l].port \in Ports
         /\ ~hung => \A l \in Ids : obj[l].listening => In(l, activeList)
<1> USE DEF ListenerInv, Good
<1>1. /\ created \in Nat /\ 1 .. created \subseteq Ids
      /\ obj \in [Ids -> ListenerRec]
      /\ activeList \in Seq(1 .. created)
  BY ListenerAssumption DEF Typed, Ids
<1>2. ASSUME NEW l \in ToSet(activeList)
      PROVE  l \in 1 .. created /\ obj[l].port \in Ports
  <2>1. PICK k \in 1 .. Len(activeList) : activeList[k] = l
    BY <1>1 DEF ToSet
  <2>2. QED
    BY <1>1, <2>1 DEF AllApart
<1>3. QED
  BY <1>1, <1>2 DEF Shown

\* A first packet starts a handshake with an object that listens.
LEMMA SynKeeps ==
  ASSUME NEW p \in Pcbs, ServerInv, Syn(p)
  PROVE  ServerInv'
<1> USE DEF ServerInv
<1>1. PICK l \in ToSet(activeList) :
        handshake' = [handshake EXCEPT ![p] = [l |-> l, port |-> obj[l].port]]
  BY DEF Syn
<1>2. l \in 1 .. created /\ obj[l].port \in Ports
  BY Objects
<1>3. UNCHANGED <<vars, lvars, history>> /\ pcb[p].st = "unused"
  BY DEF Syn
<1>4. EachHolds' /\ ListenerInv'
  BY <1>3, NothingMoves DEF vars, lvars, ListenerInv, EachHolds, LoopOK
<1>5. HandshakeOK'
  <2>1. handshake' = [q \in Pcbs |-> handshake'[q]]
    BY <1>1 DEF HandshakeOK
  <2>2. ASSUME NEW q \in Pcbs, Pending(q)'
        PROVE  /\ handshake'[q].l \in 1 .. created
               /\ handshake'[q].port \in Ports /\ pcb[q].st = "unused"
    <3>1. CASE q = p
      <4>1. handshake'[q] = [l |-> l, port |-> obj[l].port]
        BY <1>1, <3>1 DEF HandshakeOK
      <4>2. QED
        BY <1>2, <1>3, <3>1, <4>1
    <3>2. CASE q # p
      <4>1. handshake'[q] = handshake[q]
        BY <1>1, <3>2 DEF HandshakeOK
      <4>2. QED
        BY <2>2, <4>1 DEF HandshakeOK, Pending
    <3>3. QED
      BY <3>1, <3>2
  <2>3. QED
    BY <1>3, <2>1, <2>2 DEF HandshakeOK, vars, lvars
<1>6. TakenOK' /\ StoppedOK' /\ LimitOK'
  BY <1>3 DEF TakenOK, StoppedOK, LimitOK, Users, vars, lvars, history
<1>7. QED
  BY <1>4, <1>5, <1>6

\* The handshakes that are left when one ends.
LEMMA OneHandshakeLess ==
  ASSUME NEW p \in Pcbs, HandshakeOK,
         handshake' = [handshake EXCEPT ![p] = NoHandshake],
         1 .. created \subseteq 1 .. created',
         \A q \in Pcbs \ {p} : pcb'[q] = pcb[q]
  PROVE  HandshakeOK'
<1>1. handshake' = [q \in Pcbs |-> handshake'[q]]
  BY DEF HandshakeOK
<1>2. ASSUME NEW q \in Pcbs, Pending(q)'
      PROVE  /\ handshake'[q].l \in 1 .. created'
             /\ handshake'[q].port \in Ports /\ pcb'[q].st = "unused"
  <2>1. handshake'[p] = NoHandshake
    BY DEF HandshakeOK
  <2>2. q # p
    BY <1>2, <2>1 DEF Pending
  <2>3. handshake'[q] = handshake[q] /\ pcb'[q] = pcb[q]
    BY <2>2 DEF HandshakeOK
  <2>4. QED
    BY <1>2, <2>3 DEF HandshakeOK, Pending
<1>3. QED
  BY <1>1, <1>2 DEF HandshakeOK

\* A handshake that comes to nothing.
LEMMA HandshakeLostKeeps ==
  ASSUME NEW p \in Pcbs, ServerInv, HandshakeLost(p)
  PROVE  ServerInv'
<1> USE DEF ServerInv
<1>1. /\ UNCHANGED <<vars, lvars, history>>
      /\ handshake' = [handshake EXCEPT ![p] = NoHandshake]
  BY DEF HandshakeLost
<1>2. EachHolds' /\ ListenerInv'
  BY <1>1, NothingMoves DEF vars, lvars, ListenerInv, EachHolds, LoopOK
<1>3. HandshakeOK'
  <2>1. 1 .. created \subseteq 1 .. created' /\ \A q \in Pcbs \ {p} : pcb'[q] = pcb[q]
    BY <1>1 DEF vars, lvars
  <2>2. QED
    BY <1>1, <2>1, OneHandshakeLess
<1>4. TakenOK' /\ StoppedOK' /\ LimitOK'
  BY <1>1 DEF TakenOK, StoppedOK, LimitOK, Users, vars, lvars, history
<1>5. QED
  BY <1>2, <1>3, <1>4

\* A connection that is taken for a port is one more user of it at most, and
\* none if it came through an object that has moved to another port.
LEMMA AcceptLimit ==
  ASSUME NEW l \in Ids, NEW i \in FreeSlots, NEW p \in Pcbs, NEW port \in Ports,
         EachHolds, LimitOK, obj[l] \in ListenerRec, Takes(l), Accept(i, p, port),
         foreign' = IF port = obj[l].port THEN foreign \ {i} ELSE foreign \cup {i}
  PROVE  LimitOK'
<1>1. i \in Slots /\ conn[i] \in ConnRec /\ conn[i].state = "free"
  BY AnySlot DEF FreeSlots
<1>2. /\ conn'[i].localPort = port /\ conn'[i].state = "connected"
      /\ \A j \in Slots \ {i} : conn'[j] = conn[j]
  <2>1. conn' = [conn EXCEPT ![i] = Accepted(conn[i], p, port)]
    BY DEF Accept
  <2>2. /\ Accepted(conn[i], p, port).localPort = port
        /\ Accepted(conn[i], p, port).state = "connected"
    BY <1>1 DEF Accepted, ConnRec
  <2>3. QED
    BY <1>1, <2>1, <2>2 DEF EachHolds, Tables
<1>3. i \notin Users(port) /\ \A q \in Ports : i \notin Users(q)
  BY <1>1 DEF Users, UsedState
<1>4. ASSUME NEW q \in Ports, q # obj[l].port \/ q # port
      PROVE  Users(q)' \subseteq Users(q)
  <2>1. ASSUME NEW j \in Users(q)' PROVE j \in Users(q)
    <3>1. /\ j \in Slots /\ conn'[j].localPort = q /\ j \notin foreign'
          /\ conn'[j].state \in UsedState
      BY <2>1 DEF Users
    <3>2. j # i
      BY <1>2, <1>4, <3>1
    <3>3. conn'[j] = conn[j] /\ j \notin foreign
      BY <1>2, <3>1, <3>2
    <3>4. QED
      BY <3>1, <3>3 DEF Users
  <2>2. QED
    BY <2>1
<1>5. ASSUME NEW q \in Ports PROVE Cardinality(Users(q)') <= MaxConns
  <2>1. MaxConns \in Nat
    BY ListenerAssumption
  <2>2. CASE q # obj[l].port \/ q # port
    <3>1. Users(q) \subseteq Slots
      BY DEF Users
    <3>2. IsFiniteSet(Users(q)) /\ Users(q)' \subseteq Users(q)
      BY <1>4, <2>2, <3>1, SlotsAreFinite, FS_Subset
    <3>3. /\ Cardinality(Users(q)') <= Cardinality(Users(q))
          /\ Cardinality(Users(q)) \in Nat /\ Cardinality(Users(q)') \in Nat
      BY <3>2, FS_Subset, FS_CardinalityType
    <3>4. Cardinality(Users(q)) <= MaxConns
      BY DEF LimitOK
    <3>5. QED
      BY <2>1, <3>3, <3>4
  <2>3. CASE q = port /\ q = obj[l].port
    <3> DEFINE C == {j \in Slots : /\ conn[j].localPort = q
                                   /\ conn[j].state \in UsedState}
    <3>1. Cardinality(C) = CountConnectionsOnPort(obj[l].port)
      BY <2>3 DEF CountConnectionsOnPort, UsedState
    <3>2. /\ Cardinality(C) < obj[l].maxConnections
          /\ obj[l].maxConnections \in 0 .. MaxConns
      BY <3>1 DEF Takes, Accepts, ListenerRec
    <3>3. IsFiniteSet(C)
      <4>1. C \subseteq Slots
        OBVIOUS
      <4>2. QED
        BY <4>1, SlotsAreFinite, FS_Subset
    <3>4. Users(q)' \subseteq C \cup {i}
      <4>1. ASSUME NEW j \in Users(q)', j # i PROVE j \in C
        BY <1>2, <4>1 DEF Users
      <4>2. QED
        BY <4>1
    <3>5. i \notin C
      BY <1>1 DEF UsedState
    <3> HIDE DEF C
    <3>6. /\ IsFiniteSet(C \cup {i})
          /\ Cardinality(C \cup {i}) = Cardinality(C) + 1
      BY <3>3, <3>5, FS_AddElement
    <3>7. /\ Cardinality(Users(q)') <= Cardinality(C \cup {i})
          /\ IsFiniteSet(Users(q)')
      BY <3>4, <3>6, FS_Subset
    <3>8. Cardinality(C) \in Nat /\ Cardinality(Users(q)') \in Nat
      BY <3>3, <3>7, FS_CardinalityType
    <3>9. QED
      BY <2>1, <3>2, <3>6, <3>7, <3>8
  <2>4. QED
    BY <2>2, <2>3
<1>6. QED
  BY <1>5 DEF LimitOK

\* A handshake that is complete: conn_accept.
LEMMA CompletedKeeps ==
  ASSUME NEW p \in Pcbs, ServerInv, ~hung, Completed(p)
  PROVE  ServerInv'
<1> USE DEF ServerInv
<1> DEFINE l == handshake[p].l
           port == handshake[p].port
<1>1. /\ l \in 1 .. created /\ l \in Ids /\ port \in Ports
      /\ pcb[p].st = "unused" /\ obj[l] \in ListenerRec
  <2>1. l \in 1 .. created /\ port \in Ports /\ pcb[p].st = "unused"
    BY DEF Completed, HandshakeOK
  <2>2. QED
    BY <2>1, Objects
<1>2. /\ handshake' = [handshake EXCEPT ![p] = NoHandshake]
      /\ UNCHANGED <<nextConnectionToPoll, now, stopped>>
  BY DEF Completed
<1>3. LoopOK'
  BY <1>2 DEF EachHolds, LoopOK
<1>4. CASE ~Takes(l)
  <2>1. UNCHANGED <<conn, pcb, lvars, foreign, taken>>
    BY <1>4 DEF Completed
  <2>2. EachHolds' /\ ListenerInv'
    BY <1>3, <2>1, NothingMoves DEF lvars, ListenerInv
  <2>3. HandshakeOK'
    BY <1>2, <2>1, OneHandshakeLess DEF lvars
  <2>4. TakenOK' /\ StoppedOK' /\ LimitOK'
    BY <1>2, <2>1 DEF TakenOK, StoppedOK, LimitOK, Users, lvars
  <2>5. QED
    BY <2>2, <2>3, <2>4
<1>5. CASE Takes(l)
  <2>1. PICK i \in Slots :
          /\ Allocate(i)
          /\ Accept(i, p, port)
          /\ foreign' = IF port = obj[l].port THEN foreign \ {i}
                        ELSE foreign \cup {i}
    BY <1>5 DEF Completed
  <2>2. /\ AcceptOn(l)
        /\ taken' = IF obj[l].protocol = protocolFtpData
                    THEN [taken EXCEPT ![l] = @ + 1] ELSE taken
    BY <1>5 DEF Completed
  <2>3. i \in FreeSlots
    BY <2>1 DEF Allocate
  <2> HIDE DEF l, port
  <2>4. EachHolds'
    BY <1>1, <1>3, <2>1, <2>3, AcceptKeeps
  <2> DEFINE n == CountConnectionsOnPort(obj[l].port)
             f == FreeSlots # {}
  <2>5. ListenerAccept(l, n, f)
    BY <2>2 DEF AcceptOn
  <2>6. Accepts(l, n, f)
    BY <1>5 DEF Takes
  <2> HIDE DEF n, f
  <2>7. /\ ListenerInv' /\ created' = created
        /\ \A m \in Ids \ {l} : obj'[m] = obj[m]
        /\ obj[l].protocol = protocolFtpData
             => obj'[l] = [obj[l] EXCEPT !.listening = FALSE]
        /\ obj[l].protocol # protocolFtpData => UNCHANGED lvars
    BY <1>1, <2>5, <2>6, ListenerAcceptKeeps
  <2>8. obj[l].listening
    BY <2>6 DEF Accepts
  <2>9. HandshakeOK'
    <3>1. \A q \in Pcbs \ {p} : pcb'[q] = pcb[q]
      BY <2>1 DEF Accept, EachHolds, Tables
    <3>2. QED
      BY <1>2, <2>7, <3>1, OneHandshakeLess
  <2>10. TakenOK'
    <3>1. CASE obj[l].protocol = protocolFtpData
      <4>1. taken[l] = 0 /\ taken' = [taken EXCEPT ![l] = 1]
        <5>1. taken[l] = 0
          BY <1>1, <2>8, <3>1 DEF TakenOK
        <5>2. taken' = [taken EXCEPT ![l] = taken[l] + 1]
          BY <2>2, <3>1
        <5>3. taken[l] + 1 = 1
          BY <5>1
        <5>4. QED
          BY <5>1, <5>2, <5>3
      <4>2. taken' \in [Ids -> 0 .. 1]
        BY <1>1, <4>1 DEF TakenOK
      <4>3. obj'[l].listening = FALSE
        BY <1>1, <2>7, <3>1 DEF ListenerRec
      <4>4. ASSUME NEW m \in Ids, obj'[m].listening, obj'[m].protocol = protocolFtpData
            PROVE  taken'[m] = 0
        <5>1. m # l
          BY <4>3, <4>4
        <5>2. obj'[m] = obj[m] /\ taken'[m] = taken[m]
          BY <2>7, <4>1, <5>1 DEF TakenOK
        <5>3. QED
          BY <4>4, <5>2 DEF TakenOK
      <4>5. QED
        BY <4>2, <4>4 DEF TakenOK
    <3>2. CASE obj[l].protocol # protocolFtpData
      BY <2>2, <2>7, <3>2 DEF TakenOK, lvars
    <3>3. QED
      BY <3>1, <3>2
  <2>11. StoppedOK'
    <3>1. In(l, activeList)
      BY <1>1, <2>8, Objects
    <3>2. ~stopped
      BY <3>1 DEF StoppedOK, In
    <3>3. QED
      BY <1>2, <3>2 DEF StoppedOK
  <2>12. LimitOK'
    BY <1>1, <1>5, <2>1, <2>3, AcceptLimit
  <2>13. QED
    BY <2>4, <2>7, <2>9, <2>10, <2>11, <2>12
<1>6. QED
  BY <1>4, <1>5

\* The command networkListen: no handshake loses its object, and an object that
\* is set up anew begins to count anew.
LEMMA networkListenKeeps ==
  ASSUME NEW ip \in Ips, NEW port \in Ports, NEW protocol \in Protocols,
         NEW maxConns \in 0 .. MaxConns, NEW ok \in BOOLEAN,
         ServerInv, networkListen(ip, port, protocol, maxConns, ok)
  PROVE  ServerInv'
<1> USE DEF ServerInv
<1>1. /\ Listen(ip, port, protocol, maxConns, ok)
      /\ taken' = [l \in Ids |->
           IF obj'[l] \in {obj[l], [obj[l] EXCEPT !.listening = FALSE]}
           THEN taken[l] ELSE 0]
      /\ stopped' = (stopped /\ activeList' = <<>>)
      /\ UNCHANGED <<vars, handshake, foreign>>
  BY DEF networkListen
<1>2. ListenerInv'
  BY <1>1, ListenKeeps
<1>3. EachHolds'
  BY <1>1, NothingMoves DEF vars, EachHolds, LoopOK
<1>4. 1 .. created \subseteq 1 .. created'
  <2>1. created' = created \/ created' > created
    BY <1>1 DEF Listen, SetUp, CannotAllocate
  <2>2. created \in Nat /\ created' \in Nat
    BY <1>2, ListenerAssumption DEF ListenerInv, Good, Typed
  <2>3. QED
    BY <2>1, <2>2
<1>5. HandshakeOK'
  BY <1>1, <1>4 DEF HandshakeOK, Pending, vars
<1>6. TakenOK'
  <2>1. taken' \in [Ids -> 0 .. 1]
    BY <1>1 DEF TakenOK
  <2>2. ASSUME NEW l \in Ids, obj'[l].listening, obj'[l].protocol = protocolFtpData
        PROVE  taken'[l] = 0
    <3>1. obj[l] \in ListenerRec
      BY Objects
    <3>2. CASE obj'[l] = obj[l]
      BY <1>1, <2>2, <3>2 DEF TakenOK
    <3>3. CASE obj'[l] = [obj[l] EXCEPT !.listening = FALSE]
      BY <2>2, <3>1, <3>3 DEF ListenerRec
    <3>4. CASE obj'[l] \notin {obj[l], [obj[l] EXCEPT !.listening = FALSE]}
      BY <1>1, <3>4
    <3>5. QED
      BY <3>2, <3>3, <3>4
  <2>3. QED
    BY <2>1, <2>2 DEF TakenOK
<1>7. StoppedOK'
  BY <1>1 DEF StoppedOK, vars
<1>8. LimitOK'
  BY <1>1 DEF LimitOK, Users, vars
<1>9. QED
  BY <1>2, <1>3, <1>5, <1>6, <1>7, <1>8

\* The command networkStop: no listener is left, and no slot is in use.
LEMMA networkStopAllKeeps ==
  ASSUME ServerInv, networkStopAll
  PROVE  ServerInv'
<1> USE DEF ServerInv
<1>1. /\ TerminateAll /\ StopListening
      /\ UNCHANGED <<nextConnectionToPoll, now>>
      /\ UNCHANGED <<handshake, foreign, taken>>
  BY DEF networkStopAll, networkStop, SamVars
<1>2. EachHolds'
  BY <1>1, TerminateAllKeeps DEF EachHolds, LoopOK
<1>3. ListenerInv' /\ activeList' = <<>> /\ hung' = FALSE
  BY <1>1, StopListeningKeeps
<1>4. ASSUME NEW i \in Slots PROVE conn'[i].state = "free"
  <2>1. conn'[i] = Terminated(conn[i], TRUE) /\ conn[i] \in ConnRec
    BY <1>1, AnySlot DEF TerminateAll
  <2>2. QED
    BY <2>1 DEF Terminated, FreePbuf, ConnRec
<1>5. HandshakeOK'
  <2>1. created' = created
    BY <1>1 DEF StopListening
  <2>2. \A p \in Pcbs : pcb[p].st = "unused" => pcb'[p].st = "unused"
    BY <1>1 DEF TerminateAll, TcpAbort, IdlePcb
  <2>3. QED
    BY <1>1, <2>1, <2>2 DEF HandshakeOK, Pending
<1>6. TakenOK'
  <2>1. ASSUME NEW l \in Ids PROVE ~obj'[l].listening
    <3>1. Shown(activeList', obj')
      BY <1>3 DEF ListenerInv, Good
    <3>2. QED
      BY <1>3, <3>1 DEF Shown, In
  <2>2. QED
    BY <1>1, <2>1 DEF TakenOK
<1>7. StoppedOK'
  BY <1>3, <1>4 DEF StoppedOK
<1>8. LimitOK'
  <2>1. ASSUME NEW port \in Ports PROVE Users(port)' \subseteq Users(port)
    BY <1>4 DEF Users, UsedState
  <2>2. QED
    BY <2>1, FewerUsers
<1>9. QED
  BY <1>2, <1>3, <1>5, <1>6, <1>7, <1>8

\* With no slot in use, no port has a user.
LEMMA NoUsers ==
  ASSUME \A i \in Slots : conn[i].state = "free"
  PROVE  LimitOK
<1>1. ASSUME NEW port \in Ports PROVE Cardinality(Users(port)) <= MaxConns
  <2>1. Users(port) = {}
    BY DEF Users, UsedState
  <2>2. QED
    BY <2>1, FS_EmptySet, ListenerAssumption
<1>2. QED
  BY <1>1 DEF LimitOK

\* Initially there are no connections, no listeners and no handshakes.
LEMMA ServerInitInv == ServerInit => ServerInv
<1> SUFFICES ASSUME ServerInit PROVE ServerInv
  OBVIOUS
<1>1. Init /\ ListenerInit
  BY DEF ServerInit
<1>2. EachHolds /\ ListenerInv
  BY <1>1, InitIInv, IInvEachHolds, ListenerInitInv
<1>3. \A i \in Slots : conn[i].state = "free"
  BY <1>1 DEF Init, NewConnection
<1>4. HandshakeOK
  BY DEF ServerInit, HandshakeOK, Pending
<1>5. TakenOK
  BY <1>1 DEF ServerInit, ListenerInit, TakenOK, NewListener
<1>6. StoppedOK
  BY <1>1, <1>3 DEF ListenerInit, StoppedOK
<1>7. LimitOK
  BY <1>3, NoUsers
<1>8. QED
  BY <1>2, <1>4, <1>5, <1>6, <1>7 DEF ServerInv

\* A restart leads to the initial state.
LEMMA ResetKeeps ==
  ASSUME ServerReset
  PROVE  ServerInv'
<1>1. ServerInit'
  BY DEF ServerReset, WatchdogReset, ServerInit, Init, ListenerInit
<1>2. ServerInit' => ServerInv'
  BY ServerInitInv, PTL
<1>3. QED
  BY <1>1, <1>2

\* Every step, and every stutter, keeps the invariant.
LEMMA ServerNextKeeps == ServerInv /\ [ServerNext]_svars => ServerInv'
<1> SUFFICES ASSUME ServerInv, [ServerNext]_svars PROVE ServerInv'
  OBVIOUS
<1>1. ASSUME NEW p \in Pcbs, Syn(p) PROVE ServerInv'
  BY <1>1, SynKeeps
<1>2. ASSUME NEW p \in Pcbs, HandshakeLost(p) PROVE ServerInv'
  BY <1>2, HandshakeLostKeeps
<1>3. ASSUME ~hung, NEW p \in Pcbs, Completed(p) PROVE ServerInv'
  BY <1>3, CompletedKeeps
<1>4. CASE ConnectionStep
  <2>1. SlotsKept /\ PcbsKept /\ EachHolds'
    BY <1>4, ConnectionStepKept DEF ServerInv
  <2>2. UNCHANGED <<lvars, handshake, history>>
    BY <1>4 DEF ConnectionStep
  <2>3. QED
    BY <2>1, <2>2, KeptIsEnough
<1>5. ASSUME NEW ip \in Ips, NEW port \in Ports, NEW protocol \in Protocols,
             NEW maxConns \in 0 .. MaxConns, NEW ok \in BOOLEAN,
             networkListen(ip, port, protocol, maxConns, ok)
      PROVE  ServerInv'
  BY <1>5, networkListenKeeps
<1>6. CASE networkStopAll
  BY <1>6, networkStopAllKeeps
<1>7. CASE ServerReset
  BY <1>7, ResetKeeps
<1>8. CASE UNCHANGED svars
  <2>1. /\ UNCHANGED <<conn, pcb, nextConnectionToPoll, now>>
        /\ UNCHANGED <<lvars, handshake, history>>
    BY <1>8 DEF svars, vars
  <2>2. SlotsKept /\ PcbsKept /\ EachHolds'
    BY <2>1, SameKept, NothingMoves DEF ServerInv, EachHolds, LoopOK
  <2>3. QED
    BY <2>1, <2>2, KeptIsEnough
<1>9. QED
  BY <1>1, <1>2, <1>3, <1>4, <1>5, <1>6, <1>7, <1>8 DEF ServerNext

\* The invariant holds in every reachable state.
THEOREM ServerInvHolds == ServerSpec => []ServerInv
BY ServerInitInv, ServerNextKeeps, PTL DEF ServerSpec

\* Both parts keep their types, and a handshake has an object that exists.
THEOREM ServerTypeCorrect == ServerSpec => []ServerTypeOK
<1>1. ServerInv => ServerTypeOK
  BY IInvEachHolds, ListenerInvImplies
     DEF ServerInv, ServerTypeOK, IInv, HandshakeOK
<1>2. QED
  BY <1>1, ServerInvHolds, PTL

\* Slots and pcbs belong together one to one, and a pcb that lwIP is still
\* setting up belongs to nobody.
THEOREM ServerOwnershipHolds == ServerSpec => []Ownership
<1>1. ServerInv => Ownership
  BY IInvEachHolds DEF ServerInv, Ownership, IInv, HandshakeOK
<1>2. QED
  BY <1>1, ServerInvHolds, PTL

\* After networkStop there is no connection until something listens again.
THEOREM QuietHolds == ServerSpec => []QuietAfterStop
<1>1. ServerInv => QuietAfterStop
  BY DEF ServerInv, StoppedOK, QuietAfterStop
<1>2. QED
  BY <1>1, ServerInvHolds, PTL

\* A listener for FTP data hands over one connection.
THEOREM FtpDataOnceHolds == ServerSpec => []FtpDataOnce
<1>1. ServerInv => FtpDataOnce
  BY DEF ServerInv, TakenOK, FtpDataOnce
<1>2. QED
  BY <1>1, ServerInvHolds, PTL

\* A port never has more connections than a listener was asked to allow, other
\* than those that came through an object given to this port meanwhile.
THEOREM PortLimitHolds == ServerSpec => []PortLimit
<1>1. ASSUME ServerInv, NEW port \in Ports
      PROVE  Cardinality({i \in Slots : /\ conn[i].localPort = port
                                        /\ i \notin foreign
                                        /\ IsLive(i)
                                        /\ conn[i].state # "closeReady"}) <= MaxConns
  <2>1. {i \in Slots : /\ conn[i].localPort = port
                       /\ i \notin foreign
                       /\ IsLive(i)
                       /\ conn[i].state # "closeReady"} = Users(port)
    BY DEF Users, UsedState, IsLive, LiveState
  <2>2. QED
    BY <1>1, <2>1 DEF ServerInv, LimitOK
<1>2. ServerInv => PortLimit
  BY <1>1 DEF PortLimit
<1>3. QED
  BY <1>2, ServerInvHolds, PTL
-----------------------------------------------------------------------------
(* The composition takes no step with the listeners or the connection      *)
(* table that Listener or Connection does not have, but for the restart.   *)
(* So the invariants proved of the parts alone hold in it too.             *)

\* A step of both parts, or of one.
Parts == [Next \/ Init']_vars /\ [ListenerNext]_lvars

\* A completed handshake is an accepted connection, for a port there is.
LEMMA CompletedIsAccept ==
  ASSUME NEW p \in Pcbs, ServerInv, ~hung, Completed(p)
  PROVE  Parts
<1> DEFINE l == handshake[p].l
           port == handshake[p].port
           n == CountConnectionsOnPort(obj[l].port)
           f == FreeSlots # {}
<1>1. /\ l \in 1 .. created /\ obj[l] \in ListenerRec
      /\ port \in Ports /\ pcb[p].st = "unused"
  <2>1. l \in 1 .. created /\ port \in Ports /\ pcb[p].st = "unused"
    BY DEF Completed, ServerInv, HandshakeOK
  <2>2. QED
    BY <2>1, Objects DEF ServerInv
<1>2. CASE ~Takes(l)
  BY <1>2 DEF Completed, Parts, vars
<1>3. CASE Takes(l)
  <2>1. /\ \E i \in Slots : Allocate(i) /\ Accept(i, p, port)
        /\ ListenerAccept(l, n, f)
        /\ UNCHANGED <<nextConnectionToPoll, now>>
    BY <1>3 DEF Completed, AcceptOn
  <2>2. AcceptNew(p, port)
    BY <1>1, <2>1 DEF AcceptNew
  <2>3. Next
    BY <1>1, <2>2 DEF Next, LwipEvent
  <2>4. n \in 0 .. MaxConns
    <3>1. n \in Nat
      <4> DEFINE U == {i \in Slots :
                         /\ conn[i].localPort = obj[l].port
                         /\ conn[i].state \in {"connected", "otherEndClosed",
                                               "closePending"}}
      <4>1. IsFiniteSet(U)
        BY SlotsAreFinite, FS_Subset
      <4>2. n = Cardinality(U)
        BY DEF CountConnectionsOnPort
      <4> HIDE DEF U, n
      <4>3. QED
        BY <4>1, <4>2, FS_CardinalityType
    <3>2. n < obj[l].maxConnections
      BY <1>3 DEF Takes, Accepts
    <3>3. obj[l].maxConnections \in 0 .. MaxConns
      BY <1>1 DEF ListenerRec
    <3>4. MaxConns \in Nat
      BY ListenerAssumption
    <3> HIDE DEF n
    <3>5. QED
      BY <3>1, <3>2, <3>3, <3>4
  <2>5. f \in BOOLEAN
    OBVIOUS
  <2>6. ListenerNext
    <3> HIDE DEF n, f, l
    <3>1. QED
      BY <1>1, <2>1, <2>4, <2>5 DEF ListenerNext
  <2>7. QED
    BY <2>3, <2>6 DEF Parts
<1>4. QED
  BY <1>2, <1>3

\* What ConnectionStep lists are steps of Connection.
LEMMA ConnectionStepIsNext ==
  ASSUME ConnectionStep
  PROVE  Parts
<1>1. UNCHANGED lvars
  BY DEF ConnectionStep
<1>2. Next
  BY DEF ConnectionStep, Next, LwipEvent, SamCommand
<1>3. QED
  BY <1>1, <1>2 DEF Parts

\* Every step is one of the parts.
LEMMA ServerNextIsParts ==
  ASSUME ServerInv, [ServerNext]_svars
  PROVE  Parts
<1>1. ASSUME NEW p \in Pcbs, Syn(p) \/ HandshakeLost(p) PROVE Parts
  BY <1>1 DEF Syn, HandshakeLost, Parts
<1>2. ASSUME ~hung, NEW p \in Pcbs, Completed(p) PROVE Parts
  BY <1>2, CompletedIsAccept
<1>3. CASE ConnectionStep
  BY <1>3, ConnectionStepIsNext
<1>4. ASSUME NEW ip \in Ips, NEW port \in Ports, NEW protocol \in Protocols,
             NEW maxConns \in 0 .. MaxConns, NEW ok \in BOOLEAN,
             networkListen(ip, port, protocol, maxConns, ok)
      PROVE  Parts
  <2>1. Listen(ip, port, protocol, maxConns, ok) /\ UNCHANGED vars
    BY <1>4 DEF networkListen
  <2>2. ListenerNext
    BY <2>1 DEF ListenerNext
  <2>3. QED
    BY <2>1, <2>2 DEF Parts
<1>5. CASE networkStopAll
  <2>1. networkStop /\ StopListening
    BY <1>5 DEF networkStopAll
  <2>2. Next /\ ListenerNext
    BY <2>1 DEF Next, SamCommand, ListenerNext
  <2>3. QED
    BY <2>2 DEF Parts
<1>6. CASE ServerReset
  <2>1. WatchdogReset /\ Init'
    BY <1>6 DEF ServerReset, Init
  <2>2. ListenerNext
    BY <2>1 DEF ListenerNext
  <2>3. QED
    BY <2>1, <2>2 DEF Parts
<1>7. CASE UNCHANGED svars
  BY <1>7 DEF svars, Parts
<1>8. QED
  BY <1>1, <1>2, <1>3, <1>4, <1>5, <1>6, <1>7 DEF ServerNext

\* With connections coming in through handshakes and slots running out, the
\* listeners still behave as Listener says.
THEOREM ServerListens == ServerSpec => ListenerSpec
<1>1. ServerInit => ListenerInit
  BY DEF ServerInit
<1>2. ServerInv /\ [ServerNext]_svars => [ListenerNext]_lvars
  BY ServerNextIsParts DEF Parts
<1>3. QED
  BY <1>1, <1>2, ServerInvHolds, PTL DEF ServerSpec, ListenerSpec

\* The connection table behaves as Connection says from one restart to the next.
THEOREM ServerConnects == ServerSpec => Init /\ [][Next \/ Init']_vars
<1>1. ServerInit => Init
  BY DEF ServerInit
<1>2. ServerInv /\ [ServerNext]_svars => [Next \/ Init']_vars
  BY ServerNextIsParts DEF Parts
<1>3. QED
  BY <1>1, <1>2, ServerInvHolds, PTL DEF ServerSpec
=============================================================================
