----------------------------- MODULE Connection -----------------------------
(***************************************************************************)
(* The connection table of the socket server: src/Connection.cpp.  Each    *)
(* slot i stands for *connectionList[i]; conn[i] holds the members of that *)
(* object and pcb[p] is the part of an lwIP protocol control block that    *)
(* the server can observe through the calls it makes and the callbacks it  *)
(* registers.  A handler is one step: loop() and the lwIP callbacks run    *)
(* one at a time and none of the handlers below yields.                    *)
(*                                                                         *)
(* Received data is a byte count.  The pbuf chain pb is its total length   *)
(* pbTot (0 when pb is null) and the length pbLen of its first pbuf; the   *)
(* length of a later pbuf is chosen when it becomes the first.             *)
(***************************************************************************)
EXTENDS Network, Integers, FiniteSets

CONSTANTS
  MaxConnections,   \* number of slots
  Pcbs,             \* lwIP protocol control blocks for open connections
  NoPcb,            \* the null pcb pointer
  TCP_MSS,          \* Read acknowledges to lwIP at least every TCP_MSS bytes
  TCP_WND,          \* lwIP receive window of one connection
  TCP_SND_BUF,      \* lwIP send buffer of one connection
  MaxDataLength,    \* largest data part of one SPI exchange
  MaxWriteTime,     \* ms before an incomplete write is cancelled
  MaxAckTime,       \* ms a pending close waits for the remaining acks
  ClockMod,         \* millis() counts modulo this (2^32 in the code)
  MaxLoopTime       \* upper bound on the ms one pass through loop() takes

NoSlot == -1
Slots == 0 .. MaxConnections - 1

ASSUME SizesAssumption ==
  /\ MaxConnections \in Nat \ {0}
  /\ NoPcb \notin Pcbs
  /\ Ports \subseteq Nat \ {0}
  /\ {TCP_MSS, TCP_WND, TCP_SND_BUF, MaxDataLength} \subseteq Nat \ {0}

ASSUME TimesAssumption ==
  /\ {MaxWriteTime, MaxAckTime, ClockMod, MaxLoopTime} \subseteq Nat \ {0}
  /\ MaxAckTime + MaxConnections * MaxLoopTime <= ClockMod

VARIABLES
  conn,                  \* the Connection objects
  nextConnectionToPoll,  \* the slot PollOne polls next
  now,                   \* millis()
  pcb                    \* lwIP: the protocol control blocks

vars == <<conn, nextConnectionToPoll, now, pcb>>

ConnState == {"free", "connecting", "connected", "otherEndClosed", "aborted",
              "closePending", "closeReady"}

\* The states in which the slot still stands for a TCP connection.
LiveState == {"connected", "otherEndClosed", "closePending", "closeReady"}

ConnRec ==
  [state : ConnState, localPort : Ports \cup {0}, writeTimer : Nat,
   closeTimer : Nat, unAcked : Nat, readIndex : Nat, alreadyRead : Nat,
   ownPcb : Pcbs \cup {NoPcb}, pbTot : Nat, pbLen : Nat]

PcbRec ==
  [st : {"unused", "open", "closing"}, \* closing: lwIP finishes it by itself
   arg : Slots \cup {NoSlot},          \* where its callbacks go, if registered
   inFlight : Nat,                     \* bytes taken by tcp_write, not acked
   rcvWnd : Nat,                       \* bytes lwIP may still deliver
   fin : BOOLEAN]                      \* the other end has closed

NewConnection ==
  [state |-> "free", localPort |-> 0, writeTimer |-> 0, closeTimer |-> 0,
   unAcked |-> 0, readIndex |-> 0, alreadyRead |-> 0, ownPcb |-> NoPcb,
   pbTot |-> 0, pbLen |-> 0]

IdlePcb(st) ==
  [st |-> st, arg |-> NoSlot, inFlight |-> 0, rcvWnd |-> 0, fin |-> FALSE]

Init ==
  /\ conn = [i \in Slots |-> NewConnection]
  /\ nextConnectionToPoll = 0
  /\ now = 0
  /\ pcb = [p \in Pcbs |-> IdlePcb("unused")]

Lesser(a, b) == IF a <= b THEN a ELSE b

\* Mutant of Elapsed: the difference is taken as signed.
ElapsedSigned(t, since) == t - since

\* millis() - since, in the unsigned arithmetic of the code.
Elapsed(t, since) == (t - since) % ClockMod

\* lwIP: the pcbs after tcp_abort on those in S, which frees them, and after
\* tcp_close on p, which lwIP keeps until the other end has answered, with the
\* callbacks it finds.  Neither is called on NoPcb.
TcpAbort(S) == [q \in Pcbs |-> IF q \in S THEN IdlePcb("unused") ELSE pcb[q]]
TcpClose(p, arg) ==
  [q \in Pcbs |->
     IF q = p
     THEN [st |-> "closing", arg |-> arg, inFlight |-> 0, rcvWnd |-> 0,
           fin |-> FALSE]
     ELSE pcb[q]]

\* Mutant of Unregistered: the callbacks stay.
StillRegistered(arg) == arg

\* Where the callbacks go after tcp_recv, tcp_sent and tcp_err with nullptr.
Unregistered(arg) == NoSlot

\* How Close gets rid of its pcb.  (Terminate removes the callbacks as well.
\* tcp_abort leaves no pcb to call them, and the one it would call itself,
\* conn_err, does to the slot a part of what Terminate does next.)
ClosePcb(p) == TcpClose(p, Unregistered(pcb[p].arg))

-----------------------------------------------------------------------------
(* What Connection's methods do to the object they are called on.          *)

FreePbuf(c) == [c EXCEPT !.pbTot = 0, !.pbLen = 0]

\* Mutant of Terminated: an internal error frees the slot as well.
TerminatedFree(c, external) ==
  [FreePbuf(c) EXCEPT !.ownPcb = NoPcb, !.unAcked = 0, !.state = "free"]

Terminated(c, external) ==
  [FreePbuf(c) EXCEPT !.ownPcb = NoPcb,
                      !.unAcked = 0,
                      !.state = IF external THEN "free" ELSE "aborted"]

Closed(c) == [FreePbuf(c) EXCEPT !.ownPcb = NoPcb, !.unAcked = 0,
                                 !.state = "free"]

\* Mutant of Accepted: the read position of the last connection stays.
AcceptedKeepingPosition(c, p, port) ==
  [c EXCEPT !.ownPcb = p, !.state = "connected", !.localPort = port,
            !.writeTimer = 0, !.closeTimer = 0, !.unAcked = 0]

Accepted(c, p, port) ==
  [c EXCEPT !.ownPcb = p, !.state = "connected", !.localPort = port,
            !.writeTimer = 0, !.closeTimer = 0,
            !.unAcked = 0, !.readIndex = 0, !.alreadyRead = 0]

\* ConnRecv with a chain of len bytes whose first pbuf holds first bytes.
Received(c, len, first) ==
  IF c.pbTot # 0
  THEN [c EXCEPT !.pbTot = @ + len]
  ELSE [c EXCEPT !.pbTot = len, !.pbLen = first,
                 !.readIndex = 0, !.alreadyRead = 0]

\* Mutant of OtherEndClosed: a pending close is forgotten.
OtherEndClosedAlways(c) == [c EXCEPT !.state = "otherEndClosed"]

OtherEndClosed(c) ==
  [c EXCEPT !.state = CASE c.state = "connected" -> "otherEndClosed"
                        [] c.state = "closePending" -> "closeReady"
                        [] OTHER -> @]

\* Mutant of Acknowledged: any acknowledgement counts for everything.
AcknowledgedAll(c, len) == [c EXCEPT !.unAcked = 0]

Acknowledged(c, len) ==
  [c EXCEPT !.unAcked = IF len <= @ THEN @ - len ELSE 0]

\* Mutants of Failed: the pcb lwIP has freed, or the received data, stays.
FailedKeepingPcb(c) == [FreePbuf(c) EXCEPT !.state = "aborted"]
FailedKeepingData(c) == [c EXCEPT !.ownPcb = NoPcb, !.state = "aborted"]

\* ConnError: unlike Terminate it leaves unAcked alone.
Failed(c) == [FreePbuf(c) EXCEPT !.ownPcb = NoPcb, !.state = "aborted"]

\* Write, when lwIP has taken the data.
Written(c, length, closeAfterSending, t) ==
  LET sent == [c EXCEPT !.writeTimer = 0, !.unAcked = @ + length]
  IN IF closeAfterSending
     THEN [sent EXCEPT !.closeTimer = t, !.state = "closePending"]
     ELSE sent

Unread(c) == c.pbTot - c.readIndex

CanRead(c) ==
  IF c.state \in {"connected", "otherEndClosed"} /\ c.pbTot # 0
  THEN Unread(c) ELSE 0

\* The chain positions Read can reach by taking n bytes, 0 < n <= Unread(c):
\* the chain is used up, or it stops inside the first pbuf, or it has freed
\* that one and stops idx bytes into a later one.
AfterRead(c, n) ==
  IF n = Unread(c)
  THEN {[c EXCEPT !.pbTot = 0, !.pbLen = 0, !.readIndex = 0]}
  ELSE IF c.readIndex + n < c.pbLen
  THEN {[c EXCEPT !.readIndex = @ + n]}
  ELSE UNION {{[c EXCEPT !.pbTot = idx + Unread(c) - n, !.pbLen = len,
                         !.readIndex = idx]
                 : len \in idx + 1 .. idx + Unread(c) - n}
                 : idx \in 0 .. c.readIndex + n - c.pbLen}

\* Mutant of MustTellLwip: not when everything has been read.
TellLwipBySegments(c, n) == c.alreadyRead + n >= TCP_MSS

\* After taking bytes: tell lwIP about them now, or remember that we owe it.
MustTellLwip(c, n) == c.pbTot = 0 \/ c.alreadyRead + n >= TCP_MSS
Credited(c, n) ==
  [c EXCEPT !.alreadyRead = IF MustTellLwip(c, n) THEN 0 ELSE @ + n]
\* Mutant of Credit: the bytes of earlier reads are left out.
CreditLast(c, n) == IF MustTellLwip(c, n) THEN n ELSE 0
Credit(c, n) == IF MustTellLwip(c, n) THEN c.alreadyRead + n ELSE 0

\* Mutant of CanWrite: it forgets what is already on its way.
CanWriteWholeBuffer(i) ==
  IF conn[i].state = "connected" THEN TCP_SND_BUF ELSE 0

CanWrite(i) ==
  IF conn[i].state = "connected"
  THEN TCP_SND_BUF - pcb[conn[i].ownPcb].inFlight ELSE 0

\* The answer to connGetStatus, as far as SlotContract speaks of it.
GetStatus(i) ==
  [state |-> IF conn[i].state \in {"closePending", "closeReady"}
             THEN "closing" ELSE conn[i].state,
   avail |-> CanRead(conn[i]),
   room |-> CanWrite(i)]

-----------------------------------------------------------------------------
(* The methods, called by the SPI request handler and by PollOne.          *)

\* Mutant of Close: it never waits for acknowledgements.
CloseAtOnce(i, t) ==
  /\ conn' = [conn EXCEPT ![i] = Closed(@)]
  /\ pcb' = ClosePcb(conn[i].ownPcb)

Close(i, t) ==
  /\ conn' = [conn EXCEPT ![i] =
       CASE @.state = "connected" /\ @.unAcked # 0 ->
              [@ EXCEPT !.closeTimer = t, !.state = "closePending"]
         [] @.state = "closePending" -> @
         [] OTHER -> Closed(@)]
  /\ pcb' = IF conn'[i].state = "free" THEN ClosePcb(conn[i].ownPcb) ELSE pcb

Terminate(i, external) ==
  /\ conn' = [conn EXCEPT ![i] = Terminated(@, external)]
  /\ pcb' = TcpAbort({conn[i].ownPcb})

TerminateAll ==
  /\ conn' = [i \in Slots |-> Terminated(conn[i], TRUE)]
  /\ pcb' = TcpAbort({conn[i].ownPcb : i \in Slots})

\* ok: whether tcp_write found the memory it needs.
Write(i, length, closeAfterSending, ok) ==
  \/ /\ conn[i].state # "connected"
     /\ UNCHANGED <<conn, pcb>>
  \/ /\ conn[i].state = "connected"
     /\ ~ok
     /\ Terminate(i, FALSE)
  \/ /\ conn[i].state = "connected"
     /\ ok
     /\ pcb' = [pcb EXCEPT ![conn[i].ownPcb].inFlight = @ + length]
     /\ conn' = [conn EXCEPT ![i] = Written(@, length, closeAfterSending, now)]

Read(i, length) ==
  LET n == Lesser(length, CanRead(conn[i])) IN
  IF n = 0
  THEN UNCHANGED <<conn, pcb>>
  ELSE \E c \in AfterRead(conn[i], n) :
         /\ conn' = [conn EXCEPT ![i] = Credited(c, n)]
         /\ pcb' = [pcb EXCEPT ![c.ownPcb].rcvWnd = @ + Credit(c, n)]

\* Mutant of TimedOut: a pending close is timed by the wrong timer.
TimedOutByWrite(c, t) ==
  /\ c.state = "closePending"
  /\ c.unAcked # 0
  /\ Elapsed(t, c.writeTimer) >= MaxAckTime

\* A write or the acknowledgement of a pending close has taken too long.
\* (Nothing ever makes writeTimer positive, so the first never happens.)
TimedOut(c, t) ==
  \/ /\ c.state = "connected"
     /\ c.writeTimer > 0
     /\ Elapsed(t, c.writeTimer) >= MaxWriteTime
  \/ /\ c.state = "closePending"
     /\ c.unAcked # 0
     /\ Elapsed(t, c.closeTimer) >= MaxAckTime

\* Mutant of Poll: it leaves the deferred close to somebody else.
PollWithoutClose(i, t) ==
  CASE TimedOut(conn[i], t) -> Terminate(i, FALSE)
    [] conn[i].state = "closePending" /\ conn[i].unAcked = 0 ->
         /\ conn' = [conn EXCEPT ![i].state = "closeReady"]
         /\ UNCHANGED pcb
    [] OTHER -> UNCHANGED <<conn, pcb>>

Poll(i, t) ==
  CASE TimedOut(conn[i], t) -> Terminate(i, FALSE)
    [] conn[i].state = "closeReady" -> Close(i, t)
    [] conn[i].state = "closePending" /\ conn[i].unAcked = 0 ->
         /\ conn' = [conn EXCEPT ![i].state = "closeReady"]
         /\ UNCHANGED pcb
    [] OTHER -> UNCHANGED <<conn, pcb>>

\* Mutant of NextSlot: it goes one slot too far.
NextSlotPastEnd(i) == IF i = MaxConnections THEN 0 ELSE i + 1

NextSlot(i) == IF i + 1 = MaxConnections THEN 0 ELSE i + 1

\* The part of one pass through loop() that concerns connections, d ms after
\* the previous one.
PollOne(d) ==
  LET t == (now + d) % ClockMod IN
  /\ now' = t
  /\ Poll(nextConnectionToPoll, t)
  /\ nextConnectionToPoll' = NextSlot(nextConnectionToPoll)

-----------------------------------------------------------------------------
(* New connections.  Listener::Accept allocates the slot it hands on.      *)

FreeSlots == {i \in Slots : conn[i].state = "free"}
Allocate(i) == i \in FreeSlots /\ \A j \in FreeSlots : i <= j

\* Mutant of CountConnectionsOnPort: only connections in full use count.
CountConnectedOnPort(port) ==
  Cardinality({i \in Slots :
    conn[i].localPort = port /\ conn[i].state = "connected"})

CountConnectionsOnPort(port) ==
  Cardinality({i \in Slots :
    /\ conn[i].localPort = port
    /\ conn[i].state \in {"connected", "otherEndClosed", "closePending"}})

Accept(i, p, port) ==
  /\ conn' = [conn EXCEPT ![i] = Accepted(@, p, port)]
  /\ pcb' = [pcb EXCEPT ![p] = [st |-> "open", arg |-> i, inFlight |-> 0,
                                rcvWnd |-> TCP_WND, fin |-> FALSE]]

AcceptNew(p, port) ==
  /\ pcb[p].st = "unused"
  /\ \E i \in Slots : Allocate(i) /\ Accept(i, p, port)
  /\ UNCHANGED <<nextConnectionToPoll, now>>

-----------------------------------------------------------------------------
(* lwIP callbacks.  conn_recv, conn_sent and conn_err run on the slot that *)
(* the pcb was given as its argument, while the callbacks are registered.  *)

Registered(p) == pcb[p].arg \in Slots

ConnRecv(p, len, first) ==
  /\ Registered(p)
  /\ ~pcb[p].fin
  /\ len <= pcb[p].rcvWnd
  /\ conn' = [conn EXCEPT ![pcb[p].arg] = Received(@, len, first)]
  /\ pcb' = [pcb EXCEPT ![p].rcvWnd = @ - len]
  /\ UNCHANGED <<nextConnectionToPoll, now>>

ConnRecvFin(p) ==
  /\ Registered(p)
  /\ ~pcb[p].fin
  /\ conn' = [conn EXCEPT ![pcb[p].arg] = OtherEndClosed(@)]
  /\ pcb' = [pcb EXCEPT ![p].fin = TRUE]
  /\ UNCHANGED <<nextConnectionToPoll, now>>

ConnSent(p, len) ==
  /\ Registered(p)
  /\ len <= pcb[p].inFlight
  /\ conn' = [conn EXCEPT ![pcb[p].arg] = Acknowledged(@, len)]
  /\ pcb' = [pcb EXCEPT ![p].inFlight = @ - len]
  /\ UNCHANGED <<nextConnectionToPoll, now>>

ConnError(p) ==
  /\ Registered(p)
  /\ conn' = [conn EXCEPT ![pcb[p].arg] = Failed(@)]
  /\ pcb' = TcpAbort({p})
  /\ UNCHANGED <<nextConnectionToPoll, now>>

\* lwIP completes a close the server has asked for and frees the pcb.
LwipFinish(p) ==
  /\ pcb[p].st = "closing"
  /\ pcb' = TcpAbort({p})
  /\ UNCHANGED <<conn, nextConnectionToPoll, now>>

LwipEvent ==
  \E p \in Pcbs :
    \/ \E port \in Ports : AcceptNew(p, port)
    \/ \E len \in 1 .. TCP_WND : \E first \in 1 .. len : ConnRecv(p, len, first)
    \/ ConnRecvFin(p)
    \/ \E len \in 1 .. TCP_SND_BUF : ConnSent(p, len)
    \/ ConnError(p)
    \/ LwipFinish(p)

-----------------------------------------------------------------------------
(* The connection commands of ProcessRequest in src/SocketServer.cpp, and  *)
(* what its networkStop does to the connections.                           *)

SamVars == <<nextConnectionToPoll, now>>

connAbort(i) == Terminate(i, TRUE) /\ UNCHANGED SamVars

connClose(i) == Close(i, now) /\ UNCHANGED SamVars

connRead(i, dataBufferAvailable) ==
  Read(i, Lesser(dataBufferAvailable, MaxDataLength)) /\ UNCHANGED SamVars

connWrite(i, dataLength, flagClose, ok) ==
  LET acceptedLength == Lesser(CanWrite(i), Lesser(dataLength, MaxDataLength))
      closeAfterSending == acceptedLength = dataLength /\ flagClose
  IN /\ Write(i, acceptedLength, closeAfterSending, ok)
     /\ UNCHANGED SamVars

networkStop == TerminateAll /\ UNCHANGED SamVars

SamCommand ==
  \/ networkStop
  \/ \E i \in Slots :
       \/ connAbort(i)
       \/ connClose(i)
       \/ \E n \in 1 .. MaxDataLength : connRead(i, n)
       \/ \E n \in 0 .. MaxDataLength, flagClose, ok \in BOOLEAN :
            connWrite(i, n, flagClose, ok)

Next ==
  \/ LwipEvent
  \/ SamCommand
  \/ \E d \in 0 .. MaxLoopTime : PollOne(d)

Spec == Init /\ [][Next]_vars

\* loop() runs for ever (the watchdog sees to it) and time passes in it.
\* Nothing is assumed of the network or of the Duet main processor.
Fairness == WF_vars(\E d \in 1 .. MaxLoopTime : PollOne(d))
FairSpec == Spec /\ Fairness
-----------------------------------------------------------------------------
(* Properties.                                                             *)

\* The members keep the types Connection.h declares.
TypeOK ==
  /\ conn \in [Slots -> ConnRec]
  /\ pcb \in [Pcbs -> PcbRec]
  /\ nextConnectionToPoll \in Slots
  /\ now \in 0 .. ClockMod - 1

IsLive(i) == conn[i].state \in LiveState

\* A slot holds a pcb exactly while it stands for a connection, that pcb is
\* one lwIP still has, and its callbacks lead back to the slot: Close, Read,
\* Write and CanWrite never use a pcb that is gone.  A pcb whose callbacks
\* are registered, which lwIP may be finishing by itself, belongs to the slot
\* they go to: none reaches a slot that was closed, aborted or given to
\* somebody else.
PcbOwnership ==
  /\ \A i \in Slots :
       IF IsLive(i)
       THEN /\ conn[i].ownPcb \in Pcbs
            /\ pcb[conn[i].ownPcb].st = "open"
            /\ pcb[conn[i].ownPcb].arg = i
       ELSE conn[i].ownPcb = NoPcb
  /\ \A p \in Pcbs :
       /\ pcb[p].st = "open" => Registered(p)
       /\ Registered(p) => conn[pcb[p].arg].ownPcb = p

\* Accept does not clear pb, so whatever ends a connection has to: a slot
\* that is free or aborted keeps no received data for its next user.
NoBufferLeak ==
  \A i \in Slots : ~IsLive(i) => conn[i].pbTot = 0

\* Read starts inside the first pbuf of the chain, and with no chain there is
\* neither a read position nor an acknowledgement owed to lwIP: "pb->len -
\* readIndex" and "pb->tot_len - readIndex" do not underflow, whichever way
\* ConnRecv, Read and the reuse of the slot follow one another.
ChainShape ==
  \A i \in Slots : IsLive(i) =>
    IF conn[i].pbTot = 0
    THEN conn[i].readIndex = 0 /\ conn[i].alreadyRead = 0
    ELSE conn[i].readIndex < conn[i].pbLen /\ conn[i].pbLen <= conn[i].pbTot

\* Every byte of the receive window is accounted for: it is open at lwIP,
\* waits in pb, or was read and is owed to tcp_recved.  A window byte that
\* is credited twice or forgotten, by Read or by ConnRecv, breaks this.
WindowConserved ==
  \A i \in Slots : IsLive(i) =>
    pcb[conn[i].ownPcb].rcvWnd + conn[i].alreadyRead + Unread(conn[i]) = TCP_WND

\* Read may hold back acknowledgements below TCP_MSS bytes, but not when the
\* main processor has read everything: then the other end may send a full
\* window again, so the two never wait for each other.
NoWindowStall ==
  \A i \in Slots : IsLive(i) /\ conn[i].pbTot = 0 =>
    pcb[conn[i].ownPcb].rcvWnd = TCP_WND

\* unAcked is what lwIP still holds for the connection, so ConnSent never
\* sees more acknowledged than was sent, and unAcked = 0 in Close and Poll
\* means what it says.
AckAccounting ==
  \A i \in Slots : IsLive(i) => conn[i].unAcked = pcb[conn[i].ownPcb].inFlight

\* What the server accepts from the main processor fits in lwIP's send buffer
\* together with all that is on its way: tcp_write never fails for that.
WriteFits == \A i \in Slots : IsLive(i) => conn[i].unAcked <= TCP_SND_BUF

\* tcp_close is only called on a connection whose data has all been
\* acknowledged, or whose other end has closed first.
GracefulClose ==
  [][\A p \in Pcbs : pcb[p].st = "open" /\ pcb'[p].st = "closing" =>
       pcb[p].inFlight = 0 \/ pcb[p].fin]_vars

\* The main processor never loses a connection behind its back: a slot it
\* has not asked to close goes to aborted, never to free or to a closing
\* state, and an aborted slot waits for its command.
ReleasedOnlyBySam ==
  [][(\E i \in Slots :
        \/ /\ conn[i].state \in {"connected", "otherEndClosed"}
           /\ conn'[i].state \in {"free", "closePending", "closeReady"}
        \/ conn[i].state = "closePending" /\ conn'[i].state = "free"
        \/ conn[i].state = "aborted" /\ conn'[i].state # "aborted")
      => SamCommand]_vars

\* A close the main processor has asked for comes to an end without its
\* help, whether or not the other end ever answers.
CloseCompletes ==
  \A i \in Slots :
    conn[i].state \in {"closePending", "closeReady"}
      ~> conn[i].state \in {"free", "aborted"}
=============================================================================
