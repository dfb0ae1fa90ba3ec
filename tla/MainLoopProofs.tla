--------------------------- MODULE MainLoopProofs ---------------------------
(***************************************************************************)
(* The safety properties of MainLoop, for any texts, any timeouts and any  *)
(* clock that is longer than a timeout and one pass.  They are not         *)
(* inductive: that a request is served once needs what the flag means at   *)
(* each point of a pass, and that the pin is low again in time; that an    *)
(* error is signalled needs what the comparison will find.                 *)
(***************************************************************************)
EXTENDS MainLoop, TLAPS

\* No transaction is set up while the pin is low; after the last one it is
\* not high for longer than the timeout.
PinOK ==
  /\ ~transferReady => request = "none"
  /\ transferReady /\ request = "none" => sinceTransaction <= TransferReadyTimeout

\* The flag is not left over from the last transaction: unless raced, it is
\* clear when the pin is high and nothing is set up, and a pass that has got
\* as far as to serve a request has one.
FlagOK ==
  /\ transferReady /\ request = "none" /\ ~fell => ~transferReadyChanged
  /\ pc = "testFlag" => transferReady \/ fell
  /\ pc \in {"clearFlag", "process"} => request # "none" \/ fell
  /\ pc = "process" /\ ~fell => ~transferReadyChanged

Serving == {"readPin", "testFlag", "clearFlag", "process"}

\* Until a command changes it the state is the one last compared with, and
\* one the commands can reach after that.  An error not yet signalled is
\* found by the comparison.
SignalOK ==
  /\ pc \in Serving => currentState = prevCurrentState
  /\ pc = "poll" =>
       currentState \in {prevCurrentState, "idle", "connecting",
                         "runningAsAccessPoint"}
  /\ pc # "report" => signalled
  /\ ~signalled => Changed

LoopInv == TypeOK /\ PinOK /\ FlagOK /\ SignalOK

\* The properties follow from the invariant.
LEMMA InvSignals == LoopInv => SignalledBeforeCleared
BY DEF LoopInv, SignalOK, SignalledBeforeCleared

\* A pass that has come to Process has a request, or has raced.
LEMMA InvServes == LoopInv /\ Process => request # "none" \/ fell
BY DEF LoopInv, FlagOK, Process

-----------------------------------------------------------------------------
(* The invariant is inductive.                                             *)

\* A clock starts at 0.
LEMMA ClockStarts ==
  ClockMod \in Nat \ {0} /\ TransferReadyTimeout \in Nat
    /\ 0 \in 0 .. ClockMod - 1
<1>1. ClockMod \in Nat \ {0} /\ TransferReadyTimeout \in Nat \ {0}
  BY LoopAssumption
<1> QED BY <1>1

\* The program starts in it.
LEMMA InitInv == Init => LoopInv
<1> SUFFICES ASSUME Init PROVE LoopInv
  OBVIOUS
<1>1. TypeOK
  BY ClockStarts DEF Init, TypeOK, WiFiState, Errors, Requests
<1>2. PinOK /\ FlagOK /\ SignalOK
  BY DEF Init, PinOK, FlagOK, SignalOK, Serving
<1> QED BY <1>1, <1>2 DEF LoopInv

\* A clock stays in its range, and does not wrap below the timeout.
LEMMA LaterInRange ==
  ASSUME NEW c \in 0 .. ClockMod - 1, NEW d \in 0 .. MaxLoopTime
  PROVE  /\ Later(c, d) \in 0 .. ClockMod - 1
         /\ c + d <= TransferReadyTimeout => Later(c, d) = c + d
<1>1. ClockMod \in Nat \ {0} /\ TransferReadyTimeout \in Nat
      /\ MaxLoopTime \in Nat /\ TransferReadyTimeout < ClockMod
  BY LoopAssumption
<1>2. c + d \in Nat
  BY <1>1
<1>3. (c + d) % ClockMod \in 0 .. ClockMod - 1
  BY <1>1, <1>2
<1>4. ASSUME c + d <= TransferReadyTimeout PROVE (c + d) % ClockMod = c + d
  BY <1>1, <1>2, <1>4
<1> QED BY <1>3, <1>4 DEF Later

\* The pulse, or that there is none.
LEMMA ReportStep ==
  ASSUME LoopInv, (\E seen \in BOOLEAN : Pulse(seen)) \/ NoPulse
  PROVE  LoopInv'
<1>1. CASE \E seen \in BOOLEAN : Pulse(seen)
  <2> PICK seen \in BOOLEAN : Pulse(seen)
    BY <1>1
  <2>1. TypeOK'
    <3>1. (attention \/ seen) \in BOOLEAN
      OBVIOUS
    <3>2. /\ currentState' \in WiFiState
          /\ {prevCurrentState', lastReportedState'}
               \subseteq WiFiState \cup {"disabled"}
          /\ {lastError', prevLastError'} \subseteq Errors
      BY DEF LoopInv, TypeOK, Pulse, Remember
    <3>3. {sinceTransaction', sinceReport'} \subseteq 0 .. ClockMod - 1
      BY ClockStarts DEF LoopInv, TypeOK, Pulse, Remember
    <3>4. {connectErrorChanged', transferReadyChanged', transferReady',
           attention', fell', signalled'} \subseteq BOOLEAN
      BY <3>1 DEF LoopInv, TypeOK, Pulse, Remember
    <3>5. pc' = "readPin" /\ request' \in Requests \cup {"none"}
      BY DEF LoopInv, TypeOK, Pulse, Remember
    <3> QED BY <3>2, <3>3, <3>4, <3>5 DEF TypeOK
  <2>2. PinOK' /\ FlagOK' /\ SignalOK'
    BY DEF LoopInv, PinOK, FlagOK, SignalOK, Pulse, Remember, Changed, Serving, TypeOK
  <2> QED BY <2>1, <2>2 DEF LoopInv
<1>2. CASE NoPulse
  <2>1. TypeOK'
    BY <1>2 DEF LoopInv, TypeOK, NoPulse, status, clocks, sam
  <2>2. PinOK' /\ FlagOK'
    BY <1>2 DEF LoopInv, PinOK, FlagOK, NoPulse, status, clocks, sam
  <2>3. SignalOK'
    BY <1>2 DEF LoopInv, SignalOK, NoPulse, Changed, Serving, TypeOK, status
  <2> QED BY <2>1, <2>2, <2>3 DEF LoopInv
<1> QED BY <1>1, <1>2

\* The pin, the flag and the clearing of the flag.
LEMMA PinSteps ==
  ASSUME LoopInv, ReadPin \/ TestFlag \/ ClearFlag
  PROVE  LoopInv'
<1> USE DEF LoopInv, status, clocks, sam
<1>1. TypeOK' /\ SignalOK'
  BY DEF TypeOK, SignalOK, ReadPin, TestFlag, ClearFlag, Changed, Serving
<1>2. PinOK'
  BY DEF PinOK, ReadPin, TestFlag, ClearFlag
<1>3. FlagOK'
  <2>1. CASE ReadPin
    BY <2>1 DEF FlagOK, PinOK, TypeOK, ReadPin
  <2>2. CASE TestFlag
    <3>1. sinceTransaction \in Int /\ TransferReadyTimeout \in Int
      BY LoopAssumption DEF TypeOK
    <3>2. Wanted => request # "none" \/ fell
      BY <2>2, <3>1 DEF FlagOK, PinOK, Wanted, TestFlag
    <3> QED BY <2>2, <3>2 DEF FlagOK, TestFlag
  <2>3. CASE ClearFlag
    BY <2>3 DEF FlagOK, ClearFlag
  <2> QED BY <2>1, <2>2, <2>3
<1> QED BY <1>1, <1>2, <1>3

\* A request is served.
LEMMA ProcessStep == ASSUME LoopInv, Process PROVE LoopInv'
<1>1. /\ currentState' \in {currentState, "idle", "connecting",
                            "runningAsAccessPoint"}
      /\ lastError' \in Errors
      /\ lastReportedState' \in {lastReportedState, currentState}
  BY DEF Process, Served, networkGetLastError, Deferred, Other, LoopInv, TypeOK,
         Errors
<1>2. TypeOK'
  BY <1>1, LoopAssumption DEF Process, LoopInv, TypeOK, WiFiState
<1>3. PinOK'
  BY LoopAssumption DEF Process, LoopInv, PinOK
<1>4. FlagOK'
  BY DEF Process, LoopInv, FlagOK, PinOK
<1>5. SignalOK'
  BY <1>1 DEF Process, LoopInv, SignalOK, Serving
<1> QED BY <1>2, <1>3, <1>4, <1>5 DEF LoopInv

\* What ConnectPoll does is found by the next comparison: an error in the
\* buffer by its flag, a literal by the state that changes with it.
LEMMA ConnectPollChanges ==
  ASSUME LoopInv, pc = "poll", ConnectPoll,
         UNCHANGED <<prevCurrentState, prevLastError>>
  PROVE  /\ currentState' \in WiFiState /\ lastError' \in Errors
         /\ connectErrorChanged' \in BOOLEAN /\ signalled' \in BOOLEAN
         /\ ~signalled' => Changed'
<1>1. signalled /\ currentState \in WiFiState /\ lastError \in Errors
      /\ connectErrorChanged \in BOOLEAN
  BY DEF LoopInv, TypeOK, SignalOK
<1>2. CASE UNCHANGED <<currentState, lastError, connectErrorChanged, signalled>>
  BY <1>1, <1>2
<1>3. CASE /\ currentState' = "connected"
           /\ UNCHANGED <<lastError, connectErrorChanged, signalled>>
  BY <1>1, <1>3 DEF WiFiState
<1>4. ASSUME NEW next \in {"idle", "reconnecting", "autoReconnecting"}, Fail(next)
      PROVE  /\ currentState' \in WiFiState /\ lastError' \in Errors
             /\ connectErrorChanged' /\ signalled' = FALSE
  BY <1>4 DEF Fail, WiFiState, Errors
<1>5. ASSUME NEW next \in {"connected", "reconnecting"}, Tell(next),
             currentState \in {"reconnecting", "autoReconnecting"},
             currentState # next
      PROVE  /\ currentState' \in WiFiState /\ lastError' \in Errors
             /\ connectErrorChanged' \in BOOLEAN /\ signalled' = FALSE
             /\ currentState' # prevCurrentState'
  <2>1. prevCurrentState = currentState
    BY <1>5 DEF LoopInv, SignalOK
  <2> QED BY <1>1, <1>5, <2>1 DEF Tell, WiFiState, Errors
<1>6. \/ UNCHANGED <<currentState, lastError, connectErrorChanged, signalled>>
      \/ /\ currentState' = "connected"
         /\ UNCHANGED <<lastError, connectErrorChanged, signalled>>
      \/ \E next \in {"idle", "reconnecting", "autoReconnecting"} : Fail(next)
      \/ \E next \in {"connected", "reconnecting"} :
           /\ Tell(next)
           /\ currentState \in {"reconnecting", "autoReconnecting"}
           /\ currentState # next
  BY DEF ConnectPoll
<1>7. CASE \E next \in {"idle", "reconnecting", "autoReconnecting"} : Fail(next)
  BY <1>4, <1>7 DEF Changed
<1>8. CASE \E next \in {"connected", "reconnecting"} :
               /\ Tell(next)
               /\ currentState \in {"reconnecting", "autoReconnecting"}
               /\ currentState # next
  BY <1>5, <1>8 DEF Changed
<1> QED BY <1>2, <1>3, <1>6, <1>7, <1>8

\* The rest of the pass.
LEMMA PollStep ==
  ASSUME LoopInv, NEW d \in 0 .. MaxLoopTime, Poll(d)
  PROVE  LoopInv'
<1>1. /\ pc = "poll" /\ InTime(d) /\ ConnectPoll /\ pc' = "report"
      /\ sinceTransaction' = Later(sinceTransaction, d)
      /\ sinceReport' = Later(sinceReport, d)
      /\ UNCHANGED <<prevCurrentState, lastReportedState, prevLastError,
                     transferReadyChanged, transferReady, request, attention, fell>>
  BY DEF Poll, sam
<1>2. sinceTransaction \in 0 .. ClockMod - 1 /\ sinceReport \in 0 .. ClockMod - 1
  BY DEF LoopInv, TypeOK
<1>3. /\ sinceTransaction' \in 0 .. ClockMod - 1
      /\ sinceReport' \in 0 .. ClockMod - 1
      /\ sinceTransaction + d <= TransferReadyTimeout
           => sinceTransaction' = sinceTransaction + d
  BY <1>1, <1>2, LaterInRange
<1>4. /\ currentState' \in WiFiState /\ lastError' \in Errors
      /\ connectErrorChanged' \in BOOLEAN /\ signalled' \in BOOLEAN
      /\ ~signalled' => Changed'
  BY <1>1, ConnectPollChanges
<1>5. TypeOK'
  BY <1>1, <1>3, <1>4 DEF LoopInv, TypeOK
<1>6. PinOK'
  BY <1>1, <1>3 DEF LoopInv, PinOK, InTime
<1>7. FlagOK'
  BY <1>1 DEF LoopInv, FlagOK
<1>8. SignalOK'
  BY <1>1, <1>4 DEF SignalOK, Serving
<1> QED BY <1>5, <1>6, <1>7, <1>8 DEF LoopInv

\* The SAM raises its pin.
LEMMA RaiseStep ==
  ASSUME LoopInv, NEW r \in Requests, Raise(r)
  PROVE  LoopInv'
<1>1. TypeOK'
  BY DEF LoopInv, TypeOK, Raise, Isr, status, clocks
<1>2. PinOK'
  BY DEF Raise, PinOK, Requests
<1>3. FlagOK'
  BY DEF LoopInv, PinOK, FlagOK, Raise, Requests
<1>4. SignalOK'
  BY DEF LoopInv, SignalOK, Raise, Changed, Serving, status
<1> QED BY <1>1, <1>2, <1>3, <1>4 DEF LoopInv

\* The SAM lowers its pin.
LEMMA LowerStep == ASSUME LoopInv, Lower PROVE LoopInv'
<1>1. TypeOK'
  BY DEF LoopInv, TypeOK, Lower, Isr, status, clocks
<1>2. PinOK'
  BY DEF Lower, PinOK
<1>3. FlagOK'
  BY DEF LoopInv, TypeOK, FlagOK, Lower
<1>4. SignalOK'
  BY DEF LoopInv, SignalOK, Lower, Changed, Serving, status
<1> QED BY <1>1, <1>2, <1>3, <1>4 DEF LoopInv

\* Every step keeps the invariant.
LEMMA NextInv == LoopInv /\ [Next]_vars => LoopInv'
<1> SUFFICES ASSUME LoopInv, [Next]_vars PROVE LoopInv'
  OBVIOUS
<1>1. CASE LoopStep
  BY <1>1, ReportStep, PinSteps, ProcessStep, PollStep DEF LoopStep
<1>2. CASE \E r \in Requests : Raise(r)
  BY <1>2, RaiseStep
<1>3. CASE Lower
  BY <1>3, LowerStep
<1>4. CASE UNCHANGED vars
  BY <1>4 DEF LoopInv, TypeOK, PinOK, FlagOK, SignalOK, Serving, Changed, vars,
              status, clocks, sam
<1> QED BY <1>1, <1>2, <1>3, <1>4 DEF Next

\* The invariant holds in every reachable state.
THEOREM LoopInvHolds == Spec => []LoopInv
BY InitInv, NextInv, PTL DEF Spec

\* loop()'s variables and clocks keep their types.
THEOREM LoopTypes == Spec => []TypeOK
<1>1. LoopInv => TypeOK
  BY DEF LoopInv
<1> QED BY <1>1, LoopInvHolds, PTL

\* No error of ConnectPoll is cleared by a command before it was signalled.
THEOREM Signals == Spec => []SignalledBeforeCleared
BY InvSignals, LoopInvHolds, PTL

\* But for the race between reading the pin and testing the flag, every
\* transaction that loop() begins is one the SAM has set up.
THEOREM ServesOnce == Spec => ServedOnceUnlessRaced
<1>1. LoopInv /\ [Next]_vars => [Process => request # "none" \/ fell]_vars
  BY InvServes
<1> QED BY <1>1, LoopInvHolds, PTL DEF Spec, ServedOnceUnlessRaced
=============================================================================
