------------------------------ MODULE MainLoop ------------------------------
(***************************************************************************)
(* How the server and the main processor (the SAM) get each other's        *)
(* attention: loop(), TransferReadyIsr and the two pins between them, in   *)
(* src/SocketServer.cpp.  The SAM raises TransferReady when it has set up  *)
(* its side of a transaction, and lowers it some time after the end of the *)
(* transaction.  The server pulses EspReqTransferPin when there is an      *)
(* error or a new state to fetch.  One pass through loop() is split        *)
(* wherever a change of a pin, or the interrupt that reports it, makes a   *)
(* difference; pc is the next part.                                        *)
(***************************************************************************)
EXTENDS Integers

CONSTANTS
  Texts,                 \* error texts that are literals of the program
  TransferReadyTimeout,  \* ms the SAM has to lower TransferReady
  StatusReportMillis,    \* ms between two pulses for the same status
  ClockMod,              \* millis() counts modulo this
  MaxLoopTime            \* upper bound on the ms one pass takes

null == "null"

ASSUME LoopAssumption ==
  /\ {TransferReadyTimeout, StatusReportMillis, ClockMod, MaxLoopTime}
       \subseteq Nat \ {0}
  /\ TransferReadyTimeout + MaxLoopTime < ClockMod
  /\ StatusReportMillis + MaxLoopTime < ClockMod
  /\ Texts \cap {null, "lastConnectError"} = {}

VARIABLES
  currentState, prevCurrentState, lastReportedState,
  lastError, prevLastError,  \* null, a literal, or the buffer lastConnectError
  connectErrorChanged,
  transferReadyChanged,
  sinceTransaction,          \* millis() - whenLastTransactionFinished
  sinceReport,               \* millis() - lastStatusReportTime
  pc,
  transferReady,             \* the level of the SAM's pin
  request,                   \* SAM: what it waits for with that pin
  attention,                 \* SAM: it has seen a pulse and not yet answered
  fell,       \* history: the pin fell after digitalRead and before the flag's
              \* test, and digitalRead has not yet found it low
  signalled   \* history: a pulse was sent after the last error of ConnectPoll

status == <<currentState, prevCurrentState, lastReportedState, lastError,
            prevLastError, connectErrorChanged, signalled>>
clocks == <<sinceTransaction, sinceReport>>
sam == <<transferReady, request, attention>>
vars == <<status, transferReadyChanged, clocks, pc, sam, fell>>

WiFiState == {"idle", "connecting", "connected", "runningAsAccessPoint",
              "autoReconnecting", "reconnecting"}
Errors == Texts \cup {null, "lastConnectError"}
Requests == {"networkGetLastError", "deferred", "other"}

Init ==
  /\ currentState = "idle"
  /\ prevCurrentState = "disabled" /\ lastReportedState = "disabled"
  /\ lastError = null /\ prevLastError = null
  /\ connectErrorChanged = FALSE /\ transferReadyChanged = FALSE
  /\ sinceTransaction = 0 /\ sinceReport = 0
  /\ pc = "report"
  /\ transferReady = FALSE /\ request = "none" /\ attention = FALSE
  /\ fell = FALSE /\ signalled = TRUE

-----------------------------------------------------------------------------
(* One pass through loop().                                                *)

\* Mutant of ReportAgain: each status is signalled once.
ReportNever == FALSE

ReportAgain ==
  /\ lastError # null \/ currentState # lastReportedState
  /\ sinceReport > StatusReportMillis

\* Mutant of Changed: the buffer's address is all that is compared.
ChangedPointer ==
  lastError # prevLastError \/ currentState # prevCurrentState

Changed ==
  \/ lastError # prevLastError
  \/ connectErrorChanged
  \/ currentState # prevCurrentState

\* Mutant of Remember: the state is copied the other way.
RememberBackwards ==
  /\ prevLastError' = lastError
  /\ currentState' = prevCurrentState
  /\ UNCHANGED prevCurrentState

\* The status the next pass compares with.
Remember ==
  /\ prevLastError' = lastError
  /\ prevCurrentState' = currentState
  /\ UNCHANGED currentState

\* The pulse; the SAM can miss it.
Pulse(seen) ==
  /\ pc = "report"
  /\ Changed \/ ReportAgain
  /\ attention' = (attention \/ seen)
  /\ Remember
  /\ connectErrorChanged' = FALSE
  /\ sinceReport' = 0
  /\ signalled' = TRUE
  /\ pc' = "readPin"
  /\ UNCHANGED <<lastReportedState, lastError, sinceTransaction,
                 transferReadyChanged, transferReady, request, fell>>

NoPulse ==
  /\ pc = "report"
  /\ ~Changed /\ ~ReportAgain
  /\ pc' = "readPin"
  /\ UNCHANGED <<status, transferReadyChanged, clocks, sam, fell>>

\* digitalRead(SamTfrReadyPin) == HIGH
ReadPin ==
  /\ pc = "readPin"
  /\ pc' = IF transferReady THEN "testFlag" ELSE "poll"
  /\ fell' = (fell /\ transferReady)
  /\ UNCHANGED <<status, transferReadyChanged, clocks, sam>>

\* Mutants of Wanted: there is no timeout, or it is all that is tested.
WantedChanged == transferReadyChanged
WantedAlways == TRUE
Wanted ==
  transferReadyChanged \/ sinceTransaction > TransferReadyTimeout

TestFlag ==
  /\ pc = "testFlag"
  /\ pc' = IF Wanted THEN "clearFlag" ELSE "poll"
  /\ UNCHANGED <<status, transferReadyChanged, clocks, sam, fell>>

ClearFlag ==
  /\ pc = "clearFlag"
  /\ pc' = "process"
  /\ transferReadyChanged' = FALSE
  /\ UNCHANGED <<status, clocks, sam, fell>>

-----------------------------------------------------------------------------
(* What ProcessRequest does to the status.                                 *)

\* The error is cleared even if the SAM has no room for it.
networkGetLastError ==
  /\ lastError' = null
  /\ lastReportedState' = currentState
  /\ UNCHANGED currentState

\* A command that starts or stops the network, or does something else after
\* the transaction.
Deferred ==
  /\ \/ /\ currentState = "idle"
        /\ \/ currentState' = "connecting" /\ lastError' = null
           \/ currentState' = "runningAsAccessPoint"
              /\ lastError' \in Texts \cup {null}
           \/ currentState' = "idle" /\ lastError' \in Texts
     \/ currentState' = "idle" /\ lastError' = null
     \/ currentState' = currentState /\ lastError' = null
  /\ UNCHANGED lastReportedState

\* Any other command: some of them can fail.
Other ==
  /\ lastError' \in Texts \cup {lastError}
  /\ UNCHANGED <<currentState, lastReportedState>>

Served ==
  \/ request = "networkGetLastError" /\ networkGetLastError
  \/ request = "deferred" /\ Deferred
  \/ request = "other" /\ Other
  \/ request = "none" /\ UNCHANGED <<currentState, lastReportedState, lastError>>

\* ProcessRequest, and the end of the transaction.  Without one set up by the
\* SAM it exchanges headers with nobody and rejects what it reads.
Process ==
  /\ pc = "process"
  /\ Served
  /\ request' = "none"
  /\ sinceTransaction' = 0
  /\ pc' = "poll"
  /\ UNCHANGED <<prevCurrentState, prevLastError, connectErrorChanged,
                 signalled, transferReadyChanged, sinceReport, transferReady,
                 attention, fell>>

-----------------------------------------------------------------------------
(* What ConnectPoll does to the status.                                    *)

Fail(next) ==
  /\ lastError' = "lastConnectError"
  /\ connectErrorChanged' = TRUE
  /\ signalled' = FALSE
  /\ currentState' = next

Tell(next) ==
  /\ lastError' \in Texts
  /\ signalled' = FALSE
  /\ currentState' = next
  /\ UNCHANGED connectErrorChanged

ConnectPoll ==
  \/ UNCHANGED <<currentState, lastError, connectErrorChanged, signalled>>
  \/ /\ currentState = "connecting"
     /\ \/ /\ currentState' = "connected"
           /\ UNCHANGED <<lastError, connectErrorChanged, signalled>>
        \/ Fail("idle")
  \/ /\ currentState = "reconnecting"
     /\ Tell("connected") \/ Fail("reconnecting") \/ Fail("idle")
  \/ /\ currentState = "connected"
     /\ Fail("autoReconnecting") \/ Fail("reconnecting") \/ Fail("idle")
  \/ /\ currentState = "autoReconnecting"
     /\ Tell("connected") \/ Tell("reconnecting")

\* The SAM has lowered the pin TransferReadyTimeout ms after a transaction.
InTime(d) ==
  transferReady /\ request = "none"
    => sinceTransaction + d <= TransferReadyTimeout

Later(clock, d) == (clock + d) % ClockMod

\* The rest of the pass, at the end of which it has taken d ms.
Poll(d) ==
  /\ pc = "poll"
  /\ InTime(d)
  /\ ConnectPoll
  /\ sinceTransaction' = Later(sinceTransaction, d)
  /\ sinceReport' = Later(sinceReport, d)
  /\ pc' = "report"
  /\ UNCHANGED <<prevCurrentState, lastReportedState, prevLastError,
                 transferReadyChanged, sam, fell>>

LoopStep ==
  \/ \E seen \in BOOLEAN : Pulse(seen)
  \/ NoPulse \/ ReadPin \/ TestFlag \/ ClearFlag \/ Process
  \/ \E d \in 0 .. MaxLoopTime : Poll(d)

-----------------------------------------------------------------------------
(* The SAM, as far as loop() counts on it.                                 *)

\* TransferReadyIsr, which a pulse of the pin can be too short for.
Isr == transferReadyChanged' \in {transferReadyChanged, TRUE}

\* The SAM sets up a transaction, for an answer to a pulse if it asks for the
\* error.
Raise(r) ==
  /\ ~transferReady
  /\ transferReady' = TRUE
  /\ request' = r
  /\ attention' = (attention /\ r # "networkGetLastError")
  /\ Isr
  /\ UNCHANGED <<status, clocks, pc, fell>>

Lower ==
  /\ transferReady /\ request = "none"
  /\ transferReady' = FALSE
  /\ fell' = (fell \/ pc = "testFlag")
  /\ Isr
  /\ UNCHANGED <<status, clocks, pc, request, attention>>

Answer == attention /\ Raise("networkGetLastError")

Next == LoopStep \/ (\E r \in Requests : Raise(r)) \/ Lower

Spec == Init /\ [][Next]_vars

\* loop() runs for ever and time passes in it; the SAM lowers its pin after a
\* transaction; it does not miss every pulse, and does not put off the answer
\* to one for ever.
FairSpec ==
  /\ Spec
  /\ WF_vars(LoopStep)
  /\ SF_vars(\E d \in 1 .. MaxLoopTime : Poll(d))
  /\ SF_vars(Pulse(TRUE))
  /\ WF_vars(Lower)
  /\ SF_vars(Answer)
-----------------------------------------------------------------------------
(* Properties.                                                             *)

TypeOK ==
  /\ currentState \in WiFiState
  /\ {prevCurrentState, lastReportedState} \subseteq WiFiState \cup {"disabled"}
  /\ {lastError, prevLastError} \subseteq Errors
  /\ {connectErrorChanged, transferReadyChanged, transferReady, attention, fell,
      signalled} \subseteq BOOLEAN
  /\ {sinceTransaction, sinceReport} \subseteq 0 .. ClockMod - 1
  /\ pc \in {"report", "readPin", "testFlag", "clearFlag", "process", "poll"}
  /\ request \in Requests \cup {"none"}

\* "so we need to see TransferReady go low and then high again"
\* (SocketServer.cpp:1195): no transaction is begun that the SAM has not set
\* up.
ServedOnce == [][Process => request # "none"]_vars

\* The same but for one moment: the pin falls after digitalRead, and its
\* interrupt comes before transferReadyChanged is read.  loop() is out of step
\* with the pin from then on until it finds it low.
ServedOnceUnlessRaced == [][Process => request # "none" \/ fell]_vars

\* An error that ConnectPoll finds is signalled before a command can clear
\* it, whether its text is a literal, the same literal again, or new text in
\* the same buffer, and whatever the command before did to the state.
SignalledBeforeCleared ==
  pc \in {"readPin", "testFlag", "clearFlag", "process"} => signalled

\* A request is served even if no interrupt tells of it.
RequestServed == request # "none" ~> request = "none"

\* An error, or a state other than the one last reported, is not left standing
\* because the SAM has missed the first pulse for it.  What ends it is not
\* always that the SAM learns of it: a command of the SAM that is deferred
\* clears an error nobody has fetched (SocketServer.cpp:1041), and the state
\* can return to the one reported.  Otherwise the SAM has fetched both.
Unfetched == lastError # null \/ currentState # lastReportedState
StatusFetchedOrCleared == Unfetched ~> ~Unfetched
=============================================================================
