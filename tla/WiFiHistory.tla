----------------------------- MODULE WiFiHistory -----------------------------
(***************************************************************************)
(* WiFi with history variables: how long the present attempt to connect    *)
(* has lasted in real time, and whether the network it is for has been     *)
(* deleted from the table since StartClient chose it.                      *)
(***************************************************************************)
EXTENDS WiFi

VARIABLES
  age,        \* ms in the state connecting or reconnecting, up to MaxConnectTime
  forgotten

hvars == <<wvars, age, forgotten>>

Attempt == {"connecting", "reconnecting"}

HistoryInit == Init /\ age = 0 /\ forgotten = FALSE

Grow(d) ==
  age' = IF currentState' \in Attempt /\ currentState' = currentState
         THEN IF age + d < MaxConnectTime THEN age + d ELSE MaxConnectTime
         ELSE 0

Forget(s) == networkDeleteSsid(s) /\ s = currentSsid

HistoryNext ==
  /\ \/ \E d \in 0 .. MaxLoopTime : ConnectPoll(d) /\ Grow(d)
     \/ (SamCommand \/ SdkEvent \/ Restart \/ RestartInCommit) /\ Grow(0)
  /\ forgotten' = \/ FactoryReset \/ \E s \in Ssids : Forget(s)
                  \/ forgotten /\ currentState # "idle"

HistorySpec == HistoryInit /\ [][HistoryNext]_hvars

\* loop() calls ConnectPoll for ever and time passes.
FairSpec ==
  HistorySpec /\ WF_hvars(HistoryNext /\ \E d \in 1 .. MaxLoopTime : ConnectPoll(d))

TimesOut(from) ==
  currentState = from /\ status = "CONNECTING" /\ currentState' = "idle"

\* A first attempt is given up neither early nor late: only when the SDK has
\* been connecting for MaxConnectTime, and then at the next poll.
ConnectGetsItsTime ==
  [][\A d \in 0 .. MaxLoopTime :
       ConnectPoll(d) /\ TimesOut("connecting") => age + d >= MaxConnectTime
    ]_hvars

ConnectEnds == currentState = "connecting" => age < MaxConnectTime

\* A reconnection goes to the network that was lost, however the table has
\* been edited since: only deleting that network itself can redirect it.
ReconnectsToSame ==
  [][currentState' = "reconnecting" /\ ~forgotten => currentSsid' = currentSsid]_hvars

\* "how long we wait for WiFi to connect in milliseconds" (SocketServer.cpp:56),
\* "start the manual reconnect timer" (SocketServer.cpp:316)
ReconnectGetsItsTime ==
  [][\A d \in 0 .. MaxLoopTime :
       ConnectPoll(d) /\ TimesOut("reconnecting") => age + d >= MaxConnectTime
    ]_hvars
=============================================================================
