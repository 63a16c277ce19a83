------------------------------ MODULE KMSClient ------------------------------
(***************************************************************************)
(* The gRPC heartbeat client (cmd/kms-client/main.go) and the answers it   *)
(* gets: the status codes of the server's Heartbeat (pkg/server/server.go) *)
(* and the labels under which the server counts them                       *)
(* (pkg/server/metrics.go).                                                *)
(*                                                                         *)
(* What the lease store says to a heartbeat is any of its results (see     *)
(* LeaseStore).  Time is counted down in the timers; what is due happens   *)
(* before time goes on.                                                    *)
(***************************************************************************)
EXTENDS Naturals

CONSTANTS
    MaxInterval,   \* bound: the largest --heartbeat-interval
    MaxTimeout,    \* bound: the largest --heartbeat-timeout
    MaxMissed      \* bound: from here on missed heartbeats are not counted

ASSUME ClientAssumption ==
    /\ MaxInterval \in Nat
    /\ MaxTimeout \in Nat
    /\ MaxMissed \in Nat

VARIABLES
    interval,   \* --heartbeat-interval
    timeout,    \* --heartbeat-timeout
    tls,        \* --tls-enable, and the file that --tls-ca-path names
    pc,         \* where the client is
    exit,       \* what run returned: "none" (yet), "nil" or "error"
    timer,      \* what is left of the request's timeout
    ticker,     \* time to the ticker's next tick
    tick,       \* whether a tick waits in the ticker's channel of size 1
    answer,     \* the server's result of the request under way
    received,   \* history: the last result that reached the client
    accepted,   \* history: whether a heartbeat has succeeded
    signalled,  \* history: whether the client was interrupted
    missed,     \* history: heartbeats failed in a row
    silence     \* history: time since the server last applied a heartbeat

flags == <<interval, timeout, tls>>
clocks == <<ticker, tick>>
history == <<received, accepted, signalled, missed>>
vars == <<flags, pc, exit, timer, clocks, answer, history, silence>>

Requesting == {"first", "request"}
InLoop == {"wait", "request"}

AtMost(a, b) == IF a < b THEN a ELSE b

\* Mutant: the timeout of a request may exceed the interval.
validateFlagsApart(i, t, s) ==
    i > 0 /\ t > 0 /\ (s.enable <=> s.ca # "unset")

\* The flags that validateFlags lets pass.
validateFlags(i, t, s) ==
    i > 0 /\ t > 0 /\ t < i /\ (s.enable <=> s.ca # "unset")

\* Whether the CA bundle can be read, where it is needed.
transportCredentials(s) == s.enable => s.ca = "good"

\* The client gets as far as to send.  (The endpoint can always be parsed.)
Configured == validateFlags(interval, timeout, tls) /\ transportCredentials(tls)

-----------------------------------------------------------------------------
(* Heartbeat, on the server *)

\* The results of Heartbeat: those of HeartbeatByIP, and the two before it.
Results == {"none", "blocked", "expired", "ipNotFound", "internal",
            "leasesDisabled", "peerUnknown"}

Code(result) ==
    CASE result = "none"                                  -> "OK"
      [] result \in {"blocked", "expired", "ipNotFound"}  -> "PermissionDenied"
      [] result = "leasesDisabled"                        -> "FailedPrecondition"
      [] result = "peerUnknown"                           -> "Unauthenticated"
      [] result = "internal"                              -> "Internal"

\* The first label of kms_heartbeat_requests_total.
requestLabels(code) ==
    CASE code = "OK" -> "success"
      [] code \in {"PermissionDenied", "Unauthenticated", "FailedPrecondition"} -> "denied"
      [] OTHER -> "error"

\* The server handles the request and counts it.
Heartbeat ==
    /\ pc \in Requesting
    /\ answer = "pending"
    /\ answer' \in Results
    /\ silence' = IF answer' = "none" THEN 0 ELSE silence
    /\ UNCHANGED <<flags, pc, exit, timer, clocks, history>>

-----------------------------------------------------------------------------
(* The client *)

\* Mutant: a server without leases is asked again.
classifyPatiently(code) ==
    code \in {"PermissionDenied", "Unauthenticated", "InvalidArgument"}

\* Whether classifyHeartbeatError returns an error.
classifyHeartbeatError(code) ==
    code \in {"PermissionDenied", "Unauthenticated", "FailedPrecondition",
              "InvalidArgument"}

sendHeartbeat(where) ==
    /\ pc' = where
    /\ timer' = timeout
    /\ answer' = "pending"

End(result) ==
    /\ pc' = "ended"
    /\ exit' = result
    /\ answer' = "none"

\* main and run: flags or a CA bundle that do not pass end the client before it sends.
run ==
    /\ pc = "start"
    /\ IF Configured
       THEN sendHeartbeat("first") /\ UNCHANGED exit
       ELSE End("error") /\ UNCHANGED timer
    /\ UNCHANGED <<flags, clocks, history, silence>>

\* Mutant: the ticker is not started.
AcceptedNoTicker ==
    /\ pc \in Requesting
    /\ answer = "none"
    /\ pc' = "wait"
    /\ received' = answer
    /\ accepted' = TRUE
    /\ missed' = 0
    /\ UNCHANGED <<flags, exit, timer, clocks, answer, signalled, silence>>

\* The first heartbeat's answer OK starts the ticker.
Accepted ==
    /\ pc \in Requesting
    /\ answer = "none"
    /\ pc' = "wait"
    /\ received' = answer
    /\ accepted' = TRUE
    /\ missed' = 0
    /\ IF pc = "first" THEN ticker' = interval /\ tick' = FALSE
                       ELSE UNCHANGED clocks
    /\ UNCHANGED <<flags, exit, timer, answer, signalled, silence>>

Rejected ==
    /\ pc \in Requesting
    /\ answer \in Results
    /\ classifyHeartbeatError(Code(answer))
    /\ End("error")
    /\ received' = answer
    /\ UNCHANGED <<flags, timer, clocks, accepted, signalled, missed, silence>>

\* Mutant: any failure ends the client, as that of the first heartbeat does.
FailedEnds ==
    /\ End("nil")
    /\ UNCHANGED missed

\* A failure that is not a rejection ends a client that has had no success
\* (run returns nil), and no other.
Failed ==
    IF pc = "first" THEN End("nil") /\ UNCHANGED missed
    ELSE /\ pc' = "wait"
         /\ missed' = AtMost(missed + 1, MaxMissed)
         /\ UNCHANGED <<exit, answer>>

FailedAnswer ==
    /\ pc \in Requesting
    /\ answer \in Results \ {"none"}
    /\ ~classifyHeartbeatError(Code(answer))
    /\ Failed
    /\ received' = answer
    /\ UNCHANGED <<flags, timer, clocks, accepted, signalled, silence>>

\* The connection fails (Unavailable) or the request times out
\* (DeadlineExceeded), whether or not the server has handled it.
NoAnswer ==
    /\ pc \in Requesting
    /\ Failed
    /\ UNCHANGED <<flags, timer, clocks, received, accepted, signalled, silence>>

\* Mutant: nothing is sent after a failure.
NextHeartbeatGivesUp ==
    /\ pc = "wait"
    /\ tick
    /\ missed = 0
    /\ tick' = FALSE
    /\ sendHeartbeat("request")
    /\ UNCHANGED <<flags, exit, ticker, history, silence>>

NextHeartbeat ==
    /\ pc = "wait"
    /\ tick
    /\ tick' = FALSE
    /\ sendHeartbeat("request")
    /\ UNCHANGED <<flags, exit, ticker, history, silence>>

\* An interrupt cancels the context: a request under way fails with Canceled,
\* which is no rejection, and the loop ends.
Interrupt ==
    /\ pc \in Requesting \cup {"wait"}
    /\ End("nil")
    /\ signalled' = TRUE
    /\ UNCHANGED <<flags, timer, clocks, received, accepted, missed, silence>>

Tick ==
    /\ pc \in Requesting => timer > 0
    /\ pc = "wait" => ~tick
    /\ pc \in Requesting \cup InLoop
    /\ timer' = IF timer > 0 THEN timer - 1 ELSE 0
    /\ IF pc = "first" THEN UNCHANGED clocks
       ELSE /\ ticker' = IF ticker = 1 THEN interval ELSE ticker - 1
            /\ tick' = (tick \/ ticker = 1)
    /\ silence' = AtMost(silence + 1, (MaxMissed + 2) * (MaxInterval + MaxTimeout))
    /\ UNCHANGED <<flags, pc, exit, answer, history>>

Init ==
    /\ interval \in 0..MaxInterval
    /\ timeout \in 0..MaxTimeout
    /\ tls \in [enable : BOOLEAN, ca : {"unset", "bad", "good"}]
    /\ pc = "start"
    /\ exit = "none"
    /\ timer = 0
    /\ ticker = 0
    /\ tick = FALSE
    /\ answer = "none"
    /\ received = "none"
    /\ accepted = FALSE
    /\ signalled = FALSE
    /\ missed = 0
    /\ silence = 0

Step == run \/ Accepted \/ Rejected \/ FailedAnswer \/ NoAnswer \/ NextHeartbeat

Next == Step \/ Heartbeat \/ Interrupt \/ Tick

Spec == Init /\ [][Next]_vars

\* The process and its timers run.  A server that is asked again and again
\* takes a heartbeat now and then, and its answer comes back.
FairSpec ==
    /\ Spec
    /\ WF_vars(Step)
    /\ WF_vars(Tick)
    /\ SF_vars(Heartbeat /\ answer' = "none")
    /\ SF_vars(Accepted)

-----------------------------------------------------------------------------
(* What the client promises *)

TypeOK ==
    /\ pc \in {"start", "wait", "ended"} \cup Requesting
    /\ exit \in {"none", "nil", "error"}
    /\ timer \in 0..timeout
    /\ ticker \in 0..interval
    /\ pc \in InLoop => ticker > 0
    /\ tick \in BOOLEAN
    /\ answer \in Results \cup {"pending"}
    /\ received \in Results
    /\ missed \in 0..MaxMissed

\* How long the server hears nothing of a running client follows from the
\* heartbeats it has missed: the ticker never drops a tick, since a request
\* ends before the next tick is due.
GapBounded ==
    pc \in InLoop /\ missed < MaxMissed =>
        silence <= (missed + 1) * interval + 2 * timeout

\* The client's list of final codes and the server's list of denials, which
\* are written apart, agree: an answer ends the client with an error exactly
\* when the server has counted it as denied.
EndsWhenDenied ==
    Configured =>
        (exit = "error" <=> requestLabels(Code(received)) = "denied")

\* A client that has had one heartbeat accepted ends without an error only
\* when it is told to: no failure of the network or the server's disk does it.
SurvivesFailures == exit = "nil" /\ accepted => signalled

\* Such a client is heard again and again, unless it is rejected or stopped.
ClientHeardAgain ==
    accepted ~> (pc = "ended" \/ (pc = "request" /\ answer = "none"))

=============================================================================
