-------------------------------- MODULE Agent --------------------------------
(***************************************************************************)
(* The heartbeat agent (cmd/kms-agent/main.go): one loop that identifies   *)
(* the node, and one that sends heartbeats on the ticks of a ticker and    *)
(* waits longer and longer after failures.                                 *)
(*                                                                         *)
(* The network and the server appear as what they do to a request: it      *)
(* reaches the server or not, and the agent gets an answer, an error or    *)
(* the timeout of its HTTP client.  A heartbeat can be applied by the      *)
(* server although the agent counts it as failed.  A request that arrives  *)
(* after the agent gave it up is not modelled: it could only shorten the   *)
(* node's silence.                                                         *)
(*                                                                         *)
(* Time is counted down in the timers; what is due happens before time     *)
(* goes on.                                                                *)
(***************************************************************************)
EXTENDS Naturals

CONSTANTS
    Interval,         \* HEARTBEAT_INTERVAL
    RequestTimeout,   \* HEARTBEAT_TIMEOUT of the agent, its HTTP timeout
    MaxBackoff,       \* maxBackoff
    OverflowAt,       \* the number of failures from which on the conversion
                      \* of the backoff to a Duration overflows
    MaxSilence        \* bound: longer silences are not told apart

ASSUME AgentAssumption ==
    /\ Interval \in Nat \ {0}
    /\ RequestTimeout \in Nat \ {0}
    /\ MaxBackoff \in Nat \ {0}
    /\ OverflowAt \in Nat \ {0, 1}
    /\ MaxSilence \in Nat

VARIABLES
    pc,        \* where the agent is
    failures,  \* consecutiveFailures of the loop it is in
    timer,     \* what is left of the request's timeout or of time.After
    ticker,    \* time to the ticker's next tick
    tick,      \* whether a tick waits in the ticker's channel of size 1
    heard,     \* whether the server has applied the heartbeat under way
    silence    \* history: time since the server last applied a heartbeat, or
               \* since the agent began to send them

clocks == <<ticker, tick>>
vars == <<pc, failures, timer, ticker, tick, heard, silence>>

Sending == {"firstHeartbeat", "heartbeat"}
Requesting == {"identify"} \cup Sending
BackingOff == {"identifyBackoff", "backoff"}
InHeartbeatLoop == {"wait", "heartbeat", "backoff"}

AtMost(a, b) == IF a < b THEN a ELSE b

\* math.Pow(2, n): a recursive function, so that proofs can unfold it.
Pow2[n \in 0..OverflowAt] == IF n = 0 THEN 1 ELSE 2 * Pow2[n - 1]

\* Mutant: no upper limit.
backoffUnlimited(f) == {Interval * Pow2[f - 1]}

\* The possible values of backoffDuration: one, except that a conversion that
\* overflows yields the smallest int64 (a wait of no time) or the largest
\* (cut to maxBackoff), depending on the processor.
backoffDuration(f) ==
    IF f <= 1 THEN {Interval}
    ELSE IF f < OverflowAt THEN {AtMost(Interval * Pow2[f - 1], MaxBackoff)}
    ELSE {0, MaxBackoff}

\* All failures from OverflowAt on are alike.
OneMoreFailure == AtMost(failures + 1, OverflowAt)

-----------------------------------------------------------------------------
(* run *)

StartIdentify ==
    /\ pc' = "identify"
    /\ failures' = 0
    /\ timer' = RequestTimeout
    /\ UNCHANGED <<clocks, heard, silence>>

StartHeartbeats ==
    /\ pc' = "firstHeartbeat"
    /\ failures' = 0
    /\ timer' = RequestTimeout
    /\ heard' = FALSE
    /\ silence' = 0
    /\ UNCHANGED clocks

\* A new process: NODE_UUID is set, or not.
Start ==
    /\ pc = "down"
    /\ StartIdentify \/ StartHeartbeats

\* The pod is stopped or killed.
Stop ==
    /\ pc # "down"
    /\ pc' = "down"
    /\ UNCHANGED <<failures, timer, clocks, heard, silence>>

-----------------------------------------------------------------------------
(* identifyLoop *)

IdentifySucceeds ==
    /\ pc = "identify"
    /\ StartHeartbeats

\* Not yet registered (404), rejected, or no answer in time.
IdentifyFails ==
    /\ pc = "identify"
    /\ failures' = OneMoreFailure
    /\ timer' \in backoffDuration(failures')
    /\ pc' = "identifyBackoff"
    /\ UNCHANGED <<clocks, heard, silence>>

\* Mutant: the agent gives up after many failures.
IdentifyGivesUp ==
    /\ pc = "identifyBackoff"
    /\ timer = 0
    /\ failures < OverflowAt
    /\ pc' = "identify"
    /\ timer' = RequestTimeout
    /\ UNCHANGED <<failures, clocks, heard, silence>>

IdentifyAgain ==
    /\ pc = "identifyBackoff"
    /\ timer = 0
    /\ pc' = "identify"
    /\ timer' = RequestTimeout
    /\ UNCHANGED <<failures, clocks, heard, silence>>

-----------------------------------------------------------------------------
(* heartbeatLoop *)

\* The server applies the heartbeat.
Deliver ==
    /\ pc \in Sending
    /\ ~heard
    /\ heard' = TRUE
    /\ silence' = 0
    /\ UNCHANGED <<pc, failures, timer, clocks>>

NewTicker == ticker' = Interval /\ tick' = FALSE

FirstHeartbeatSucceeds ==
    /\ pc = "firstHeartbeat"
    /\ heard
    /\ pc' = "wait"
    /\ NewTicker
    /\ UNCHANGED <<failures, timer, heard, silence>>

\* Mutant: only a success starts the ticker.
FirstHeartbeatNoTicker ==
    /\ pc = "firstHeartbeat"
    /\ failures' = 1
    /\ pc' = "wait"
    /\ UNCHANGED <<timer, clocks, heard, silence>>

\* Counts as a failure, but there is no backoff.
FirstHeartbeatFails ==
    /\ pc = "firstHeartbeat"
    /\ failures' = 1
    /\ pc' = "wait"
    /\ NewTicker
    /\ UNCHANGED <<timer, heard, silence>>

sendHeartbeat ==
    /\ pc = "wait"
    /\ tick
    /\ tick' = FALSE
    /\ pc' = "heartbeat"
    /\ timer' = RequestTimeout
    /\ heard' = FALSE
    /\ UNCHANGED <<failures, ticker, silence>>

HeartbeatSucceeds ==
    /\ pc = "heartbeat"
    /\ heard
    /\ failures' = 0
    /\ pc' = "wait"
    /\ UNCHANGED <<timer, clocks, heard, silence>>

\* Rejected (403 for a blocked node too), or no answer in time, whether or
\* not the server applied it.
HeartbeatFails ==
    /\ pc = "heartbeat"
    /\ failures' = OneMoreFailure
    /\ timer' \in backoffDuration(failures')
    /\ pc' = "backoff"
    /\ UNCHANGED <<clocks, heard, silence>>

BackoffEnds ==
    /\ pc = "backoff"
    /\ timer = 0
    /\ pc' = "wait"
    /\ UNCHANGED <<failures, timer, clocks, heard, silence>>

-----------------------------------------------------------------------------
(* Time *)

\* A tick that finds the channel full is dropped.
RunTicker ==
    IF pc \notin InHeartbeatLoop THEN UNCHANGED clocks
    ELSE /\ ticker' = IF ticker = 1 THEN Interval ELSE ticker - 1
         /\ tick' = (tick \/ ticker = 1)

Tick ==
    /\ pc \in Requesting \cup BackingOff => timer > 0
    /\ pc = "wait" => ~tick
    /\ timer' = IF timer > 0 THEN timer - 1 ELSE 0
    /\ RunTicker
    /\ silence' = AtMost(silence + 1, MaxSilence)
    /\ UNCHANGED <<pc, failures, heard>>

Init ==
    /\ pc = "down"
    /\ failures = 0
    /\ timer = 0
    /\ ticker = 0
    /\ tick = FALSE
    /\ heard = FALSE
    /\ silence = 0

LoopStep ==
    \/ Start
    \/ IdentifyAgain
    \/ sendHeartbeat
    \/ BackoffEnds

Answer ==
    \/ IdentifySucceeds
    \/ IdentifyFails
    \/ FirstHeartbeatSucceeds
    \/ FirstHeartbeatFails
    \/ HeartbeatSucceeds
    \/ HeartbeatFails

Next == LoopStep \/ Answer \/ Deliver \/ Stop \/ Tick

Spec == Init /\ [][Next]_vars

\* The process runs and its timers fire.  A server that is asked again and
\* again is reached now and then.
FairSpec ==
    /\ Spec
    /\ WF_vars(LoopStep)
    /\ WF_vars(Answer)
    /\ WF_vars(Tick)
    /\ SF_vars(IdentifySucceeds)
    /\ SF_vars(Deliver)

-----------------------------------------------------------------------------
(* What the agent promises *)

TypeOK ==
    /\ pc \in {"down", "wait"} \cup Requesting \cup BackingOff
    /\ failures \in 0..OverflowAt
    /\ timer \in Nat
    /\ ticker \in 0..Interval
    /\ pc \in InHeartbeatLoop => ticker > 0
    /\ tick \in BOOLEAN
    /\ heard \in BOOLEAN
    /\ silence \in 0..MaxSilence

\* The longest silence of an agent with f failures in a row: each one adds
\* the time of a request and a wait that doubles up to a limit.
Reach[f \in 0..(OverflowAt - 1)] ==
    IF f = 0 THEN Interval + 2 * RequestTimeout
    ELSE Reach[f - 1] + RequestTimeout
         + AtMost(Interval * Pow2[f - 1],
                  IF Interval < MaxBackoff THEN MaxBackoff ELSE Interval)

\* How long the server may hear nothing from a running agent follows from
\* the failures the agent has counted, although it counts heartbeats as
\* failed that were applied, drops ticks while it waits, and sends on a
\* ticker that knows nothing of the backoff.
SilenceBounded ==
    pc \in InHeartbeatLoop /\ failures < OverflowAt => silence <= Reach[failures]

\* An agent that keeps running is heard again and again, whatever failures
\* it has been through.
HeardAgain == <>[](pc # "down") => []<>(pc \in Sending /\ heard)

=============================================================================
