---------------------------- MODULE ServerProcess ----------------------------
(***************************************************************************)
(* The server's process (cmd/kms-server/main.go): how it checks its flags, *)
(* starts its parts one after the other while the first ones serve         *)
(* already, and stops them all when one fails or a signal comes.           *)
(*                                                                         *)
(* A part is a goroutine of the errgroup that serves, and the goroutine    *)
(* that waits for the group's context and shuts it down.                   *)
(***************************************************************************)
EXTENDS Integers

CONSTANT MaxDuration   \* bound: the largest duration in a flag

ASSUME ProcessAssumption == MaxDuration \in Nat

Durations == 0..MaxDuration

\* The flags and environment variables that decide what is started.
Flags ==
    [heartbeatEnable   : BOOLEAN,
     leaseStorePath    : BOOLEAN,     \* whether it is set
     metricsEndpoint   : BOOLEAN,
     heartbeatHMACKey  : BOOLEAN,
     adminToken        : BOOLEAN,
     leaseDuration     : Durations,
     heartbeatInterval : Durations,
     checkInterval     : Durations]

Parts == {"grpc", "metrics", "http", "switch"}

VARIABLES
    flags,
    pc,          \* where run is
    parts,       \* for each part: "off", "on" or "done"
    cancelled,   \* whether the group's context is cancelled
    err,         \* the first error a goroutine of the group has returned
    exit         \* how run ended: "none" (not yet), "nil", "error", "panic"

vars == <<flags, pc, parts, cancelled, err, exit>>

\* Whether serverOptions accepts the flags.
serverOptions(f) ==
    IF f.heartbeatEnable
    THEN /\ f.leaseStorePath
         /\ f.heartbeatInterval > 0
         /\ f.leaseDuration > f.heartbeatInterval
    ELSE f.leaseDuration = 0 /\ ~f.leaseStorePath

\* Whether run starts the HTTP API and the dead-man's switch.
Guarded(f) == f.heartbeatEnable /\ f.heartbeatHMACKey /\ f.adminToken

-----------------------------------------------------------------------------
(* run *)

\* Mutant: run ends without a result.
ExitUnreported(result) ==
    /\ pc' = "exited"
    /\ exit' = "none"
    /\ parts' = [p \in Parts |-> "off"]

\* The process is gone, and its goroutines with it.
Exit(result) ==
    /\ pc' = "exited"
    /\ exit' = result
    /\ parts' = [p \in Parts |-> "off"]

\* The key file, the flags, the lease file or the certificate is no good, or
\* the address of the gRPC API is taken.
StartFails ==
    /\ pc = "start"
    /\ Exit("error")
    /\ UNCHANGED <<flags, cancelled, err>>

StartGRPC ==
    /\ pc = "start"
    /\ serverOptions(flags)
    /\ parts' = [parts EXCEPT !["grpc"] = "on"]
    /\ pc' = "metrics"
    /\ UNCHANGED <<flags, cancelled, err, exit>>

StartMetrics ==
    /\ pc = "metrics"
    /\ parts' = IF flags.metricsEndpoint THEN [parts EXCEPT !["metrics"] = "on"]
                                         ELSE parts
    /\ pc' = "http"
    /\ UNCHANGED <<flags, cancelled, err, exit>>

StartHTTP ==
    /\ pc = "http"
    /\ parts' = IF Guarded(flags)
                THEN [parts EXCEPT !["http"] = "on", !["switch"] = "on"]
                ELSE parts
    /\ pc' = "wait"
    /\ UNCHANGED <<flags, cancelled, err, exit>>

\* Mutant: a server that cannot listen goes on without this part.
ListenFailsGoesOn ==
    /\ \/ pc = "metrics" /\ flags.metricsEndpoint /\ pc' = "http"
       \/ pc = "http" /\ Guarded(flags) /\ pc' = "wait"
    /\ UNCHANGED <<flags, parts, cancelled, err, exit>>

\* The address of metrics or HTTP API is taken: run returns although the
\* gRPC API serves.
ListenFails ==
    /\ \/ pc = "metrics" /\ flags.metricsEndpoint
       \/ pc = "http" /\ Guarded(flags)
    /\ Exit("error")
    /\ UNCHANGED <<flags, cancelled, err>>

\* Wait returns when every goroutine has: those that stop a part run until
\* the context is cancelled.
AllReturned == cancelled /\ \A p \in Parts : parts[p] # "on"

Wait ==
    /\ pc = "wait"
    /\ AllReturned
    /\ Exit(IF err \in {"none", "ErrServerStopped"} THEN "nil" ELSE "error")
    /\ UNCHANGED <<flags, cancelled, err>>

-----------------------------------------------------------------------------
(* The goroutines *)

Errors == {"none", "ErrServerStopped", "other"}

\* The errors with which a part that is told to stop can return: the gRPC API
\* has not served yet, or requests take longer than the 5 seconds of Shutdown.
StopErrors(p) ==
    CASE p = "grpc"                  -> {"none", "ErrServerStopped"}
      [] p \in {"metrics", "http"}   -> {"none", "other"}
      [] p = "switch"                -> {"none"}

\* The group keeps the first error.
Returned(e) == err' = IF err = "none" THEN e ELSE err

\* Mutant: the error of Serve is only logged.
ServeFailsSilently(p) ==
    /\ parts[p] = "on"
    /\ p # "switch"
    /\ parts' = [parts EXCEPT ![p] = "done"]
    /\ UNCHANGED <<flags, pc, cancelled, err, exit>>

\* Serve returns an error, which cancels the context.
ServeFails(p) ==
    /\ parts[p] = "on"
    /\ p # "switch"
    /\ parts' = [parts EXCEPT ![p] = "done"]
    /\ cancelled' = TRUE
    /\ Returned("other")
    /\ UNCHANGED <<flags, pc, exit>>

Interrupt ==
    /\ pc # "exited"
    /\ cancelled' = TRUE
    /\ UNCHANGED <<flags, pc, parts, err, exit>>

\* NewTicker panics on an interval that is not positive, which nothing checks.
SwitchPanics ==
    /\ parts["switch"] = "on"
    /\ flags.checkInterval = 0
    /\ Exit("panic")
    /\ UNCHANGED <<flags, cancelled, err>>

\* Mutant: the switch does not look at the context.
StopAllButSwitch(p, e) ==
    /\ cancelled
    /\ parts[p] = "on"
    /\ p # "switch"
    /\ e \in StopErrors(p)
    /\ parts' = [parts EXCEPT ![p] = "done"]
    /\ Returned(e)
    /\ UNCHANGED <<flags, pc, cancelled, exit>>

\* The part has seen that the context is cancelled, and has returned.
Stop(p, e) ==
    /\ cancelled
    /\ parts[p] = "on"
    /\ p = "switch" => flags.checkInterval > 0
    /\ e \in StopErrors(p)
    /\ parts' = [parts EXCEPT ![p] = "done"]
    /\ Returned(e)
    /\ UNCHANGED <<flags, pc, cancelled, exit>>

Init ==
    /\ flags \in Flags
    /\ pc = "start"
    /\ parts = [p \in Parts |-> "off"]
    /\ cancelled = FALSE
    /\ err = "none"
    /\ exit = "none"

Run == StartFails \/ StartGRPC \/ StartMetrics \/ StartHTTP \/ ListenFails \/ Wait

Goroutines ==
    \/ SwitchPanics
    \/ \E p \in Parts, e \in Errors : Stop(p, e)

Next == Run \/ Goroutines \/ (\E p \in Parts : ServeFails(p)) \/ Interrupt

Spec == Init /\ [][Next]_vars

\* Every goroutine runs on; nothing need fail and no signal need come.
FairSpec == Spec /\ WF_vars(Run) /\ WF_vars(Goroutines)

-----------------------------------------------------------------------------
(* What the process promises *)

TypeOK ==
    /\ flags \in Flags
    /\ pc \in {"start", "metrics", "http", "wait", "exited"}
    /\ parts \in [Parts -> {"off", "on", "done"}]
    /\ cancelled \in BOOLEAN
    /\ err \in Errors
    /\ exit \in {"none", "nil", "error", "panic"}
    /\ pc = "exited" <=> exit # "none"

\* The parts live and die together: while nothing is being stopped, no part
\* that was started has ended.  In particular the gRPC API does not hand out
\* keys beside a switch or an HTTP API that has failed.
NoPartDiesAlone == (\E p \in Parts : parts[p] = "done") => cancelled

\* Once run has started everything and while nothing is being stopped, a
\* server that enforces leases and has its secrets serves keys with the HTTP
\* API and the switch beside it: no listener that failed, and no part that
\* ended, has been passed over.
KeysAreGuarded ==
    pc = "wait" /\ ~cancelled /\ Guarded(flags) =>
        \A p \in {"grpc", "http", "switch"} : parts[p] = "on"

\* A signal or a failure ends the process, in whatever phase of its start it
\* comes.
StopsWhenTold == cancelled ~> pc = "exited"

\* A server that enforces leases and has its secrets does not go on handing
\* out keys without the switch: when the switch cannot be started it exits.
GuardedOrGone ==
    Guarded(flags) /\ parts["grpc"] = "on" ~>
        (parts["switch"] = "on" /\ flags.checkInterval > 0) \/ pc = "exited"

=============================================================================
