------------------------------ MODULE KMSServer ------------------------------
(***************************************************************************)
(* The KMS server process: the gRPC handlers Unseal and Heartbeat          *)
(* (pkg/server/server.go), the HTTP handlers for heartbeats and the admin  *)
(* API (pkg/server/http.go) and the dead-man's switch (deadman.go), all    *)
(* goroutines on one lease store, and crashes and restarts of the process  *)
(* (cmd/kms-server/main.go).                                               *)
(*                                                                         *)
(* Every handler reads the clock, THEN calls the store, which waits for    *)
(* the mutex: the two are steps of their own here, so a call is applied    *)
(* with a time that may be old, and after calls with a later time.  Unseal *)
(* makes two calls (Validate, then Bootstrap) with decryption in between.  *)
(*                                                                         *)
(* Requests that never reach the store (bad token, signature, timestamp or *)
(* arguments) change nothing and are not modelled; nor is Seal, which has  *)
(* no state.  The server is configured with leases, HMAC key and admin     *)
(* token, so that all its parts run.                                       *)
(***************************************************************************)
EXTENDS LeaseStore

CONSTANTS
    Handlers,        \* goroutines that serve requests
    CheckInterval,   \* --heartbeat-check-interval
    MaxStale         \* bound: how long a goroutine may take from one reading
                     \* of the clock (or tick of the ticker) to its next one,
                     \* or to its end

ASSUME ServerAssumption ==
    /\ CheckInterval \in Nat
    /\ MaxStale \in Nat
    /\ MaxStale < CheckInterval   \* the ticker never has to drop a tick
    /\ MaxStale <= HeartbeatTimeout
    /\ MaxTime > 0

VARIABLES
    clock,     \* the server's clock
    up,        \* whether the process runs
    calls,     \* the request each handler works on
    check,     \* the time that Check read, Zero when Run waits for the ticker
    due,       \* when the ticker fires next
    started,   \* when the process started
    touched,   \* history: when a refresh of a node's lease was last applied
    acked,     \* history: when one was last applied and answered with success
    shielded   \* history: the nodes for which the operator switched maintenance
               \* mode on, was told so, and has not switched it off, and which
               \* have not unsealed since

history == <<touched, acked, shielded>>
timers == <<clock, up, check, due, started>>
vars == <<storeVars, timers, calls, history>>

Idle == [pc |-> "idle"]

Calls ==
    {Idle}
    \cup [pc : {"validate", "open", "bootstrap"}, node : Nodes, ip : IPs, now : Times]
    \cup [pc : {"heartbeatByIP"}, ip : IPs, now : Times]
    \cup [pc : {"heartbeatByUUID"}, node : Nodes, ip : IPs, now : Times]
    \cup [pc : {"unblock"}, node : Nodes, now : Times]
    \cup [pc : {"setMaintenance"}, node : Nodes, enabled : BOOLEAN, now : Times]

Init ==
    /\ StoreInit
    /\ clock = 1
    /\ up = TRUE
    /\ calls = [h \in Handlers |-> Idle]
    /\ check = Zero
    /\ due = 1 + CheckInterval
    /\ started = 1
    /\ touched = [n \in Nodes |-> Zero]
    /\ acked = [n \in Nodes |-> Zero]
    /\ shielded = {}

-----------------------------------------------------------------------------
(* Requests arrive: the handler reads the clock *)

Receive(h, call) ==
    /\ up
    /\ calls[h] = Idle
    /\ calls' = [calls EXCEPT ![h] = call]
    /\ UNCHANGED <<storeVars, timers, history>>

ReceiveUnseal(h) ==
    \E n \in Nodes, ip \in IPs :
        Receive(h, [pc |-> "validate", node |-> n, ip |-> ip, now |-> clock])

ReceiveHeartbeat(h) ==
    \E ip \in IPs : Receive(h, [pc |-> "heartbeatByIP", ip |-> ip, now |-> clock])

ReceiveHTTPHeartbeat(h) ==
    \E n \in Nodes, ip \in IPs :
        Receive(h, [pc |-> "heartbeatByUUID", node |-> n, ip |-> ip, now |-> clock])

ReceiveUnblock(h) ==
    \E n \in Nodes : Receive(h, [pc |-> "unblock", node |-> n, now |-> clock])

ReceiveSetMaintenance(h) ==
    \E n \in Nodes, enabled \in BOOLEAN :
        Receive(h, [pc |-> "setMaintenance", node |-> n, enabled |-> enabled,
                    now |-> clock])

-----------------------------------------------------------------------------
(* Handlers call the store and answer *)

Return(h) == calls' = [calls EXCEPT ![h] = Idle]

\* History of a call that wrote a new LastHeartbeatAt for node n if refreshed.
Note(n, refreshed, err) ==
    /\ touched' = IF refreshed THEN [touched EXCEPT ![n] = clock] ELSE touched
    /\ acked' = IF refreshed /\ err = "none" THEN [acked EXCEPT ![n] = clock]
                                             ELSE acked

\* validateLease: an unknown node passes like one with a lease.
UnsealValidate(h) ==
    /\ calls[h].pc = "validate"
    /\ \E ok \in PersistOutcomes, err \in Errors :
           /\ Validate(calls[h].node, calls[h].now, ok, err)
           /\ calls' = [calls EXCEPT ![h] = IF err \in {"none", "notFound"}
                                            THEN [@ EXCEPT !.pc = "open"]
                                            ELSE Idle]
    /\ UNCHANGED <<timers, history>>

\* The data has the wrong length or is not authentic (the answer is random
\* data), or the peer has no address: Unseal ends without a lease.
UnsealFail(h) ==
    /\ calls[h].pc = "open"
    /\ Return(h)
    /\ UNCHANGED <<storeVars, timers, history>>

UnsealOpen(h) ==
    /\ calls[h].pc = "open"
    /\ calls' = [calls EXCEPT ![h].pc = "bootstrap", ![h].now = clock]
    /\ UNCHANGED <<storeVars, timers, history>>

\* The answer is the key, or an error when the lease could not be saved.
UnsealBootstrap(h) ==
    /\ calls[h].pc = "bootstrap"
    /\ \E ok \in PersistOutcomes, err \in Errors :
           /\ Bootstrap(calls[h].node, calls[h].ip, calls[h].now, ok, err)
           /\ Note(calls[h].node, TRUE, err)
    /\ shielded' = shielded \ {calls[h].node}
    /\ Return(h)
    /\ UNCHANGED timers

Heartbeat(h) ==
    /\ calls[h].pc = "heartbeatByIP"
    /\ \/ \E n \in Nodes, ok \in PersistOutcomes, err \in Errors :
              /\ HeartbeatByIP(n, calls[h].ip, calls[h].now, ok, err)
              /\ Note(n, nodes'[n].Status = "active", err)
       \/ \E err \in Errors : HeartbeatByUnknownIP(calls[h].ip, err)
          /\ UNCHANGED <<touched, acked>>
    /\ Return(h)
    /\ UNCHANGED <<timers, shielded>>

handleHeartbeat(h) ==
    /\ calls[h].pc = "heartbeatByUUID"
    /\ \E ok \in PersistOutcomes, err \in Errors :
           /\ HeartbeatByUUID(calls[h].node, calls[h].ip, calls[h].now, ok, err)
           /\ Note(calls[h].node, err # "blocked", err)
    /\ Return(h)
    /\ UNCHANGED <<timers, shielded>>

handleUnblockNode(h) ==
    /\ calls[h].pc = "unblock"
    /\ \E ok \in PersistOutcomes, err \in Errors :
           /\ Unblock(calls[h].node, calls[h].now, ok, err)
           /\ Note(calls[h].node, err # "notFound", err)
    /\ Return(h)
    /\ UNCHANGED <<timers, shielded>>

handleSetMaintenance(h) ==
    LET n == calls[h].node IN
    /\ calls[h].pc = "setMaintenance"
    /\ \E ok \in PersistOutcomes, err \in Errors :
           /\ SetMaintenance(n, calls[h].enabled, calls[h].now, ok, err)
           /\ Note(n, ~calls[h].enabled /\ err # "notFound", err)
           /\ shielded' = IF ~calls[h].enabled THEN shielded \ {n}
                          ELSE IF err = "none" THEN shielded \cup {n}
                          ELSE shielded
    /\ Return(h)
    /\ UNCHANGED timers

-----------------------------------------------------------------------------
(* The dead-man's switch *)

\* Run receives a tick, and Check reads the clock.
CheckStart ==
    /\ up
    /\ check = Zero
    /\ clock >= due
    /\ check' = clock
    /\ due' = due + CheckInterval
    /\ UNCHANGED <<storeVars, clock, up, started, calls, history>>

Check ==
    /\ check # Zero
    /\ \E ok \in PersistOutcomes : BlockExpiredNodes(check, ok)
    /\ check' = Zero
    /\ UNCHANGED <<clock, up, due, started, calls, history>>

-----------------------------------------------------------------------------
(* The process and its time *)

Crash ==
    /\ up
    /\ up' = FALSE
    /\ calls' = [h \in Handlers |-> Idle]
    /\ check' = Zero
    /\ UNCHANGED <<storeVars, clock, due, started, history>>

Restart ==
    /\ ~up
    /\ up' = TRUE
    /\ Load(clock)
    /\ started' = clock
    /\ due' = clock + CheckInterval
    /\ UNCHANGED <<clock, check, calls, history>>

\* Nobody is late.
Tick ==
    /\ clock < MaxTime
    /\ \A h \in Handlers : calls[h] # Idle => clock - calls[h].now < MaxStale
    /\ check # Zero => clock - check < MaxStale
    /\ up => clock - due < MaxStale
    /\ clock' = clock + 1
    /\ UNCHANGED <<storeVars, up, check, due, started, calls, history>>

HandlerNext(h) ==
    \/ ReceiveUnseal(h)
    \/ ReceiveHeartbeat(h)
    \/ ReceiveHTTPHeartbeat(h)
    \/ ReceiveUnblock(h)
    \/ ReceiveSetMaintenance(h)
    \/ UnsealValidate(h)
    \/ UnsealFail(h)
    \/ UnsealOpen(h)
    \/ UnsealBootstrap(h)
    \/ Heartbeat(h)
    \/ handleHeartbeat(h)
    \/ handleUnblockNode(h)
    \/ handleSetMaintenance(h)

Next ==
    \/ \E h \in Handlers : HandlerNext(h)
    \/ CheckStart
    \/ Check
    \/ Crash
    \/ Restart
    \/ Tick

Spec == Init /\ [][Next]_vars

-----------------------------------------------------------------------------
(* What the server promises *)

\* Types; a process that is down works on nothing, and nobody has read a
\* time that is still to come.
TypeOK ==
    /\ StoreTypeOK
    /\ clock \in Times
    /\ up \in BOOLEAN
    /\ calls \in [Handlers -> Calls]
    /\ check \in 0..clock
    /\ due \in Nat
    /\ started \in 1..clock
    /\ touched \in [Nodes -> 0..clock]
    /\ acked \in [Nodes -> 0..clock]
    /\ shielded \subseteq Nodes
    /\ \A h \in Handlers : calls[h] # Idle => up /\ calls[h].now <= clock
    /\ check # Zero => up

\* Handler h ends an Unseal whose data it could decrypt.
KeyReleased(h) ==
    /\ calls[h].pc = "bootstrap"
    /\ calls'[h] = Idle
    /\ up'

\* Unseal hands out the key of a registered node only while its lease runs:
\* some heartbeat, unseal or admin call renewed the lease less than
\* LeaseDuration before, give or take the time the handler itself takes.
\* Holds across the gap between Validate and Bootstrap, calls applied out of
\* order, failed writes of the file and restarts.
KeyNeedsLease ==
    [][\A h \in Handlers :
          KeyReleased(h) /\ nodes[calls[h].node] # Absent =>
              clock <= touched[calls[h].node] + LeaseDuration + 2 * MaxStale]_vars

\* A blocked node gets its key only from an Unseal that was already past
\* Validate when the switch blocked it, so not for long.
KeySoonAfterBlock ==
    [][\A h \in Handlers :
          LET record == nodes[calls[h].node] IN
          KeyReleased(h) /\ record # Absent /\ record.Status = "blocked" =>
              clock <= record.BlockedAt + 3 * MaxStale]_vars

\* A node whose heartbeat was answered with success is not blocked before
\* HeartbeatTimeout has passed, whatever the order in which the calls that
\* refresh it, the check and restarts are applied.
NoEarlyBlock ==
    [][\A n \in Nodes :
          /\ nodes[n] # Absent /\ nodes'[n] # Absent
          /\ nodes[n].Status # "blocked" /\ nodes'[n].Status = "blocked"
          /\ check # Zero
          => clock - acked[n] + MaxStale > HeartbeatTimeout]_vars

\* A success that a client has seen survives every crash: the file always
\* holds a lease that is as recent, although later calls may have failed to
\* write the file, or carried an older time.
AckedRefreshIsDurable ==
    \A n \in Nodes :
        acked[n] # Zero =>
            /\ file[n] # Absent
            /\ file[n].LastHeartbeatAt + MaxStale >= acked[n]

\* A node that is silent is blocked in bounded time, counted from the later
\* of its deadline and the start of the process, while its status is active.
NoLateBlock ==
    \A n \in Registered(nodes) :
        up /\ nodes[n].Status = "active" /\ ~nodes[n].Maintenance =>
            \/ clock - nodes[n].LastHeartbeatAt <=
                   HeartbeatTimeout + CheckInterval + 2 * MaxStale
            \/ clock - started <= CheckInterval + 2 * MaxStale

\* From the operator's "maintenance on" to the "maintenance off" the switch
\* does not block the node (README.md:41-42), across heartbeats, admin calls,
\* failed writes and restarts.  Only the node's own Unseal ends it as well:
\* Bootstrap starts from a new record.
MaintenanceShields ==
    [][\A n \in shielded \cap Registered(nodes) :
          nodes[n].Status # "blocked" /\ check # Zero =>
              nodes'[n].Status # "blocked"]_vars

-----------------------------------------------------------------------------
(* What the documents say and the code does not do *)

\* README.md:39: a blocked node cannot get the key through Unseal.
BlockedNodeGetsNoKey ==
    [][\A h \in Handlers :
          KeyReleased(h) => nodes[calls[h].node] = Absent
                            \/ nodes[calls[h].node].Status # "blocked"]_vars

=============================================================================
