----------------------------- MODULE LeaseStore -----------------------------
(***************************************************************************)
(* The lease store of the KMS server (pkg/server/lease_store.go): a map    *)
(* from node UUIDs to lease records, guarded by one mutex and written to   *)
(* a JSON file by every method that changes it.                            *)
(*                                                                         *)
(* Every exported method holds the mutex from its first to its last line,  *)
(* and the file is read only when the process starts, so a method is one   *)
(* step.  A crash inside a method is a crash just before it (the rename of *)
(* persistLocked has not happened) or just after it (it has): the memory   *)
(* the method worked on is lost with the process either way.               *)
(*                                                                         *)
(* The callers read the clock BEFORE they take the mutex, so the store     *)
(* sees their times in any order: "now" is a parameter of each method and  *)
(* StoreNext puts no order on it.                                          *)
(*                                                                         *)
(* A method's error result is its parameter err, the outcome of writing    *)
(* the file its parameter ok.                                              *)
(***************************************************************************)
EXTENDS Integers, FiniteSets

CONSTANTS
    Nodes,             \* node UUIDs
    IPs,               \* peer addresses
    NoIP,              \* the empty address ""
    Absent,            \* "no entry in the map"
    LeaseDuration,     \* --lease-duration
    HeartbeatTimeout,  \* --heartbeat-timeout
    MaxTime,           \* bound: the last instant of a behaviour
    DiskFaults         \* whether persistLocked may fail

VARIABLES
    nodes,    \* store.nodes, the map in memory
    file,     \* the map last written to store.path
    gauges    \* kms_active_leases and kms_expired_leases

storeVars == <<nodes, file, gauges>>

Zero == 0              \* time.Time{}
Times == 1..MaxTime

LeaseStatus == {"active", "expired", "blocked"}

\* The fields the code reads, and BlockedAt.  LastUnsealAt, FirstSeen,
\* MaintenanceAt, Hostname and BlockReason are only written and displayed.
LeaseRecord ==
    [LastHeartbeatAt : Nat,
     LeaseUntil      : Nat,
     BlockedAt       : Nat,
     LastUnsealIP    : IPs \cup {NoIP},
     NodeIP          : IPs \cup {NoIP},
     Status          : LeaseStatus,
     Maintenance     : BOOLEAN]

LeaseMap == [Nodes -> LeaseRecord \cup {Absent}]

Errors == {"none", "notFound", "blocked", "expired", "ipNotFound", "internal"}

ASSUME StoreAssumption ==
    /\ IsFiniteSet(Nodes)
    /\ NoIP \notin IPs
    /\ Absent \notin LeaseRecord
    /\ LeaseDuration \in Nat \ {0}
    /\ HeartbeatTimeout \in Nat
    /\ MaxTime \in Nat
    /\ DiskFaults \in BOOLEAN

-----------------------------------------------------------------------------
(* Records *)

\* Mutant: a new lease without a status (Go's zero value).
activeLeaseNoStatus(now) ==
    [LastHeartbeatAt |-> now, LeaseUntil |-> now + LeaseDuration,
     BlockedAt |-> Zero, LastUnsealIP |-> NoIP, NodeIP |-> NoIP,
     Status |-> "", Maintenance |-> FALSE]

activeLease(now) ==
    [LastHeartbeatAt |-> now,
     LeaseUntil      |-> now + LeaseDuration,
     BlockedAt       |-> Zero,
     LastUnsealIP    |-> NoIP,
     NodeIP          |-> NoIP,
     Status          |-> "active",
     Maintenance     |-> FALSE]

isExpired(record, now) ==
    /\ record.LeaseUntil # Zero
    /\ now > record.LeaseUntil

\* Mutant: a lease is over only once some call has marked it.
LeaseOverByStatus(record, now) == record.Status = "expired"

\* The test that Validate and HeartbeatByIP make after the test for "blocked".
LeaseOver(record, now) == isExpired(record, now) \/ record.Status = "expired"

\* Mutant: a heartbeat that forgets to extend the lease.
RefreshHeartbeatOnly(record, now) == [record EXCEPT !.LastHeartbeatAt = now]

Refresh(record, now) ==
    [record EXCEPT !.LastHeartbeatAt = now, !.LeaseUntil = now + LeaseDuration]

\* Mutant: Unblock keeps the date of the block.
UnblockKeepsDate(record, now) == [Refresh(record, now) EXCEPT !.Status = "active"]

\* Mutant: Unblock starts from a new record, as Bootstrap does.
UnblockAfresh(record, now) ==
    [activeLease(now) EXCEPT !.LastUnsealIP = record.LastUnsealIP,
                             !.NodeIP = record.NodeIP]

UnblockRecord(record, now) ==
    [Refresh(record, now) EXCEPT !.Status = "active", !.BlockedAt = Zero]

BlockRecord(record, now) ==
    [record EXCEPT !.Status = "blocked", !.BlockedAt = now]

\* Mutant: > became >=.
OverdueAtTimeout(record, now) ==
    /\ record.Status = "active"
    /\ ~record.Maintenance
    /\ record.LastHeartbeatAt # Zero
    /\ now - record.LastHeartbeatAt >= HeartbeatTimeout

\* Mutant: the timeout counts from the end of the lease.
OverdueAfterLease(record, now) ==
    /\ record.Status = "active"
    /\ ~record.Maintenance
    /\ record.LastHeartbeatAt # Zero
    /\ now - record.LeaseUntil > HeartbeatTimeout

\* The dead-man's switch blocks a record of which this holds.
Overdue(record, now) ==
    /\ record.Status = "active"
    /\ ~record.Maintenance
    /\ record.LastHeartbeatAt # Zero
    /\ now - record.LastHeartbeatAt > HeartbeatTimeout

-----------------------------------------------------------------------------
(* The map, its file and its metrics *)

Registered(m) == {n \in Nodes : m[n] # Absent}

\* Mutant: the gauges look at the lease and not at the status.
RefusedByTime(m, now) == {n \in Registered(m) : isExpired(m[n], now)}

Refused(m, now) ==
    {n \in Registered(m) :
        \/ m[n].Status \in {"blocked", "expired"}
        \/ isExpired(m[n], now)}

updateLeaseMetricsLocked(m, now) ==
    gauges' = [active  |-> Cardinality(Registered(m) \ Refused(m, now)),
               expired |-> Cardinality(Refused(m, now))]

\* The outcomes of persistLocked.  A failure (mkdir, encode, write, rename)
\* leaves the file as it was: only a complete write is renamed over it.
PersistOutcomes == IF DiskFaults THEN BOOLEAN ELSE {TRUE}

\* Mutant: the error of persistLocked is dropped by every method.
PersistErrDropped(ok) == "none"

PersistErr(ok) == IF ok THEN "none" ELSE "internal"

persistLocked(m, ok) == file' = IF ok THEN m ELSE file

\* What all methods but SetMaintenance do with the map they computed.  The
\* memory keeps the change when the file could not be written.
Save(m, now, ok) ==
    /\ nodes' = m
    /\ updateLeaseMetricsLocked(m, now)
    /\ persistLocked(m, ok)

-----------------------------------------------------------------------------
(* Methods *)

\* Mutant: the address is not taken away from the node that had it.
ReleaseNothing(m, n, ip) == m

\* The peer address ip now belongs to node n alone.
ReleaseIP(m, n, ip) ==
    [k \in Nodes |->
        IF k # n /\ m[k] # Absent /\ m[k].LastUnsealIP = ip
        THEN [m[k] EXCEPT !.LastUnsealIP = NoIP]
        ELSE m[k]]

Bootstrap(n, ip, now, ok, err) ==
    /\ Save([ReleaseIP(nodes, n, ip) EXCEPT
                 ![n] = [activeLease(now) EXCEPT !.LastUnsealIP = ip,
                                                 !.NodeIP = ip]],
            now, ok)
    /\ err = PersistErr(ok)

\* The record n that recordByIPLocked finds.
recordByIPLocked(m, n, ip) == m[n] # Absent /\ m[n].LastUnsealIP = ip

\* Set the status "expired", save, and fail.
Expire(n, now, ok, err) ==
    /\ Save([nodes EXCEPT ![n].Status = "expired"], now, ok)
    /\ err = IF ok THEN "expired" ELSE "internal"

HeartbeatByIP(n, ip, now, ok, err) ==
    /\ recordByIPLocked(nodes, n, ip)
    /\ \/ /\ nodes[n].Status = "blocked"
          /\ err = "blocked"
          /\ UNCHANGED storeVars
       \/ /\ nodes[n].Status # "blocked"
          /\ LeaseOver(nodes[n], now)
          /\ Expire(n, now, ok, err)
       \/ /\ nodes[n].Status # "blocked"
          /\ ~LeaseOver(nodes[n], now)
          /\ Save([nodes EXCEPT ![n] = [Refresh(@, now) EXCEPT !.Status = "active"]],
                  now, ok)
          /\ err = PersistErr(ok)

HeartbeatByUnknownIP(ip, err) ==
    /\ ~ \E n \in Nodes : recordByIPLocked(nodes, n, ip)
    /\ err = "ipNotFound"
    /\ UNCHANGED storeVars

\* Mutant: the status "blocked" is not looked at.
ValidateTimeOnly(n, now, ok, err) ==
    \/ /\ nodes[n] = Absent
       /\ err = "notFound"
       /\ UNCHANGED storeVars
    \/ /\ nodes[n] # Absent
       /\ LeaseOver(nodes[n], now)
       /\ Expire(n, now, ok, err)
    \/ /\ nodes[n] # Absent
       /\ ~LeaseOver(nodes[n], now)
       /\ err = "none"
       /\ UNCHANGED storeVars

Validate(n, now, ok, err) ==
    \/ /\ nodes[n] = Absent
       /\ err = "notFound"
       /\ UNCHANGED storeVars
    \/ /\ nodes[n] # Absent
       /\ nodes[n].Status = "blocked"
       /\ err = "blocked"
       /\ UNCHANGED storeVars
    \/ /\ nodes[n] # Absent
       /\ nodes[n].Status # "blocked"
       /\ LeaseOver(nodes[n], now)
       /\ Expire(n, now, ok, err)
    \/ /\ nodes[n] # Absent
       /\ nodes[n].Status # "blocked"
       /\ ~LeaseOver(nodes[n], now)
       /\ err = "none"
       /\ UNCHANGED storeVars

\* An expired lease is refreshed like an active one, a blocked one is not.
HeartbeatByUUID(n, ip, now, ok, err) ==
    \/ /\ nodes[n] = Absent
       /\ Save([nodes EXCEPT ![n] = [activeLease(now) EXCEPT !.NodeIP = ip]], now, ok)
       /\ err = PersistErr(ok)
    \/ /\ nodes[n] # Absent
       /\ nodes[n].Status = "blocked"
       /\ err = "blocked"
       /\ UNCHANGED storeVars
    \/ /\ nodes[n] # Absent
       /\ nodes[n].Status # "blocked"
       /\ Save([nodes EXCEPT ![n] = [Refresh(@, now) EXCEPT !.NodeIP = ip,
                                                            !.Status = "active"]],
               now, ok)
       /\ err = PersistErr(ok)

Unblock(n, now, ok, err) ==
    \/ /\ nodes[n] = Absent
       /\ err = "notFound"
       /\ UNCHANGED storeVars
    \/ /\ nodes[n] # Absent
       /\ Save([nodes EXCEPT ![n] = UnblockRecord(@, now)], now, ok)
       /\ err = PersistErr(ok)

\* The one method that writes the map without recomputing the gauges.
SetMaintenance(n, enabled, now, ok, err) ==
    \/ /\ nodes[n] = Absent
       /\ err = "notFound"
       /\ UNCHANGED storeVars
    \/ /\ nodes[n] # Absent
       /\ nodes' = [nodes EXCEPT ![n] =
                       [(IF enabled THEN @ ELSE Refresh(@, now))
                            EXCEPT !.Maintenance = enabled]]
       /\ persistLocked(nodes', ok)
       /\ err = PersistErr(ok)
       /\ UNCHANGED gauges

\* The error of persistLocked is dropped here.
BlockExpiredNodes(now, ok) ==
    LET overdue == {n \in Registered(nodes) : Overdue(nodes[n], now)} IN
    \/ /\ overdue = {}
       /\ UNCHANGED storeVars
    \/ /\ overdue # {}
       /\ Save([n \in Nodes |-> IF n \in overdue THEN BlockRecord(nodes[n], now)
                                                 ELSE nodes[n]],
               now, ok)

\* NewFileLeaseStore and load: a new process reads the file.  The JSON keeps
\* every field of LeaseRecord (omitempty and omitzero only drop zero values,
\* times keep their nanoseconds).  A missing file is the empty map; a file
\* that cannot be read or decoded stops the new process before it serves.
Load(now) ==
    /\ nodes' = file
    /\ updateLeaseMetricsLocked(file, now)
    /\ UNCHANGED file

-----------------------------------------------------------------------------
(* The store on its own: any method, with any arguments, at any time *)

NoLeases == [n \in Nodes |-> Absent]

StoreInit ==
    /\ nodes = NoLeases
    /\ file = NoLeases
    /\ gauges = [active |-> 0, expired |-> 0]

StoreNext ==
    \E now \in Times, ok \in PersistOutcomes :
        \/ \E n \in Nodes, ip \in IPs, err \in Errors :
               \/ Bootstrap(n, ip, now, ok, err)
               \/ HeartbeatByIP(n, ip, now, ok, err)
               \/ HeartbeatByUUID(n, ip, now, ok, err)
        \/ \E ip \in IPs, err \in Errors : HeartbeatByUnknownIP(ip, err)
        \/ \E n \in Nodes, err \in Errors :
               \/ Validate(n, now, ok, err)
               \/ Unblock(n, now, ok, err)
               \/ \E enabled \in BOOLEAN : SetMaintenance(n, enabled, now, ok, err)
        \/ BlockExpiredNodes(now, ok)
        \/ Load(now)

StoreSpec == StoreInit /\ [][StoreNext]_storeVars

-----------------------------------------------------------------------------
(* What the store promises *)

StoreTypeOK ==
    /\ nodes \in LeaseMap
    /\ file \in LeaseMap
    /\ gauges \in [active : Nat, expired : Nat]

IPsUnique(m) ==
    \A n, k \in Registered(m) :
        n # k /\ m[n].LastUnsealIP = m[k].LastUnsealIP => m[n].LastUnsealIP = NoIP

\* No two records claim the same LastUnsealIP, in memory or in the file, so
\* the loop of recordByIPLocked over a Go map (whose order is random) has at
\* most one record to find and a gRPC heartbeat refreshes the right lease.
UniqueUnsealIP == IPsUnique(nodes) /\ IPsUnique(file)

LeasesCoupled(m) ==
    \A n \in Registered(m) :
        /\ m[n].LastHeartbeatAt \in Times
        /\ m[n].LeaseUntil = m[n].LastHeartbeatAt + LeaseDuration

\* The two clocks of a record never come apart: the lease that Validate
\* tests ends LeaseDuration after the heartbeat that the dead-man's switch
\* tests, whichever of the six methods wrote the record last.
LeaseFollowsHeartbeat == LeasesCoupled(nodes) /\ LeasesCoupled(file)

BlocksDated(m) ==
    \A n \in Registered(m) : m[n].Status = "blocked" <=> m[n].BlockedAt # Zero

\* The admin API shows blocked_at for the blocked nodes and for no others:
\* no way out of "blocked" leaves the date behind.
BlockIsDated == BlocksDated(nodes) /\ BlocksDated(file)

\* The two gauges count every lease once, and no node that Validate refuses
\* by its status is counted as active, although SetMaintenance skips the
\* recount.
GaugesCountEveryLease ==
    /\ gauges.active + gauges.expired = Cardinality(Registered(nodes))
    /\ gauges.expired >=
           Cardinality({n \in Registered(nodes) : nodes[n].Status # "active"})

=============================================================================
