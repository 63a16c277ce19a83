-------------------------- MODULE LeaseStoreProofs --------------------------
(***************************************************************************)
(* Proofs about the lease store, for every set of nodes and addresses and  *)
(* every duration.                                                         *)
(*                                                                         *)
(* The invariants of the store speak of the map in memory and of the file  *)
(* alike, so they are proved as one predicate MapOK of a map: every method *)
(* puts into memory the old map, the file or a MapOK map, and the file     *)
(* only ever becomes what the memory has just become.                      *)
(***************************************************************************)
EXTENDS LeaseStore, FiniteSetTheorems, TLAPS

RecordOK(r) ==
    /\ r \in LeaseRecord
    /\ r.LastHeartbeatAt \in Times
    /\ r.LeaseUntil = r.LastHeartbeatAt + LeaseDuration
    /\ r.Status = "blocked" <=> r.BlockedAt # Zero

MapOK(m) ==
    /\ m \in LeaseMap
    /\ \A n \in Nodes : m[n] # Absent => RecordOK(m[n])
    /\ \A n, k \in Nodes :
           n # k /\ m[n] # Absent /\ m[k] # Absent
           /\ m[n].LastUnsealIP = m[k].LastUnsealIP => m[n].LastUnsealIP = NoIP

StoreInv ==
    /\ MapOK(nodes)
    /\ MapOK(file)
    /\ gauges \in [active : Nat, expired : Nat]

-----------------------------------------------------------------------------
(* Records *)

\* The lease that Bootstrap and HeartbeatByUUID start from is well formed and
\* takes no address.
LEMMA ActiveLeaseOK ==
    ASSUME NEW now \in Times
    PROVE  RecordOK(activeLease(now)) /\ activeLease(now).LastUnsealIP = NoIP
BY StoreAssumption DEF RecordOK, LeaseRecord, activeLease, Times, Zero, LeaseStatus

\* Instants are numbers other than Zero, and so is the end of a lease.
LEMMA TimesOK ==
    ASSUME NEW now \in Times
    PROVE  now \in Nat /\ now # Zero /\ now + LeaseDuration \in Nat
BY StoreAssumption DEF Times, Zero

\* Refresh moves both clocks of a record and nothing else.
LEMMA RefreshOK ==
    ASSUME NEW r, RecordOK(r), NEW now \in Times
    PROVE  /\ RecordOK(Refresh(r, now))
           /\ Refresh(r, now).LastUnsealIP = r.LastUnsealIP
           /\ Refresh(r, now).Status = r.Status
           /\ Refresh(r, now).BlockedAt = r.BlockedAt
<1> DEFINE q == Refresh(r, now)
<1>1. q \in LeaseRecord
    BY TimesOK DEF RecordOK, LeaseRecord, Refresh
<1>2. /\ q.LastHeartbeatAt = now
      /\ q.LeaseUntil = now + LeaseDuration
      /\ q.LastUnsealIP = r.LastUnsealIP
      /\ q.Status = r.Status
      /\ q.BlockedAt = r.BlockedAt
    BY DEF RecordOK, LeaseRecord, Refresh
<1> QED BY <1>1, <1>2 DEF RecordOK

\* Unblock leaves an undated active record.
LEMMA UnblockOK ==
    ASSUME NEW r, RecordOK(r), NEW now \in Times
    PROVE  /\ RecordOK(UnblockRecord(r, now))
           /\ UnblockRecord(r, now).LastUnsealIP = r.LastUnsealIP
<1> DEFINE f == Refresh(r, now)
           q == UnblockRecord(r, now)
<1>1. RecordOK(f) /\ f.LastUnsealIP = r.LastUnsealIP
    BY RefreshOK
<1> HIDE DEF f
<1>2. q = [f EXCEPT !.Status = "active", !.BlockedAt = Zero]
    BY DEF UnblockRecord, f
<1> HIDE DEF q
<1>3. q \in LeaseRecord
    BY <1>1, <1>2 DEF RecordOK, LeaseRecord, LeaseStatus, Zero
<1>4. /\ q.LastHeartbeatAt = f.LastHeartbeatAt
      /\ q.LeaseUntil = f.LeaseUntil
      /\ q.LastUnsealIP = f.LastUnsealIP
      /\ q.Status = "active"
      /\ q.BlockedAt = Zero
    BY <1>1, <1>2 DEF RecordOK, LeaseRecord
<1>5. RecordOK(q) /\ q.LastUnsealIP = r.LastUnsealIP
    BY <1>1, <1>3, <1>4 DEF RecordOK
<1> QED BY <1>5 DEF q

\* The dead-man's switch dates the record that it blocks.
LEMMA BlockOK ==
    ASSUME NEW r, RecordOK(r), NEW now \in Times
    PROVE  /\ RecordOK(BlockRecord(r, now))
           /\ BlockRecord(r, now).LastUnsealIP = r.LastUnsealIP
<1> DEFINE q == BlockRecord(r, now)
<1>1. q \in LeaseRecord
    BY TimesOK DEF RecordOK, LeaseRecord, BlockRecord, LeaseStatus
<1>2. /\ q.LastHeartbeatAt = r.LastHeartbeatAt
      /\ q.LeaseUntil = r.LeaseUntil
      /\ q.LastUnsealIP = r.LastUnsealIP
      /\ q.Status = "blocked"
      /\ q.BlockedAt = now
    BY DEF RecordOK, LeaseRecord, BlockRecord
<1> QED BY <1>1, <1>2, TimesOK DEF RecordOK

\* A status other than "blocked" may replace one other than "blocked".
LEMMA StatusOK ==
    ASSUME NEW r, RecordOK(r), r.Status # "blocked", NEW s \in {"active", "expired"}
    PROVE  /\ RecordOK([r EXCEPT !.Status = s])
           /\ [r EXCEPT !.Status = s].LastUnsealIP = r.LastUnsealIP
BY DEF RecordOK, LeaseRecord, LeaseStatus

-----------------------------------------------------------------------------
(* Maps *)

\* Replacing the record of one node keeps the map well formed when the new
\* record claims no address, or the address it had.
LEMMA PutOK ==
    ASSUME NEW m, MapOK(m), NEW n \in Nodes, NEW r, RecordOK(r),
           \/ r.LastUnsealIP = NoIP
           \/ m[n] # Absent /\ r.LastUnsealIP = m[n].LastUnsealIP
    PROVE  MapOK([m EXCEPT ![n] = r])
<1> DEFINE p == [m EXCEPT ![n] = r]
<1>1. p \in LeaseMap /\ \A k \in Nodes : p[k] = IF k = n THEN r ELSE m[k]
    BY DEF MapOK, LeaseMap, RecordOK
<1>2. \A k \in Nodes : p[k] # Absent => RecordOK(p[k])
    BY <1>1 DEF MapOK
<1>3. ASSUME NEW j \in Nodes, NEW k \in Nodes, j # k, p[j] # Absent, p[k] # Absent,
             p[j].LastUnsealIP = p[k].LastUnsealIP
      PROVE  p[j].LastUnsealIP = NoIP
    BY <1>1, <1>3 DEF MapOK
<1> QED BY <1>1, <1>2, <1>3 DEF MapOK

\* Bootstrap gives the address to one node and takes it from all others.
LEMMA BootstrapMapOK ==
    ASSUME NEW m, MapOK(m), NEW n \in Nodes, NEW ip \in IPs, NEW now \in Times
    PROVE  MapOK([ReleaseIP(m, n, ip) EXCEPT
                      ![n] = [activeLease(now) EXCEPT !.LastUnsealIP = ip,
                                                      !.NodeIP = ip]])
<1> DEFINE r == [activeLease(now) EXCEPT !.LastUnsealIP = ip, !.NodeIP = ip]
           q == ReleaseIP(m, n, ip)
           p == [q EXCEPT ![n] = r]
<1>1. RecordOK(r) /\ r.LastUnsealIP = ip
    BY ActiveLeaseOK, StoreAssumption
       DEF RecordOK, LeaseRecord, activeLease, Times, Zero, LeaseStatus
<1>2. ASSUME NEW k \in Nodes, k # n
      PROVE  /\ p[k] = q[k]
             /\ q[k] \in LeaseRecord \cup {Absent}
             /\ q[k] # Absent => /\ m[k] # Absent
                                 /\ RecordOK(q[k])
                                 /\ q[k].LastUnsealIP # ip
                                 /\ q[k].LastUnsealIP \in {NoIP, m[k].LastUnsealIP}
    <2>1. p[k] = q[k]
        BY <1>2 DEF ReleaseIP
    <2>2. CASE m[k] # Absent /\ m[k].LastUnsealIP = ip
        <3>1. q[k] = [m[k] EXCEPT !.LastUnsealIP = NoIP]
            BY <1>2, <2>2 DEF ReleaseIP
        <3>2. RecordOK(m[k])
            BY <2>2 DEF MapOK
        <3>3. RecordOK(q[k]) /\ q[k].LastUnsealIP = NoIP
            BY <3>1, <3>2 DEF RecordOK, LeaseRecord
        <3> QED BY <2>1, <2>2, <3>3, StoreAssumption DEF RecordOK
    <2>3. CASE ~(m[k] # Absent /\ m[k].LastUnsealIP = ip)
        <3>1. q[k] = m[k]
            BY <1>2, <2>3 DEF ReleaseIP
        <3> QED BY <2>1, <2>3, <3>1 DEF MapOK, LeaseMap
    <2> QED BY <2>2, <2>3
<1>3. p[n] = r
    BY DEF ReleaseIP
<1>4. p \in LeaseMap
    BY <1>1, <1>2, <1>3 DEF LeaseMap, ReleaseIP, RecordOK
<1>5. \A k \in Nodes : p[k] # Absent => RecordOK(p[k])
    BY <1>1, <1>2, <1>3
<1>6. ASSUME NEW j \in Nodes, NEW k \in Nodes, j # k, p[j] # Absent, p[k] # Absent,
             p[j].LastUnsealIP = p[k].LastUnsealIP
      PROVE  p[j].LastUnsealIP = NoIP
    <2>1. j # n /\ k # n
        BY <1>1, <1>2, <1>3, <1>6
    <2>2. /\ q[j] # Absent /\ q[k] # Absent
          /\ q[j].LastUnsealIP = q[k].LastUnsealIP
        BY <1>2, <1>6, <2>1
    <2>3. /\ m[j] # Absent /\ m[k] # Absent
          /\ q[j].LastUnsealIP \in {NoIP, m[j].LastUnsealIP}
          /\ q[k].LastUnsealIP \in {NoIP, m[k].LastUnsealIP}
        BY <1>2, <2>1, <2>2
    <2>4. m[j].LastUnsealIP = m[k].LastUnsealIP => m[j].LastUnsealIP = NoIP
        BY <1>6, <2>3 DEF MapOK
    <2>5. q[j].LastUnsealIP = NoIP
        BY <2>2, <2>3, <2>4
    <2> QED BY <1>2, <2>1, <2>5
<1> QED BY <1>4, <1>5, <1>6 DEF MapOK

\* BlockExpiredNodes may block any set of nodes.
LEMMA BlockMapOK ==
    ASSUME NEW m, MapOK(m), NEW now \in Times, NEW S \in SUBSET Registered(m)
    PROVE  MapOK([n \in Nodes |-> IF n \in S THEN BlockRecord(m[n], now) ELSE m[n]])
<1> DEFINE p == [n \in Nodes |-> IF n \in S THEN BlockRecord(m[n], now) ELSE m[n]]
<1>1. ASSUME NEW n \in Nodes
      PROVE  /\ p[n] \in LeaseRecord \cup {Absent}
             /\ p[n] # Absent => /\ m[n] # Absent
                                 /\ RecordOK(p[n])
                                 /\ p[n].LastUnsealIP = m[n].LastUnsealIP
    <2>1. CASE n \in S
        BY <2>1, BlockOK DEF MapOK, Registered, RecordOK
    <2>2. CASE n \notin S
        BY <2>2 DEF MapOK, LeaseMap
    <2> QED BY <2>1, <2>2
<1>2. p \in LeaseMap
    BY <1>1 DEF LeaseMap
<1> QED BY <1>1, <1>2 DEF MapOK

-----------------------------------------------------------------------------
(* The state *)

\* The gauges count subsets of a finite set.
LEMMA GaugesOK ==
    ASSUME NEW m, NEW now, updateLeaseMetricsLocked(m, now)
    PROVE  gauges' \in [active : Nat, expired : Nat]
<1>1. ASSUME NEW S, S \subseteq Nodes
      PROVE  Cardinality(S) \in Nat
    BY <1>1, StoreAssumption, FS_Subset, FS_CardinalityType
<1>2. /\ Cardinality(Registered(m) \ Refused(m, now)) \in Nat
      /\ Cardinality(Refused(m, now)) \in Nat
    BY <1>1 DEF Registered, Refused
<1> QED BY <1>2 DEF updateLeaseMetricsLocked

\* Saving a well-formed map keeps the invariant, whether the write succeeds.
LEMMA SaveOK ==
    ASSUME StoreInv, NEW m, MapOK(m), NEW now, NEW ok, Save(m, now, ok)
    PROVE  StoreInv'
<1>1. nodes' = m /\ file' \in {m, file}
    BY DEF Save, persistLocked
<1>2. gauges' \in [active : Nat, expired : Nat]
    BY GaugesOK DEF Save
<1> QED BY <1>1, <1>2 DEF StoreInv, MapOK, RecordOK

-----------------------------------------------------------------------------
(* Every method keeps the invariant *)

\* Bootstrap (Unseal).
LEMMA BootstrapStep ==
    ASSUME StoreInv, NEW n \in Nodes, NEW ip \in IPs, NEW now \in Times, NEW ok, NEW err,
           Bootstrap(n, ip, now, ok, err)
    PROVE  StoreInv'
BY BootstrapMapOK, SaveOK DEF Bootstrap, StoreInv

\* The refusal of an expired lease, shared by Validate and HeartbeatByIP.
LEMMA ExpireStep ==
    ASSUME StoreInv, NEW n \in Nodes, nodes[n] # Absent, nodes[n].Status # "blocked",
           NEW now \in Times, NEW ok, NEW err, Expire(n, now, ok, err)
    PROVE  StoreInv'
<1> DEFINE r == [nodes[n] EXCEPT !.Status = "expired"]
<1>1. RecordOK(r) /\ r.LastUnsealIP = nodes[n].LastUnsealIP
    BY StatusOK DEF StoreInv, MapOK
<1>2. MapOK([nodes EXCEPT ![n] = r])
    BY <1>1, PutOK DEF StoreInv
<1> QED BY <1>2, SaveOK DEF Expire

\* Writing a record that keeps its address, or has none.
LEMMA PutStep ==
    ASSUME StoreInv, NEW n \in Nodes, NEW now \in Times, NEW ok, NEW r, RecordOK(r),
           \/ r.LastUnsealIP = NoIP
           \/ nodes[n] # Absent /\ r.LastUnsealIP = nodes[n].LastUnsealIP,
           Save([nodes EXCEPT ![n] = r], now, ok)
    PROVE  StoreInv'
BY PutOK, SaveOK DEF StoreInv

\* HeartbeatByIP (gRPC heartbeat) of a registered peer.
LEMMA HeartbeatByIPStep ==
    ASSUME StoreInv, NEW n \in Nodes, NEW ip, NEW now \in Times, NEW ok, NEW err,
           HeartbeatByIP(n, ip, now, ok, err)
    PROVE  StoreInv'
<1>1. nodes[n] # Absent /\ RecordOK(nodes[n])
    BY DEF HeartbeatByIP, recordByIPLocked, StoreInv, MapOK
<1>2. CASE UNCHANGED storeVars
    BY <1>2 DEF StoreInv, MapOK, RecordOK, storeVars
<1>3. CASE nodes[n].Status # "blocked" /\ Expire(n, now, ok, err)
    BY <1>1, <1>3, ExpireStep
<1>4. CASE /\ nodes[n].Status # "blocked"
           /\ Save([nodes EXCEPT ![n] =
                       [Refresh(nodes[n], now) EXCEPT !.Status = "active"]], now, ok)
    <2> DEFINE f == Refresh(nodes[n], now)
               r == [f EXCEPT !.Status = "active"]
    <2>1. /\ RecordOK(f)
          /\ f.LastUnsealIP = nodes[n].LastUnsealIP
          /\ f.Status # "blocked"
        BY <1>1, <1>4, RefreshOK
    <2>2. RecordOK(r) /\ r.LastUnsealIP = nodes[n].LastUnsealIP
        BY <2>1, StatusOK
    <2> QED BY <1>1, <1>4, <2>2, PutStep
<1> QED BY <1>2, <1>3, <1>4 DEF HeartbeatByIP

\* Validate (Unseal).
LEMMA ValidateStep ==
    ASSUME StoreInv, NEW n \in Nodes, NEW now \in Times, NEW ok, NEW err,
           Validate(n, now, ok, err)
    PROVE  StoreInv'
<1>1. CASE UNCHANGED storeVars
    BY <1>1 DEF StoreInv, MapOK, RecordOK, storeVars
<1>2. CASE /\ nodes[n] # Absent
           /\ nodes[n].Status # "blocked"
           /\ Expire(n, now, ok, err)
    BY <1>2, ExpireStep
<1> QED BY <1>1, <1>2 DEF Validate

\* HeartbeatByUUID (HTTP heartbeat), which also registers a node.
LEMMA HeartbeatByUUIDStep ==
    ASSUME StoreInv, NEW n \in Nodes, NEW ip \in IPs, NEW now \in Times, NEW ok, NEW err,
           HeartbeatByUUID(n, ip, now, ok, err)
    PROVE  StoreInv'
<1>1. CASE Save([nodes EXCEPT ![n] = [activeLease(now) EXCEPT !.NodeIP = ip]], now, ok)
    <2> DEFINE r == [activeLease(now) EXCEPT !.NodeIP = ip]
    <2>1. RecordOK(r) /\ r.LastUnsealIP = NoIP
        BY ActiveLeaseOK DEF RecordOK, LeaseRecord
    <2> QED BY <1>1, <2>1, PutStep
<1>2. CASE UNCHANGED storeVars
    BY <1>2 DEF StoreInv, MapOK, RecordOK, storeVars
<1>3. CASE /\ nodes[n] # Absent
           /\ nodes[n].Status # "blocked"
           /\ Save([nodes EXCEPT ![n] =
                       [Refresh(nodes[n], now) EXCEPT !.NodeIP = ip, !.Status = "active"]],
                   now, ok)
    <2> DEFINE f == Refresh(nodes[n], now)
               g == [f EXCEPT !.NodeIP = ip]
               r == [f EXCEPT !.NodeIP = ip, !.Status = "active"]
    <2>1. RecordOK(nodes[n])
        BY <1>3 DEF StoreInv, MapOK
    <2>2. /\ RecordOK(f)
          /\ f.LastUnsealIP = nodes[n].LastUnsealIP
          /\ f.Status # "blocked"
        BY <1>3, <2>1, RefreshOK
    <2> HIDE DEF f
    <2>3. RecordOK(g) /\ g.LastUnsealIP = f.LastUnsealIP /\ g.Status # "blocked"
        BY <2>2 DEF RecordOK, LeaseRecord
    <2>4. r = [g EXCEPT !.Status = "active"]
        BY <2>2 DEF RecordOK, LeaseRecord
    <2> HIDE DEF g, r
    <2>5. RecordOK(r) /\ r.LastUnsealIP = nodes[n].LastUnsealIP
        BY <2>2, <2>3, <2>4, StatusOK
    <2>6. Save([nodes EXCEPT ![n] = r], now, ok)
        BY <1>3 DEF r, f
    <2> QED BY <1>3, <2>5, <2>6, PutStep
<1> QED BY <1>1, <1>2, <1>3 DEF HeartbeatByUUID

\* Unblock (admin API).
LEMMA UnblockStep ==
    ASSUME StoreInv, NEW n \in Nodes, NEW now \in Times, NEW ok, NEW err,
           Unblock(n, now, ok, err)
    PROVE  StoreInv'
<1>1. CASE UNCHANGED storeVars
    BY <1>1 DEF StoreInv, MapOK, RecordOK, storeVars
<1>2. CASE nodes[n] # Absent /\ Save([nodes EXCEPT ![n] = UnblockRecord(nodes[n], now)], now, ok)
    <2>1. RecordOK(nodes[n])
        BY <1>2 DEF StoreInv, MapOK
    <2> QED BY <1>2, <2>1, UnblockOK, PutStep
<1> QED BY <1>1, <1>2 DEF Unblock

\* SetMaintenance (admin API), which leaves the gauges alone.
LEMMA SetMaintenanceStep ==
    ASSUME StoreInv, NEW n \in Nodes, NEW enabled \in BOOLEAN, NEW now \in Times,
           NEW ok, NEW err, SetMaintenance(n, enabled, now, ok, err)
    PROVE  StoreInv'
<1>1. CASE UNCHANGED storeVars
    BY <1>1 DEF StoreInv, MapOK, RecordOK, storeVars
<1>2. CASE nodes[n] # Absent /\ ~ UNCHANGED storeVars
    <2> DEFINE f == IF enabled THEN nodes[n] ELSE Refresh(nodes[n], now)
               r == [f EXCEPT !.Maintenance = enabled]
    <2>1. RecordOK(nodes[n])
        BY <1>2 DEF StoreInv, MapOK
    <2>2. RecordOK(f) /\ f.LastUnsealIP = nodes[n].LastUnsealIP
        BY <2>1, RefreshOK
    <2>3. /\ nodes' = [nodes EXCEPT ![n] = r]
          /\ file' \in {nodes', file}
          /\ gauges' = gauges
        BY <1>2 DEF SetMaintenance, persistLocked
    <2> HIDE DEF f
    <2>4. RecordOK(r) /\ r.LastUnsealIP = nodes[n].LastUnsealIP
        BY <2>2 DEF RecordOK, LeaseRecord
    <2> HIDE DEF r
    <2>5. MapOK([nodes EXCEPT ![n] = r])
        BY <1>2, <2>4, PutOK DEF StoreInv
    <2>6. MapOK(nodes')
        BY <2>3, <2>5
    <2>7. MapOK(file')
        BY <2>3, <2>6 DEF StoreInv
    <2> QED BY <2>3, <2>6, <2>7 DEF StoreInv, MapOK, RecordOK
<1> QED BY <1>1, <1>2 DEF SetMaintenance

\* BlockExpiredNodes (dead-man's switch).
LEMMA BlockExpiredNodesStep ==
    ASSUME StoreInv, NEW now \in Times, NEW ok, BlockExpiredNodes(now, ok)
    PROVE  StoreInv'
<1> DEFINE overdue == {n \in Registered(nodes) : Overdue(nodes[n], now)}
<1>1. CASE UNCHANGED storeVars
    BY <1>1 DEF StoreInv, MapOK, RecordOK, storeVars
<1>2. CASE Save([n \in Nodes |-> IF n \in overdue THEN BlockRecord(nodes[n], now)
                                                  ELSE nodes[n]], now, ok)
    <2> HIDE DEF overdue
    <2>1. overdue \in SUBSET Registered(nodes)
        BY DEF overdue
    <2>2. MapOK([n \in Nodes |-> IF n \in overdue THEN BlockRecord(nodes[n], now)
                                                  ELSE nodes[n]])
        BY <2>1, BlockMapOK DEF StoreInv
    <2> QED BY <1>2, <2>2, SaveOK
<1> QED BY <1>1, <1>2 DEF BlockExpiredNodes

\* Load (restart).
LEMMA LoadStep ==
    ASSUME StoreInv, NEW now, Load(now)
    PROVE  StoreInv'
<1>1. gauges' \in [active : Nat, expired : Nat]
    BY GaugesOK DEF Load
<1> QED BY <1>1 DEF Load, StoreInv, MapOK, RecordOK

\* One step of the store.
LEMMA StoreStep ==
    ASSUME StoreInv, [StoreNext]_storeVars
    PROVE  StoreInv'
<1>1. CASE UNCHANGED storeVars
    BY <1>1 DEF StoreInv, MapOK, RecordOK, storeVars
<1>2. CASE StoreNext
    <2>1. PICK now \in Times, ok \in PersistOutcomes :
              \/ \E n \in Nodes, ip \in IPs, err \in Errors :
                     \/ Bootstrap(n, ip, now, ok, err)
                     \/ HeartbeatByIP(n, ip, now, ok, err)
                     \/ HeartbeatByUUID(n, ip, now, ok, err)
              \/ \E ip \in IPs, err \in Errors : HeartbeatByUnknownIP(ip, err)
              \/ \E n \in Nodes, err \in Errors :
                     \/ Validate(n, now, ok, err)
                     \/ Unblock(n, now, ok, err)
                     \/ \E enabled \in BOOLEAN : SetMaintenance(n, enabled, now, ok, err)
              \/ BlockExpiredNodes(now, ok)
              \/ Load(now)
        BY <1>2 DEF StoreNext
    <2>2. ASSUME NEW n \in Nodes, NEW ip \in IPs, NEW err \in Errors,
                 \/ Bootstrap(n, ip, now, ok, err)
                 \/ HeartbeatByIP(n, ip, now, ok, err)
                 \/ HeartbeatByUUID(n, ip, now, ok, err)
          PROVE  StoreInv'
        BY <2>2, BootstrapStep, HeartbeatByIPStep, HeartbeatByUUIDStep
    <2>3. ASSUME NEW ip \in IPs, NEW err \in Errors, HeartbeatByUnknownIP(ip, err)
          PROVE  StoreInv'
        BY <1>1, <2>3 DEF HeartbeatByUnknownIP
    <2>4. ASSUME NEW n \in Nodes, NEW err \in Errors,
                 \/ Validate(n, now, ok, err)
                 \/ Unblock(n, now, ok, err)
                 \/ \E enabled \in BOOLEAN : SetMaintenance(n, enabled, now, ok, err)
          PROVE  StoreInv'
        BY <2>4, ValidateStep, UnblockStep, SetMaintenanceStep
    <2> QED BY <2>1, <2>2, <2>3, <2>4, BlockExpiredNodesStep, LoadStep
<1> QED BY <1>1, <1>2

\* The empty store.
LEMMA StoreInitOK == StoreInit => StoreInv
BY StoreAssumption DEF StoreInit, StoreInv, NoLeases, MapOK, LeaseMap

\* What the invariant is for.
LEMMA StoreInvImplies ==
    StoreInv => StoreTypeOK /\ UniqueUnsealIP /\ LeaseFollowsHeartbeat /\ BlockIsDated
BY DEF StoreInv, MapOK, RecordOK, StoreTypeOK, UniqueUnsealIP, IPsUnique, Registered,
       LeaseFollowsHeartbeat, LeasesCoupled, BlockIsDated, BlocksDated

-----------------------------------------------------------------------------
(* The gauges *)

Unusable(m) == {n \in Registered(m) : m[n].Status # "active"}

\* updateLeaseMetricsLocked splits the registered nodes in two, and what it
\* counts as expired includes every node whose status is not "active".
LEMMA Recount ==
    ASSUME NEW m, MapOK(m), NEW now
    PROVE  /\ Cardinality(Registered(m) \ Refused(m, now)) + Cardinality(Refused(m, now))
                  = Cardinality(Registered(m))
           /\ Cardinality(Refused(m, now)) >= Cardinality(Unusable(m))
<1> DEFINE R == Registered(m)
           F == Refused(m, now)
<1>1. IsFiniteSet(R)
    BY StoreAssumption, FS_Subset DEF Registered
<1>2. F \in SUBSET R /\ R \cap F = F
    BY DEF Refused
<1>3. IsFiniteSet(F)
    BY <1>1, <1>2, FS_Subset
<1>4. Unusable(m) \in SUBSET F
    BY DEF Unusable, Refused, Registered, MapOK, RecordOK, LeaseRecord, LeaseStatus
<1>5. /\ Cardinality(R) \in Nat
      /\ Cardinality(F) \in Nat
      /\ Cardinality(Unusable(m)) \in Nat
    BY <1>1, <1>3, <1>4, FS_Subset, FS_CardinalityType
<1>6. Cardinality(R \ F) = Cardinality(R) - Cardinality(F)
    BY <1>1, <1>2, FS_Difference
<1>7. Cardinality(Unusable(m)) <= Cardinality(F)
    BY <1>3, <1>4, FS_Subset
<1> HIDE DEF R, F
<1>8. /\ Cardinality(R \ F) + Cardinality(F) = Cardinality(R)
      /\ Cardinality(F) >= Cardinality(Unusable(m))
    BY <1>5, <1>6, <1>7
<1> QED BY <1>8 DEF R, F

\* SetMaintenance changes neither who is registered nor a status.
LEMMA MaintenanceKeepsCounts ==
    ASSUME StoreInv, NEW n \in Nodes, NEW enabled \in BOOLEAN, NEW now \in Times,
           NEW ok, NEW err, SetMaintenance(n, enabled, now, ok, err)
    PROVE  /\ gauges' = gauges
           /\ Registered(nodes') = Registered(nodes)
           /\ Unusable(nodes') = Unusable(nodes)
<1>1. CASE UNCHANGED storeVars
    BY <1>1 DEF storeVars
<1>2. CASE nodes[n] # Absent /\ ~ UNCHANGED storeVars
    <2> DEFINE f == IF enabled THEN nodes[n] ELSE Refresh(nodes[n], now)
               r == [f EXCEPT !.Maintenance = enabled]
    <2>1. RecordOK(nodes[n])
        BY <1>2 DEF StoreInv, MapOK
    <2>2. RecordOK(f) /\ f.Status = nodes[n].Status
        BY <2>1, RefreshOK
    <2>3. nodes' = [nodes EXCEPT ![n] = r] /\ gauges' = gauges
        BY <1>2 DEF SetMaintenance
    <2> HIDE DEF f
    <2>4. r \in LeaseRecord /\ r.Status = nodes[n].Status
        BY <2>2 DEF RecordOK, LeaseRecord
    <2>5. r # Absent
        BY <2>4, StoreAssumption
    <2> HIDE DEF r
    <2>6. \A k \in Nodes : nodes'[k] = IF k = n THEN r ELSE nodes[k]
        BY <2>3 DEF StoreInv, MapOK, LeaseMap
    <2>7. \A k \in Nodes : /\ nodes'[k] # Absent <=> nodes[k] # Absent
                           /\ nodes'[k].Status = nodes[k].Status
        BY <1>2, <2>4, <2>5, <2>6
    <2> QED BY <2>3, <2>7 DEF Registered, Unusable
<1> QED BY <1>1, <1>2 DEF SetMaintenance

\* Every other method that writes the map recounts what it wrote.
LEMMA OthersRecount ==
    ASSUME StoreNext
    PROVE  \/ UNCHANGED storeVars
           \/ \E now \in Times : updateLeaseMetricsLocked(nodes', now)
           \/ \E n \in Nodes, enabled \in BOOLEAN, now \in Times : \E ok, err :
                  SetMaintenance(n, enabled, now, ok, err)
<1>1. ASSUME NEW m, NEW now, NEW ok, Save(m, now, ok)
      PROVE  updateLeaseMetricsLocked(nodes', now)
    BY <1>1 DEF Save
<1>2. PICK now \in Times, ok \in PersistOutcomes :
          \/ \E n \in Nodes, ip \in IPs, err \in Errors :
                 \/ Bootstrap(n, ip, now, ok, err)
                 \/ HeartbeatByIP(n, ip, now, ok, err)
                 \/ HeartbeatByUUID(n, ip, now, ok, err)
          \/ \E ip \in IPs, err \in Errors : HeartbeatByUnknownIP(ip, err)
          \/ \E n \in Nodes, err \in Errors :
                 \/ Validate(n, now, ok, err)
                 \/ Unblock(n, now, ok, err)
                 \/ \E enabled \in BOOLEAN : SetMaintenance(n, enabled, now, ok, err)
          \/ BlockExpiredNodes(now, ok)
          \/ Load(now)
    BY DEF StoreNext
<1>3. ASSUME NEW n \in Nodes, NEW ip \in IPs, NEW err \in Errors,
             \/ Bootstrap(n, ip, now, ok, err)
             \/ HeartbeatByIP(n, ip, now, ok, err)
             \/ HeartbeatByUUID(n, ip, now, ok, err)
             \/ HeartbeatByUnknownIP(ip, err)
      PROVE  UNCHANGED storeVars \/ updateLeaseMetricsLocked(nodes', now)
    <2>1. CASE Bootstrap(n, ip, now, ok, err)
        BY <1>1, <2>1 DEF Bootstrap
    <2>2. CASE HeartbeatByIP(n, ip, now, ok, err)
        BY <1>1, <2>2 DEF HeartbeatByIP, Expire
    <2>3. CASE HeartbeatByUUID(n, ip, now, ok, err)
        BY <1>1, <2>3 DEF HeartbeatByUUID
    <2>4. CASE HeartbeatByUnknownIP(ip, err)
        BY <2>4 DEF HeartbeatByUnknownIP
    <2> QED BY <1>3, <2>1, <2>2, <2>3, <2>4
<1>4. ASSUME NEW n \in Nodes, NEW err \in Errors,
             Validate(n, now, ok, err) \/ Unblock(n, now, ok, err)
      PROVE  UNCHANGED storeVars \/ updateLeaseMetricsLocked(nodes', now)
    BY <1>1, <1>4 DEF Validate, Unblock, Expire
<1>5. ASSUME BlockExpiredNodes(now, ok) \/ Load(now)
      PROVE  UNCHANGED storeVars \/ updateLeaseMetricsLocked(nodes', now)
    BY <1>1, <1>5 DEF BlockExpiredNodes, Load
<1>6. ASSUME NEW ip \in IPs, NEW err \in Errors, HeartbeatByUnknownIP(ip, err)
      PROVE  UNCHANGED storeVars
    BY <1>6 DEF HeartbeatByUnknownIP
<1> QED BY <1>2, <1>3, <1>4, <1>5, <1>6

\* One step of the store keeps the gauges right.
LEMMA GaugesStep ==
    ASSUME StoreInv, GaugesCountEveryLease, [StoreNext]_storeVars
    PROVE  GaugesCountEveryLease'
<1>1. CASE UNCHANGED storeVars
    BY <1>1 DEF storeVars, GaugesCountEveryLease, Registered
<1>2. ASSUME NEW now \in Times, updateLeaseMetricsLocked(nodes', now)
      PROVE  GaugesCountEveryLease'
    <2>1. MapOK(nodes')
        BY StoreStep DEF StoreInv
    <2> DEFINE m == nodes'
    <2>2. /\ gauges'.active = Cardinality(Registered(m) \ Refused(m, now))
          /\ gauges'.expired = Cardinality(Refused(m, now))
        BY <1>2 DEF updateLeaseMetricsLocked
    <2> HIDE DEF m
    <2>3. /\ gauges'.active + gauges'.expired = Cardinality(Registered(m))
          /\ gauges'.expired >= Cardinality(Unusable(m))
        BY <2>1, <2>2, Recount DEF m
    <2> QED BY <2>3 DEF GaugesCountEveryLease, Unusable, Registered, m
<1>3. ASSUME NEW n \in Nodes, NEW enabled \in BOOLEAN, NEW now \in Times, NEW ok, NEW err,
             SetMaintenance(n, enabled, now, ok, err)
      PROVE  GaugesCountEveryLease'
    <2>1. /\ gauges' = gauges
          /\ Registered(nodes') = Registered(nodes)
          /\ Unusable(nodes') = Unusable(nodes)
        BY <1>3, MaintenanceKeepsCounts
    <2> QED BY <2>1 DEF GaugesCountEveryLease, Unusable, Registered
<1> QED BY <1>1, <1>2, <1>3, OthersRecount

-----------------------------------------------------------------------------
(* Theorems *)

\* The invariant of the store, from which all its safety properties follow.
THEOREM StoreInvariant == StoreSpec => []StoreInv
BY StoreInitOK, StoreStep, PTL DEF StoreSpec

\* The map, the file and the gauges have their types whatever the order and
\* the times of the calls of the store's methods.
THEOREM StoreTypeCorrect == StoreSpec => []StoreTypeOK
BY StoreInvariant, StoreInvImplies, PTL

\* No address belongs to two nodes, so recordByIPLocked finds the one record
\* that HeartbeatByIP should refresh.
THEOREM StoreUniqueUnsealIP == StoreSpec => []UniqueUnsealIP
BY StoreInvariant, StoreInvImplies, PTL

\* The lease that Validate tests always ends LeaseDuration after the
\* heartbeat that BlockExpiredNodes tests.
THEOREM StoreLeaseFollowsHeartbeat == StoreSpec => []LeaseFollowsHeartbeat
BY StoreInvariant, StoreInvImplies, PTL

\* A record has a date of its block exactly while it is blocked.
THEOREM StoreBlockIsDated == StoreSpec => []BlockIsDated
BY StoreInvariant, StoreInvImplies, PTL

\* The gauges count every lease once and count none as active that Validate
\* refuses by its status, although SetMaintenance does not recount.
THEOREM StoreGauges == StoreSpec => []GaugesCountEveryLease
<1>1. StoreInit => GaugesCountEveryLease
    <2> SUFFICES ASSUME StoreInit PROVE GaugesCountEveryLease
        OBVIOUS
    <2>1. Registered(nodes) = {}
        BY DEF StoreInit, NoLeases, Registered
    <2>2. {n \in Registered(nodes) : nodes[n].Status # "active"} = {}
        BY <2>1
    <2>3. gauges.active = 0 /\ gauges.expired = 0
        BY DEF StoreInit
    <2> QED BY <2>1, <2>2, <2>3, FS_EmptySet DEF GaugesCountEveryLease
<1>2. StoreInv /\ GaugesCountEveryLease /\ [StoreNext]_storeVars => GaugesCountEveryLease'
    BY GaugesStep
<1> QED BY <1>1, <1>2, StoreInvariant, PTL DEF StoreSpec

=============================================================================
