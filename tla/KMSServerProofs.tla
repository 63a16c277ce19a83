--------------------------- MODULE KMSServerProofs ---------------------------
(***************************************************************************)
(* Proofs about the server, for every number of nodes, addresses and       *)
(* handlers, every duration and every bound on the delays.                 *)
(*                                                                         *)
(* The inductive invariant Inv adds four facts to the types: nobody is     *)
(* late (Timely), the records in memory and in the file are as recent as   *)
(* the history says (Fresh), an Unseal past Validate still has a lease     *)
(* that ran until recently (OpenOK), and a silent node was not overdue at  *)
(* the last check (Watched).                                               *)
(***************************************************************************)
EXTENDS KMSServer, LeaseStoreProofs

Timely ==
    /\ \A h \in Handlers : calls[h] # Idle => clock <= calls[h].now + MaxStale
    /\ check # Zero => /\ clock <= check + MaxStale
                       /\ due - CheckInterval <= check
                       /\ check <= due - CheckInterval + MaxStale
    /\ up => clock <= due + MaxStale /\ due <= clock + CheckInterval

Fresh(m) ==
    \A n \in Nodes :
        /\ acked[n] # Zero => m[n] # Absent
        /\ m[n] # Absent => /\ m[n].LastHeartbeatAt <= touched[n]
                            /\ acked[n] <= m[n].LastHeartbeatAt + MaxStale

\* late: how many delays ago the call passed Validate, at most.
CallOK(call, late) ==
    nodes[call.node] # Absent =>
        /\ call.now <= touched[call.node] + LeaseDuration + (late - 1) * MaxStale
        /\ nodes[call.node].Status = "blocked" =>
               call.now <= nodes[call.node].BlockedAt + late * MaxStale

OpenOK(h) ==
    /\ calls[h].pc = "open" => CallOK(calls[h], 1)
    /\ calls[h].pc = "bootstrap" => CallOK(calls[h], 2)

\* The tick at which the last completed check was due, plus an interval.
NextCheck == IF check = Zero THEN due ELSE due - CheckInterval

Watched(n) ==
    up /\ nodes[n] # Absent /\ nodes[n].Status = "active" /\ ~nodes[n].Maintenance =>
        \/ NextCheck <= started + CheckInterval
        \/ NextCheck - CheckInterval <= nodes[n].LastHeartbeatAt + HeartbeatTimeout

Inv ==
    /\ StoreInv
    /\ TypeOK
    /\ Timely
    /\ Fresh(nodes)
    /\ Fresh(file)
    /\ \A h \in Handlers : OpenOK(h)
    /\ \A n \in Nodes : Watched(n)

-----------------------------------------------------------------------------
(* What a method of the store does to the records *)

\* The record of node k is as recent, and no less blocked or shielded.
Kept(k) ==
    IF nodes[k] = Absent THEN nodes'[k] = Absent
    ELSE /\ nodes'[k] # Absent
         /\ nodes'[k].LastHeartbeatAt = nodes[k].LastHeartbeatAt
         /\ nodes'[k].Status = "active" => nodes[k].Status = "active"
         /\ nodes'[k].Status = "blocked" =>
                nodes[k].Status = "blocked" /\ nodes'[k].BlockedAt = nodes[k].BlockedAt
         /\ ~nodes'[k].Maintenance => ~nodes[k].Maintenance

Renewed(k, now) ==
    /\ nodes'[k] # Absent
    /\ nodes'[k].LastHeartbeatAt = now
    /\ nodes'[k].Status = "blocked" =>
           /\ nodes[k] # Absent
           /\ nodes[k].Status = "blocked"
           /\ nodes'[k].BlockedAt = nodes[k].BlockedAt

Effect(n, now, refreshed, err) ==
    /\ \A k \in Nodes \ {n} : Kept(k)
    /\ IF refreshed THEN Renewed(n, now) ELSE Kept(n)
    /\ file' = nodes' \/ (file' = file /\ (refreshed => err # "none"))

\* A call that writes nothing.
LEMMA UnchangedEffect ==
    ASSUME UNCHANGED storeVars, NEW n \in Nodes, NEW now, NEW err
    PROVE  Effect(n, now, FALSE, err)
BY DEF Effect, Kept, storeVars

\* A call that replaces the record of one node.
LEMMA PutEffect ==
    ASSUME StoreInv, NEW n \in Nodes, NEW r, NEW now, NEW ok \in BOOLEAN,
           Save([nodes EXCEPT ![n] = r], now, ok)
    PROVE  /\ nodes'[n] = r
           /\ \A k \in Nodes \ {n} : Kept(k)
           /\ file' = nodes' \/ (file' = file /\ PersistErr(ok) # "none")
BY DEF Save, persistLocked, PersistErr, Kept, StoreInv, MapOK, LeaseMap

\* Bootstrap renews one record; the nodes that lose the address keep the rest.
LEMMA BootstrapEffect ==
    ASSUME StoreInv, NEW n \in Nodes, NEW ip \in IPs, NEW now \in Times,
           NEW ok \in BOOLEAN, NEW err, Bootstrap(n, ip, now, ok, err)
    PROVE  Effect(n, now, TRUE, err)
<1> DEFINE r == [activeLease(now) EXCEPT !.LastUnsealIP = ip, !.NodeIP = ip]
           q == ReleaseIP(nodes, n, ip)
<1>1. nodes' = [q EXCEPT ![n] = r]
    BY DEF Bootstrap, Save
<1>2. file' = nodes' \/ (file' = file /\ err # "none")
    BY <1>1 DEF Bootstrap, Save, persistLocked, PersistErr
<1>3. Renewed(n, now)
    <2>1. nodes'[n] = r
        BY <1>1 DEF ReleaseIP
    <2>2. r.LastHeartbeatAt = now /\ r.Status = "active"
        BY DEF activeLease
    <2>3. r \in LeaseRecord
        BY ActiveLeaseOK DEF RecordOK, LeaseRecord
    <2> QED BY <2>1, <2>2, <2>3, StoreAssumption DEF Renewed
<1>4. ASSUME NEW k \in Nodes \ {n} PROVE Kept(k)
    <2>1. nodes'[k] = q[k]
        BY <1>1 DEF ReleaseIP
    <2>2. CASE nodes[k] # Absent /\ nodes[k].LastUnsealIP = ip
        <3>1. nodes'[k] = [nodes[k] EXCEPT !.LastUnsealIP = NoIP]
            BY <2>1, <2>2 DEF ReleaseIP
        <3>2. nodes[k] \in LeaseRecord
            BY <2>2 DEF StoreInv, MapOK, RecordOK
        <3>3. nodes'[k] \in LeaseRecord
            BY <3>1, <3>2 DEF LeaseRecord
        <3> QED BY <2>2, <3>1, <3>2, <3>3, StoreAssumption DEF Kept, LeaseRecord
    <2>3. CASE ~(nodes[k] # Absent /\ nodes[k].LastUnsealIP = ip)
        BY <2>1, <2>3 DEF ReleaseIP, Kept
    <2> QED BY <2>2, <2>3
<1> QED BY <1>2, <1>3, <1>4 DEF Effect

\* Refusing an expired lease renews nothing.
LEMMA ExpireEffect ==
    ASSUME StoreInv, NEW n \in Nodes, nodes[n] # Absent, nodes[n].Status # "blocked",
           NEW now \in Times, NEW ok \in BOOLEAN, NEW err, Expire(n, now, ok, err)
    PROVE  Effect(n, now, FALSE, err) /\ nodes'[n].Status = "expired"
<1> DEFINE r == [nodes[n] EXCEPT !.Status = "expired"]
<1>1. Save([nodes EXCEPT ![n] = r], now, ok)
    BY DEF Expire
<1>2. nodes[n] \in LeaseRecord
    BY DEF StoreInv, MapOK, RecordOK
<1>3. r \in LeaseRecord /\ r.Status = "expired" /\ r.LastHeartbeatAt = nodes[n].LastHeartbeatAt
      /\ r.Maintenance = nodes[n].Maintenance
    BY <1>2 DEF LeaseRecord, LeaseStatus
<1>4. /\ nodes'[n] = r
      /\ \A k \in Nodes \ {n} : Kept(k)
      /\ file' = nodes' \/ file' = file
    BY <1>1, PutEffect
<1>5. Kept(n)
    BY <1>3, <1>4, StoreAssumption DEF Kept
<1> QED BY <1>3, <1>4, <1>5 DEF Effect

\* Validate renews nothing, and passes only a lease that still runs.
LEMMA ValidateEffect ==
    ASSUME StoreInv, NEW n \in Nodes, NEW now \in Times, NEW ok \in BOOLEAN, NEW err,
           Validate(n, now, ok, err)
    PROVE  /\ Effect(n, now, FALSE, err)
           /\ err \in {"none", "notFound"} => UNCHANGED storeVars
           /\ err \in {"none", "notFound"} /\ nodes[n] # Absent =>
                  /\ nodes[n].Status # "blocked"
                  /\ now <= nodes[n].LastHeartbeatAt + LeaseDuration
<1>1. CASE nodes[n] = Absent /\ UNCHANGED storeVars
    BY <1>1, UnchangedEffect
<1>2. CASE err = "blocked" /\ UNCHANGED storeVars
    BY <1>2, UnchangedEffect
<1>3. CASE /\ nodes[n] # Absent
           /\ nodes[n].Status # "blocked"
           /\ Expire(n, now, ok, err)
    <2>1. err \notin {"none", "notFound"}
        BY <1>3 DEF Expire
    <2> QED BY <1>3, <2>1, ExpireEffect
<1>4. CASE /\ nodes[n] # Absent
           /\ nodes[n].Status # "blocked"
           /\ ~LeaseOver(nodes[n], now)
           /\ UNCHANGED storeVars
    <2>1. RecordOK(nodes[n])
        BY <1>4 DEF StoreInv, MapOK
    <2>2. now <= nodes[n].LastHeartbeatAt + LeaseDuration
        BY <1>4, <2>1, StoreAssumption DEF LeaseOver, isExpired, RecordOK, Times, Zero
    <2> QED BY <1>4, <2>2, UnchangedEffect
<1> QED BY <1>1, <1>2, <1>3, <1>4 DEF Validate

\* A gRPC heartbeat renews the record exactly when it leaves it active.
LEMMA HeartbeatByIPEffect ==
    ASSUME StoreInv, NEW n \in Nodes, NEW ip, NEW now \in Times, NEW ok \in BOOLEAN,
           NEW err, HeartbeatByIP(n, ip, now, ok, err)
    PROVE  Effect(n, now, nodes'[n].Status = "active", err)
<1>1. nodes[n] # Absent /\ RecordOK(nodes[n])
    BY DEF HeartbeatByIP, recordByIPLocked, StoreInv, MapOK
<1>2. CASE nodes[n].Status = "blocked" /\ UNCHANGED storeVars
    <2>1. nodes'[n].Status # "active"
        BY <1>2 DEF storeVars
    <2>2. Effect(n, now, FALSE, err)
        BY <1>2, UnchangedEffect
    <2> QED BY <2>1, <2>2 DEF Effect
<1>3. CASE nodes[n].Status # "blocked" /\ Expire(n, now, ok, err)
    <2>1. Effect(n, now, FALSE, err) /\ nodes'[n].Status # "active"
        BY <1>1, <1>3, ExpireEffect
    <2> QED BY <2>1 DEF Effect
<1>4. CASE /\ nodes[n].Status # "blocked"
           /\ Save([nodes EXCEPT ![n] =
                       [Refresh(nodes[n], now) EXCEPT !.Status = "active"]], now, ok)
           /\ err = PersistErr(ok)
    <2> DEFINE f == Refresh(nodes[n], now)
               r == [f EXCEPT !.Status = "active"]
    <2>1. RecordOK(f) /\ f.LastHeartbeatAt = now
        BY <1>1, RefreshOK DEF RecordOK, LeaseRecord, Refresh
    <2> HIDE DEF f
    <2>2. r \in LeaseRecord /\ r.Status = "active" /\ r.LastHeartbeatAt = now
        BY <2>1 DEF RecordOK, LeaseRecord, LeaseStatus
    <2> HIDE DEF r
    <2>0. Save([nodes EXCEPT ![n] = r], now, ok) /\ err = PersistErr(ok)
        BY <1>4 DEF r, f
    <2>3. /\ nodes'[n] = r
          /\ \A k \in Nodes \ {n} : Kept(k)
          /\ file' = nodes' \/ (file' = file /\ err # "none")
        BY <2>0, PutEffect
    <2>4. Renewed(n, now)
        BY <2>2, <2>3, StoreAssumption DEF Renewed
    <2> QED BY <2>2, <2>3, <2>4 DEF Effect
<1> QED BY <1>2, <1>3, <1>4 DEF HeartbeatByIP

\* An HTTP heartbeat renews the record unless it is blocked.
LEMMA HeartbeatByUUIDEffect ==
    ASSUME StoreInv, NEW n \in Nodes, NEW ip \in IPs, NEW now \in Times,
           NEW ok \in BOOLEAN, NEW err, HeartbeatByUUID(n, ip, now, ok, err)
    PROVE  Effect(n, now, err # "blocked", err)
<1>1. CASE /\ Save([nodes EXCEPT ![n] = [activeLease(now) EXCEPT !.NodeIP = ip]], now, ok)
           /\ err = PersistErr(ok)
    <2> DEFINE r == [activeLease(now) EXCEPT !.NodeIP = ip]
    <2>1. r \in LeaseRecord /\ r.Status = "active" /\ r.LastHeartbeatAt = now
        BY ActiveLeaseOK DEF RecordOK, LeaseRecord, activeLease
    <2> HIDE DEF r
    <2>0. Save([nodes EXCEPT ![n] = r], now, ok) /\ err = PersistErr(ok)
        BY <1>1 DEF r
    <2>2. /\ nodes'[n] = r
          /\ \A k \in Nodes \ {n} : Kept(k)
          /\ file' = nodes' \/ (file' = file /\ err # "none")
        BY <2>0, PutEffect
    <2>3. Renewed(n, now)
        BY <2>1, <2>2, StoreAssumption DEF Renewed
    <2>4. err # "blocked"
        BY <1>1 DEF PersistErr
    <2> QED BY <2>2, <2>3, <2>4 DEF Effect
<1>2. CASE err = "blocked" /\ UNCHANGED storeVars
    BY <1>2, UnchangedEffect DEF Effect
<1>3. CASE /\ nodes[n] # Absent
           /\ nodes[n].Status # "blocked"
           /\ Save([nodes EXCEPT ![n] =
                       [Refresh(nodes[n], now) EXCEPT !.NodeIP = ip, !.Status = "active"]],
                   now, ok)
           /\ err = PersistErr(ok)
    <2> DEFINE f == Refresh(nodes[n], now)
               r == [f EXCEPT !.NodeIP = ip, !.Status = "active"]
    <2>1. RecordOK(f) /\ f.LastHeartbeatAt = now
        BY <1>3, RefreshOK DEF RecordOK, LeaseRecord, Refresh, StoreInv, MapOK
    <2> HIDE DEF f
    <2>2. r \in LeaseRecord /\ r.Status = "active" /\ r.LastHeartbeatAt = now
        BY <2>1 DEF RecordOK, LeaseRecord, LeaseStatus
    <2> HIDE DEF r
    <2>0. Save([nodes EXCEPT ![n] = r], now, ok) /\ err = PersistErr(ok)
        BY <1>3 DEF r, f
    <2>3. /\ nodes'[n] = r
          /\ \A k \in Nodes \ {n} : Kept(k)
          /\ file' = nodes' \/ (file' = file /\ err # "none")
        BY <2>0, PutEffect
    <2>4. Renewed(n, now)
        BY <2>2, <2>3, StoreAssumption DEF Renewed
    <2>5. err # "blocked"
        BY <1>3 DEF PersistErr
    <2> QED BY <2>3, <2>4, <2>5 DEF Effect
<1> QED BY <1>1, <1>2, <1>3 DEF HeartbeatByUUID

\* Unblock renews the record of a registered node.
LEMMA UnblockEffect ==
    ASSUME StoreInv, NEW n \in Nodes, NEW now \in Times, NEW ok \in BOOLEAN, NEW err,
           Unblock(n, now, ok, err)
    PROVE  Effect(n, now, err # "notFound", err)
<1>1. CASE err = "notFound" /\ UNCHANGED storeVars
    BY <1>1, UnchangedEffect DEF Effect
<1>2. CASE /\ nodes[n] # Absent
           /\ Save([nodes EXCEPT ![n] = UnblockRecord(nodes[n], now)], now, ok)
           /\ err = PersistErr(ok)
    <2> DEFINE f == Refresh(nodes[n], now)
               r == UnblockRecord(nodes[n], now)
    <2>1. RecordOK(nodes[n])
        BY <1>2 DEF StoreInv, MapOK
    <2>2. RecordOK(f) /\ f.LastHeartbeatAt = now
        BY <2>1, RefreshOK DEF RecordOK, LeaseRecord, Refresh
    <2> HIDE DEF f
    <2>3. r = [f EXCEPT !.Status = "active", !.BlockedAt = Zero]
        BY DEF UnblockRecord, f
    <2>4. RecordOK(r)
        BY <2>1, UnblockOK
    <2>5. r \in LeaseRecord /\ r.Status = "active" /\ r.LastHeartbeatAt = now
        BY <2>2, <2>3, <2>4 DEF RecordOK, LeaseRecord
    <2> HIDE DEF r
    <2>6. /\ nodes'[n] = r
          /\ \A k \in Nodes \ {n} : Kept(k)
          /\ file' = nodes' \/ (file' = file /\ err # "none")
        BY <1>2, PutEffect DEF r
    <2>7. Renewed(n, now)
        BY <2>5, <2>6, StoreAssumption DEF Renewed
    <2>8. err # "notFound"
        BY <1>2 DEF PersistErr
    <2> QED BY <2>6, <2>7, <2>8 DEF Effect
<1> QED BY <1>1, <1>2 DEF Unblock

\* SetMaintenance renews the record of a registered node when it ends the
\* maintenance; a blocked node stays blocked.
LEMMA SetMaintenanceEffect ==
    ASSUME StoreInv, NEW n \in Nodes, NEW enabled \in BOOLEAN, NEW now \in Times,
           NEW ok \in BOOLEAN, NEW err, SetMaintenance(n, enabled, now, ok, err)
    PROVE  Effect(n, now, ~enabled /\ err # "notFound", err)
<1>1. CASE err = "notFound" /\ UNCHANGED storeVars
    BY <1>1, UnchangedEffect DEF Effect
<1>2. CASE /\ nodes[n] # Absent
           /\ nodes' = [nodes EXCEPT ![n] =
                           [(IF enabled THEN nodes[n] ELSE Refresh(nodes[n], now))
                                EXCEPT !.Maintenance = enabled]]
           /\ persistLocked(nodes', ok)
           /\ err = PersistErr(ok)
    <2> DEFINE f == IF enabled THEN nodes[n] ELSE Refresh(nodes[n], now)
               r == [f EXCEPT !.Maintenance = enabled]
    <2>1. RecordOK(nodes[n])
        BY <1>2 DEF StoreInv, MapOK
    <2>2. /\ RecordOK(f)
          /\ f.Status = nodes[n].Status
          /\ f.BlockedAt = nodes[n].BlockedAt
          /\ f.LastHeartbeatAt = IF enabled THEN nodes[n].LastHeartbeatAt ELSE now
        BY <2>1, RefreshOK DEF RecordOK, LeaseRecord, Refresh
    <2> HIDE DEF f
    <2>3. /\ r \in LeaseRecord
          /\ r.Status = nodes[n].Status
          /\ r.BlockedAt = nodes[n].BlockedAt
          /\ r.LastHeartbeatAt = f.LastHeartbeatAt
          /\ r.Maintenance = enabled
        BY <2>2 DEF RecordOK, LeaseRecord
    <2> HIDE DEF r
    <2>4. nodes'[n] = r /\ \A k \in Nodes \ {n} : nodes'[k] = nodes[k]
        BY <1>2 DEF StoreInv, MapOK, LeaseMap, r, f
    <2>5. \A k \in Nodes \ {n} : Kept(k)
        BY <2>4 DEF Kept
    <2>6. file' = nodes' \/ (file' = file /\ err # "none")
        BY <1>2 DEF persistLocked, PersistErr
    <2>7. CASE enabled
        <3>1. Kept(n)
            BY <1>2, <2>2, <2>3, <2>4, <2>7, StoreAssumption DEF Kept
        <3> QED BY <2>5, <2>6, <2>7, <3>1 DEF Effect
    <2>8. CASE ~enabled
        <3>1. Renewed(n, now)
            BY <1>2, <2>2, <2>3, <2>4, <2>8, StoreAssumption DEF Renewed
        <3>2. err # "notFound"
            BY <1>2 DEF PersistErr
        <3> QED BY <2>5, <2>6, <2>8, <3>1, <3>2 DEF Effect
    <2> QED BY <2>7, <2>8
<1> QED BY <1>1, <1>2 DEF SetMaintenance

-----------------------------------------------------------------------------
(* Handlers *)

\* The arguments of a call have the types that its step needs.
LEMMA CallTypes ==
    ASSUME TypeOK, NEW h \in Handlers
    PROVE  /\ calls[h].pc \in {"validate", "open", "bootstrap"} =>
                  calls[h] \in [pc : {"validate", "open", "bootstrap"}, node : Nodes,
                                ip : IPs, now : Times]
           /\ calls[h].pc = "heartbeatByIP" => calls[h].ip \in IPs
           /\ calls[h].pc = "heartbeatByUUID" => calls[h].node \in Nodes /\ calls[h].ip \in IPs
           /\ calls[h].pc = "unblock" => calls[h].node \in Nodes
           /\ calls[h].pc = "setMaintenance" =>
                  calls[h].node \in Nodes /\ calls[h].enabled \in BOOLEAN
           /\ calls[h] # Idle <=> calls[h].pc # "idle"
           /\ calls[h] # Idle => calls[h].now \in Times
<1>1. calls[h] \in Calls
    BY DEF TypeOK
<1> QED BY <1>1 DEF Calls, Idle

\* The outcome of a write is a Boolean.
LEMMA OutcomesOK == PersistOutcomes \subseteq BOOLEAN
BY DEF PersistOutcomes

\* Every step of a handler leaves the records alone or has an Effect on the
\* record of one node, with the time the handler read.
LEMMA HandlerEffect ==
    ASSUME StoreInv, TypeOK, NEW h \in Handlers, HandlerNext(h)
    PROVE  \/ UNCHANGED <<storeVars, touched, acked>>
           \/ /\ calls[h] # Idle
              /\ \E n \in Nodes, refreshed \in BOOLEAN, err \in Errors :
                     /\ Effect(n, calls[h].now, refreshed, err)
                     /\ Note(n, refreshed, err)
<1> DEFINE now == calls[h].now
           Found == /\ calls[h] # Idle
                    /\ \E n \in Nodes, refreshed \in BOOLEAN, err \in Errors :
                           Effect(n, now, refreshed, err) /\ Note(n, refreshed, err)
<1>1. CASE \/ ReceiveUnseal(h) \/ ReceiveHeartbeat(h) \/ ReceiveHTTPHeartbeat(h)
           \/ ReceiveUnblock(h) \/ ReceiveSetMaintenance(h) \/ UnsealFail(h) \/ UnsealOpen(h)
    BY <1>1 DEF ReceiveUnseal, ReceiveHeartbeat, ReceiveHTTPHeartbeat, ReceiveUnblock,
                ReceiveSetMaintenance, Receive, UnsealFail, UnsealOpen, history
<1>2. CASE UnsealValidate(h)
    <2>1. calls[h].node \in Nodes /\ now \in Times /\ calls[h] # Idle
        BY <1>2, CallTypes DEF UnsealValidate, Idle
    <2>2. PICK ok \in PersistOutcomes, err \in Errors : Validate(calls[h].node, now, ok, err)
        BY <1>2 DEF UnsealValidate
    <2>3. Effect(calls[h].node, now, FALSE, err)
        BY <2>1, <2>2, OutcomesOK, ValidateEffect
    <2>4. Note(calls[h].node, FALSE, err)
        BY <1>2 DEF UnsealValidate, history, Note
    <2>5. Found
        BY <2>1, <2>3, <2>4
    <2> QED BY <2>5
<1>3. CASE UnsealBootstrap(h)
    <2>1. calls[h].node \in Nodes /\ calls[h].ip \in IPs /\ now \in Times /\ calls[h] # Idle
        BY <1>3, CallTypes DEF UnsealBootstrap, Idle
    <2>2. PICK ok \in PersistOutcomes, err \in Errors :
              /\ Bootstrap(calls[h].node, calls[h].ip, now, ok, err)
              /\ Note(calls[h].node, TRUE, err)
        BY <1>3 DEF UnsealBootstrap
    <2>3. Effect(calls[h].node, now, TRUE, err)
        BY <2>1, <2>2, OutcomesOK, BootstrapEffect
    <2>4. Found
        BY <2>1, <2>2, <2>3
    <2> QED BY <2>4
<1>4. CASE Heartbeat(h)
    <2>1. now \in Times /\ calls[h] # Idle
        BY <1>4, CallTypes DEF Heartbeat, Idle
    <2>2. CASE UNCHANGED <<storeVars, touched, acked>>
        BY <2>2
    <2>3. ASSUME NEW n \in Nodes, NEW ok \in PersistOutcomes, NEW err \in Errors,
                 HeartbeatByIP(n, calls[h].ip, now, ok, err),
                 Note(n, nodes'[n].Status = "active", err)
          PROVE  Found
        <3> DEFINE refreshed == nodes'[n].Status = "active"
        <3>1. Effect(n, now, refreshed, err)
            BY <2>1, <2>3, OutcomesOK, HeartbeatByIPEffect
        <3>2. Note(n, refreshed, err) /\ refreshed \in BOOLEAN
            BY <2>3
        <3> HIDE DEF refreshed
        <3> QED BY <2>1, <3>1, <3>2
    <2> QED BY <1>4, <2>2, <2>3 DEF Heartbeat, HeartbeatByUnknownIP
<1>5. CASE handleHeartbeat(h)
    <2>1. calls[h].node \in Nodes /\ calls[h].ip \in IPs /\ now \in Times /\ calls[h] # Idle
        BY <1>5, CallTypes DEF handleHeartbeat, Idle
    <2>2. PICK ok \in PersistOutcomes, err \in Errors :
              /\ HeartbeatByUUID(calls[h].node, calls[h].ip, now, ok, err)
              /\ Note(calls[h].node, err # "blocked", err)
        BY <1>5 DEF handleHeartbeat
    <2> DEFINE refreshed == err # "blocked"
    <2>3. /\ Effect(calls[h].node, now, refreshed, err)
          /\ Note(calls[h].node, refreshed, err)
          /\ refreshed \in BOOLEAN
        BY <2>1, <2>2, OutcomesOK, HeartbeatByUUIDEffect
    <2> HIDE DEF refreshed
    <2>4. Found
        BY <2>1, <2>3
    <2> QED BY <2>4
<1>6. CASE handleUnblockNode(h)
    <2>1. calls[h].node \in Nodes /\ now \in Times /\ calls[h] # Idle
        BY <1>6, CallTypes DEF handleUnblockNode, Idle
    <2>2. PICK ok \in PersistOutcomes, err \in Errors :
              /\ Unblock(calls[h].node, now, ok, err)
              /\ Note(calls[h].node, err # "notFound", err)
        BY <1>6 DEF handleUnblockNode
    <2> DEFINE refreshed == err # "notFound"
    <2>3. /\ Effect(calls[h].node, now, refreshed, err)
          /\ Note(calls[h].node, refreshed, err)
          /\ refreshed \in BOOLEAN
        BY <2>1, <2>2, OutcomesOK, UnblockEffect
    <2> HIDE DEF refreshed
    <2>4. Found
        BY <2>1, <2>3
    <2> QED BY <2>4
<1>7. CASE handleSetMaintenance(h)
    <2>1. /\ calls[h].node \in Nodes /\ calls[h].enabled \in BOOLEAN
          /\ now \in Times /\ calls[h] # Idle
        BY <1>7, CallTypes DEF handleSetMaintenance, Idle
    <2>2. PICK ok \in PersistOutcomes, err \in Errors :
              /\ SetMaintenance(calls[h].node, calls[h].enabled, now, ok, err)
              /\ Note(calls[h].node, ~calls[h].enabled /\ err # "notFound", err)
        BY <1>7 DEF handleSetMaintenance
    <2> DEFINE refreshed == ~calls[h].enabled /\ err # "notFound"
    <2>3. /\ Effect(calls[h].node, now, refreshed, err)
          /\ Note(calls[h].node, refreshed, err)
          /\ refreshed \in BOOLEAN
        BY <2>1, <2>2, OutcomesOK, SetMaintenanceEffect
    <2> HIDE DEF refreshed
    <2>4. Found
        BY <2>1, <2>3
    <2> QED BY <2>4
<1> QED BY <1>1, <1>2, <1>3, <1>4, <1>5, <1>6, <1>7 DEF HandlerNext

\* A handler touches its own call only, and leaves with an answer, with the
\* time it had or with a new one.
LEMMA HandlerCalls ==
    ASSUME TypeOK, Timely, NEW h \in Handlers, HandlerNext(h)
    PROVE  /\ UNCHANGED timers
           /\ calls' \in [Handlers -> Calls]
           /\ \A g \in Handlers \ {h} : calls'[g] = calls[g]
           /\ calls'[h] # Idle => /\ up
                                  /\ calls'[h].now <= clock
                                  /\ clock <= calls'[h].now + MaxStale
           /\ touched' \in [Nodes -> 0..clock]
           /\ acked' \in [Nodes -> 0..clock]
           /\ shielded' \subseteq Nodes
<1>0. /\ calls \in [Handlers -> Calls] /\ clock \in Times /\ clock \in Nat
      /\ MaxStale \in Nat /\ clock \in 0..clock
      /\ touched \in [Nodes -> 0..clock] /\ acked \in [Nodes -> 0..clock]
      /\ shielded \subseteq Nodes
    BY TimesOK, ServerAssumption DEF TypeOK
<1>1. ASSUME NEW n \in Nodes, NEW refreshed, NEW err, Note(n, refreshed, err)
      PROVE  touched' \in [Nodes -> 0..clock] /\ acked' \in [Nodes -> 0..clock]
    BY <1>0, <1>1 DEF Note
<1>2. ASSUME NEW call \in Calls, call.now = clock, Receive(h, call)
      PROVE  /\ UNCHANGED timers /\ UNCHANGED history
             /\ calls' \in [Handlers -> Calls]
             /\ \A g \in Handlers \ {h} : calls'[g] = calls[g]
             /\ up /\ calls'[h].now = clock
    BY <1>0, <1>2 DEF Receive
<1>3. CASE \/ ReceiveUnseal(h) \/ ReceiveHeartbeat(h) \/ ReceiveHTTPHeartbeat(h)
           \/ ReceiveUnblock(h) \/ ReceiveSetMaintenance(h)
    <2>1. \E call \in Calls : call.now = clock /\ Receive(h, call)
        BY <1>0, <1>3 DEF ReceiveUnseal, ReceiveHeartbeat, ReceiveHTTPHeartbeat,
               ReceiveUnblock, ReceiveSetMaintenance, Calls
    <2> QED BY <1>0, <1>2, <2>1 DEF history
<1>4. ASSUME Return(h)
      PROVE  /\ calls' \in [Handlers -> Calls]
             /\ \A g \in Handlers \ {h} : calls'[g] = calls[g]
             /\ calls'[h] = Idle
    BY <1>0, <1>4 DEF Return, Calls
<1>5. CASE UnsealFail(h)
    BY <1>0, <1>4, <1>5 DEF UnsealFail, history
<1>6. CASE UnsealValidate(h)
    <2>1. calls[h] # Idle /\ calls[h] \in [pc : {"validate", "open", "bootstrap"},
                                           node : Nodes, ip : IPs, now : Times]
        BY <1>6, CallTypes DEF UnsealValidate
    <2> DEFINE c == [calls[h] EXCEPT !.pc = "open"]
    <2>2. c \in Calls /\ c.now = calls[h].now
        BY <2>1 DEF Calls
    <2>3. \/ calls' = [calls EXCEPT ![h] = c]
          \/ Return(h)
        BY <1>6 DEF UnsealValidate, Return
    <2>4. up /\ calls[h].now <= clock /\ clock <= calls[h].now + MaxStale
        BY <2>1 DEF TypeOK, Timely
    <2>5. UNCHANGED timers /\ UNCHANGED history
        BY <1>6 DEF UnsealValidate
    <2> HIDE DEF c
    <2>6. CASE calls' = [calls EXCEPT ![h] = c]
        BY <1>0, <2>2, <2>4, <2>5, <2>6 DEF history
    <2>7. CASE Return(h)
        BY <1>0, <1>4, <2>5, <2>7 DEF history
    <2> QED BY <2>3, <2>6, <2>7
<1>7. CASE UnsealOpen(h)
    <2>1. calls[h] # Idle /\ calls[h] \in [pc : {"validate", "open", "bootstrap"},
                                           node : Nodes, ip : IPs, now : Times]
        BY <1>7, CallTypes DEF UnsealOpen
    <2> DEFINE c == [calls[h] EXCEPT !.pc = "bootstrap", !.now = clock]
    <2>2. c \in Calls /\ c.now = clock
        BY <1>0, <2>1 DEF Calls
    <2>3. calls' = [calls EXCEPT ![h] = c]
        BY <1>0, <1>7, <2>1 DEF UnsealOpen
    <2>4. up
        BY <2>1 DEF TypeOK
    <2>5. UNCHANGED timers /\ UNCHANGED history
        BY <1>7 DEF UnsealOpen
    <2> HIDE DEF c
    <2> QED BY <1>0, <2>2, <2>3, <2>4, <2>5 DEF history
<1>8. CASE UnsealBootstrap(h)
    <2>1. calls[h].node \in Nodes
        BY <1>8, CallTypes DEF UnsealBootstrap
    <2> QED BY <1>0, <1>1, <1>4, <1>8, <2>1 DEF UnsealBootstrap
<1>9. CASE Heartbeat(h)
    BY <1>0, <1>1, <1>4, <1>9 DEF Heartbeat
<1>10. CASE handleHeartbeat(h)
    <2>1. calls[h].node \in Nodes
        BY <1>10, CallTypes DEF handleHeartbeat
    <2> QED BY <1>0, <1>1, <1>4, <1>10, <2>1 DEF handleHeartbeat
<1>11. CASE handleUnblockNode(h)
    <2>1. calls[h].node \in Nodes
        BY <1>11, CallTypes DEF handleUnblockNode
    <2> QED BY <1>0, <1>1, <1>4, <1>11, <2>1 DEF handleUnblockNode
<1>12. CASE handleSetMaintenance(h)
    <2>1. calls[h].node \in Nodes
        BY <1>12, CallTypes DEF handleSetMaintenance
    <2>2. shielded' \subseteq Nodes
        BY <1>0, <1>12, <2>1 DEF handleSetMaintenance
    <2> QED BY <1>0, <1>1, <1>4, <1>12, <2>1, <2>2 DEF handleSetMaintenance
<1> QED BY <1>3, <1>5, <1>6, <1>7, <1>8, <1>9, <1>10, <1>11, <1>12 DEF HandlerNext

-----------------------------------------------------------------------------
(* Effects keep the records fresh, the open calls and the watch *)

\* A renewed record is as recent as the history says, and only a written
\* file makes an acknowledgement.
LEMMA EffectFresh ==
    ASSUME Inv, NEW n \in Nodes, NEW now \in Times, now <= clock, clock <= now + MaxStale,
           NEW refreshed \in BOOLEAN, NEW err, Effect(n, now, refreshed, err),
           Note(n, refreshed, err)
    PROVE  Fresh(nodes)' /\ Fresh(file)'
<1>0. /\ clock \in Nat /\ now \in Nat /\ MaxStale \in Nat
      /\ touched \in [Nodes -> 0..clock] /\ acked \in [Nodes -> 0..clock]
    BY TimesOK, ServerAssumption DEF Inv, TypeOK
<1>1. ASSUME NEW k \in Nodes
      PROVE  /\ acked'[k] # Zero => nodes'[k] # Absent
             /\ nodes'[k] # Absent => /\ nodes'[k].LastHeartbeatAt <= touched'[k]
                                      /\ acked'[k] <= nodes'[k].LastHeartbeatAt + MaxStale
    <2>1. CASE k = n /\ refreshed
        <3>1. touched'[k] = clock /\ acked'[k] \in {clock, acked[k]}
            BY <1>0, <2>1 DEF Note
        <3>2. nodes'[k] # Absent /\ nodes'[k].LastHeartbeatAt = now
            BY <2>1 DEF Effect, Renewed
        <3> QED BY <1>0, <3>1, <3>2
    <2>2. CASE ~(k = n /\ refreshed)
        <3>1. touched'[k] = touched[k] /\ acked'[k] = acked[k]
            BY <1>0, <2>2 DEF Note
        <3>2. Kept(k)
            BY <2>2 DEF Effect
        <3> QED BY <3>1, <3>2 DEF Kept, Inv, Fresh
    <2> QED BY <2>1, <2>2
<1>2. Fresh(nodes)'
    BY <1>1 DEF Fresh
<1>3. CASE file' = nodes'
    BY <1>1, <1>2, <1>3 DEF Fresh
<1>4. CASE file' = file /\ (refreshed => err # "none")
    <2>1. acked' = acked
        BY <1>4 DEF Note
    <2>2. \A k \in Nodes : touched'[k] \in {clock, touched[k]}
        BY <1>0 DEF Note
    <2>3. ASSUME NEW k \in Nodes, file[k] # Absent
          PROVE  file[k].LastHeartbeatAt <= touched'[k]
        <3>1. file[k].LastHeartbeatAt <= touched[k] /\ file[k].LastHeartbeatAt \in Nat
            BY <2>3, TimesOK DEF Inv, Fresh, StoreInv, MapOK, RecordOK
        <3>2. touched[k] \in 0..clock
            BY <1>0
        <3> QED BY <1>0, <2>2, <3>1, <3>2
    <2>4. \A k \in Nodes :
              /\ acked[k] # Zero => file[k] # Absent
              /\ file[k] # Absent => acked[k] <= file[k].LastHeartbeatAt + MaxStale
        BY DEF Inv, Fresh
    <2>5. ASSUME NEW k \in Nodes
          PROVE  /\ acked'[k] # Zero => file'[k] # Absent
                 /\ file'[k] # Absent => /\ file'[k].LastHeartbeatAt <= touched'[k]
                                         /\ acked'[k] <= file'[k].LastHeartbeatAt + MaxStale
        BY <1>4, <2>1, <2>3, <2>4
    <2> QED BY <1>2, <2>5 DEF Fresh
<1> QED BY <1>3, <1>4 DEF Effect

\* An Effect on the store does not hurt an Unseal in another handler.
LEMMA EffectOpen ==
    ASSUME Inv, NEW n \in Nodes, NEW now \in Times,
           NEW refreshed \in BOOLEAN, NEW err, Effect(n, now, refreshed, err),
           Note(n, refreshed, err), NEW g \in Handlers, calls'[g] = calls[g]
    PROVE  OpenOK(g)'
<1> DEFINE c == calls[g]
           k == c.node
<1>1. SUFFICES ASSUME c.pc \in {"open", "bootstrap"}, nodes'[k] # Absent
               PROVE  OpenOK(g)'
    BY DEF OpenOK, CallOK
<1>2. /\ k \in Nodes /\ c.now \in Nat /\ c.now <= clock /\ clock \in Nat
      /\ MaxStale \in Nat /\ LeaseDuration \in Nat
      /\ touched \in [Nodes -> 0..clock]
    BY <1>1, CallTypes, TimesOK, ServerAssumption, StoreAssumption DEF Inv, TypeOK, Idle
<1>3. touched'[k] \in {touched[k], clock} /\ touched[k] \in Nat
    BY <1>2 DEF Note
<1>4. nodes'[k].Status = "blocked" =>
          /\ nodes[k] # Absent /\ nodes[k].Status = "blocked"
          /\ nodes'[k].BlockedAt = nodes[k].BlockedAt
    BY <1>1, <1>2 DEF Effect, Kept, Renewed
<1>5. CASE touched'[k] = clock
    BY <1>1, <1>2, <1>4, <1>5 DEF OpenOK, CallOK, Inv
<1>6. CASE touched'[k] = touched[k] /\ nodes[k] # Absent
    BY <1>1, <1>2, <1>4, <1>6 DEF OpenOK, CallOK, Inv
<1>7. CASE touched'[k] = touched[k] /\ nodes[k] = Absent
    <2>1. k = n /\ refreshed
        BY <1>1, <1>2, <1>7 DEF Effect, Kept
    <2>2. touched'[k] = clock
        BY <1>2, <2>1 DEF Note
    <2> QED BY <1>5, <2>2
<1> QED BY <1>3, <1>5, <1>6, <1>7

\* A record that becomes active or loses its shield is renewed.
LEMMA EffectWatched ==
    ASSUME Inv, NEW n \in Nodes, NEW now \in Times, clock <= now + MaxStale,
           NEW refreshed \in BOOLEAN, NEW err, Effect(n, now, refreshed, err),
           UNCHANGED timers, NEW k \in Nodes
    PROVE  Watched(k)'
<1>1. CASE k = n /\ refreshed
    <2>1. nodes'[k].LastHeartbeatAt = now
        BY <1>1 DEF Effect, Renewed
    <2>2. /\ clock \in Nat /\ now \in Nat /\ MaxStale \in Nat /\ CheckInterval \in Nat
          /\ HeartbeatTimeout \in Nat /\ MaxStale <= HeartbeatTimeout /\ due \in Nat
        BY TimesOK, ServerAssumption, StoreAssumption DEF Inv, TypeOK
    <2>3. up => NextCheck <= due /\ due <= clock + CheckInterval
        BY <2>2 DEF NextCheck, Inv, Timely
    <2>4. NextCheck \in Int
        BY <2>2 DEF NextCheck
    <2>5. up => NextCheck - CheckInterval <= now + HeartbeatTimeout
        BY <2>2, <2>3, <2>4
    <2> QED BY <2>1, <2>5 DEF Watched, NextCheck, timers
<1>2. CASE ~(k = n /\ refreshed)
    <2>1. Kept(k)
        BY <1>2 DEF Effect
    <2> QED BY <2>1 DEF Kept, Watched, Inv, NextCheck, timers
<1> QED BY <1>1, <1>2

-----------------------------------------------------------------------------
(* Every step of the server is a step of the store *)

\* The server calls the store only through its methods, with times the
\* clock has shown.
LEMMA ServerIsStore ==
    ASSUME TypeOK, [Next]_vars
    PROVE  [StoreNext]_storeVars
<1>1. ASSUME NEW h \in Handlers, HandlerNext(h)
      PROVE  [StoreNext]_storeVars
    <2>1. CASE \/ ReceiveUnseal(h) \/ ReceiveHeartbeat(h) \/ ReceiveHTTPHeartbeat(h)
               \/ ReceiveUnblock(h) \/ ReceiveSetMaintenance(h) \/ UnsealFail(h)
               \/ UnsealOpen(h)
        BY <2>1 DEF ReceiveUnseal, ReceiveHeartbeat, ReceiveHTTPHeartbeat, ReceiveUnblock,
                    ReceiveSetMaintenance, Receive, UnsealFail, UnsealOpen
    <2>2. CASE UnsealValidate(h)
        <3>1. calls[h].node \in Nodes /\ calls[h].now \in Times
            BY <2>2, CallTypes DEF UnsealValidate
        <3> QED BY <2>2, <3>1 DEF UnsealValidate, StoreNext
    <2>3. CASE UnsealBootstrap(h)
        <3>1. calls[h].node \in Nodes /\ calls[h].ip \in IPs /\ calls[h].now \in Times
            BY <2>3, CallTypes DEF UnsealBootstrap
        <3> QED BY <2>3, <3>1 DEF UnsealBootstrap, StoreNext
    <2>4. CASE Heartbeat(h)
        <3>1. calls[h].ip \in IPs /\ calls[h].now \in Times
            BY <2>4, CallTypes DEF Heartbeat, Idle
        <3> QED BY <2>4, <3>1 DEF Heartbeat, HeartbeatByUnknownIP, StoreNext
    <2>5. CASE handleHeartbeat(h)
        <3>1. calls[h].node \in Nodes /\ calls[h].ip \in IPs /\ calls[h].now \in Times
            BY <2>5, CallTypes DEF handleHeartbeat, Idle
        <3> QED BY <2>5, <3>1 DEF handleHeartbeat, StoreNext
    <2>6. CASE handleUnblockNode(h)
        <3>1. calls[h].node \in Nodes /\ calls[h].now \in Times
            BY <2>6, CallTypes DEF handleUnblockNode, Idle
        <3> QED BY <2>6, <3>1 DEF handleUnblockNode, StoreNext
    <2>7. CASE handleSetMaintenance(h)
        <3>1. calls[h].node \in Nodes /\ calls[h].enabled \in BOOLEAN /\ calls[h].now \in Times
            BY <2>7, CallTypes DEF handleSetMaintenance, Idle
        <3> QED BY <2>7, <3>1 DEF handleSetMaintenance, StoreNext
    <2> QED BY <1>1, <2>1, <2>2, <2>3, <2>4, <2>5, <2>6, <2>7 DEF HandlerNext
<1>2. CASE CheckStart
    BY <1>2 DEF CheckStart
<1>3. CASE Check
    <2>1. check \in Times
        <3>1. clock \in 1..MaxTime /\ MaxTime \in Nat /\ check \in 0..clock /\ check # 0
            BY <1>3, StoreAssumption DEF Check, TypeOK, Times, Zero
        <3> QED BY <3>1 DEF Times
    <2> QED BY <1>3, <2>1 DEF Check, StoreNext
<1>4. CASE Crash
    BY <1>4 DEF Crash
<1>5. CASE Restart
    <2>1. clock \in Times /\ \E ok : ok \in PersistOutcomes
        BY DEF TypeOK, PersistOutcomes
    <2> QED BY <1>5, <2>1 DEF Restart, StoreNext
<1>6. CASE Tick
    BY <1>6 DEF Tick
<1>7. CASE UNCHANGED vars
    BY <1>7 DEF vars
<1> QED BY <1>1, <1>2, <1>3, <1>4, <1>5, <1>6, <1>7 DEF Next

-----------------------------------------------------------------------------
(* Every step of the server keeps the invariant *)

\* The types of the store follow from its invariant.
LEMMA StoreTypes == ASSUME StoreInv' PROVE StoreTypeOK'
BY DEF StoreInv, MapOK, StoreTypeOK

\* A step of a handler.
LEMMA HandlerStep ==
    ASSUME Inv, NEW h \in Handlers, HandlerNext(h), StoreInv'
    PROVE  Inv'
<1>0. StoreInv /\ TypeOK /\ Timely
    BY DEF Inv
<1>1. /\ UNCHANGED timers
      /\ calls' \in [Handlers -> Calls]
      /\ \A g \in Handlers \ {h} : calls'[g] = calls[g]
      /\ calls'[h] # Idle => /\ up
                             /\ calls'[h].now <= clock
                             /\ clock <= calls'[h].now + MaxStale
      /\ touched' \in [Nodes -> 0..clock]
      /\ acked' \in [Nodes -> 0..clock]
      /\ shielded' \subseteq Nodes
    BY <1>0, HandlerCalls
<1>2. TypeOK'
    <2>1. StoreTypeOK'
        BY StoreTypes
    <2>2. \A g \in Handlers : calls'[g] # Idle => up /\ calls'[g].now <= clock
        BY <1>0, <1>1 DEF TypeOK
    <2> QED BY <1>0, <1>1, <2>1, <2>2 DEF TypeOK, timers
<1>3. Timely'
    BY <1>0, <1>1 DEF Timely, timers
<1>4. \/ UNCHANGED <<storeVars, touched, acked>>
      \/ /\ calls[h] # Idle
         /\ \E n \in Nodes, refreshed \in BOOLEAN, err \in Errors :
                /\ Effect(n, calls[h].now, refreshed, err)
                /\ Note(n, refreshed, err)
    BY <1>0, HandlerEffect
<1>5. /\ Fresh(nodes)' /\ Fresh(file)'
      /\ \A g \in Handlers \ {h} : OpenOK(g)'
      /\ \A k \in Nodes : Watched(k)'
    <2>1. CASE UNCHANGED <<storeVars, touched, acked>>
        <3>1. Fresh(nodes)' /\ Fresh(file)'
            BY <2>1 DEF Inv, Fresh, storeVars
        <3>2. \A g \in Handlers \ {h} : OpenOK(g)'
            BY <1>1, <2>1 DEF Inv, OpenOK, CallOK, storeVars
        <3>3. \A k \in Nodes : Watched(k)'
            BY <1>1, <2>1 DEF Inv, Watched, NextCheck, storeVars, timers
        <3> QED BY <3>1, <3>2, <3>3
    <2>2. ASSUME calls[h] # Idle, NEW n \in Nodes, NEW refreshed \in BOOLEAN,
                 NEW err \in Errors, Effect(n, calls[h].now, refreshed, err),
                 Note(n, refreshed, err)
          PROVE  /\ Fresh(nodes)' /\ Fresh(file)'
                 /\ \A g \in Handlers \ {h} : OpenOK(g)'
                 /\ \A k \in Nodes : Watched(k)'
        <3>1. /\ calls[h].now \in Times
              /\ calls[h].now <= clock
              /\ clock <= calls[h].now + MaxStale
            BY <1>0, <2>2, CallTypes DEF TypeOK, Timely
        <3>2. Fresh(nodes)' /\ Fresh(file)'
            BY <2>2, <3>1, EffectFresh
        <3>3. \A g \in Handlers \ {h} : OpenOK(g)'
            BY <1>1, <2>2, <3>1, EffectOpen
        <3>4. \A k \in Nodes : Watched(k)'
            BY <1>1, <2>2, <3>1, EffectWatched
        <3> QED BY <3>2, <3>3, <3>4
    <2> QED BY <1>4, <2>1, <2>2
<1>6. OpenOK(h)'
    <2>0. calls \in [Handlers -> Calls] /\ clock \in Nat /\ MaxStale \in Nat
          /\ LeaseDuration \in Nat
        BY <1>0, TimesOK, ServerAssumption, StoreAssumption DEF TypeOK
    <2>1. CASE UnsealValidate(h)
        <3> DEFINE n == calls[h].node
                   now == calls[h].now
        <3>1. n \in Nodes /\ now \in Times /\ now \in Nat
            BY <1>0, <2>1, CallTypes, TimesOK DEF UnsealValidate, Idle
        <3>2. PICK ok \in PersistOutcomes, err \in Errors :
                  /\ Validate(n, now, ok, err)
                  /\ calls' = [calls EXCEPT ![h] = IF err \in {"none", "notFound"}
                                                   THEN [calls[h] EXCEPT !.pc = "open"]
                                                   ELSE Idle]
            BY <2>1 DEF UnsealValidate
        <3>3. CASE err \notin {"none", "notFound"}
            <4>1. calls'[h] = Idle
                BY <2>0, <3>2, <3>3
            <4> QED BY <4>1 DEF OpenOK, Idle
        <3>4. CASE err \in {"none", "notFound"}
            <4>1. /\ UNCHANGED storeVars
                  /\ nodes[n] # Absent => /\ nodes[n].Status # "blocked"
                                          /\ now <= nodes[n].LastHeartbeatAt + LeaseDuration
                BY <1>0, <3>1, <3>2, <3>4, OutcomesOK, ValidateEffect
            <4>2. calls'[h].pc = "open" /\ calls'[h].node = n /\ calls'[h].now = now
                BY <1>0, <2>0, <2>1, <3>2, <3>4, CallTypes DEF UnsealValidate
            <4>3. nodes[n] # Absent => /\ nodes[n].LastHeartbeatAt \in Nat
                                       /\ nodes[n].LastHeartbeatAt <= touched[n]
                                       /\ touched[n] \in Nat
                <5>1. touched[n] \in Nat
                    BY <1>0, <2>0, <3>1 DEF TypeOK
                <5>2. nodes[n] # Absent => nodes[n].LastHeartbeatAt \in Nat
                    BY <1>0, <3>1, TimesOK DEF StoreInv, MapOK, RecordOK
                <5> QED BY <3>1, <5>1, <5>2 DEF Inv, Fresh
            <4>4. nodes[n] # Absent => now <= touched[n] + LeaseDuration
                BY <2>0, <3>1, <4>1, <4>3
            <4>5. touched' = touched
                BY <2>1 DEF UnsealValidate, history
            <4>6. nodes[n] # Absent => now <= touched[n] + LeaseDuration + (1 - 1) * MaxStale
                BY <2>0, <3>1, <4>3, <4>4
            <4>7. CallOK(calls[h], 1)'
                BY <4>1, <4>2, <4>5, <4>6 DEF CallOK, storeVars
            <4> QED BY <4>2, <4>7 DEF OpenOK
        <3> QED BY <3>3, <3>4
    <2>2. CASE UnsealOpen(h)
        <3> DEFINE n == calls[h].node
        <3>1. /\ calls[h] \in [pc : {"validate", "open", "bootstrap"}, node : Nodes,
                               ip : IPs, now : Times]
              /\ calls[h] # Idle
            BY <1>0, <2>2, CallTypes DEF UnsealOpen
        <3>2. calls'[h].pc = "bootstrap" /\ calls'[h].node = n /\ calls'[h].now = clock
            BY <2>0, <2>2, <3>1 DEF UnsealOpen
        <3>3. clock <= calls[h].now + MaxStale /\ calls[h].now \in Nat /\ n \in Nodes
            BY <1>0, <3>1, TimesOK DEF Timely
        <3>4. CallOK(calls[h], 1)
            BY <2>2 DEF UnsealOpen, Inv, OpenOK
        <3>5. touched[n] \in Nat /\ (nodes[n] # Absent => nodes[n].BlockedAt \in Nat)
            BY <1>0, <2>0, <3>3 DEF TypeOK, StoreInv, MapOK, RecordOK, LeaseRecord
        <3>6. nodes[n] # Absent =>
                  /\ clock <= touched[n] + LeaseDuration + (2 - 1) * MaxStale
                  /\ nodes[n].Status = "blocked" => clock <= nodes[n].BlockedAt + 2 * MaxStale
            BY <2>0, <3>3, <3>4, <3>5 DEF CallOK
        <3>7. nodes' = nodes /\ touched' = touched
            BY <2>2 DEF UnsealOpen, storeVars, history
        <3>8. CallOK(calls[h], 2)'
            BY <3>2, <3>6, <3>7 DEF CallOK
        <3> QED BY <3>2, <3>8 DEF OpenOK
    <2>3. CASE ~UnsealValidate(h) /\ ~UnsealOpen(h)
        <3>1. calls'[h].pc \notin {"open", "bootstrap"}
            <4>1. CASE Return(h)
                BY <2>0, <4>1 DEF Return, Idle
            <4>2. ASSUME NEW call, Receive(h, call), call.pc \notin {"open", "bootstrap"}
                  PROVE  calls'[h].pc \notin {"open", "bootstrap"}
                BY <2>0, <4>2 DEF Receive
            <4>3. CASE \/ ReceiveUnseal(h) \/ ReceiveHeartbeat(h) \/ ReceiveHTTPHeartbeat(h)
                       \/ ReceiveUnblock(h) \/ ReceiveSetMaintenance(h)
                BY <4>2, <4>3 DEF ReceiveUnseal, ReceiveHeartbeat, ReceiveHTTPHeartbeat,
                   ReceiveUnblock, ReceiveSetMaintenance
            <4> QED BY <2>3, <4>1, <4>3 DEF HandlerNext, UnsealFail, UnsealBootstrap,
                   Heartbeat, handleHeartbeat, handleUnblockNode, handleSetMaintenance
        <3> QED BY <3>1 DEF OpenOK
    <2> QED BY <2>1, <2>2, <2>3
<1> QED BY <1>2, <1>3, <1>5, <1>6 DEF Inv

\* What a check does to the record of node k: it blocks it, with the time it
\* read, exactly if it is overdue.
Checked(k, now) ==
    IF nodes[k] # Absent /\ Overdue(nodes[k], now)
    THEN /\ nodes'[k] # Absent
         /\ nodes'[k].LastHeartbeatAt = nodes[k].LastHeartbeatAt
         /\ nodes'[k].Status = "blocked"
         /\ nodes'[k].BlockedAt = now
    ELSE nodes'[k] = nodes[k]

\* BlockExpiredNodes treats every record like that.
LEMMA CheckEffect ==
    ASSUME StoreInv, NEW now \in Times, NEW ok, BlockExpiredNodes(now, ok)
    PROVE  /\ \A k \in Nodes : Checked(k, now)
           /\ file' \in {file, nodes'}
<1> DEFINE overdue == {n \in Registered(nodes) : Overdue(nodes[n], now)}
<1>1. CASE overdue = {} /\ UNCHANGED storeVars
    <2>1. \A k \in Nodes : ~(nodes[k] # Absent /\ Overdue(nodes[k], now))
        BY <1>1 DEF Registered
    <2> QED BY <1>1, <2>1 DEF Checked, storeVars
<1>2. CASE Save([n \in Nodes |-> IF n \in overdue THEN BlockRecord(nodes[n], now)
                                                  ELSE nodes[n]], now, ok)
    <2>1. /\ nodes' = [n \in Nodes |-> IF n \in overdue THEN BlockRecord(nodes[n], now)
                                                        ELSE nodes[n]]
          /\ file' \in {file, nodes'}
        BY <1>2 DEF Save, persistLocked
    <2>2. ASSUME NEW k \in Nodes PROVE Checked(k, now)
        <3>1. CASE nodes[k] # Absent /\ Overdue(nodes[k], now)
            <4> DEFINE r == BlockRecord(nodes[k], now)
            <4>1. nodes'[k] = r
                BY <2>1, <3>1 DEF Registered
            <4>2. RecordOK(nodes[k])
                BY <3>1 DEF StoreInv, MapOK
            <4>3. r \in LeaseRecord
                BY <4>2, BlockOK DEF RecordOK
            <4>4. /\ r.LastHeartbeatAt = nodes[k].LastHeartbeatAt
                  /\ r.Status = "blocked"
                  /\ r.BlockedAt = now
                BY <4>2 DEF RecordOK, LeaseRecord, BlockRecord
            <4> QED BY <3>1, <4>1, <4>3, <4>4, StoreAssumption DEF Checked
        <3>2. CASE ~(nodes[k] # Absent /\ Overdue(nodes[k], now))
            BY <2>1, <3>2 DEF Registered, Checked
        <3> QED BY <3>1, <3>2
    <2> QED BY <2>1, <2>2
<1> QED BY <1>1, <1>2 DEF BlockExpiredNodes

\* Numbers, for the steps below.
LEMMA Numbers ==
    ASSUME TypeOK
    PROVE  /\ clock \in Nat /\ clock # Zero /\ due \in Nat /\ check \in Nat /\ started \in Nat
           /\ CheckInterval \in Nat /\ MaxStale \in Nat /\ HeartbeatTimeout \in Nat
           /\ LeaseDuration \in Nat /\ MaxStale < CheckInterval
           /\ MaxStale <= HeartbeatTimeout
BY TimesOK, StoreAssumption, ServerAssumption DEF TypeOK

\* Run receives a tick.
LEMMA CheckStartStep ==
    ASSUME Inv, CheckStart, StoreInv'
    PROVE  Inv'
<1>0. TypeOK /\ Timely
    BY DEF Inv
<1> USE Numbers
<1>1. /\ up /\ check = Zero /\ clock >= due /\ check' = clock /\ due' = due + CheckInterval
      /\ UNCHANGED <<nodes, file, gauges, clock, up, started, calls, touched, acked, shielded>>
    BY DEF CheckStart, storeVars, history
<1>2. TypeOK'
    BY <1>0, <1>1, StoreTypes DEF TypeOK
<1>3. Timely'
    BY <1>0, <1>1 DEF Timely
<1>4. Fresh(nodes)' /\ Fresh(file)' /\ \A h \in Handlers : OpenOK(h)'
    BY <1>1 DEF Inv, Fresh, OpenOK, CallOK
<1>5. NextCheck' = NextCheck
    BY <1>0, <1>1 DEF NextCheck
<1>6. \A n \in Nodes : Watched(n)'
    BY <1>1, <1>5 DEF Inv, Watched
<1> QED BY <1>2, <1>3, <1>4, <1>6 DEF Inv

\* Check blocks the overdue nodes.
LEMMA CheckStep ==
    ASSUME Inv, Check, StoreInv'
    PROVE  Inv'
<1>0. StoreInv /\ TypeOK /\ Timely
    BY DEF Inv
<1> USE Numbers
<1>1. /\ check # Zero /\ check' = Zero
      /\ UNCHANGED <<clock, up, due, started, calls, touched, acked, shielded>>
    BY DEF Check, history
<1>2. check \in Times /\ check <= clock /\ clock <= check + MaxStale
    <2>1. clock \in 1..MaxTime /\ MaxTime \in Nat /\ check \in 0..clock
        BY <1>0, StoreAssumption DEF TypeOK, Times
    <2> QED BY <1>0, <1>1, <2>1 DEF Timely, Times, Zero
<1>3. (\A k \in Nodes : Checked(k, check)) /\ file' \in {file, nodes'}
    BY <1>0, <1>2, CheckEffect DEF Check
<1>4. TypeOK'
    BY <1>0, <1>1, StoreTypes DEF TypeOK, Zero
<1>5. Timely'
    BY <1>0, <1>1 DEF Timely
<1>6. Fresh(nodes)' /\ Fresh(file)'
    <2>1. ASSUME NEW k \in Nodes
          PROVE  /\ acked'[k] # Zero => nodes'[k] # Absent
                 /\ nodes'[k] # Absent => /\ nodes'[k].LastHeartbeatAt <= touched'[k]
                                          /\ acked'[k] <= nodes'[k].LastHeartbeatAt + MaxStale
        <3>1. Checked(k, check)
            BY <1>3
        <3> QED BY <1>1, <3>1 DEF Inv, Fresh, Checked
    <2>2. Fresh(nodes)'
        BY <2>1 DEF Fresh
    <2>3. CASE file' = nodes'
        BY <2>1, <2>2, <2>3 DEF Fresh
    <2>4. CASE file' = file
        BY <1>1, <2>2, <2>4 DEF Inv, Fresh
    <2> QED BY <1>3, <2>3, <2>4
<1>7. ASSUME NEW h \in Handlers PROVE OpenOK(h)'
    <2> DEFINE c == calls[h]
               k == c.node
    <2>1. SUFFICES ASSUME c.pc \in {"open", "bootstrap"}, nodes'[k] # Absent
                   PROVE  OpenOK(h)'
        BY <1>1 DEF OpenOK, CallOK
    <2>2. k \in Nodes /\ c.now \in Nat /\ c.now <= clock
        BY <1>0, <2>1, CallTypes, TimesOK DEF TypeOK, Idle
    <2>3. Checked(k, check)
        BY <1>3, <2>2
    <2>4. CASE nodes[k] # Absent /\ Overdue(nodes[k], check)
        <3>1. nodes'[k].BlockedAt = check /\ c.now <= check + MaxStale
            BY <1>0, <1>2, <2>2, <2>3, <2>4 DEF Checked
        <3>2. c.now <= check + 1 * MaxStale /\ c.now <= check + 2 * MaxStale
            BY <1>0, <2>2, <3>1
        <3>3. /\ c.pc = "open" =>
                     c.now <= touched[k] + LeaseDuration + (1 - 1) * MaxStale
              /\ c.pc = "bootstrap" =>
                     c.now <= touched[k] + LeaseDuration + (2 - 1) * MaxStale
            BY <2>4 DEF Inv, OpenOK, CallOK
        <3> QED BY <1>1, <3>1, <3>2, <3>3 DEF OpenOK, CallOK
    <2>5. CASE ~(nodes[k] # Absent /\ Overdue(nodes[k], check))
        <3>1. nodes'[k] = nodes[k]
            BY <2>3, <2>5 DEF Checked
        <3> QED BY <1>1, <3>1 DEF Inv, OpenOK, CallOK
    <2> QED BY <2>4, <2>5
<1>8. ASSUME NEW n \in Nodes PROVE Watched(n)'
    <2>1. SUFFICES ASSUME up, nodes'[n] # Absent, nodes'[n].Status = "active",
                          ~nodes'[n].Maintenance
                   PROVE  due - CheckInterval <= nodes'[n].LastHeartbeatAt + HeartbeatTimeout
        BY <1>1 DEF Watched, NextCheck
    <2>2. nodes'[n] = nodes[n] /\ ~Overdue(nodes[n], check)
        BY <1>3, <2>1 DEF Checked
    <2>3. nodes[n].LastHeartbeatAt \in Nat /\ nodes[n].LastHeartbeatAt # Zero
        BY <1>0, <2>1, <2>2, TimesOK DEF StoreInv, MapOK, RecordOK
    <2>4. check - nodes[n].LastHeartbeatAt <= HeartbeatTimeout
        BY <1>0, <2>1, <2>2, <2>3 DEF Overdue
    <2>5. due - CheckInterval <= check
        BY <1>0, <1>1 DEF Timely
    <2> QED BY <1>0, <2>2, <2>3, <2>4, <2>5
<1> QED BY <1>4, <1>5, <1>6, <1>7, <1>8 DEF Inv

\* The process dies.
LEMMA CrashStep ==
    ASSUME Inv, Crash, StoreInv'
    PROVE  Inv'
<1>0. TypeOK
    BY DEF Inv
<1>1. /\ up' = FALSE /\ calls' = [h \in Handlers |-> Idle] /\ check' = Zero
      /\ UNCHANGED <<nodes, file, gauges, clock, due, started, touched, acked, shielded>>
    BY DEF Crash, storeVars, history
<1>2. TypeOK'
    <2>1. calls' \in [Handlers -> Calls] /\ \A h \in Handlers : calls'[h] = Idle
        BY <1>1 DEF Calls
    <2>2. check' \in 0..clock'
        BY <1>0, <1>1, Numbers DEF Zero
    <2> QED BY <1>0, <1>1, <2>1, <2>2, StoreTypes DEF TypeOK
<1>3. Timely' /\ (\A n \in Nodes : Watched(n)') /\ (\A h \in Handlers : OpenOK(h)')
    BY <1>1 DEF Timely, Watched, OpenOK, Idle
<1>4. Fresh(nodes)' /\ Fresh(file)'
    BY <1>1 DEF Inv, Fresh
<1> QED BY <1>2, <1>3, <1>4 DEF Inv

\* A new process reads the file.
LEMMA RestartStep ==
    ASSUME Inv, Restart, StoreInv'
    PROVE  Inv'
<1>0. TypeOK /\ Timely
    BY DEF Inv
<1> USE Numbers
<1>1. /\ ~up /\ up' = TRUE /\ nodes' = file /\ file' = file
      /\ started' = clock /\ due' = clock + CheckInterval
      /\ UNCHANGED <<clock, check, calls, touched, acked, shielded>>
    BY DEF Restart, Load, history
<1>2. check = Zero /\ \A h \in Handlers : calls[h] = Idle
    BY <1>0, <1>1 DEF TypeOK
<1>3. TypeOK'
    <2>1. started' \in 1..clock' /\ due' \in Nat
        BY <1>0, <1>1 DEF Zero
    <2>2. calls' \in [Handlers -> Calls] /\ \A h \in Handlers : calls'[h] = Idle
        BY <1>0, <1>1, <1>2 DEF TypeOK
    <2> QED BY <1>0, <1>1, <1>2, <2>1, <2>2, StoreTypes DEF TypeOK
<1>4. Timely' /\ (\A n \in Nodes : Watched(n)') /\ (\A h \in Handlers : OpenOK(h)')
    BY <1>0, <1>1, <1>2 DEF Timely, Watched, NextCheck, OpenOK, Idle
<1>5. Fresh(nodes)' /\ Fresh(file)'
    BY <1>1 DEF Inv, Fresh
<1> QED BY <1>3, <1>4, <1>5 DEF Inv

\* Time passes.
LEMMA TickStep ==
    ASSUME Inv, Tick, StoreInv'
    PROVE  Inv'
<1>0. TypeOK /\ Timely
    BY DEF Inv
<1> USE Numbers
<1>1. /\ clock < MaxTime /\ clock' = clock + 1
      /\ \A h \in Handlers : calls[h] # Idle => clock - calls[h].now < MaxStale
      /\ check # Zero => clock - check < MaxStale
      /\ up => clock - due < MaxStale
      /\ UNCHANGED <<nodes, file, gauges, up, check, due, started, calls, touched, acked, shielded>>
    BY DEF Tick, storeVars, history
<1>2. \A h \in Handlers : calls[h] # Idle => calls[h].now \in Nat
    BY <1>0, CallTypes, TimesOK
<1>3. TypeOK'
    <2>1. clock' \in Times
        BY <1>0, <1>1, StoreAssumption DEF TypeOK, Times
    <2>2. 0..clock \subseteq 0..clock' /\ 1..clock \subseteq 1..clock'
        BY <1>0, <1>1
    <2>3. touched' \in [Nodes -> 0..clock'] /\ acked' \in [Nodes -> 0..clock']
        BY <1>0, <1>1, <2>2 DEF TypeOK
    <2>4. \A h \in Handlers : calls[h] # Idle => up /\ calls[h].now <= clock'
        BY <1>0, <1>1, <1>2 DEF TypeOK
    <2> QED BY <1>0, <1>1, <2>1, <2>2, <2>3, <2>4, StoreTypes DEF TypeOK
<1>4. Timely'
    BY <1>0, <1>1, <1>2 DEF Timely
<1>5. (\A n \in Nodes : Watched(n)') /\ (\A h \in Handlers : OpenOK(h)')
    BY <1>1 DEF Inv, Watched, NextCheck, OpenOK, CallOK
<1>6. Fresh(nodes)' /\ Fresh(file)'
    BY <1>1 DEF Inv, Fresh
<1> QED BY <1>3, <1>4, <1>5, <1>6 DEF Inv

\* Any step.
LEMMA ServerStep ==
    ASSUME Inv, [Next]_vars
    PROVE  Inv'
<1>1. StoreInv'
    BY ServerIsStore, StoreStep DEF Inv
<1>2. CASE UNCHANGED vars
    <2>1. /\ UNCHANGED <<nodes, file, gauges, clock, up, check, due, started, calls>>
          /\ UNCHANGED <<touched, acked, shielded>>
        BY <1>2 DEF vars, storeVars, timers, history
    <2> QED BY <1>1, <2>1, StoreTypes
            DEF Inv, TypeOK, Timely, Fresh, OpenOK, CallOK, Watched, NextCheck
<1> QED BY <1>1, <1>2, HandlerStep, CheckStartStep, CheckStep, CrashStep, RestartStep,
           TickStep DEF Next

\* A server that starts with an empty file.
LEMMA ServerInitOK == Init => Inv
<1> SUFFICES ASSUME Init PROVE Inv
    OBVIOUS
<1>1. StoreInv /\ StoreTypeOK
    BY StoreInitOK, StoreInvImplies DEF Init
<1>2. CheckInterval \in Nat /\ MaxStale \in Nat /\ MaxTime \in Nat /\ MaxTime > 0
    BY StoreAssumption, ServerAssumption
<1>3. TypeOK
    BY <1>1, <1>2 DEF Init, TypeOK, Times, Zero, Calls
<1>4. Timely /\ (\A n \in Nodes : Watched(n)) /\ (\A h \in Handlers : OpenOK(h))
    BY <1>2 DEF Init, Timely, Watched, NextCheck, OpenOK, Idle
<1>5. Fresh(nodes) /\ Fresh(file)
    BY DEF Init, StoreInit, NoLeases, Fresh
<1> QED BY <1>1, <1>3, <1>4, <1>5 DEF Inv

-----------------------------------------------------------------------------
(* Theorems *)

\* The inductive invariant.
THEOREM ServerInvariant == Spec => []Inv
BY ServerInitOK, ServerStep, PTL DEF Spec

\* Every variable of the server has its type, a process that is down works
\* on nothing and no handler has read a time still to come.
THEOREM ServerTypeCorrect == Spec => []TypeOK
<1>1. Inv => TypeOK
    BY DEF Inv
<1> QED BY <1>1, ServerInvariant, PTL

\* The server, with its concurrent handlers, its dead-man's switch, crashes
\* and restarts, implements the lease store: whatever is true of the store
\* on its own is true of the store in the server.
THEOREM ServerImplementsStore == Spec => StoreSpec
<1>1. Init => StoreInit
    BY DEF Init
<1>2. TypeOK /\ [Next]_vars => [StoreNext]_storeVars
    BY ServerIsStore
<1> QED BY <1>1, <1>2, ServerTypeCorrect, PTL DEF Spec, StoreSpec

\* In the server too, no address belongs to two nodes.
THEOREM ServerUniqueUnsealIP == Spec => []UniqueUnsealIP
BY ServerImplementsStore, StoreUniqueUnsealIP, PTL

\* The gauges of the server's metrics count every lease once, and count no
\* lease as active that Validate refuses by its status, after every call of a
\* handler, check of the dead-man's switch, restart and failed write.
THEOREM ServerGauges == Spec => []GaugesCountEveryLease
BY ServerImplementsStore, StoreGauges, PTL

\* No acknowledged refresh of a lease is lost, whatever crashes, failed
\* writes and late calls follow.
THEOREM ServerAckedRefreshIsDurable == Spec => []AckedRefreshIsDurable
<1>1. Inv => AckedRefreshIsDurable
    BY DEF Inv, Fresh, AckedRefreshIsDurable
<1> QED BY <1>1, ServerInvariant, PTL

\* A silent active node outside maintenance is blocked within
\* HeartbeatTimeout + CheckInterval and two delays.
THEOREM ServerNoLateBlock == Spec => []NoLateBlock
<1>1. Inv => NoLateBlock
    <2> SUFFICES ASSUME Inv, NEW n \in Nodes, nodes[n] # Absent, up,
                        nodes[n].Status = "active", ~nodes[n].Maintenance
                 PROVE  \/ clock - nodes[n].LastHeartbeatAt <=
                               HeartbeatTimeout + CheckInterval + 2 * MaxStale
                        \/ clock - started <= CheckInterval + 2 * MaxStale
        BY DEF NoLateBlock, Registered
    <2> USE Numbers
    <2>0. TypeOK /\ Timely /\ Watched(n)
        BY DEF Inv
    <2>1. nodes[n].LastHeartbeatAt \in Nat
        BY TimesOK DEF Inv, StoreInv, MapOK, RecordOK
    <2>2. clock <= NextCheck + 2 * MaxStale /\ NextCheck \in Int
        BY <2>0 DEF NextCheck, Timely
    <2>3. \/ NextCheck <= started + CheckInterval
          \/ NextCheck - CheckInterval <= nodes[n].LastHeartbeatAt + HeartbeatTimeout
        BY <2>0 DEF Watched
    <2> QED BY <2>0, <2>1, <2>2, <2>3
<1> QED BY <1>1, ServerInvariant, PTL

\* Unseal hands out the key of a registered node only while its lease runs.
THEOREM ServerKeyNeedsLease == Spec => KeyNeedsLease
<1>1. ASSUME Inv, NEW h \in Handlers, KeyReleased(h), nodes[calls[h].node] # Absent
      PROVE  clock <= touched[calls[h].node] + LeaseDuration + 2 * MaxStale
    <2> USE Numbers
    <2>0. TypeOK /\ Timely /\ OpenOK(h)
        BY <1>1 DEF Inv
    <2>1. calls[h].pc = "bootstrap" /\ calls[h] # Idle
        BY <1>1 DEF KeyReleased, Idle
    <2>2. calls[h].node \in Nodes /\ calls[h].now \in Nat
        BY <2>0, <2>1, CallTypes, TimesOK
    <2>3. clock <= calls[h].now + MaxStale
        BY <2>0, <2>1 DEF Timely
    <2>4. calls[h].now <= touched[calls[h].node] + LeaseDuration + (2 - 1) * MaxStale
        BY <1>1, <2>0, <2>1 DEF OpenOK, CallOK
    <2>5. touched[calls[h].node] \in Nat
        BY <2>0, <2>2 DEF TypeOK
    <2> QED BY <2>0, <2>2, <2>3, <2>4, <2>5
<1>2. Inv => [\A h \in Handlers :
                 KeyReleased(h) /\ nodes[calls[h].node] # Absent =>
                     clock <= touched[calls[h].node] + LeaseDuration + 2 * MaxStale]_vars
    BY <1>1
<1> QED BY <1>2, ServerInvariant, PTL DEF KeyNeedsLease

\* A blocked node gets its key only within three delays of the block.
THEOREM ServerKeySoonAfterBlock == Spec => KeySoonAfterBlock
<1> DEFINE record(h) == nodes[calls[h].node]
<1>1. ASSUME Inv, NEW h \in Handlers, KeyReleased(h), record(h) # Absent,
             record(h).Status = "blocked"
      PROVE  clock <= record(h).BlockedAt + 3 * MaxStale
    <2> USE Numbers
    <2>0. TypeOK /\ Timely /\ OpenOK(h)
        BY <1>1 DEF Inv
    <2>1. calls[h].pc = "bootstrap" /\ calls[h] # Idle
        BY <1>1 DEF KeyReleased, Idle
    <2>2. calls[h].node \in Nodes /\ calls[h].now \in Nat
        BY <2>0, <2>1, CallTypes, TimesOK
    <2>3. clock <= calls[h].now + MaxStale
        BY <2>0, <2>1 DEF Timely
    <2>4. calls[h].now <= record(h).BlockedAt + 2 * MaxStale
        BY <1>1, <2>0, <2>1 DEF OpenOK, CallOK
    <2>5. record(h).BlockedAt \in Nat
        <3>1. record(h) \in LeaseRecord
            BY <1>1, <2>2 DEF Inv, StoreInv, MapOK, RecordOK
        <3> QED BY <3>1 DEF LeaseRecord
    <2> QED BY <2>0, <2>2, <2>3, <2>4, <2>5
<1>2. Inv => [\A h \in Handlers :
                 LET r == nodes[calls[h].node] IN
                 KeyReleased(h) /\ r # Absent /\ r.Status = "blocked" =>
                     clock <= r.BlockedAt + 3 * MaxStale]_vars
    BY <1>1
<1> QED BY <1>2, ServerInvariant, PTL DEF KeySoonAfterBlock

\* A node whose heartbeat was acknowledged is not blocked before
\* HeartbeatTimeout has passed, less one delay.
THEOREM ServerNoEarlyBlock == Spec => NoEarlyBlock
<1>1. ASSUME Inv, [Next]_vars, NEW n \in Nodes,
             nodes[n] # Absent, nodes'[n] # Absent,
             nodes[n].Status # "blocked", nodes'[n].Status = "blocked", check # Zero
      PROVE  clock - acked[n] + MaxStale > HeartbeatTimeout
    <2> USE Numbers
    <2>0. StoreInv /\ TypeOK /\ Timely
        BY <1>1 DEF Inv
    <2>1. ASSUME NEW h \in Handlers, HandlerNext(h)
          PROVE  FALSE
        <3>1. CASE UNCHANGED storeVars
            BY <1>1, <3>1 DEF storeVars
        <3>2. ASSUME NEW k \in Nodes, NEW refreshed \in BOOLEAN, NEW err,
                     Effect(k, calls[h].now, refreshed, err)
              PROVE  FALSE
            BY <1>1, <3>2 DEF Effect, Kept, Renewed
        <3> QED BY <2>0, <2>1, <3>1, <3>2, HandlerEffect
    <2>2. ~Restart
        <3>1. up
            BY <1>1, <2>0 DEF TypeOK
        <3> QED BY <3>1 DEF Restart
    <2>3. ~CheckStart /\ ~Crash /\ ~Tick /\ ~UNCHANGED vars
        BY <1>1 DEF CheckStart, Crash, Tick, vars, storeVars
    <2>4. Check
        BY <1>1, <2>1, <2>2, <2>3 DEF Next
    <2>5. check \in Times /\ check <= clock
        <3>1. clock \in 1..MaxTime /\ MaxTime \in Nat /\ check \in 0..clock
            BY <2>0, StoreAssumption DEF TypeOK, Times
        <3> QED BY <1>1, <3>1 DEF Times, Zero
    <2>6. Checked(n, check)
        BY <2>0, <2>4, <2>5, CheckEffect DEF Check
    <2>7. check - nodes[n].LastHeartbeatAt > HeartbeatTimeout
        BY <1>1, <2>6 DEF Checked, Overdue
    <2>8. nodes[n].LastHeartbeatAt \in Nat /\ acked[n] \in Nat
        BY <1>1, <2>0, TimesOK DEF StoreInv, MapOK, RecordOK, TypeOK
    <2>9. acked[n] <= nodes[n].LastHeartbeatAt + MaxStale
        BY <1>1 DEF Inv, Fresh
    <2> QED BY <2>0, <2>5, <2>7, <2>8, <2>9
<1>2. Inv /\ [Next]_vars =>
        [\A n \in Nodes :
            /\ nodes[n] # Absent /\ nodes'[n] # Absent
            /\ nodes[n].Status # "blocked" /\ nodes'[n].Status = "blocked"
            /\ check # Zero
            => clock - acked[n] + MaxStale > HeartbeatTimeout]_vars
    BY <1>1
<1> QED BY <1>2, ServerInvariant, PTL DEF NoEarlyBlock, Spec

-----------------------------------------------------------------------------
(* Maintenance mode.  The records of the shielded nodes have it, in memory   *)
(* and in the file, whatever else happens to them.                           *)

InMaintenance(m, k) == m[k] # Absent /\ m[k].Maintenance

ShieldsHold ==
    \A k \in shielded : InMaintenance(nodes, k) /\ InMaintenance(file, k)

Stays(k) == InMaintenance(nodes, k) => InMaintenance(nodes', k)

\* Nodes keep their shield in a step that takes no node's maintenance mode.
LEMMA StaysShielded ==
    ASSUME TypeOK, ShieldsHold, shielded' \subseteq shielded,
           \A k \in shielded' : Stays(k), file' \in {file, nodes'}
    PROVE  ShieldsHold'
BY DEF ShieldsHold, Stays, InMaintenance

LEMMA KeptStays ==
    ASSUME NEW k \in Nodes, Kept(k)
    PROVE  Stays(k)
BY DEF Kept, Stays, InMaintenance

\* The record that a refresh or an unblock writes keeps the mode.
LEMMA RefreshStays ==
    ASSUME NEW r \in LeaseRecord, NEW now \in Times
    PROVE  /\ Refresh(r, now).Maintenance = r.Maintenance
           /\ [Refresh(r, now) EXCEPT !.Status = "active"].Maintenance = r.Maintenance
           /\ UnblockRecord(r, now).Maintenance = r.Maintenance
           /\ \A ip \in IPs : [Refresh(r, now) EXCEPT !.NodeIP = ip, !.Status = "active"].Maintenance
                                = r.Maintenance
BY DEF Refresh, UnblockRecord, LeaseRecord

\* A renewal that keeps the mode, besides the nodes that are not renewed.
LEMMA EffectStays ==
    ASSUME NEW n \in Nodes, NEW now, NEW refreshed \in BOOLEAN, NEW err,
           Effect(n, now, refreshed, err), refreshed => Stays(n)
    PROVE  /\ \A k \in Nodes : Stays(k)
           /\ file' \in {file, nodes'}
<1>1. Stays(n)
    BY KeptStays DEF Effect
<1> QED BY <1>1, KeptStays DEF Effect

\* One case for each handler: only Bootstrap and the end of maintenance take
\* the mode, and they take the shield with it.
LEMMA HandlerShields ==
    ASSUME StoreInv, TypeOK, ShieldsHold, NEW h \in Handlers, HandlerNext(h)
    PROVE  ShieldsHold'
<1> DEFINE n == calls[h].node
           now == calls[h].now
<1>0. shielded \subseteq Nodes
    BY DEF TypeOK
<1>1. CASE \/ ReceiveUnseal(h) \/ ReceiveHeartbeat(h) \/ ReceiveHTTPHeartbeat(h)
           \/ ReceiveUnblock(h) \/ ReceiveSetMaintenance(h) \/ UnsealFail(h) \/ UnsealOpen(h)
    <2>1. UNCHANGED <<storeVars, history>>
        BY <1>1 DEF ReceiveUnseal, ReceiveHeartbeat, ReceiveHTTPHeartbeat, ReceiveUnblock,
                ReceiveSetMaintenance, Receive, UnsealFail, UnsealOpen
    <2> QED BY <2>1 DEF ShieldsHold, InMaintenance, storeVars, history
<1>2. CASE UnsealValidate(h)
    <2>1. n \in Nodes /\ now \in Times /\ shielded' = shielded
        BY <1>2, CallTypes DEF UnsealValidate, history
    <2>2. PICK ok \in PersistOutcomes, err \in Errors : Validate(n, now, ok, err)
        BY <1>2 DEF UnsealValidate
    <2>3. Effect(n, now, FALSE, err)
        BY <2>1, <2>2, OutcomesOK, ValidateEffect
    <2>4. (\A k \in Nodes : Stays(k)) /\ file' \in {file, nodes'}
        BY <2>1, <2>3, EffectStays
    <2> QED BY <1>0, <2>1, <2>4, StaysShielded
<1>3. CASE UnsealBootstrap(h)
    <2>1. n \in Nodes /\ calls[h].ip \in IPs /\ now \in Times
        BY <1>3, CallTypes DEF UnsealBootstrap
    <2>2. PICK ok \in PersistOutcomes, err \in Errors : Bootstrap(n, calls[h].ip, now, ok, err)
        BY <1>3 DEF UnsealBootstrap
    <2>3. Effect(n, now, TRUE, err)
        BY <2>1, <2>2, OutcomesOK, BootstrapEffect
    <2>4. shielded' = shielded \ {n}
        BY <1>3 DEF UnsealBootstrap
    <2>5. (\A k \in Nodes \ {n} : Stays(k)) /\ file' \in {file, nodes'}
        BY <2>3, KeptStays DEF Effect
    <2> QED BY <1>0, <2>4, <2>5, StaysShielded
<1>4. CASE Heartbeat(h)
    <2>1. calls[h].ip \in IPs /\ now \in Times /\ shielded' = shielded
        BY <1>4, CallTypes DEF Heartbeat
    <2>2. CASE UNCHANGED storeVars
        BY <2>1, <2>2 DEF ShieldsHold, InMaintenance, storeVars
    <2>3. ASSUME NEW k \in Nodes, NEW ok \in PersistOutcomes, NEW err,
                 HeartbeatByIP(k, calls[h].ip, now, ok, err)
          PROVE  ShieldsHold'
        <3>1. Effect(k, now, nodes'[k].Status = "active", err)
            BY <2>1, <2>3, OutcomesOK, HeartbeatByIPEffect
        <3>2. ASSUME nodes'[k].Status = "active" PROVE Stays(k)
            <4>1. nodes[k] # Absent /\ nodes[k] \in LeaseRecord /\ nodes \in LeaseMap
                BY <2>3 DEF HeartbeatByIP, recordByIPLocked, StoreInv, MapOK, RecordOK
            <4>2. CASE UNCHANGED storeVars
                BY <4>2 DEF Stays, InMaintenance, storeVars
            <4>3. CASE Expire(k, now, ok, err)
                <5>1. nodes'[k] = [nodes[k] EXCEPT !.Status = "expired"]
                    BY <4>1, <4>3 DEF Expire, Save, LeaseMap
                <5> QED BY <3>2, <4>1, <5>1 DEF LeaseRecord
            <4>4. CASE Save([nodes EXCEPT ![k] = [Refresh(nodes[k], now) EXCEPT !.Status = "active"]],
                            now, ok)
                <5> DEFINE r == [Refresh(nodes[k], now) EXCEPT !.Status = "active"]
                <5>1. nodes'[k] = r
                    BY <4>1, <4>4 DEF Save, LeaseMap
                <5>2. r.Maintenance = nodes[k].Maintenance
                    BY <2>1, <4>1, RefreshStays
                <5> HIDE DEF r
                <5>3. nodes'[k] # Absent
                    BY <3>1, <3>2 DEF Effect, Renewed
                <5> QED BY <5>1, <5>2, <5>3 DEF Stays, InMaintenance
            <4> QED BY <2>3, <4>2, <4>3, <4>4 DEF HeartbeatByIP
        <3>3. (nodes'[k].Status = "active") \in BOOLEAN
            OBVIOUS
        <3>4. (\A j \in Nodes : Stays(j)) /\ file' \in {file, nodes'}
            BY <3>1, <3>2, <3>3, EffectStays
        <3> QED BY <1>0, <2>1, <3>4, StaysShielded
    <2> QED BY <1>4, <2>2, <2>3 DEF Heartbeat, HeartbeatByUnknownIP
<1>5. CASE handleHeartbeat(h)
    <2>1. n \in Nodes /\ calls[h].ip \in IPs /\ now \in Times /\ shielded' = shielded
        BY <1>5, CallTypes DEF handleHeartbeat
    <2>2. PICK ok \in PersistOutcomes, err \in Errors :
              HeartbeatByUUID(n, calls[h].ip, now, ok, err)
        BY <1>5 DEF handleHeartbeat
    <2>3. Effect(n, now, err # "blocked", err)
        BY <2>1, <2>2, OutcomesOK, HeartbeatByUUIDEffect
    <2>4. ASSUME err # "blocked" PROVE Stays(n)
        <3>1. CASE nodes[n] = Absent
            BY <3>1 DEF Stays, InMaintenance
        <3>2. CASE nodes[n] # Absent
            <4> DEFINE r == [Refresh(nodes[n], now) EXCEPT !.NodeIP = calls[h].ip,
                                                           !.Status = "active"]
            <4>1. nodes[n] \in LeaseRecord /\ nodes \in LeaseMap
                BY <2>1, <3>2 DEF StoreInv, MapOK, RecordOK
            <4>2. nodes'[n] = r
                BY <2>1, <2>2, <2>4, <3>2, <4>1 DEF HeartbeatByUUID, Save, LeaseMap
            <4>3. r.Maintenance = nodes[n].Maintenance
                BY <2>1, <4>1, RefreshStays
            <4> HIDE DEF r
            <4>4. nodes'[n] # Absent
                BY <2>3, <2>4 DEF Effect, Renewed
            <4> QED BY <4>2, <4>3, <4>4 DEF Stays, InMaintenance
        <3> QED BY <3>1, <3>2
    <2>5. (\A k \in Nodes : Stays(k)) /\ file' \in {file, nodes'}
        BY <2>1, <2>3, <2>4, EffectStays
    <2> QED BY <1>0, <2>1, <2>5, StaysShielded
<1>6. CASE handleUnblockNode(h)
    <2>1. n \in Nodes /\ now \in Times /\ shielded' = shielded
        BY <1>6, CallTypes DEF handleUnblockNode
    <2>2. PICK ok \in PersistOutcomes, err \in Errors : Unblock(n, now, ok, err)
        BY <1>6 DEF handleUnblockNode
    <2>3. Effect(n, now, err # "notFound", err)
        BY <2>1, <2>2, OutcomesOK, UnblockEffect
    <2>4. ASSUME err # "notFound" PROVE Stays(n)
        <3>1. CASE nodes[n] = Absent
            BY <3>1 DEF Stays, InMaintenance
        <3>2. CASE nodes[n] # Absent
            <4> DEFINE r == UnblockRecord(nodes[n], now)
            <4>1. nodes[n] \in LeaseRecord /\ nodes \in LeaseMap
                BY <2>1, <3>2 DEF StoreInv, MapOK, RecordOK
            <4>2. nodes'[n] = r
                BY <2>1, <2>2, <2>4, <3>2, <4>1 DEF Unblock, Save, LeaseMap
            <4>3. r.Maintenance = nodes[n].Maintenance
                BY <2>1, <4>1, RefreshStays
            <4> HIDE DEF r
            <4>4. nodes'[n] # Absent
                BY <2>3, <2>4 DEF Effect, Renewed
            <4> QED BY <4>2, <4>3, <4>4 DEF Stays, InMaintenance
        <3> QED BY <3>1, <3>2
    <2>5. (\A k \in Nodes : Stays(k)) /\ file' \in {file, nodes'}
        BY <2>1, <2>3, <2>4, EffectStays
    <2> QED BY <1>0, <2>1, <2>5, StaysShielded
<1>7. CASE handleSetMaintenance(h)
    <2> DEFINE enabled == calls[h].enabled
    <2>1. n \in Nodes /\ enabled \in BOOLEAN /\ now \in Times
        BY <1>7, CallTypes DEF handleSetMaintenance
    <2>2. PICK ok \in PersistOutcomes, err \in Errors :
              /\ SetMaintenance(n, enabled, now, ok, err)
              /\ shielded' = IF ~enabled THEN shielded \ {n}
                             ELSE IF err = "none" THEN shielded \cup {n}
                             ELSE shielded
        BY <1>7 DEF handleSetMaintenance
    <2>3. Effect(n, now, ~enabled /\ err # "notFound", err)
        BY <2>1, <2>2, OutcomesOK, SetMaintenanceEffect
    <2>4. (\A k \in Nodes \ {n} : Stays(k)) /\ file' \in {file, nodes'}
        BY <2>3, KeptStays DEF Effect
    <2>5. CASE ~enabled
        BY <1>0, <2>2, <2>4, <2>5, StaysShielded
    <2>6. CASE enabled
        <3>1. Stays(n)
            BY <2>1, <2>3, <2>6, KeptStays DEF Effect
        <3>2. CASE err # "none"
            BY <1>0, <2>2, <2>4, <2>6, <3>1, <3>2, StaysShielded
        <3>3. CASE err = "none"
            <4> DEFINE r == [nodes[n] EXCEPT !.Maintenance = TRUE]
            <4>1. /\ nodes[n] # Absent
                  /\ nodes' = [nodes EXCEPT ![n] = r]
                  /\ file' = nodes'
                BY <2>1, <2>2, <2>6, <3>3 DEF SetMaintenance, persistLocked, PersistErr
            <4>2. nodes[n] \in LeaseRecord /\ nodes \in LeaseMap
                BY <2>1, <4>1 DEF StoreInv, MapOK, RecordOK
            <4>3. r \in LeaseRecord /\ r.Maintenance
                BY <4>2 DEF LeaseRecord
            <4>4. nodes'[n] = r
                BY <2>1, <4>1, <4>2 DEF LeaseMap
            <4> HIDE DEF r
            <4>5. InMaintenance(nodes', n)
                BY <4>3, <4>4, StoreAssumption DEF InMaintenance
            <4>6. \A k \in shielded' : InMaintenance(nodes', k)
                BY <1>0, <2>2, <2>4, <2>6, <3>3, <4>5 DEF ShieldsHold, Stays
            <4> QED BY <4>1, <4>6 DEF ShieldsHold, InMaintenance
        <3> QED BY <3>2, <3>3
    <2> QED BY <2>1, <2>5, <2>6
<1> QED BY <1>1, <1>2, <1>3, <1>4, <1>5, <1>6, <1>7 DEF HandlerNext

\* The switch leaves the shielded nodes alone.
LEMMA CheckShields ==
    ASSUME StoreInv, TypeOK, ShieldsHold, Check
    PROVE  /\ ShieldsHold'
           /\ \A k \in shielded : nodes'[k] = nodes[k]
<1>1. check \in Times
    <2>1. clock \in 1..MaxTime /\ MaxTime \in Nat /\ check \in 0..clock /\ check # Zero
        BY StoreAssumption DEF TypeOK, Times, Check
    <2> QED BY <2>1 DEF Times, Zero
<1>2. (\A k \in Nodes : Checked(k, check)) /\ file' \in {file, nodes'}
    BY <1>1, CheckEffect DEF Check
<1>3. shielded' = shielded /\ shielded \subseteq Nodes
    BY DEF Check, history, TypeOK
<1>4. ASSUME NEW k \in shielded PROVE nodes'[k] = nodes[k]
    BY <1>2, <1>3 DEF Checked, Overdue, ShieldsHold, InMaintenance
<1>5. \A k \in shielded : Stays(k)
    BY <1>4 DEF Stays, InMaintenance
<1> QED BY <1>2, <1>3, <1>4, <1>5, StaysShielded

\* The shields hold in every state.
THEOREM ServerShieldsHold == Spec => []ShieldsHold
<1>1. Init => ShieldsHold
    BY DEF Init, ShieldsHold
<1>2. ASSUME Inv, ShieldsHold, [Next]_vars
      PROVE  ShieldsHold'
    <2>0. StoreInv /\ TypeOK
        BY <1>2 DEF Inv
    <2>1. CASE \E h \in Handlers : HandlerNext(h)
        BY <1>2, <2>0, <2>1, HandlerShields
    <2>2. CASE Check
        BY <1>2, <2>0, <2>2, CheckShields
    <2>3. CASE Restart
        BY <1>2, <2>3 DEF Restart, Load, history, ShieldsHold, InMaintenance
    <2>4. CASE CheckStart \/ Crash \/ Tick \/ UNCHANGED vars
        <3>1. UNCHANGED <<nodes, file, shielded>>
            BY <2>4 DEF CheckStart, Crash, Tick, vars, storeVars, history
        <3> QED BY <1>2, <3>1 DEF ShieldsHold, InMaintenance
    <2> QED BY <1>2, <2>1, <2>2, <2>3, <2>4 DEF Next
<1> QED BY <1>1, <1>2, ServerInvariant, PTL DEF Spec

\* From the confirmed "maintenance on" to the "off" or the node's own Unseal,
\* the switch does not block the node.
THEOREM ServerMaintenanceShields == Spec => MaintenanceShields
<1>1. ASSUME Inv, ShieldsHold, [Next]_vars, NEW n \in shielded \cap Registered(nodes),
             nodes[n].Status # "blocked", check # Zero
      PROVE  nodes'[n].Status # "blocked"
    <2>0. StoreInv /\ TypeOK /\ n \in Nodes /\ nodes[n] # Absent
        BY <1>1 DEF Inv, Registered
    <2>1. CASE \E h \in Handlers : HandlerNext(h)
        <3> PICK h \in Handlers : HandlerNext(h)
            BY <2>1
        <3>1. CASE UNCHANGED storeVars
            BY <1>1, <3>1 DEF storeVars
        <3>2. ASSUME NEW k \in Nodes, NEW refreshed \in BOOLEAN, NEW err,
                     Effect(k, calls[h].now, refreshed, err)
              PROVE  nodes'[n].Status # "blocked"
            BY <1>1, <2>0, <3>2 DEF Effect, Kept, Renewed
        <3> QED BY <2>0, <3>1, <3>2, HandlerEffect
    <2>2. CASE Check
        BY <1>1, <2>0, <2>2, CheckShields
    <2>3. ~Restart
        BY <1>1, <2>0 DEF TypeOK, Restart
    <2>4. CASE CheckStart \/ Crash \/ Tick \/ UNCHANGED vars
        <3>1. UNCHANGED nodes
            BY <2>4 DEF CheckStart, Crash, Tick, vars, storeVars
        <3> QED BY <1>1, <3>1
    <2> QED BY <1>1, <2>1, <2>2, <2>3, <2>4 DEF Next
<1>2. Inv /\ ShieldsHold /\ [Next]_vars =>
        [\A n \in shielded \cap Registered(nodes) :
            nodes[n].Status # "blocked" /\ check # Zero =>
                nodes'[n].Status # "blocked"]_vars
    BY <1>1
<1> QED BY <1>2, ServerInvariant, ServerShieldsHold, PTL DEF MaintenanceShields, Spec

=============================================================================
