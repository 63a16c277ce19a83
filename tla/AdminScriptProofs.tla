-------------------------- MODULE AdminScriptProofs --------------------------
(***************************************************************************)
(* Proofs about the operator's script, for every set of nodes, hosts and   *)
(* addresses, every duration and any number of renamed machines, failed    *)
(* writes and restarts between the script's two requests and after them.   *)
(*                                                                         *)
(* Whatever the script has achieved must be looked for in two places, the  *)
(* memory and the file, since a restart turns the one into the other.  Of  *)
(* every method of the store it is enough to know what it makes of a       *)
(* record (Lives and Carries), and that the file is left alone or becomes  *)
(* what the memory becomes (Written).                                      *)
(***************************************************************************)
EXTENDS AdminScript, LeaseStoreProofs

Scripts ==
    [at      : {"idle", "resolve", "act", "done", "notFound"},
     command : Commands \cup {"none"},
     node    : Nodes \cup Hosts \cup {Absent},
     uuid    : Nodes \cup {Absent},
     since   : Times \cup {Zero}]

Typed ==
    /\ now \in Times
    /\ hostname \in [Nodes -> Hosts \cup {NoName}]
    /\ savedHostname \in [Nodes -> Hosts \cup {NoName}]
    /\ faults \in 0..MaxFaults
    /\ names \in [Nodes -> SUBSET Hosts]
    /\ confirmed \subseteq Nodes
    /\ script \in Scripts

\* A record has a name that its machine has had, or none yet.
Named ==
    \A n \in Nodes : hostname[n] \in names[n] \cup {NoName}
                     /\ savedHostname[n] \in names[n] \cup {NoName}

\* No block is dated in the future.
BlocksPast(m) ==
    \A n \in Nodes : m[n] # Absent /\ m[n].Status = "blocked" => m[n].BlockedAt <= now

Past == BlocksPast(nodes) /\ BlocksPast(file)

\* What was confirmed is in the memory and in the file.
Kept == \A n \in confirmed : nodes[n] # Absent /\ file[n] # Absent

\* A script that acts has a target that is the node it was given, or has had
\* the name it was given.
Aimed ==
    /\ script.at = "resolve" => script.node \in Nodes \cup Hosts
    /\ script.at \in {"act", "done"} =>
           /\ script.uuid \in Nodes
           /\ script.uuid = script.node \/ script.node \in names[script.uuid]

\* The record r after the command: not blocked by it, and either heard of
\* since then or out of the switch's reach.
Spared(r) ==
    /\ r # Absent
    /\ r.Status = "blocked" =>
           \/ r.BlockedAt > script.since + HeartbeatTimeout
           \/ script.command = "maintenance" /\ r.BlockedAt <= script.since
    /\ \/ r.LastHeartbeatAt >= script.since
       \/ script.command = "maintenance" /\ r.Maintenance

Held ==
    script.at = "done" =>
        /\ script.since \in Times /\ script.since <= now
        /\ Spared(nodes[script.uuid])
        /\ Spared(file[script.uuid])

ScriptInv == StoreInv /\ Typed /\ Named /\ Past /\ Kept /\ Aimed /\ Held

-----------------------------------------------------------------------------
(* What the methods of the store make of a record *)

\* The record r becomes s: it is not deleted, and only the switch blocks it.
Lives(r, s, t) ==
    /\ s # Absent
    /\ s.Status = "blocked" =>
           \/ r.Status = "blocked" /\ s.BlockedAt = r.BlockedAt
           \/ Overdue(r, t) /\ s.BlockedAt = t

\* It loses its heartbeat or its maintenance mode only to a heartbeat of now.
Carries(r, s, t) ==
    \/ s.LastHeartbeatAt = t
    \/ s.LastHeartbeatAt = r.LastHeartbeatAt /\ s.Maintenance = r.Maintenance

AllLive(t) ==
    \A k \in Nodes :
        /\ nodes[k] # Absent => Lives(nodes[k], nodes'[k], t)
        /\ nodes[k] = Absent /\ nodes'[k] # Absent => nodes'[k].Status # "blocked"

AllCarry(t) == \A k \in Nodes : nodes[k] # Absent => Carries(nodes[k], nodes'[k], t)

Written == file' = file \/ file' = nodes'

\* A registered node's record is one, and no record is the absent one.
LEMMA Records ==
    ASSUME StoreInv
    PROVE  /\ nodes \in [Nodes -> LeaseRecord \cup {Absent}]
           /\ \A k \in Nodes : nodes[k] # Absent => RecordOK(nodes[k])
           /\ \A r \in LeaseRecord : r # Absent
BY StoreAssumption DEF StoreInv, MapOK, LeaseMap

\* A record that is left alone.
LEMMA SameLives == ASSUME NEW r, r # Absent, NEW t PROVE Lives(r, r, t) /\ Carries(r, r, t)
BY DEF Lives, Carries

\* Calls that change nothing.
LEMMA NothingLives ==
    ASSUME UNCHANGED storeVars, NEW t
    PROVE  AllLive(t) /\ AllCarry(t) /\ Written
BY SameLives DEF AllLive, AllCarry, Written, storeVars

\* A record that is replaced by one that is not blocked and just refreshed.
LEMMA FreshLives ==
    ASSUME NEW r, NEW s \in LeaseRecord, s.Status # "blocked", NEW t, s.LastHeartbeatAt = t,
           StoreInv
    PROVE  Lives(r, s, t) /\ Carries(r, s, t)
BY Records DEF Lives, Carries

\* One record changes.
LEMMA PutLives ==
    ASSUME StoreInv, NEW n \in Nodes, NEW s, NEW t, nodes' = [nodes EXCEPT ![n] = s],
           nodes[n] # Absent => Lives(nodes[n], s, t),
           nodes[n] = Absent => s.Status # "blocked"
    PROVE  AllLive(t) /\ ((nodes[n] # Absent => Carries(nodes[n], s, t)) => AllCarry(t))
<1>1. \A k \in Nodes : nodes'[k] = IF k = n THEN s ELSE nodes[k]
    BY Records
<1> QED BY <1>1, SameLives DEF AllLive, AllCarry

\* Unseal: a fresh record, and the others lose at most their address.
LEMMA BootstrapLives ==
    ASSUME StoreInv, NEW n \in Nodes, NEW ip \in IPs, NEW t \in Times, NEW ok, NEW err,
           Bootstrap(n, ip, t, ok, err)
    PROVE  /\ AllLive(t) /\ AllCarry(t) /\ Written
           /\ err = "none" => nodes'[n] # Absent /\ file' = nodes'
<1> DEFINE r == [activeLease(t) EXCEPT !.LastUnsealIP = ip, !.NodeIP = ip]
<1>1. r \in LeaseRecord /\ r.Status = "active" /\ r.LastHeartbeatAt = t
    BY TimesOK, StoreAssumption DEF activeLease, LeaseRecord, LeaseStatus, Zero
<1>2. nodes' = [ReleaseIP(nodes, n, ip) EXCEPT ![n] = r] /\ Written
    BY DEF Bootstrap, Save, persistLocked, Written
<1> HIDE DEF r
<1>3. nodes'[n] = r
    BY <1>2 DEF ReleaseIP
<1>4. ASSUME NEW k \in Nodes, k # n
      PROVE  nodes'[k] \in {nodes[k], [nodes[k] EXCEPT !.LastUnsealIP = NoIP]}
             /\ (nodes[k] = Absent => nodes'[k] = Absent)
    BY <1>2, <1>4 DEF ReleaseIP
<1>5. ASSUME NEW k \in Nodes, nodes[k] # Absent
      PROVE  Lives(nodes[k], nodes'[k], t) /\ Carries(nodes[k], nodes'[k], t)
    <2>1. CASE k = n
        BY <1>1, <1>3, <2>1, FreshLives
    <2>2. CASE k # n
        <3> DEFINE q == [nodes[k] EXCEPT !.LastUnsealIP = NoIP]
        <3>1. nodes[k] \in LeaseRecord
            BY <1>5, Records DEF RecordOK
        <3>2. /\ q \in LeaseRecord /\ q.Status = nodes[k].Status
              /\ q.BlockedAt = nodes[k].BlockedAt
              /\ q.LastHeartbeatAt = nodes[k].LastHeartbeatAt
              /\ q.Maintenance = nodes[k].Maintenance
            BY <3>1 DEF LeaseRecord
        <3> HIDE DEF q
        <3>3. Lives(nodes[k], q, t) /\ Carries(nodes[k], q, t)
            BY <3>2, Records DEF Lives, Carries
        <3>4. nodes'[k] \in {nodes[k], q}
            BY <1>4, <2>2 DEF q
        <3> QED BY <1>5, <3>3, <3>4, SameLives
    <2> QED BY <2>1, <2>2
<1>6. ASSUME NEW k \in Nodes, nodes[k] = Absent, nodes'[k] # Absent
      PROVE  nodes'[k].Status # "blocked"
    BY <1>1, <1>3, <1>4, <1>6
<1>7. err = "none" => nodes'[n] # Absent /\ file' = nodes'
    <2>1. err = "none" => ok
        BY DEF Bootstrap, PersistErr
    <2>2. ok => file' = nodes'
        BY DEF Bootstrap, Save, persistLocked
    <2> QED BY <1>1, <1>3, <2>1, <2>2, Records
<1> QED BY <1>2, <1>5, <1>6, <1>7 DEF AllLive, AllCarry

\* The test before an unseal: it can mark a lease as expired.
LEMMA ValidateLives ==
    ASSUME StoreInv, NEW n \in Nodes, NEW t \in Times, NEW ok, NEW err,
           Validate(n, t, ok, err)
    PROVE  AllLive(t) /\ AllCarry(t) /\ Written
<1>1. CASE UNCHANGED storeVars
    BY <1>1, NothingLives
<1>2. CASE nodes[n] # Absent /\ Expire(n, t, ok, err)
    <2> DEFINE q == [nodes[n] EXCEPT !.Status = "expired"]
    <2>1. nodes' = [nodes EXCEPT ![n] = q] /\ Written
        BY <1>2 DEF Expire, Save, persistLocked, Written
    <2>2. nodes[n] \in LeaseRecord
        BY <1>2, Records DEF RecordOK
    <2>3. /\ q \in LeaseRecord /\ q.Status = "expired"
          /\ q.LastHeartbeatAt = nodes[n].LastHeartbeatAt
          /\ q.Maintenance = nodes[n].Maintenance
        BY <2>2 DEF LeaseRecord, LeaseStatus
    <2> HIDE DEF q
    <2>4. Lives(nodes[n], q, t) /\ Carries(nodes[n], q, t)
        BY <2>3, Records DEF Lives, Carries
    <2> QED BY <1>2, <2>1, <2>4, PutLives
<1> QED BY <1>1, <1>2 DEF Validate

\* An HTTP heartbeat: a new record, or a refreshed one.
LEMMA HeartbeatLives ==
    ASSUME StoreInv, NEW n \in Nodes, NEW ip \in IPs, NEW t \in Times, NEW ok, NEW err,
           HeartbeatByUUID(n, ip, t, ok, err)
    PROVE  /\ AllLive(t) /\ AllCarry(t) /\ Written
           /\ err = "none" => nodes'[n] # Absent /\ file' = nodes'
<1>1. CASE err = "blocked" /\ UNCHANGED storeVars
    BY <1>1, NothingLives
<1>2. ASSUME NEW q \in LeaseRecord, q.Status = "active", q.LastHeartbeatAt = t,
             Save([nodes EXCEPT ![n] = q], t, ok), err = PersistErr(ok)
      PROVE  /\ AllLive(t) /\ AllCarry(t) /\ Written
             /\ err = "none" => nodes'[n] # Absent /\ file' = nodes'
    <2>1. /\ nodes' = [nodes EXCEPT ![n] = q] /\ Written
          /\ err = "none" => file' = nodes'
        BY <1>2 DEF Save, persistLocked, Written, PersistErr
    <2>2. Lives(nodes[n], q, t) /\ Carries(nodes[n], q, t)
        BY <1>2, FreshLives
    <2>3. nodes'[n] = q
        BY <2>1, Records
    <2>4. q # Absent
        BY Records
    <2>5. AllLive(t) /\ AllCarry(t)
        BY <1>2, <2>1, <2>2, PutLives
    <2> QED BY <2>1, <2>3, <2>4, <2>5
<1>3. CASE /\ nodes[n] = Absent
           /\ Save([nodes EXCEPT ![n] = [activeLease(t) EXCEPT !.NodeIP = ip]], t, ok)
           /\ err = PersistErr(ok)
    <2> DEFINE q == [activeLease(t) EXCEPT !.NodeIP = ip]
    <2>1. q \in LeaseRecord /\ q.Status = "active" /\ q.LastHeartbeatAt = t
        BY TimesOK, StoreAssumption DEF activeLease, LeaseRecord, LeaseStatus, Zero
    <2>2. Save([nodes EXCEPT ![n] = q], t, ok)
        BY <1>3
    <2> HIDE DEF q
    <2> QED BY <1>2, <1>3, <2>1, <2>2
<1>4. CASE /\ nodes[n] # Absent
           /\ Save([nodes EXCEPT ![n] = [Refresh(@, t) EXCEPT !.NodeIP = ip,
                                                             !.Status = "active"]], t, ok)
           /\ err = PersistErr(ok)
    <2> DEFINE f == Refresh(nodes[n], t)
               q == [f EXCEPT !.NodeIP = ip, !.Status = "active"]
    <2>1. f \in LeaseRecord /\ f.LastHeartbeatAt = t
        BY <1>4, Records, RefreshOK DEF RecordOK, Refresh, LeaseRecord
    <2>2. Save([nodes EXCEPT ![n] = q], t, ok)
        BY <1>4
    <2> HIDE DEF f
    <2>3. q \in LeaseRecord /\ q.Status = "active" /\ q.LastHeartbeatAt = t
        BY <2>1 DEF LeaseRecord, LeaseStatus
    <2> HIDE DEF q
    <2> QED BY <1>2, <1>4, <2>2, <2>3
<1> QED BY <1>1, <1>3, <1>4 DEF HeartbeatByUUID

\* The switch blocks what is overdue.
LEMMA CheckLives ==
    ASSUME StoreInv, NEW t \in Times, NEW ok, BlockExpiredNodes(t, ok)
    PROVE  AllLive(t) /\ AllCarry(t) /\ Written
<1> DEFINE overdue == {n \in Registered(nodes) : Overdue(nodes[n], t)}
<1>1. CASE UNCHANGED storeVars
    BY <1>1, NothingLives
<1>2. CASE Save([n \in Nodes |-> IF n \in overdue THEN BlockRecord(nodes[n], t)
                                                  ELSE nodes[n]], t, ok)
    <2>1. /\ \A k \in Nodes : nodes'[k] = IF k \in overdue THEN BlockRecord(nodes[k], t)
                                                           ELSE nodes[k]
          /\ Written
        BY <1>2 DEF Save, persistLocked, Written
    <2>2. ASSUME NEW k \in Nodes, k \in overdue
          PROVE  Lives(nodes[k], nodes'[k], t) /\ Carries(nodes[k], nodes'[k], t)
        <3> DEFINE q == BlockRecord(nodes[k], t)
        <3>1. nodes[k] \in LeaseRecord /\ RecordOK(nodes[k]) /\ Overdue(nodes[k], t)
            BY <2>2, Records DEF RecordOK, Registered
        <3>2. /\ q \in LeaseRecord
              /\ q.BlockedAt = t
              /\ q.LastHeartbeatAt = nodes[k].LastHeartbeatAt
              /\ q.Maintenance = nodes[k].Maintenance
            BY <3>1, TimesOK DEF BlockRecord, LeaseRecord, LeaseStatus
        <3> HIDE DEF q
        <3>3. nodes'[k] = q
            BY <2>1, <2>2 DEF q
        <3> QED BY <3>1, <3>2, <3>3, Records DEF Lives, Carries
    <2>3. ASSUME NEW k \in Nodes, k \notin overdue, nodes[k] # Absent
          PROVE  Lives(nodes[k], nodes'[k], t) /\ Carries(nodes[k], nodes'[k], t)
        BY <2>1, <2>3, SameLives
    <2>4. ASSUME NEW k \in Nodes, nodes[k] = Absent
          PROVE  nodes'[k] = Absent
        BY <2>1, <2>4 DEF Registered
    <2> QED BY <2>1, <2>2, <2>3, <2>4 DEF AllLive, AllCarry
<1> QED BY <1>1, <1>2 DEF BlockExpiredNodes

\* The admin API: what it answers with "ok" is in the file, and the node is
\* refreshed or in maintenance.
LEMMA UnblockLives ==
    ASSUME StoreInv, NEW n \in Nodes, NEW t \in Times, NEW ok, NEW err,
           Unblock(n, t, ok, err)
    PROVE  /\ AllLive(t) /\ Written
           /\ err = "notFound" => nodes[n] = Absent
           /\ err = "none" => /\ nodes'[n] \in LeaseRecord
                              /\ nodes'[n].Status = "active"
                              /\ nodes'[n].LastHeartbeatAt = t
                              /\ file' = nodes'
<1>1. CASE nodes[n] = Absent /\ err = "notFound" /\ UNCHANGED storeVars
    BY <1>1, NothingLives
<1>2. CASE /\ nodes[n] # Absent
           /\ Save([nodes EXCEPT ![n] = UnblockRecord(@, t)], t, ok)
           /\ err = PersistErr(ok)
    <2> DEFINE q == UnblockRecord(nodes[n], t)
    <2>1. /\ nodes' = [nodes EXCEPT ![n] = q] /\ Written
          /\ err # "notFound"
          /\ err = "none" => file' = nodes'
        BY <1>2 DEF Save, persistLocked, Written, PersistErr
    <2>2. q \in LeaseRecord
        BY <1>2, Records, UnblockOK DEF RecordOK
    <2>3. q.Status = "active" /\ q.LastHeartbeatAt = t
        BY <1>2, Records DEF UnblockRecord, Refresh, RecordOK, LeaseRecord
    <2> HIDE DEF q
    <2>4. Lives(nodes[n], q, t)
        BY <2>2, <2>3, FreshLives
    <2>5. nodes'[n] = q
        BY <2>1, Records
    <2> QED BY <1>2, <2>1, <2>2, <2>3, <2>4, <2>5, PutLives
<1> QED BY <1>1, <1>2 DEF Unblock

LEMMA MaintenanceLives ==
    ASSUME StoreInv, NEW n \in Nodes, NEW enabled \in BOOLEAN, NEW t \in Times, NEW ok, NEW err,
           SetMaintenance(n, enabled, t, ok, err)
    PROVE  /\ AllLive(t) /\ Written
           /\ err = "notFound" => nodes[n] = Absent
           /\ err = "none" => /\ nodes[n] # Absent
                              /\ nodes'[n].LastHeartbeatAt = t \/ nodes'[n].Maintenance
                              /\ file' = nodes'
<1>1. CASE nodes[n] = Absent /\ err = "notFound" /\ UNCHANGED storeVars
    BY <1>1, NothingLives
<1>2. CASE /\ nodes[n] # Absent
           /\ nodes' = [nodes EXCEPT ![n] = [(IF enabled THEN @ ELSE Refresh(@, t))
                                                 EXCEPT !.Maintenance = enabled]]
           /\ persistLocked(nodes', ok)
           /\ err = PersistErr(ok)
    <2> DEFINE f == IF enabled THEN nodes[n] ELSE Refresh(nodes[n], t)
               q == [f EXCEPT !.Maintenance = enabled]
    <2>1. /\ nodes' = [nodes EXCEPT ![n] = q] /\ Written
          /\ err # "notFound"
          /\ err = "none" => file' = nodes'
        BY <1>2 DEF persistLocked, Written, PersistErr
    <2>2. /\ f \in LeaseRecord
          /\ f.Status = nodes[n].Status
          /\ f.BlockedAt = nodes[n].BlockedAt
          /\ enabled \/ f.LastHeartbeatAt = t
        BY <1>2, Records, RefreshOK DEF RecordOK, Refresh, LeaseRecord
    <2> HIDE DEF f
    <2>3. /\ q \in LeaseRecord
          /\ q.Status = nodes[n].Status
          /\ q.BlockedAt = nodes[n].BlockedAt
          /\ q.Maintenance = enabled
          /\ q.LastHeartbeatAt = f.LastHeartbeatAt
        BY <2>2 DEF LeaseRecord
    <2> HIDE DEF q
    <2>4. Lives(nodes[n], q, t)
        BY <2>3, Records DEF Lives
    <2>5. nodes'[n] = q
        BY <2>1, Records
    <2>6. q.LastHeartbeatAt = t \/ q.Maintenance
        BY <2>2, <2>3
    <2> QED BY <1>2, <2>1, <2>4, <2>5, <2>6, PutLives
<1> QED BY <1>1, <1>2 DEF SetMaintenance

-----------------------------------------------------------------------------
(* Every step *)

\* The machines' requests and the switch: the script does nothing.
StoreCall ==
    /\ AllLive(now) /\ AllCarry(now) /\ Written
    /\ UNCHANGED <<now, script>>

\* A command of the script that the store has carried out or refused.
Command(command, err) ==
    /\ script.at = "act"
    /\ AllLive(now) /\ Written
    /\ Outcome(command, err)
    /\ err = "notFound" => nodes[script.uuid] = Absent
    /\ err = "none" =>
           /\ file' = nodes'
           /\ Lives(nodes[script.uuid], nodes'[script.uuid], now)
           /\ command = "unblock" => /\ nodes'[script.uuid].Status = "active"
                                     /\ nodes'[script.uuid].LastHeartbeatAt = now
           /\ command = "maintenance" => \/ nodes'[script.uuid].LastHeartbeatAt = now
                                         \/ nodes'[script.uuid].Maintenance
    /\ command \in Commands
    /\ UNCHANGED <<now, names, confirmed>>

\* Whatever the machines and the script do is to the store a call of one of
\* its methods, or nothing.
LEMMA StepIsStore ==
    ASSUME Typed, Aimed, [Next]_vars
    PROVE  [StoreNext]_storeVars
<1>0. now \in Times /\ {"none", "notFound", "blocked", "expired", "internal"} \subseteq Errors
    BY DEF Typed, Errors
<1>1. CASE MachineNext
    <2>1. PICK n \in Nodes, ok \in PersistOutcomes :
              \/ \E ip \in IPs, err \in {"none", "internal"} : Unseal(n, ip, ok, err)
              \/ \E err \in {"blocked", "expired", "internal"} : UnsealRefused(n, ok, err)
              \/ \E ip \in IPs, h \in Hosts \cup {NoName},
                    err \in {"none", "blocked", "internal"} : Heartbeat(n, h, ip, ok, err)
        BY <1>1, Zenon DEF MachineNext
    <2>2. \/ \E ip \in IPs, err \in Errors : Bootstrap(n, ip, now, ok, err)
          \/ \E err \in Errors : Validate(n, now, ok, err)
          \/ \E ip \in IPs, err \in Errors : HeartbeatByUUID(n, ip, now, ok, err)
        BY <1>0, <2>1 DEF Unseal, UnsealRefused, Heartbeat
    <2> QED BY <1>0, <2>2, Zenon DEF StoreNext
<1>2. ASSUME NEW ok \in PersistOutcomes, NEW err \in Errors, NEW enabled \in BOOLEAN,
             unblock(ok, err) \/ maintenance(enabled, ok, err)
      PROVE  StoreNext
    <2>1. /\ script.uuid \in Nodes
          /\ \/ Unblock(script.uuid, now, ok, err)
             \/ SetMaintenance(script.uuid, enabled, now, ok, err)
        BY <1>2 DEF unblock, maintenance, Aimed
    <2> QED BY <1>0, <2>1, Zenon DEF StoreNext
<1>3. ASSUME NEW ok \in PersistOutcomes, Check(ok) PROVE StoreNext
    <2>1. BlockExpiredNodes(now, ok)
        BY <1>3 DEF Check
    <2> QED BY <1>0, <2>1, Zenon DEF StoreNext
<1>4. CASE Restart
    <2>1. Load(now) /\ TRUE \in PersistOutcomes
        BY <1>4 DEF Restart, PersistOutcomes
    <2> QED BY <1>0, <2>1, Zenon DEF StoreNext
<1>5. CASE UNCHANGED storeVars
    BY <1>5
<1> QED BY <1>0, <1>1, <1>2, <1>3, <1>4, <1>5
        DEF Next, ScriptNext, vars, Tick, Start, resolve_uuid, apiFails, End

\* What a step is, as far as the invariant is concerned.
LEMMA Steps ==
    ASSUME StoreInv, Typed, Aimed, [Next]_vars
    PROVE  \/ /\ StoreCall
              /\ \/ confirmed' = confirmed
                 \/ \E n \in Nodes : /\ confirmed' = confirmed \cup {n}
                                     /\ nodes'[n] # Absent /\ file' = nodes'
           \/ Restart
           \/ Tick
           \/ \E node \in Nodes \cup Hosts : Start(node)
           \/ resolve_uuid
           \/ \E command, err : Command(command, err)
           \/ UNCHANGED <<storeVars, now, fileVars, history>> /\ script' = NoScript
           \/ UNCHANGED vars
<1>0. now \in Times
    BY DEF Typed
<1>1. ASSUME NEW n \in Nodes, NEW ok, NEW ip \in IPs, NEW err, Unseal(n, ip, ok, err)
      PROVE  /\ StoreCall
             /\ \/ confirmed' = confirmed
                \/ /\ confirmed' = confirmed \cup {n}
                   /\ nodes'[n] # Absent /\ file' = nodes'
    <2>1. Bootstrap(n, ip, now, ok, err) /\ Confirm(n, err) /\ UNCHANGED <<now, script>>
        BY <1>1 DEF Unseal
    <2>2. /\ AllLive(now) /\ AllCarry(now) /\ Written
          /\ err = "none" => nodes'[n] # Absent /\ file' = nodes'
        BY <1>0, <2>1, BootstrapLives
    <2> QED BY <2>1, <2>2 DEF StoreCall, Confirm
<1>2. ASSUME NEW n \in Nodes, NEW ok, NEW err, UnsealRefused(n, ok, err)
      PROVE  StoreCall /\ confirmed' = confirmed
    <2>1. Validate(n, now, ok, err) /\ UNCHANGED <<now, script, confirmed>>
        BY <1>2 DEF UnsealRefused, history
    <2> QED BY <1>0, <2>1, ValidateLives DEF StoreCall
<1>3. ASSUME NEW n \in Nodes, NEW ok, NEW ip \in IPs, NEW h, NEW err,
             Heartbeat(n, h, ip, ok, err)
      PROVE  /\ StoreCall
             /\ \/ confirmed' = confirmed
                \/ /\ confirmed' = confirmed \cup {n}
                   /\ nodes'[n] # Absent /\ file' = nodes'
    <2>1. HeartbeatByUUID(n, ip, now, ok, err) /\ Confirm(n, err) /\ UNCHANGED <<now, script>>
        BY <1>3 DEF Heartbeat
    <2>2. /\ AllLive(now) /\ AllCarry(now) /\ Written
          /\ err = "none" => nodes'[n] # Absent /\ file' = nodes'
        BY <1>0, <2>1, HeartbeatLives
    <2> QED BY <2>1, <2>2 DEF StoreCall, Confirm
<1>4. ASSUME NEW ok, Check(ok)
      PROVE  StoreCall /\ confirmed' = confirmed
    <2>1. BlockExpiredNodes(now, ok) /\ UNCHANGED <<now, script, confirmed>>
        BY <1>4 DEF Check, history
    <2> QED BY <1>0, <2>1, CheckLives DEF StoreCall
<1>5. ASSUME NEW ok, NEW err, unblock(ok, err)
      PROVE  Command("unblock", err)
    <2>1. /\ script.at = "act" /\ script.uuid \in Nodes
          /\ Unblock(script.uuid, now, ok, err) /\ Outcome("unblock", err)
          /\ UNCHANGED <<now, names, confirmed>>
        BY <1>5 DEF unblock, history, Aimed
    <2>2. /\ AllLive(now) /\ Written
          /\ err = "notFound" => nodes[script.uuid] = Absent
          /\ err = "none" => /\ nodes'[script.uuid] \in LeaseRecord
                             /\ nodes'[script.uuid].Status = "active"
                             /\ nodes'[script.uuid].LastHeartbeatAt = now
                             /\ file' = nodes'
        BY <1>0, <2>1, UnblockLives
    <2>3. err = "none" => Lives(nodes[script.uuid], nodes'[script.uuid], now)
        BY <2>2, FreshLives
    <2> QED BY <2>1, <2>2, <2>3 DEF Command, Commands
<1>6. ASSUME NEW ok, NEW err, NEW enabled \in BOOLEAN, maintenance(enabled, ok, err)
      PROVE  Command("maintenance", err)
    <2>1. /\ script.at = "act" /\ script.uuid \in Nodes
          /\ SetMaintenance(script.uuid, enabled, now, ok, err) /\ Outcome("maintenance", err)
          /\ UNCHANGED <<now, names, confirmed>>
        BY <1>6 DEF maintenance, history, Aimed
    <2>2. /\ AllLive(now) /\ Written
          /\ err = "notFound" => nodes[script.uuid] = Absent
          /\ err = "none" => /\ nodes[script.uuid] # Absent
                             /\ \/ nodes'[script.uuid].LastHeartbeatAt = now
                                \/ nodes'[script.uuid].Maintenance
                             /\ file' = nodes'
        BY <1>0, <2>1, MaintenanceLives
    <2>3. err = "none" => Lives(nodes[script.uuid], nodes'[script.uuid], now)
        BY <2>1, <2>2 DEF AllLive
    <2> QED BY <2>1, <2>2, <2>3 DEF Command, Commands
<1>7. CASE apiFails \/ End
    BY <1>7 DEF apiFails, End
<1>8. CASE MachineNext
    BY <1>1, <1>2, <1>3, <1>8 DEF MachineNext
<1>9. CASE ScriptNext
    BY <1>5, <1>6, <1>7, <1>9 DEF ScriptNext
<1> QED BY <1>4, <1>8, <1>9 DEF Next

\* Types are kept.
LEMMA TypedStep == ASSUME Typed, Aimed, [Next]_vars PROVE Typed'
<1>0. ASSUME NEW called, NEW ok, SaveNames(called, ok), hostname' \in [Nodes -> Hosts \cup {NoName}]
      PROVE  savedHostname' \in [Nodes -> Hosts \cup {NoName}] /\ faults' \in 0..MaxFaults
    BY <1>0, ScriptAssumption DEF SaveNames, Typed
<1>1. ASSUME NEW n \in Nodes, NEW ok, NEW ip, NEW err, Unseal(n, ip, ok, err)
      PROVE  Typed'
    <2>1. /\ hostname' = hostname /\ SaveNames(TRUE, ok) /\ Confirm(n, err)
          /\ UNCHANGED <<now, names, script>>
        BY <1>1 DEF Unseal
    <2>2. hostname' \in [Nodes -> Hosts \cup {NoName}]
        BY <2>1 DEF Typed
    <2> QED BY <1>0, <2>1, <2>2 DEF Confirm, Typed
<1>2. ASSUME NEW n \in Nodes, NEW ok, NEW err, UnsealRefused(n, ok, err)
      PROVE  Typed'
    <2>1. /\ hostname' = hostname /\ SaveNames(err # "blocked", ok)
          /\ UNCHANGED <<now, names, confirmed, script>>
        BY <1>2 DEF UnsealRefused, history
    <2>2. hostname' \in [Nodes -> Hosts \cup {NoName}]
        BY <2>1 DEF Typed
    <2> QED BY <1>0, <2>1, <2>2 DEF Typed
<1>3. ASSUME NEW n \in Nodes, NEW ok, NEW ip, NEW h \in Hosts \cup {NoName}, NEW err,
             Heartbeat(n, h, ip, ok, err)
      PROVE  Typed'
    <2>1. /\ hostname' \in {hostname, [hostname EXCEPT ![n] = h]}
          /\ SaveNames(err # "blocked", ok) /\ Confirm(n, err)
          /\ names' = [names EXCEPT ![n] = @ \cup ({h} \ {NoName})]
          /\ UNCHANGED <<now, script>>
        BY <1>3 DEF Heartbeat
    <2>2. hostname' \in [Nodes -> Hosts \cup {NoName}]
        BY <2>1 DEF Typed
    <2>3. names' \in [Nodes -> SUBSET Hosts]
        BY <2>1 DEF Typed
    <2> QED BY <1>0, <2>1, <2>2, <2>3 DEF Confirm, Typed
<1>4. ASSUME NEW ok, Check(ok)
      PROVE  Typed'
    <2> DEFINE some == \E n \in Registered(nodes) : Overdue(nodes[n], now)
    <2>1. /\ hostname' = hostname /\ SaveNames(some, ok)
          /\ UNCHANGED <<now, names, confirmed, script>>
        BY <1>4 DEF Check, history
    <2> HIDE DEF some
    <2>2. hostname' \in [Nodes -> Hosts \cup {NoName}]
        BY <2>1 DEF Typed
    <2> QED BY <1>0, <2>1, <2>2 DEF Typed
<1>5. CASE Restart
    BY <1>5 DEF Restart, history, Typed
<1>6. CASE Tick
    BY <1>6, StoreAssumption DEF Tick, fileVars, history, Typed, Times
<1>7. ASSUME NEW node \in Nodes \cup Hosts, Start(node)
      PROVE  Typed'
    BY <1>7 DEF Start, NoScript, fileVars, history, Typed, Scripts
<1>8. NoScript \in Scripts /\ [NoScript EXCEPT !.at = "notFound"] \in Scripts
    BY DEF NoScript, Scripts
<1>9. CASE resolve_uuid
    <2>1. script' \in Scripts
        BY <1>8, <1>9 DEF resolve_uuid, Typed, Scripts
    <2> QED BY <1>9, <2>1 DEF resolve_uuid, fileVars, history, Typed
<1>10. CASE apiFails \/ End
    BY <1>8, <1>10 DEF apiFails, End, fileVars, history, Typed
<1>11. ASSUME NEW ok, NEW err, NEW enabled \in BOOLEAN,
              unblock(ok, err) \/ maintenance(enabled, ok, err)
       PROVE  Typed'
    <2>1. /\ hostname' = hostname /\ SaveNames(err # "notFound", ok)
          /\ \E command \in Commands : Outcome(command, err)
          /\ UNCHANGED <<now, names, confirmed>>
        BY <1>11 DEF unblock, maintenance, history, Commands
    <2>2. hostname' \in [Nodes -> Hosts \cup {NoName}]
        BY <2>1 DEF Typed
    <2>3. script' \in Scripts
        BY <1>8, <2>1 DEF Outcome, Answered, Typed, Scripts
    <2> QED BY <1>0, <2>1, <2>2, <2>3 DEF Typed
<1>12. CASE UNCHANGED vars
    BY <1>12 DEF vars, fileVars, history, Typed
<1>13. CASE MachineNext
    BY <1>1, <1>2, <1>3, <1>13 DEF MachineNext
<1>14. CASE ScriptNext
    BY <1>7, <1>9, <1>10, <1>11, <1>14 DEF ScriptNext
<1> QED BY <1>4, <1>5, <1>6, <1>12, <1>13, <1>14 DEF Next

\* Names are kept: what is saved, and what comes back, was reported before.
LEMMA NamedStep ==
    ASSUME Typed, Named, [Next]_vars
    PROVE  Named' /\ (\A k \in Nodes : names[k] \subseteq names'[k])
<1>1. ASSUME NEW n \in Nodes, NEW ok, NEW ip, NEW h \in Hosts \cup {NoName}, NEW err,
             Heartbeat(n, h, ip, ok, err)
      PROVE  Named' /\ (\A k \in Nodes : names[k] \subseteq names'[k])
    <2>1. /\ hostname' \in {hostname, [hostname EXCEPT ![n] = h]}
          /\ savedHostname' \in {savedHostname, hostname'}
          /\ names' = [names EXCEPT ![n] = @ \cup ({h} \ {NoName})]
        BY <1>1 DEF Heartbeat, SaveNames
    <2>2. \A k \in Nodes : /\ names[k] \subseteq names'[k]
                           /\ k = n => h \in names'[k] \cup {NoName}
        BY <2>1 DEF Typed
    <2>3. \A k \in Nodes : hostname'[k] \in names'[k] \cup {NoName}
        BY <2>1, <2>2 DEF Named, Typed
    <2>4. \A k \in Nodes : savedHostname'[k] \in names'[k] \cup {NoName}
        BY <2>1, <2>2, <2>3 DEF Named
    <2> QED BY <2>2, <2>3, <2>4 DEF Named
<1>2. CASE /\ hostname' \in {hostname, savedHostname}
           /\ savedHostname' \in {savedHostname, hostname'}
           /\ names' = names
    BY <1>2 DEF Named
<1>3. CASE MachineNext
    <2>1. ASSUME NEW n \in Nodes, NEW ok, NEW ip, NEW err,
                 Unseal(n, ip, ok, err) \/ UnsealRefused(n, ok, err)
          PROVE  Named' /\ (\A k \in Nodes : names[k] \subseteq names'[k])
        BY <1>2, <2>1 DEF Unseal, UnsealRefused, SaveNames, history
    <2> QED BY <1>1, <1>3, <2>1 DEF MachineNext
<1>4. CASE ScriptNext
    BY <1>2, <1>4 DEF ScriptNext, Start, resolve_uuid, apiFails, unblock, maintenance, End,
                      SaveNames, fileVars, history
<1>5. ASSUME NEW ok, Check(ok)
      PROVE  Named' /\ (\A k \in Nodes : names[k] \subseteq names'[k])
    BY <1>2, <1>5 DEF Check, SaveNames, history
<1> QED BY <1>2, <1>3, <1>4, <1>5 DEF Next, Restart, Tick, vars, fileVars, history

\* A record that lives is not blocked in the future.
LEMMA PastLives ==
    ASSUME Past, AllLive(now), Written, UNCHANGED now, now \in Times
    PROVE  Past'
<1>1. now \in Nat
    BY TimesOK
<1>2. ASSUME NEW k \in Nodes, nodes'[k] # Absent, nodes'[k].Status = "blocked"
      PROVE  nodes'[k].BlockedAt <= now
    BY <1>1, <1>2 DEF Past, BlocksPast, AllLive, Lives
<1> QED BY <1>2 DEF Past, BlocksPast, Written

\* No step dates a block in the future.
LEMMA PastStep == ASSUME StoreInv, Typed, Past, Aimed, [Next]_vars PROVE Past'
<1>1. CASE StoreCall
    BY <1>1, PastLives DEF StoreCall, Typed
<1>2. CASE Restart
    BY <1>2 DEF Restart, Load, Past, BlocksPast
<1>3. CASE Tick
    <2>1. now' = now + 1 /\ nodes' = nodes /\ file' = file /\ now \in Nat
        BY <1>3, TimesOK DEF Tick, storeVars, Typed
    <2>2. ASSUME NEW m, MapOK(m), BlocksPast(m), NEW k \in Nodes, m[k] # Absent,
                 m[k].Status = "blocked"
          PROVE  m[k].BlockedAt <= now + 1
        <3>1. m[k].BlockedAt \in Nat /\ m[k].BlockedAt <= now
            BY <2>2 DEF MapOK, RecordOK, LeaseRecord, BlocksPast
        <3> QED BY <2>1, <3>1
    <2> QED BY <2>1, <2>2 DEF StoreInv, Past, BlocksPast
<1>4. ASSUME NEW command, NEW err, Command(command, err)
      PROVE  Past'
    BY <1>4, PastLives DEF Command, Typed
<1>5. CASE UNCHANGED <<nodes, file, now>>
    BY <1>5 DEF Past, BlocksPast
<1> QED BY <1>1, <1>2, <1>3, <1>4, <1>5, Steps
        DEF Start, resolve_uuid, vars, storeVars

\* What is confirmed was written, and is never deleted.
LEMMA KeptStep == ASSUME StoreInv, Typed, Kept, Aimed, [Next]_vars PROVE Kept'
<1>1. ASSUME AllLive(now), Written, NEW n \in confirmed
      PROVE  nodes'[n] # Absent /\ file'[n] # Absent
    BY <1>1 DEF AllLive, Lives, Written, Kept, Typed
<1>2. CASE /\ StoreCall
           /\ \/ confirmed' = confirmed
              \/ \E n \in Nodes : /\ confirmed' = confirmed \cup {n}
                                  /\ nodes'[n] # Absent /\ file' = nodes'
    BY <1>1, <1>2 DEF StoreCall, Kept
<1>3. CASE Restart
    BY <1>3 DEF Restart, Load, history, Kept
<1>4. ASSUME NEW command, NEW err, Command(command, err)
      PROVE  Kept'
    BY <1>1, <1>4 DEF Command, Kept
<1>5. CASE UNCHANGED <<nodes, file, confirmed>>
    BY <1>5 DEF Kept
<1> QED BY <1>2, <1>3, <1>4, <1>5, Steps
        DEF Tick, Start, resolve_uuid, vars, storeVars, history

\* Where the script is after it was ended, and after it gave up.
LEMMA Ended == NoScript.at = "idle" /\ [NoScript EXCEPT !.at = "notFound"].at = "notFound"
BY DEF NoScript

\* Where the script is after the list of nodes.
LEMMA ResolvedAt ==
    ASSUME Typed, resolve_uuid
    PROVE  /\ script.at = "resolve"
           /\ script'.at \in {"act", "notFound", "idle"}
           /\ script'.at = "notFound" => Matches(handleListNodes, script.node) = {}
<1>1. \A n : [script EXCEPT !.at = "act", !.uuid = n].at = "act"
    BY DEF Typed, Scripts
<1>2. CASE \E n \in Nodes : script' = [script EXCEPT !.at = "act", !.uuid = n]
    BY <1>1, <1>2 DEF resolve_uuid
<1>3. CASE script' = NoScript
    BY <1>3, Ended DEF resolve_uuid
<1>4. CASE /\ Matches(handleListNodes, script.node) = {}
           /\ script' = [NoScript EXCEPT !.at = "notFound"]
    <2>1. script'.at = "notFound"
        BY <1>4, Ended
    <2> QED BY <1>4, <2>1 DEF resolve_uuid
<1> QED BY <1>2, <1>3, <1>4 DEF resolve_uuid

\* The aim is found right in the list, and stays right.
LEMMA AimedStep == ASSUME StoreInv, Typed, Named, Aimed, [Next]_vars PROVE Aimed'
<1>0. \A k \in Nodes : names[k] \subseteq names'[k]
    BY NamedStep
<1>1. CASE script' = script
    BY <1>0, <1>1 DEF Aimed
<1>2. CASE script'.at \in {"idle", "notFound"}
    BY <1>2 DEF Aimed
<1>3. ASSUME NEW node \in Nodes \cup Hosts, Start(node)
      PROVE  Aimed'
    BY <1>3 DEF Start, NoScript, Aimed
<1>4. CASE resolve_uuid
    <2> DEFINE found == Matches(handleListNodes, script.node)
    <2>1. script.node \in Nodes \cup Hosts /\ names' = names
        BY <1>4 DEF resolve_uuid, Aimed, history
    <2>2. ASSUME NEW n \in Nodes, found = {n},
                 script' = [script EXCEPT !.at = "act", !.uuid = n]
          PROVE  Aimed'
        <3>1. script.node = n \/ hostname[n] = script.node
            BY <2>2 DEF Matches, handleListNodes
        <3>2. script.node = n \/ script.node \in names[n]
            BY <2>1, <3>1, ScriptAssumption DEF Named
        <3>3. script'.at = "act" /\ script'.uuid = n /\ script'.node = script.node
            BY <2>2 DEF Typed, Scripts
        <3> QED BY <2>1, <3>2, <3>3 DEF Aimed
    <2>3. CASE script' \in {NoScript, [NoScript EXCEPT !.at = "notFound"]}
        <3>1. script'.at \in {"idle", "notFound"}
            BY <2>3, Ended
        <3> QED BY <1>2, <3>1
    <2> QED BY <1>4, <2>2, <2>3 DEF resolve_uuid
<1>5. ASSUME NEW command, NEW err, Command(command, err)
      PROVE  Aimed'
    <2>1. script.at = "act" /\ Outcome(command, err) /\ names' = names
        BY <1>5 DEF Command
    <2>2. CASE script' = [script EXCEPT !.at = "done", !.command = command, !.since = now]
        <3>1. script'.at = "done" /\ script'.uuid = script.uuid /\ script'.node = script.node
            BY <2>2 DEF Typed, Scripts
        <3> QED BY <2>1, <3>1 DEF Aimed
    <2> QED BY <1>2, <2>1, <2>2 DEF Outcome, Answered, NoScript
<1> QED BY <1>1, <1>2, <1>3, <1>4, <1>5, Steps DEF StoreCall, Restart, Tick, vars, NoScript

\* A spared record stays so while it lives, and carries what spares it.
LEMMA SparedLives ==
    ASSUME NEW r, RecordOK(r), NEW s, RecordOK(s), NEW t \in Times, script' = script,
           script.since \in Times, script.since <= t,
           Spared(r), Lives(r, s, t), Carries(r, s, t)
    PROVE  Spared(s)
<1>1. /\ t \in Nat /\ script.since \in Nat /\ HeartbeatTimeout \in Nat
      /\ r.LastHeartbeatAt \in Nat /\ s.LastHeartbeatAt \in Nat
      /\ r.BlockedAt \in Nat /\ s.BlockedAt \in Nat
    BY TimesOK, StoreAssumption DEF RecordOK, LeaseRecord
<1>2. s # Absent
    BY DEF Lives
<1>3. \/ s.LastHeartbeatAt >= script.since
      \/ script.command = "maintenance" /\ s.Maintenance
    BY <1>1 DEF Carries, Spared
<1>4. ASSUME s.Status = "blocked"
      PROVE  \/ s.BlockedAt > script.since + HeartbeatTimeout
             \/ script.command = "maintenance" /\ s.BlockedAt <= script.since
    <2>1. CASE r.Status = "blocked" /\ s.BlockedAt = r.BlockedAt
        BY <2>1 DEF Spared
    <2>2. CASE Overdue(r, t) /\ s.BlockedAt = t
        <3>1. r.LastHeartbeatAt >= script.since
            BY <2>2 DEF Spared, Overdue
        <3>2. t - r.LastHeartbeatAt > HeartbeatTimeout
            BY <2>2 DEF Overdue
        <3> QED BY <1>1, <2>2, <3>1, <3>2
    <2> QED BY <1>4, <2>1, <2>2 DEF Lives
<1> QED BY <1>2, <1>3, <1>4 DEF Spared

\* What a command has achieved is kept, by the memory and by the file.
LEMMA HeldStep ==
    ASSUME StoreInv, StoreInv', Typed, Past, Aimed, Held, [Next]_vars
    PROVE  Held'
<1>0. now \in Times /\ now \in Nat
    BY TimesOK DEF Typed
<1>1. CASE script'.at # "done"
    BY <1>1 DEF Held
<1>2. CASE StoreCall
    <2> SUFFICES ASSUME script.at = "done" PROVE Held'
        BY <1>2 DEF StoreCall, Held
    <2> DEFINE u == script.uuid
    <2>1. /\ u \in Nodes /\ script' = script /\ now' = now
          /\ script.since \in Times /\ script.since <= now
          /\ Spared(nodes[u]) /\ Spared(file[u])
        BY <1>2 DEF StoreCall, Aimed, Held
    <2>2. nodes[u] # Absent /\ Lives(nodes[u], nodes'[u], now) /\ Carries(nodes[u], nodes'[u], now)
        BY <1>2, <2>1 DEF StoreCall, AllLive, AllCarry, Spared
    <2>3. RecordOK(nodes[u]) /\ RecordOK(nodes'[u])
        <3>1. nodes'[u] # Absent
            BY <2>2 DEF Lives
        <3> QED BY <2>1, <2>2, <3>1 DEF StoreInv, MapOK, RecordOK
    <2>4. Spared(nodes'[u])
        BY <1>0, <2>1, <2>2, <2>3, SparedLives
    <2>5. Spared(file'[u])
        BY <1>2, <2>1, <2>4 DEF StoreCall, Written
    <2>6. Spared(nodes[u])' /\ Spared(file[u])'
        BY <2>1, <2>4, <2>5 DEF Spared
    <2> QED BY <2>1, <2>6 DEF Held
<1>3. CASE Restart
    BY <1>3 DEF Restart, Load, Held, Spared
<1>4. CASE Tick
    <2>1. now' = now + 1 /\ UNCHANGED <<nodes, file, script>>
        BY <1>4 DEF Tick, storeVars
    <2>2. script.since \in Times => script.since \in Nat
        BY TimesOK
    <2> QED BY <1>0, <2>1, <2>2 DEF Held, Spared
<1>5. ASSUME NEW command, NEW err, Command(command, err), script'.at = "done"
      PROVE  Held'
    <2> DEFINE u == script.uuid
               r == nodes'[u]
    <2>1. /\ script.at = "act" /\ u \in Nodes /\ now' = now
          /\ err = "none"
          /\ script' = [script EXCEPT !.at = "done", !.command = command, !.since = now]
        BY <1>5 DEF Command, Outcome, Answered, NoScript, Aimed
    <2>2. script'.uuid = u /\ script'.command = command /\ script'.since = now
        BY <2>1 DEF Typed, Scripts
    <2>3. /\ file' = nodes' /\ r # Absent
          /\ command \in {"unblock", "maintenance"}
          /\ command = "unblock" => r.Status = "active" /\ r.LastHeartbeatAt = now
          /\ command = "maintenance" => r.LastHeartbeatAt = now \/ r.Maintenance
        BY <1>5, <2>1 DEF Command, Commands, Lives
    <2>4. Past'
        BY <1>5, PastLives DEF Command, Typed
    <2>5. r.Status = "blocked" => r.BlockedAt <= now
        BY <2>1, <2>3, <2>4 DEF Past, BlocksPast
    <2>6. Spared(nodes[u])' /\ Spared(file[u])'
        BY <1>0, <2>2, <2>3, <2>5 DEF Spared
    <2> QED BY <1>0, <2>1, <2>2, <2>6 DEF Held
<1>6. CASE UNCHANGED vars
    BY <1>6 DEF vars, storeVars, Held, Spared
<1>7. (\E node \in Nodes \cup Hosts : Start(node)) => script'.at = "resolve"
    BY DEF Start, NoScript
<1>8. resolve_uuid => script'.at \in {"act", "notFound", "idle"}
    BY ResolvedAt
<1>9. NoScript.at = "idle"
    BY DEF NoScript
<1> QED BY <1>1, <1>2, <1>3, <1>4, <1>5, <1>6, <1>7, <1>8, <1>9, Steps

-----------------------------------------------------------------------------
(* Theorems *)

\* The invariant holds at first.
LEMMA ScriptInitOK == Init => ScriptInv
<1> SUFFICES ASSUME Init PROVE ScriptInv
    OBVIOUS
<1>1. StoreInv
    BY StoreInitOK DEF Init
<1>2. Typed
    BY StoreAssumption, ScriptAssumption DEF Init, Typed, Times, NoScript, Scripts
<1>3. Past
    BY DEF Init, StoreInit, NoLeases, Past, BlocksPast
<1>4. Named /\ Kept /\ Aimed /\ Held
    BY DEF Init, Named, Kept, Aimed, Held, NoScript
<1> QED BY <1>1, <1>2, <1>3, <1>4 DEF ScriptInv

\* The invariant of the script.
THEOREM ScriptInvariant == Spec => []ScriptInv
<1>1. ScriptInv /\ [Next]_vars => ScriptInv'
    <2> SUFFICES ASSUME ScriptInv, [Next]_vars PROVE ScriptInv'
        OBVIOUS
    <2>1. StoreInv'
        BY StepIsStore, StoreStep DEF ScriptInv
    <2> QED BY <2>1, TypedStep, NamedStep, PastStep, KeptStep, AimedStep, HeldStep DEF ScriptInv
<1> QED BY <1>1, ScriptInitOK, PTL DEF Spec

\* Types, of the store, the machines and the script.
THEOREM ScriptTypeCorrect == Spec => []TypeOK
<1>1. ScriptInv => TypeOK
    BY StoreInvImplies DEF ScriptInv, Typed, Scripts, TypeOK
<1> QED BY <1>1, ScriptInvariant, PTL

\* The script acts on the node it was given by UUID or on one that has had the
\* name it was given, for any number of machines that are renamed, replaced
\* or forgotten by a restart between its two requests.
THEOREM ScriptActsOnABearer == Spec => []ActsOnABearer
<1>1. ScriptInv => ActsOnABearer
    BY DEF ScriptInv, Aimed, ActsOnABearer
<1> QED BY <1>1, ScriptInvariant, PTL

\* A command that was reported as done spares its node the switch for
\* HeartbeatTimeout, for any number of failed writes and restarts after it.
THEOREM ScriptDoneHolds == Spec => []DoneHolds
<1>1. ScriptInv => DoneHolds
    BY DEF ScriptInv, Held, Spared, DoneHolds
<1> QED BY <1>1, ScriptInvariant, PTL

\* A node that was confirmed once is found by its UUID ever after, and is not
\* gone when the script acts on it.
THEOREM ScriptConfirmedIsFound == Spec => ConfirmedIsFound
<1> DEFINE Wanted == IF script.at = "resolve" THEN script.node ELSE script.uuid
           Found == script.at # "notFound" /\ script'.at = "notFound" => Wanted \notin confirmed
<1>1. ScriptInv /\ [Next]_vars => [Found]_vars
    <2> SUFFICES ASSUME ScriptInv, [Next]_vars, script.at # "notFound", script'.at = "notFound"
                 PROVE  Wanted \notin confirmed
        BY Zenon
    <2>0. StoreInv /\ Typed /\ Kept /\ Aimed
        BY DEF ScriptInv
    <2>1. CASE resolve_uuid
        <3>1. script.at = "resolve" /\ Matches(handleListNodes, script.node) = {}
            BY <2>0, <2>1, ResolvedAt
        <3>2. script.node \notin Registered(nodes)
            BY <3>1 DEF Matches, handleListNodes
        <3> QED BY <2>0, <3>1, <3>2 DEF Registered, Kept, Typed
    <2>2. ASSUME NEW command, NEW err, Command(command, err)
          PROVE  Wanted \notin confirmed
        <3>1. script.at = "act" /\ err = "notFound"
            <4>1. script.at = "act" /\ Outcome(command, err)
                BY <2>2 DEF Command
            <4>2. [script EXCEPT !.at = "done", !.command = command, !.since = now].at = "done"
                BY <2>0 DEF Typed, Scripts
            <4>3. script' # NoScript
                BY Ended
            <4>4. script' # [script EXCEPT !.at = "done", !.command = command, !.since = now]
                BY <4>2
            <4> QED BY <4>1, <4>3, <4>4 DEF Outcome, Answered
        <3>2. nodes[script.uuid] = Absent
            BY <2>2, <3>1 DEF Command
        <3> QED BY <2>0, <3>1, <3>2 DEF Kept
    <2>3. /\ (\E node \in Nodes \cup Hosts : Start(node)) => script'.at = "resolve"
          /\ NoScript.at = "idle"
        BY DEF Start, NoScript
    <2> QED BY <2>0, <2>1, <2>2, <2>3, Steps DEF StoreCall, Restart, Tick, vars
<1> QED BY <1>1, ScriptInvariant, PTL DEF Spec, ConfirmedIsFound

\* The admin API, the agents and the switch are users of the same store.
THEOREM ScriptImplementsStore == Spec => StoreSpec
<1>1. Init => StoreInit
    BY DEF Init
<1>2. ScriptInv /\ [Next]_vars => [StoreNext]_storeVars
    BY StepIsStore DEF ScriptInv
<1> QED BY <1>1, <1>2, ScriptInvariant, PTL DEF Spec, StoreSpec

\* No address belongs to two nodes and the gauges count every lease, with an
\* operator at work on the store too.
THEOREM ScriptStoreSafe == Spec => [](UniqueUnsealIP /\ GaugesCountEveryLease)
BY ScriptImplementsStore, StoreUniqueUnsealIP, StoreGauges, PTL

=============================================================================
