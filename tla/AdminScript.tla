----------------------------- MODULE AdminScript -----------------------------
(***************************************************************************)
(* The operator's script (scripts/kms-admin.sh) and the admin API it       *)
(* calls: it lists the nodes, picks the UUID of the node it was given by   *)
(* UUID or hostname, and unblocks that node or sets its maintenance mode   *)
(* in a second request.                                                    *)
(*                                                                         *)
(* Around it machines unseal their disks and send heartbeats with their    *)
(* names.  A machine can be renamed, and one that replaces another has     *)
(* another UUID and may have the same name.  Writing the file can fail,    *)
(* and the server can die and start again between any two steps: what was  *)
(* not written is lost, records and names alike.                           *)
(*                                                                         *)
(* Each request takes one instant (KMSServer has them overtake each        *)
(* other).                                                                 *)
(***************************************************************************)
EXTENDS LeaseStore

CONSTANTS
    Hosts,     \* the hostnames of the machines
    NoName,    \* the empty hostname ""
    MaxFaults  \* bound: how many times the file cannot be written

ASSUME ScriptAssumption ==
    /\ NoName \notin Hosts \cup Nodes
    /\ Absent \notin Nodes
    /\ MaxTime > 0
    /\ MaxFaults \in Nat

VARIABLES
    now,            \* the time
    hostname,       \* the field Hostname of each record in memory
    savedHostname,  \* and in the file
    faults,         \* how often the file could not be written
    names,          \* history: the names that the machine of each UUID has had
    confirmed,      \* history: the UUIDs of which a request was answered "ok"
    script          \* the script under way: its state and its local variables

fileVars == <<hostname, savedHostname, faults>>
history == <<names, confirmed>>
vars == <<storeVars, now, fileVars, history, script>>

Commands == {"unblock", "maintenance"}

NoScript ==
    [at |-> "idle", command |-> "none", node |-> Absent, uuid |-> Absent, since |-> Zero]

\* The names are part of the map that persistLocked writes, if it is called.
SaveNames(called, ok) ==
    /\ ok \/ (called /\ faults < MaxFaults)
    /\ faults' = IF ok THEN faults ELSE faults + 1
    /\ savedHostname' = IF called /\ ok THEN hostname' ELSE savedHostname

Confirm(n, err) == confirmed' = IF err = "none" THEN confirmed \cup {n} ELSE confirmed

-----------------------------------------------------------------------------
(* Machines *)

\* Bootstrap keeps the hostname of a record it replaces.
Unseal(n, ip, ok, err) ==
    /\ nodes[n] # Absent => nodes[n].Status # "blocked" /\ ~LeaseOver(nodes[n], now)
    /\ Bootstrap(n, ip, now, ok, err)
    /\ hostname' = hostname
    /\ SaveNames(TRUE, ok)
    /\ Confirm(n, err)
    /\ UNCHANGED <<now, names, script>>

UnsealRefused(n, ok, err) ==
    /\ Validate(n, now, ok, err)
    /\ hostname' = hostname
    /\ SaveNames(err # "blocked", ok)
    /\ UNCHANGED <<now, history, script>>

\* A heartbeat brings the name of the machine, a new one or, late, an old one,
\* or none.  It makes a record for a UUID that has none.
Heartbeat(n, h, ip, ok, err) ==
    /\ HeartbeatByUUID(n, ip, now, ok, err)
    /\ hostname' = IF err = "blocked" \/ h = NoName THEN hostname
                                                    ELSE [hostname EXCEPT ![n] = h]
    /\ SaveNames(err # "blocked", ok)
    /\ names' = [names EXCEPT ![n] = @ \cup ({h} \ {NoName})]
    /\ Confirm(n, err)
    /\ UNCHANGED <<now, script>>

Check(ok) ==
    /\ BlockExpiredNodes(now, ok)
    /\ hostname' = hostname
    /\ SaveNames(\E n \in Registered(nodes) : Overdue(nodes[n], now), ok)
    /\ UNCHANGED <<now, history, script>>

\* The server dies and starts again.
Restart ==
    /\ Load(now)
    /\ hostname' = savedHostname
    /\ UNCHANGED <<now, savedHostname, faults, history, script>>

Tick ==
    /\ now < MaxTime
    /\ now' = now + 1
    /\ UNCHANGED <<storeVars, fileVars, history, script>>

-----------------------------------------------------------------------------
(* The script *)

Start(node) ==
    /\ script.at = "idle"
    /\ script' = [NoScript EXCEPT !.at = "resolve", !.node = node]
    /\ UNCHANGED <<storeVars, now, fileVars, history>>

\* The list of nodes: the hostname of every registered UUID.
handleListNodes == [n \in Registered(nodes) |-> hostname[n]]

\* Mutant: records without a hostname match any.
MatchesUnnamed(list, node) ==
    IF node \in DOMAIN list THEN {node}
    ELSE {n \in DOMAIN list : list[n] \in {node, NoName}}

\* The UUIDs that jq prints of a list: the one that was asked for, or else all
\* that have the hostname.
Matches(list, node) ==
    IF node \in DOMAIN list THEN {node} ELSE {n \in DOMAIN list : list[n] = node}

\* No match ends the script.  Two or more make a URL of several lines, which
\* curl refuses.
resolve_uuid ==
    LET found == Matches(handleListNodes, script.node) IN
    /\ script.at = "resolve"
    /\ \/ \E n \in Nodes :
              /\ found = {n}
              /\ script' = [script EXCEPT !.at = "act", !.uuid = n]
       \/ /\ found = {}
          /\ script' = [NoScript EXCEPT !.at = "notFound"]
       \/ /\ found # {}
          /\ \A n \in Nodes : found # {n}
          /\ script' = NoScript
    /\ UNCHANGED <<storeVars, now, fileVars, history>>

\* Either request can get lost or be refused (the server is down, the token is
\* wrong): curl fails and ends the script.
apiFails ==
    /\ script.at \in {"resolve", "act"}
    /\ script' = NoScript
    /\ UNCHANGED <<storeVars, now, fileVars, history>>

\* Mutant: curl without -f, which succeeds whatever the status of the answer.
AnsweredAnyway(command, err) ==
    script' = [script EXCEPT !.at = "done", !.command = command, !.since = now]

\* What the script makes of the server's answer: curl fails unless it is 200.
Answered(command, err) ==
    \/ /\ err = "none"
       /\ script' = [script EXCEPT !.at = "done", !.command = command, !.since = now]
    \/ /\ err = "notFound"
       /\ script' = [NoScript EXCEPT !.at = "notFound"]
    \/ /\ err \notin {"none", "notFound"}
       /\ script' = NoScript

\* The answer reaches the script, or is lost.
Outcome(command, err) == Answered(command, err) \/ script' = NoScript

unblock(ok, err) ==
    /\ script.at = "act"
    /\ Unblock(script.uuid, now, ok, err)
    /\ hostname' = hostname
    /\ SaveNames(err # "notFound", ok)
    /\ Outcome("unblock", err)
    /\ UNCHANGED <<now, history>>

maintenance(enabled, ok, err) ==
    /\ script.at = "act"
    /\ SetMaintenance(script.uuid, enabled, now, ok, err)
    /\ hostname' = hostname
    /\ SaveNames(err # "notFound", ok)
    /\ Outcome("maintenance", err)
    /\ UNCHANGED <<now, history>>

End ==
    /\ script.at \in {"done", "notFound"}
    /\ script' = NoScript
    /\ UNCHANGED <<storeVars, now, fileVars, history>>

Init ==
    /\ StoreInit
    /\ now = 1
    /\ hostname = [n \in Nodes |-> NoName]
    /\ savedHostname = hostname
    /\ faults = 0
    /\ names = [n \in Nodes |-> {}]
    /\ confirmed = {}
    /\ script = NoScript

MachineNext ==
    \E n \in Nodes, ok \in PersistOutcomes :
        \/ \E ip \in IPs, err \in {"none", "internal"} : Unseal(n, ip, ok, err)
        \/ \E err \in {"blocked", "expired", "internal"} : UnsealRefused(n, ok, err)
        \/ \E ip \in IPs, h \in Hosts \cup {NoName}, err \in {"none", "blocked", "internal"} :
               Heartbeat(n, h, ip, ok, err)

ScriptNext ==
    \/ \E node \in Nodes \cup Hosts : Start(node)
    \/ resolve_uuid
    \/ apiFails
    \/ \E ok \in PersistOutcomes, err \in {"none", "notFound", "internal"} :
           unblock(ok, err) \/ \E enabled \in BOOLEAN : maintenance(enabled, ok, err)
    \/ End

Next ==
    \/ MachineNext
    \/ ScriptNext
    \/ \E ok \in PersistOutcomes : Check(ok)
    \/ Restart
    \/ Tick

Spec == Init /\ [][Next]_vars

-----------------------------------------------------------------------------
(* What the script promises *)

TypeOK ==
    /\ StoreTypeOK
    /\ now \in Times
    /\ hostname \in [Nodes -> Hosts \cup {NoName}]
    /\ savedHostname \in [Nodes -> Hosts \cup {NoName}]
    /\ faults \in 0..MaxFaults
    /\ names \in [Nodes -> SUBSET Hosts]
    /\ confirmed \subseteq Nodes
    /\ script \in [at      : {"idle", "resolve", "act", "done", "notFound"},
                   command : Commands \cup {"none"},
                   node    : Nodes \cup Hosts \cup {Absent},
                   uuid    : Nodes \cup {Absent},
                   since   : Times \cup {Zero}]

\* The script acts on the node with the given UUID, or on one that has had the
\* given name, although machines are renamed and replaced, late heartbeats
\* and restarts bring old names back, records have no name at first, and the
\* list is old when it is used.
ActsOnABearer ==
    script.at \in {"act", "done"} =>
        \/ script.uuid = script.node
        \/ script.node \in names[script.uuid]

\* A node that the server has given its key, or whose heartbeat it has
\* confirmed, is there for the script ever after: asked for by its UUID it is
\* found, and once found it is not gone (404) when the script acts, although
\* records that could not be written vanish with the process.
ConfirmedIsFound ==
    [][script.at # "notFound" /\ script'.at = "notFound" =>
          (IF script.at = "resolve" THEN script.node ELSE script.uuid) \notin confirmed]_vars

\* A command that the script reports as done spares the node the switch for
\* HeartbeatTimeout, in memory and in the file, whatever fails or dies in
\* between; an unblock has also undone every earlier block.
DoneHolds ==
    script.at = "done" =>
        \A m \in {nodes, file} :
            LET record == m[script.uuid] IN
            /\ record # Absent
            /\ record.Status = "blocked" =>
                   \/ record.BlockedAt > script.since + HeartbeatTimeout
                   \/ script.command = "maintenance" /\ record.BlockedAt <= script.since

=============================================================================
