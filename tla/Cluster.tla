------------------------------- MODULE Cluster -------------------------------
(***************************************************************************)
(* The nodes, their agents, the network and the server together: a node    *)
(* boots by unsealing its disk, its agent asks the server who it is and    *)
(* sends signed heartbeats, and the dead-man's switch blocks nodes that    *)
(* fall silent.  The store's methods are those of LeaseStore, the checks   *)
(* of a request those of HMACAuth; a UUID or an address is a text of one   *)
(* character there, the node or the address itself.                        *)
(*                                                                         *)
(* A heartbeat can arrive late, more than once, out of order or never.     *)
(* Each handler takes one instant (KMSServer has them overtake each        *)
(* other), the disk does not fail, a node keeps its address while it runs, *)
(* and clocks do not step.                                                 *)
(***************************************************************************)
EXTENDS LeaseStore, HMACAuth

CONSTANTS
    CheckInterval,   \* --heartbeat-check-interval
    Skew             \* how far a node's clock is from the server's

ASSUME ClusterAssumption ==
    /\ CheckInterval \in Nat \ {0}
    /\ Skew \in Nat
    /\ MaxTime > 0
    /\ MaxTime + Skew < Word \div 2   \* seconds since 1970 fit the integers

VARIABLES
    now,       \* the server's clock
    due,       \* when the switch's ticker fires next
    machine,   \* for each node: whether it runs, and its address
    agent,     \* for each node: the UUID its agent has learned, or Absent
    network,   \* the heartbeats sent
    lastOn     \* history: when the node stopped

clusterVars == <<machine, agent, network>>
vars == <<storeVars, now, due, clusterVars, lastOn>>

NodeClocks == (now - Skew)..(now + Skew)

Running == {n \in Nodes : machine[n].on}

\* The node that LookupByIP returns for an address is some n of which this
\* holds: the fallback to NodeIP takes the first match in a random order.
LookupByIP(n, ip) ==
    \/ recordByIPLocked(nodes, n, ip)
    \/ /\ ~ \E k \in Nodes : recordByIPLocked(nodes, k, ip)
       /\ nodes[n] # Absent
       /\ nodes[n].NodeIP = ip

-----------------------------------------------------------------------------
(* Nodes *)

\* A node boots with an address that no running node has, and gets its key.
Boot(n, ip) ==
    /\ ~machine[n].on
    /\ ip \notin {machine[k].ip : k \in Running}
    /\ nodes[n] # Absent =>
           /\ nodes[n].Status # "blocked"
           /\ ~LeaseOver(nodes[n], now)
    /\ Bootstrap(n, ip, now, TRUE, "none")
    /\ machine' = [machine EXCEPT ![n] = [on |-> TRUE, ip |-> ip]]
    /\ agent' = [agent EXCEPT ![n] = Absent]
    /\ UNCHANGED <<now, due, network, lastOn>>

\* The server refuses the key: the node does not come up.
BootRefused(n, err) ==
    /\ ~machine[n].on
    /\ err \in {"blocked", "expired"}
    /\ Validate(n, now, TRUE, err)
    /\ UNCHANGED <<now, due, clusterVars, lastOn>>

\* The node is switched off, lost or stolen.
Shutdown(n) ==
    /\ machine[n].on
    /\ machine' = [machine EXCEPT ![n].on = FALSE]
    /\ lastOn' = [lastOn EXCEPT ![n] = now]
    /\ UNCHANGED <<storeVars, now, due, agent, network>>

-----------------------------------------------------------------------------
(* Agents and the HTTP API *)

\* sendIdentify and handleIdentify: the agent of n learns that it is k.
Identify(n, k, timestamp) ==
    /\ machine[n].on
    /\ agent[n] = Absent
    /\ timestamp # 0
    /\ ValidateTimestamp(timestamp, now)
    /\ LET ip == <<machine[n].ip>> IN
           VerifyIdentify(ip, timestamp, SignIdentify(ip, timestamp))
    /\ LookupByIP(k, machine[n].ip)
    /\ agent' = [agent EXCEPT ![n] = k]
    /\ UNCHANGED <<storeVars, now, due, machine, network, lastOn>>

sendHeartbeat(n, timestamp) ==
    /\ machine[n].on
    /\ agent[n] # Absent
    /\ network' = network \cup
           {[uuid      |-> agent[n],
             ip        |-> machine[n].ip,
             timestamp |-> timestamp,
             signature |-> Sign(<<agent[n]>>, <<machine[n].ip>>, timestamp)]}
    /\ UNCHANGED <<storeVars, now, due, machine, agent, lastOn>>

\* Mutant: the age of a heartbeat does not matter.
AcceptsAnyAge(m) == Verify(<<m.uuid>>, <<m.ip>>, m.timestamp, m.signature)

Accepts(m) ==
    /\ m.timestamp # 0
    /\ ValidateTimestamp(m.timestamp, now)
    /\ Verify(<<m.uuid>>, <<m.ip>>, m.timestamp, m.signature)

\* A heartbeat arrives, for the first time or again.  The lease counts from
\* the arrival and not from the timestamp.
handleHeartbeat(m, err) ==
    /\ m \in network
    /\ Accepts(m)
    /\ HeartbeatByUUID(m.uuid, m.ip, now, TRUE, err)
    /\ UNCHANGED <<now, due, clusterVars, lastOn>>

-----------------------------------------------------------------------------
(* The switch and the clocks *)

Check ==
    /\ now = due
    /\ BlockExpiredNodes(now, TRUE)
    /\ due' = now + CheckInterval
    /\ UNCHANGED <<now, clusterVars, lastOn>>

Tick ==
    /\ now < due
    /\ now < MaxTime
    /\ now' = now + 1
    /\ UNCHANGED <<storeVars, due, clusterVars, lastOn>>

Init ==
    /\ StoreInit
    /\ now = 1
    /\ due = now + CheckInterval
    /\ machine = [n \in Nodes |-> [on |-> FALSE, ip |-> NoIP]]
    /\ agent = [n \in Nodes |-> Absent]
    /\ network = {}
    /\ lastOn = [n \in Nodes |-> Zero]

Next ==
    \/ \E n \in Nodes, ip \in IPs : Boot(n, ip)
    \/ \E n \in Nodes, err \in Errors : BootRefused(n, err)
    \/ \E n \in Nodes : Shutdown(n)
    \/ \E n, k \in Nodes, timestamp \in NodeClocks : Identify(n, k, timestamp)
    \/ \E n \in Nodes, timestamp \in NodeClocks : sendHeartbeat(n, timestamp)
    \/ \E m \in network, err \in Errors : handleHeartbeat(m, err)
    \/ Check
    \/ Tick

Spec == Init /\ [][Next]_vars

-----------------------------------------------------------------------------
(* What the system promises *)

TypeOK ==
    /\ StoreTypeOK
    /\ now \in Times
    /\ due \in Nat
    /\ machine \in [Nodes -> [on : BOOLEAN, ip : IPs \cup {NoIP}]]
    /\ agent \in [Nodes -> Nodes \cup {Absent}]
    /\ \A m \in network : m.uuid \in Nodes /\ m.ip \in IPs /\ m.timestamp \in Int
    /\ lastOn \in [Nodes -> 0..MaxTime]

\* Identify tells an agent the UUID of its own node, although addresses go
\* from node to node and the records of nodes that are off keep theirs: the
\* unseal of a running node has taken the address from all other records.
\* The agent gives the address its node has unsealed with, so the search
\* never comes to the second step of LookupByIP.
SpeaksForItself == \A n \in Running : agent[n] \in {n, Absent}

\* How long after a node stopped the server can still take a heartbeat of its.
LastWords == Drift + Skew

\* The switch blocks a node that has stopped in time, whatever heartbeats of
\* its are still under way, unless its lease was found to be over before.
StoppedNodeIsBlocked ==
    \A n \in Registered(nodes) \ Running :
        nodes[n].Status = "active" =>
            now - lastOn[n] <= LastWords + HeartbeatTimeout + CheckInterval

\* A node that has been off for long gets no key when it boots again: neither
\* late heartbeats nor the revival of an expired lease keep it alive.
KeyOnlySoonAfterStop ==
    [][\A n \in Registered(nodes) :
          ~machine[n].on /\ machine'[n].on =>
              /\ now - lastOn[n] <= LastWords + LeaseDuration
              /\ now - lastOn[n] <= LastWords + HeartbeatTimeout + CheckInterval]_vars

=============================================================================
