# Verification of the KMS server

TLA+ models of the KMS server of this repository and of the programs around it: a gRPC
service that seals and unseals disk passphrases for cluster nodes, the leases that decide
which node may still unseal, the dead-man's switch that blocks nodes that fall silent, the
agent and the client that send heartbeats, and the operator's script. The
models are checked with TLC on small instances; all properties but those of liveness are
proved with TLAPS for every instance.

## Inventory

| Part | Source | State | Operations |
|---|---|---|---|
| lease store | `pkg/server/lease_store.go` | map UUID -> record, JSON file, two gauges | Bootstrap, HeartbeatByIP, HeartbeatByUUID, Validate, Unblock, SetMaintenance, BlockExpiredNodes, load, persistLocked (and the readers Get, ListAll, LookupByIP) |
| gRPC server | `pkg/server/server.go` | none of its own | Seal, Unseal, Heartbeat |
| HTTP API | `pkg/server/http.go` | none of its own | heartbeat, identify, list, unblock, maintenance |
| dead-man's switch | `pkg/server/deadman.go` | a ticker | Run, Check |
| server process | `cmd/kms-server/main.go` | flags, an error group and its context | start of four parts, failure, stop |
| HMAC | `pkg/server/hmac.go` | a key | Sign, Verify, ValidateTimestamp |
| agent | `cmd/kms-agent/main.go` | UUID, failure count, ticker | identify loop, heartbeat loop, backoff |
| client | `cmd/kms-client/main.go` | ticker | gRPC heartbeat loop |
| admin script | `scripts/kms-admin.sh` | none | list, then unblock or set maintenance |
| metrics | `pkg/server/metrics.go` | counters, histograms, gauges | observe, count |

How they interact. A node boots and calls Unseal, which registers its lease under
the peer address. From then on an agent (HTTP, by UUID, signed) or a client (gRPC,
by peer address) refreshes the lease. The switch wakes up at each tick and blocks
the active nodes whose last heartbeat is too old. An operator unblocks nodes and
switches maintenance mode. All of them are goroutines of one process that meet only
in the lease store, under its mutex; the file is read once, at the start.

What is hard:

* *Reading the clock and using it are apart.* Every caller reads the clock, then waits
  for the mutex. Calls are applied in another order than that of their times, so
  `LastHeartbeatAt` and `LeaseUntil` can move backwards.
* *Unseal is two calls*, Validate and Bootstrap, and anything may happen between them.
* *Memory and file come apart* when writing the file fails; a restart goes back to the
  file.
* *Two clocks per record* (the lease end, which Validate looks at, and the last
  heartbeat, which the switch looks at), written by six methods.
* *Three statuses and a flag* with different ways in and out: Unseal and the gRPC
  heartbeat refuse an expired node, the HTTP heartbeat revives it, the switch ignores it.
* *Timeouts and retries* of the agent and the client against those of the server.
* *The file is written in steps*, any of which can fail or be the process's last.
* *A heartbeat is valid for a minute* after it was signed, as often as it arrives, while
  the lease counts from its arrival.
* *Addresses name nodes*: they go from node to node, and a record keeps its old ones.
* *The parts of the process start one after the other* while the first ones serve already.
* *The script reads first and acts later*, by names that are neither unique nor timely.

What makes each part correct: the store keeps records, file and gauges consistent;
the server hands out no key without a lease, blocks silent nodes neither early nor
late, and loses nothing it has confirmed; the HTTP side accepts only fresh, signed
requests; the agent finds its own UUID and keeps a healthy node alive; the script acts
on the node the operator named.

## Modules

### `LeaseStore`

`nodes` is `store.nodes`, `file` the content of `store.path`, `gauges` the values of
`kms_active_leases` and `kms_expired_leases`. One action per method, under the method's
name. A method holds the mutex throughout, so it is one step. Its parameter `now` is the
caller's time, `ok` says whether the file could be written, `err` is its result. In
`StoreSpec` any method may be called with any time at any moment: it is what the
callers can rely on without knowing one another. `KMSServer`, `Cluster` and `AdminScript`
are proved to implement it; TLC runs the store inside the modules that extend it.

Data is abstracted to the fields some decision depends on, plus `BlockedAt`.
`LastUnsealAt`, `FirstSeen`, `MaintenanceAt` and `BlockReason` are written and displayed
only; `Hostname` is added by `AdminScript`. `Zero` stands for `time.Time{}`. A time in the future of `MaxTime`
does not occur, a lease may end there.

A process that dies inside a method is one that dies just before or just after it: only
the rename makes the write visible, and the memory is lost either way.

### `KMSServer`

Extends the store by the process around it. Each handler has a program counter and the
time it has read (`calls`). A request arrives and the clock is read (`Receive...`); a
later step calls the store and answers. Unseal is `ReceiveUnseal`, `UnsealValidate`,
then `UnsealFail` or `UnsealOpen` (decryption, and the second reading of the clock) and
`UnsealBootstrap`. The switch is `CheckStart` (a tick; Check reads the clock) and `Check`.
`Crash` loses the memory and all requests, whether by a kill or an orderly stop;
`Restart` loads the file and starts a new ticker. While the process is down `nodes`
keeps its last value, which nobody reads.

`touched`, `acked` and `shielded` are history variables that the properties need: when
a refresh of a lease was last applied, when one was last confirmed to its caller, and
for which nodes maintenance mode was confirmed to the operator and neither switched off
again nor ended by the node's own Unseal.

Time. `Tick` advances the clock. `MaxStale` bounds the delay of a goroutine between one
reading of the clock (or the ticker's tick) and its next one or its end; `Tick` waits
when somebody would exceed it. The bounds of the properties are stated in terms of it, so
with `MaxStale` = 0 they read as one would expect of code without delays. The module
assumes `MaxStale < CheckInterval`, so the ticker need not drop ticks, and
`MaxStale <= HeartbeatTimeout`. The clock never goes back: the server strips the
monotonic part of its times by `UTC()`, so this is an assumption on the machine's clock.

Left out: requests rejected before they reach the store (see `Cluster`), `Seal` and the
readers, which change nothing. The server is configured with leases, HMAC key and admin token.

### `Agent`

The agent's process: `identifyLoop`, then `heartbeatLoop`. `pc` says where it is,
`failures` is `consecutiveFailures`, `timer` counts down a request's timeout or
`time.After`, `ticker` and `tick` are the ticker and its channel of one tick. Each request
ends in success or failure; a heartbeat may be applied by the server (`Deliver`, `heard`)
and still count as failed. `backoffDuration` returns a set, since the conversion that
overflows (after 30 failures with the default interval of 30 s) gives different values on
different processors; the count stays at `OverflowAt`, from where on all failures are
alike. Nothing else is bounded but the history variable `silence`.

### `LeaseFile`, `AtomicFile`

`LeaseStore` takes a save as one step. `LeaseFile` justifies that: it follows
`persistLocked` (`pc`) through MkdirAll and encoding, opening the temporary file, writing
it in pieces, and the rename; each step can return an error, which leaves the temporary
file behind, and the process can die between any two. A file is missing, empty, a part of
the JSON or all of it. `AtomicFile` is the abstract specification: a map that is saved in
one instant or not at all. The mapping is `stored <- Decoded(file)`; the abstract `Save`
is the rename. `disk` and the actions `Flush` and `PowerLoss` are the machine's: power
loss is not part of `Spec` but of `PowerSpec`, since the code does nothing against it.

### `HMACAuth`

Signing, verifying and the range check as operators, under the names of the code. An
integer has `Word` values (the code's 2^64), and both subtractions of the range check wrap.
Division rounds towards zero, as Go's does. A signature stands for the text that was signed:
`Message` runs UUID, address and the decimal digits of the timestamp together with nothing
between them, as `fmt.Sprintf("%s%s%d", ...)` does (hmac.go:28), and texts are sequences of
characters of any length, since nothing checks the length of `node_uuid` (http.go:166). That
equal signatures mean equal texts is the assumption on HMAC-SHA256.
`MCHMACAuth` holds the properties and, so that TLC enumerates the inputs, a
trivial state machine that picks a timestamp, a signer's clock and a server's clock.

### `Cluster`

The composition of nodes, agents, network, HTTP checks, store and switch. It extends
`LeaseStore` and `HMACAuth` and calls their operators: `Boot` is a successful Unseal,
`Identify` is `sendIdentify` answered by `handleIdentify` and `LookupByIP`,
`sendHeartbeat` puts a signed message into `network`, `handleHeartbeat` takes one out as
often as it likes, at any later time. Node clocks are off by at most `Skew`. A handler is
one instant here; `KMSServer` has what happens when it is not. There is no operator, the
disk does not fail and `NODE_UUID` is not set. A node keeps its address from boot to
shutdown, and the server's clock makes no steps. UUIDs and addresses are texts of one
character. The agent sends the address of its host (daemonset.yaml:38), which is also the
one its node unseals from, so a running node is always found by `LastUnsealIP` and the
fallback of `LookupByIP` to `NodeIP` is translated but never decides anything.

### `KMSClient`

The gRPC client with its flags, chosen freely at the start (interval, timeout, TLS and a
CA that is not set, bad or good), its request timeout, ticker and tick; the server's side is the result of the lease store (any), the status `Code` it
becomes and the label under which it is counted. An answer may be lost after the server has
applied the heartbeat. `silence` is capped well above the bound it is compared with.

### `ServerProcess`

`run` of the server: `pc` is the part it starts next, `parts` says which parts run,
`cancelled` is the error group's context, `err` the group's first error; the errors that
only say a server was stopped are not reported. A part stands for the goroutine that serves and the one that waits for the context. A signal, a failing
Serve and a failing listener can come at any point of the start. All flags that decide
what starts are chosen freely.

### `AdminScript`

The script's two requests with everything that can come between and after them. Machines
unseal and send heartbeats with their names; a machine can be renamed, one that replaces
another has a new UUID and may have the same name, and a late heartbeat brings an old name.
The switch checks, writes of the file fail, and the server dies and starts again from the
file. The module extends `LeaseStore` by the field `Hostname`, in memory (`hostname`) and
in the file (`savedHostname`): Bootstrap keeps it, every heartbeat that has one overwrites
it, a restart goes back to the saved one. `resolve_uuid` is the list and the jq filter at one
instant; `unblock` and `maintenance` are the second request. Either can fail on the way,
also after the server has applied it. `script.at` is "done" when curl has seen a 200, and
"notFound" when the list had no match or the server answered 404.

`names` and `confirmed` are history variables: the names the machine of each UUID has had,
and the UUIDs of which the server has confirmed an Unseal or a heartbeat.

### The modules `...Proofs`

The theorems about the module of that name and their lemmas. `ClusterProofs` also has those
about `HMACAuth`, which the cluster rests on.

### The modules `MC...`

The modules TLC runs on; some add symmetry sets. The operators whose comment begins with "Mutant:" are
plausible errors used to test the properties; no specification uses them.

## Runs

| Run | Instance | Checks |
|---|---|---|
| server | 1 node, 2 handlers, 7 instants, lease 2, timeout 1, interval 2, delay 1 | TypeOK, LeaseFollowsHeartbeat, BlockIsDated, NoLateBlock, KeyNeedsLease, KeySoonAfterBlock, NoEarlyBlock |
| server_faults | 1 node, 1 handler, 5 instants, failing disk | AckedRefreshIsDurable, KeyNeedsLease, MaintenanceShields |
| agent | interval 2, request 1, largest backoff 5, overflow at 5 failures | TypeOK, SilenceBounded, HeardAgain |
| lease_file | 3 maps | TypeOK, FileDecodes, SavesAreAtomic, RestartFromConfirmed |
| hmac | words of 7 bits, windows of 3, drift 6; all timestamps and clocks, 3 UUIDs and 3 addresses that run into each other | DriftBounded, SkewTolerated, AcceptedIsRecent |
| cluster_time | 1 node, 8 instants, lease 2, timeout 1, interval 2, drift and skew 1, windows of 2 | TypeOK, StoppedNodeIsBlocked, KeyOnlySoonAfterStop |
| cluster_identity | 2 nodes, 2 addresses, 2 instants | SpeaksForItself |
| client | all flags, with intervals and timeouts up to 3; 6 counted failures | TypeOK, GapBounded, EndsWhenDenied, SurvivesFailures, ClientHeardAgain |
| server_process | all combinations of flags, durations 0 to 2 | TypeOK, NoPartDiesAlone, KeysAreGuarded, StopsWhenTold, GuardedOrGone |
| admin_script | 2 UUIDs, 2 hostnames, 1 address, 2 instants, lease 1, timeout 0, 1 failed write, any number of restarts | TypeOK, ActsOnABearer, DoneHolds, ConfirmedIsFound, UniqueUnsealIP, GaugesCountEveryLease |

Why the bounds are enough: a record's fate does not depend on other nodes except through
addresses, so one node suffices where no address is shared, and two nodes where
one is (cluster_identity, admin_script); two handlers are the least that can overtake each
other, and with a failing disk one handler already meets the switch and the restart; 5 to
7 instants leave room for a heartbeat, its timeout, the next check, an outage and a
restart. The agent's waits are 2, 4, 5 and 5 units, so the count passes the first, a doubled
and a cut backoff before the overflow. Three maps are the one in the file, the one in a
leftover temporary file and the one being saved. Words of 7 bits hold every relation of
window, drift and overflow, and all inputs are tried; the UUIDs 1 and 11 and the addresses
14 and 4, 43 and 4 give the same text with a border or a digit moved. The 8 instants of cluster_time exceed
the largest bound of its properties by enough to violate it; its one node
meets its own late heartbeats, and other nodes matter only through addresses, which is the
question of cluster_identity. With 6 counted failures the client passes each phase of
ticker against timeout. The server process has no bound but on durations, of which the code
only asks the sign and the order. With two UUIDs and two names a machine is replaced or
renamed before, between and after the two requests; one failed write is enough to lose a
record or a name at the next restart. Time ends at the last instant, but requests never stop
arriving, so deadlock is checked, except for the client and the server process, which
really end. The proofs remove the bounds for everything but liveness.

The properties:

* `UniqueUnsealIP`: the search by address over a Go map has at most one answer.
* `LeaseFollowsHeartbeat`: the lease ends exactly `LeaseDuration` after the heartbeat.
* `BlockIsDated`: `blocked_at` is set for blocked nodes and only for them.
* `GaugesCountEveryLease`: every lease is counted once, refused statuses never as active,
  although SetMaintenance does not recount.
* `KeyNeedsLease`: a registered node gets its key only if the lease was renewed at most
  `LeaseDuration + 2 * MaxStale` ago.
* `KeySoonAfterBlock`: a blocked node gets a key only from an Unseal already under way,
  at most `3 * MaxStale` after the block.
* `NoEarlyBlock`: no block within `HeartbeatTimeout - MaxStale` of a confirmed heartbeat.
* `NoLateBlock`: an active node is blocked at most
  `HeartbeatTimeout + CheckInterval + 2 * MaxStale` after its last heartbeat, or
  `CheckInterval + 2 * MaxStale` after the start of the process.
* `AckedRefreshIsDurable`: the file holds a lease as recent as the last confirmed one,
  less `MaxStale`.
* `MaintenanceShields`: from the operator's "on" to the "off", or to the node's next
  Unseal, the switch does not block the node, across heartbeats, unblocks, failed writes
  and restarts.
* `SilenceBounded`: a running agent with f failures in a row has been silent for at most an
  interval, f + 2 request timeouts and its f backoffs. With the defaults (30 s, 5 s) that is
  75 s after one failure, within the server's 120 s, and 140 s after two: two lost
  heartbeats in a row can end in a block.
* `HeardAgain`: an agent that is not stopped any more is heard infinitely often.
* `FileDecodes`, `SavesAreAtomic`, `RestartFromConfirmed`: a process that dies at any step
  of a save leaves a readable file; a save is one step seen from outside; a new process
  starts from what was confirmed last or was being saved.
* `DriftBounded`, `SkewTolerated`, `AcceptedIsRecent`: the range check equals its
  definition but for one timestamp, although its subtraction overflows; signatures bear a
  skew of one window; what passes both tests was signed less than `Drift + 2 * Window`
  away from the server's clock (120 s, not the 60 s of the range check alone), for the node
  and the address it names. The last needs UUIDs of equal length and timestamps of equally
  many digits (ten, from 2001 to 2286): without either TLC finds two requests with the same
  text. Machines' UUIDs have 36 characters, but the server does not ask for it.
* `StoppedNodeIsBlocked`: a node that has stopped is no longer active
  `Drift + Skew + HeartbeatTimeout + CheckInterval` later: late and repeated heartbeats
  add `Drift + Skew` and no more, and do not add up.
* `KeyOnlySoonAfterStop`: and it gets no key any more when it boots after that time, or
  after `Drift + Skew + LeaseDuration`.
* `SpeaksForItself`: an agent is told the UUID of its own node, although addresses change
  hands at boots and other records have had the same one. It says nothing of agents that
  send another address than the one their node unseals from.
* `GapBounded`: a client with m failures in a row has been silent for at most m + 1
  intervals and two timeouts, which needs the timeout to be below the interval.
* `EndsWhenDenied`: the client's list of final codes and the server's list of denials,
  written in two files, agree on every answer of Heartbeat.
* `SurvivesFailures`, `ClientHeardAgain`: after one success no failure but a denial ends
  the client, and it is heard again and again.
* `NoPartDiesAlone`: a part of the server that ends takes the others with it.
* `KeysAreGuarded`: a process with leases and secrets that has finished its start and is
  not being stopped serves keys beside its HTTP API and its switch.
* `StopsWhenTold`: a signal or failure ends the process also in the middle of its start.
* `GuardedOrGone`: a process with leases and secrets gets its switch or exits; it never
  goes on handing out keys without one. A check interval of zero ends it by a panic.
* `ActsOnABearer`: the script acts on the UUID it was given or on one that has had the given
  name, although names change, come late or not at all, and go back with a restart.
* `ConfirmedIsFound`: a node whose Unseal or heartbeat was confirmed is found by its UUID ever
  after and is not gone between the two requests. A record that could not be written can be:
  the caller was told of the error, the list shows it, and after a restart the script meets
  a 404.
* `DoneHolds`: what the script has reported as done is in memory and in the file, so that
  after an unblock no block dates from before `HeartbeatTimeout` has passed, and
  after a change of maintenance none is added in that time, whatever restarts follow.

Two further runs check a sentence of the documents that the code does not keep; each ends
in a counterexample, and "findings" in `PROJECT.json` quotes the sentence:

* blocked_node_gets_no_key, `BlockedNodeGetsNoKey` (README.md:39): the block falls between
  Validate and Bootstrap, and Bootstrap erases it.
* power_loss_keeps_confirmed, `RestartFromConfirmed` with loss of power
  (lease_store.go:58): nothing is flushed, and an empty file is an empty store.

Fairness: the server's properties need none. What must happen in time (the block of a
silent node) is stated as a bound on the clock, which is stronger than "eventually" and is
safety. `HeardAgain` assumes weak fairness of the agent's loop (the process is scheduled
and its timers fire; the DaemonSet starts it again), of the end of requests (the HTTP
client has a timeout) and of time, and strong fairness of what the environment owes: a
request repeated for ever is answered with a UUID at some point, or reaches the server.
`ClientHeardAgain` assumes the same of the client: weak fairness of the process and its
timers, strong fairness of a server that takes a heartbeat and of its answer.
`StopsWhenTold` and `GuardedOrGone` assume weak fairness of run and of the goroutines: the
scheduler runs them, Shutdown has a limit of 5 seconds, and Stop closes the connections.
Nothing is assumed of failures and signals.

## Where the code and its documents differ

Besides the two sentences with a run, these were met while modelling. The models do what
the code does; the properties above are stated so as to hold of it.

* README.md:40, only the admin API unblocks a node: BlockExpiredNodes drops the error of writing
  the file (lease_store.go:335), so a block can be lost with the process. The next process
  sets it again, if no heartbeat comes before (`NoLateBlock`).
* README.md:41-42, no block during maintenance: Bootstrap starts from a new record
  (lease_store.go:92), so an Unseal during maintenance ends it.
* README.md:180, the end of maintenance gives a node time for its next heartbeat: SetMaintenance
  (lease_store.go:288) leaves the status, so a record that has expired stays expired and
  Unseal goes on refusing it.
* README.md:37-38, a silent node is blocked: the switch looks at active records only
  (lease_store.go:310), so a node that some call has found expired is never blocked, and
  its next HTTP heartbeat revives it.
* README.md:37-38 again: times are wall-clock times (`UTC()` drops the monotonic reading),
  so a step of the server's clock by more than the timeout blocks nodes that were just
  heard (lease_store.go:322).
* README.md:31-32, identify tells a node its UUID: a running node that is given another
  node's former address is told that node's UUID, since only Unseal moves an address from
  record to record (lease_store.go:347).
* README.md:99, `NODE_IP` is the pod's address: the DaemonSet sets the host's (daemonset.yaml:38).
  With a pod's address of its own, identify finds no record by `LastUnsealIP`, and by `NodeIP`
  only what earlier heartbeats have written there (lease_store.go:350).
* README.md:60-61 and 85, the switch is a part of the server: without HMAC key or admin
  token it is not started and nothing is said (cmd/kms-server/main.go:187).
* hmac.go:100-101, a timestamp within the allowed drift: minus the smallest integer is
  itself (hmac.go:103), so the one timestamp with that difference passes; `DriftBounded`
  leaves it out. It has to be signed all the same.
* kms-admin.sh:16 and 58-59, a node is named by its hostname: after a machine was replaced
  the name finds the old record, and once both have sent heartbeats it finds two and the
  script gives up (kms-admin.sh:66). A machine that was renamed is found by its old name
  until its next heartbeat arrives.

## Proofs

Every invariant and action property that a run checks is also a theorem. Nodes, addresses,
hosts, handlers, messages, durations and `MaxTime` are arbitrary in them, disks may fail,
and the machine's integers have any even number of values. What is assumed of the constants stands in the modules
that declare them, and TLC evaluates it on their runs:

* `StoreAssumption`, `ServerAssumption`: finitely many nodes, a positive lease duration
  (which `serverOptions` enforces), the relation of `MaxStale` to the intervals.
* `FileAssumption`: an empty map.
* `HMACAssumption`: a positive window, an even number of integers, and `4 * Drift <= Word`
  (60 against 2^64). The last one came out of the proof: with a larger drift the wrapped
  difference of two far timestamps is within `Drift` and `DriftBounded` is false.
* `ClusterAssumption`: a positive check interval, at least one instant, and clocks whose
  seconds since 1970 fit the integers.
* `ScriptAssumption`: the model values for "none" are no nodes or hosts, at least one
  instant, and any number of failed writes.
* `TextsAssumption`: UUIDs and addresses are sequences of characters, of any length.
* `AgentAssumption`, `ClientAssumption`, `ProcessAssumption`: what is a number is one. The
  agent's interval, request timeout and limit are positive, as the defaults are: with an
  interval of zero `time.NewTicker` panics, with a timeout of zero requests have none.

### The store and the server

`LeaseStoreProofs` proves that `StoreTypeOK`, `UniqueUnsealIP`, `LeaseFollowsHeartbeat`
and `BlockIsDated` together are inductive (`StoreInvariant`), with one lemma for each
method. The parts hold of `nodes` and of `file`, since load turns the one into the other.
`StoreGauges` needs no invariant beside the types, but two facts about the methods: each
but SetMaintenance recounts what it has written, and SetMaintenance changes neither who is
registered nor a status.

`KMSServerProofs` first shows that each server step is a store step or leaves the store
alone (`ServerImplementsStore`), so the store's theorems hold in the server. The
inductive invariant `Inv` adds to them:

* `Timely`: nobody is late, which is what `Tick` waits for;
* `Fresh(nodes)` and `Fresh(file)`: a record's `LastHeartbeatAt` is between the last
  confirmed and the last applied refresh, less `MaxStale`. This is what makes
  `NoEarlyBlock` and `AckedRefreshIsDurable` survive calls that overtake each other
  and failed writes;
* `OpenOK(h)`: an Unseal past Validate works on a node that had a lease when Validate
  read the clock. A block or expiry in between does not falsify it; this carries
  `KeyNeedsLease` and `KeySoonAfterBlock` across the gap;
* `Watched(n)`: an active node has a heartbeat that was in time at the last check, or
  the process has not made its first check yet; with `Timely` it gives `NoLateBlock`.

`ServerMaintenanceShields` needs one more invariant, `ShieldsHold`: a shielded node's
record has the mode in memory and in the file. Memory alone would not do, since a restart
goes back to the file, which is why the operator's "on" counts only once it is confirmed.

`LeaseFileProofs` proves `FileDecodes`, `RestartFromConfirmed` and the refinement
`SavesAreAtomic` for any set of maps. The inductive invariant `FileInv` adds `Progress` to
the types: what each of the two files holds at each step of a save, and that between saves
the file is what was confirmed or what is in memory. Each concrete step is then a step of
`AtomicFile` (the rename is its `Save`) or a stutter.

`ServerProcessProofs`: `NoPartDiesAlone` is inductive with the types alone. `KeysAreGuarded`
also needs `StartedInOrder`: which parts have started follows from where `run` is.

### Signatures and the cluster

The theorems about `HMACAuth` are arithmetic. `Wrap` keeps what fits and moves what does
not by one `Word` (`WrapKeeps` and its like), so the range check is right by cases on which
end of the integers the difference passes. Rounding towards zero puts a timestamp in a
window that is within `Window` of it, and around 1970 too.

`AuthAcceptedIsRecent` has to take the signed text apart again. Decimal digits determine the
number (`DigitsInjective`, by the least number that has the digits of another; `DecimalTells`
adds the sign), and two equal texts of two parts are equal part by part when the first or
the second parts have the same length (`SplitFront`, `SplitRear`): the timestamps split off at the end, then the
UUIDs at the front.

`ClusterProofs` shows that each step of the cluster is a step of the store, as above. The
inductive invariant `ClusterInv` adds:

* `Clocks`, `Machines`: the types, and a check that is due no later than one interval on;
* `Bearing`: a running node is registered under its address, and its agent knows its own
  UUID or none. With `UniqueUnsealIP` this is `SpeaksForItself`: a record found by a
  running node's address is its own, whatever old addresses stand in `NodeIP`;
* `Letters`: a heartbeat under way was stamped while its node was running, give or take
  `Skew`. Since messages are never removed this bounds every late or repeated arrival;
* `Watched`: no record has a heartbeat later than `Drift + Skew` after its node was last
  seen running, and the next check comes in time for each active record. It gives
  `StoppedNodeIsBlocked`, and with the lease `KeyOnlySoonAfterStop`.

### The agent, the client and the script

`AgentProofs`: `SilenceBounded` compares the silence with the bound that the counted
failures allow, which is not inductive: in the middle of a request or a wait it must leave
room for the time still to run. `Rest` says how much, place by place: the rest of the
request; the rest of the ticker, then a request; the rest of the backoff and, since the
ticker goes on meanwhile, the rest of the ticker, then a request. `Reach` and `Pow2` are
recursive functions. Induction over data is out of the prover's reach, so that they satisfy
their equations is proved by the least number for which they do not (`LeastNumber`, from the
library's theorem that the natural numbers are well-founded). For that the power of two of
`backoffDuration` is a function of the module and not the operator `^`, of which the
provers know nothing.

`KMSClientProofs`: the same argument without backoff. `Cycle` says that a request starts
on a tick and ends before the next one (the flags have the timeout below the interval), so
ticker and timer tell how long ago the tick was; `Quiet` measures the silence from there.
`Ending` carries `EndsWhenDenied` and `SurvivesFailures`: a client that runs has had no
denial, and one that has had a success is past its first heartbeat.

`AdminScriptProofs`: the inductive invariant `ScriptInv` adds to that of the store `Named`
(a record has in memory and in the file a name its machine has had, or none), `Aimed` (what
the script has found is its argument or has had that name), `Kept` (confirmed nodes are in
memory and in the file) and `Held` (both have what was reported as done). Each speaks of both
places, since a restart turns the one into the other. Of a method of the store two facts are
used: it deletes no record, and blocks only those whose heartbeat is too old (`Lives`, `Carries`, one
lemma for each method), and the file is left alone or becomes the memory (`Written`).
`Past`, that no block is dated in the future, tells the blocks before a command from those
after it. `ScriptImplementsStore` gives the script's run the theorems of the store
(`ScriptStoreSafe`).

TLC checked each inductive invariant on the instances above before it was proved.

### Only model-checked

Liveness under fairness: `HeardAgain`, `ClientHeardAgain`, `StopsWhenTold` and
`GuardedOrGone`. It is out of the prover's reach, as are `ENABLED` and, in general,
induction over data. The two violated properties are refuted by TLC.

## Not modelled, and the plan

Not modelled:

* `Seal` and the cryptography of `Unseal`: no state, and a result that is right or wrong.
* The wording of log lines, the counters and histograms of requests, the tables that
  `list` and `blocked` print.
* Two server processes on one lease file: the code does not lock it and the deployment has
  one replica.
* An operator and a failing disk in `Cluster`: `KMSServer` has both.
* `NODE_UUID` set in the agent's environment, which skips identify, in `Cluster` (`Agent` has
  it), and agents with another address than their node's.
* Generated code (`api/`), deployment and build files.

What would come next:

1. `NodeLifecycle`: the abstract life of a node (unknown, active, expired, blocked, in
   maintenance) that `StoreSpec` refines.
