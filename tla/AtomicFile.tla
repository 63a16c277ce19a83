----------------------------- MODULE AtomicFile -----------------------------
(***************************************************************************)
(* What the lease store wants of its file: a map that a running process    *)
(* keeps in memory and saves as a whole.  A save takes effect in one       *)
(* instant or not at all, a confirmed save has taken effect, and a new     *)
(* process starts from the last save that did.                             *)
(***************************************************************************)
CONSTANTS Maps, NoLeases

VARIABLES
    memory,   \* the map the process works on
    stored,   \* the map a new process would start from
    phase     \* what the process does: "down", "idle", "saving", "saved"

vars == <<memory, stored, phase>>

Init ==
    /\ memory = NoLeases
    /\ stored = NoLeases
    /\ phase = "down"

Start ==
    /\ phase = "down"
    /\ memory' = stored
    /\ phase' = "idle"
    /\ UNCHANGED stored

Change ==
    /\ phase = "idle"
    /\ memory' \in Maps
    /\ phase' = "saving"
    /\ UNCHANGED stored

Save ==
    /\ phase = "saving"
    /\ stored' = memory
    /\ phase' = "saved"
    /\ UNCHANGED memory

\* The call reports success (it was saved) or an error (it was not).
Return ==
    /\ phase \in {"saving", "saved"}
    /\ phase' = "idle"
    /\ UNCHANGED <<memory, stored>>

Crash ==
    /\ phase # "down"
    /\ phase' = "down"
    /\ UNCHANGED <<memory, stored>>

Next == Start \/ Change \/ Save \/ Return \/ Crash

Spec == Init /\ [][Next]_vars

=============================================================================
