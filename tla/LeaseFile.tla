------------------------------ MODULE LeaseFile ------------------------------
(***************************************************************************)
(* How the lease store writes and reads its file (persistLocked and load,  *)
(* pkg/server/lease_store.go): the map is encoded, written to a temporary  *)
(* file beside the lease file, and renamed over it.  Nothing is flushed.   *)
(*                                                                         *)
(* Here a save is several steps, any of which can fail, and the process    *)
(* can die between any two of them; LeaseStore takes a save as one step,   *)
(* which the refinement of AtomicFile justifies.  The file system is the   *)
(* machine's: a rename replaces a file in one instant for all running      *)
(* programs, but a loss of power can undo it or empty the file it made.    *)
(***************************************************************************)
CONSTANTS
    Maps,      \* what store.nodes can be
    NoLeases   \* the empty map

ASSUME FileAssumption == NoLeases \in Maps

VARIABLES
    pc,         \* where the process is: "down", "idle", or in persistLocked
    memory,     \* store.nodes
    tmp,        \* the file store.path + ".tmp"
    file,       \* the file store.path, as programs see it
    disk,       \* what has reached the disk of the file store.path
    confirmed   \* history: the last map that was loaded, or whose save was
                \* reported as done

vars == <<pc, memory, tmp, file, disk, confirmed>>

Persisting == {"prepare", "open", "write", "rename"}

\* A file is missing, empty, a beginning of the JSON, or all of it.  Only a
\* whole file tells which map was written.
Files == [state : {"missing", "empty", "part", "whole"}, map : Maps]

Unwritten(state) == [state |-> state, map |-> NoLeases]
Written(m) == [state |-> "whole", map |-> m]

\* Mutant: a missing or an empty file leaves a nil map.
DecodedNil(f) == IF f.state = "whole" THEN f.map ELSE "nil"

\* What load makes of a file that it can decode.
Decoded(f) == IF f.state = "whole" THEN f.map ELSE NoLeases

-----------------------------------------------------------------------------
(* persistLocked *)

\* A method of the store has changed the map and calls persistLocked.
Change(m) ==
    /\ pc = "idle"
    /\ memory' = m
    /\ pc' = "prepare"
    /\ UNCHANGED <<tmp, file, disk, confirmed>>

\* MkdirAll and MarshalIndent.
Prepare ==
    /\ pc = "prepare"
    /\ pc' = "open"
    /\ UNCHANGED <<memory, tmp, file, disk, confirmed>>

\* Mutant: the lease file itself is opened for writing.
OpenInPlace ==
    /\ pc = "open"
    /\ file' = Unwritten("empty")
    /\ pc' = "write"
    /\ UNCHANGED <<memory, tmp, disk, confirmed>>

\* WriteFile truncates what an earlier attempt has left,
Open ==
    /\ pc = "open"
    /\ tmp' = Unwritten("empty")
    /\ pc' = "write"
    /\ UNCHANGED <<memory, file, disk, confirmed>>

\* and writes, in pieces if it must.
WritePart ==
    /\ pc = "write"
    /\ tmp' = Unwritten("part")
    /\ UNCHANGED <<pc, memory, file, disk, confirmed>>

WriteRest ==
    /\ pc = "write"
    /\ tmp' = Written(memory)
    /\ pc' = "rename"
    /\ UNCHANGED <<memory, file, disk, confirmed>>

Rename ==
    /\ pc = "rename"
    /\ file' = tmp
    /\ tmp' = Unwritten("missing")
    /\ pc' = "return"
    /\ UNCHANGED <<memory, disk, confirmed>>

\* Mutant: the error of WriteFile is not looked at.
FailWriteIgnored ==
    /\ pc \in Persisting
    /\ pc' = IF pc = "write" THEN "rename" ELSE "idle"
    /\ UNCHANGED <<memory, tmp, file, disk, confirmed>>

\* Each step can return an error.  The temporary file stays behind.
Fail ==
    /\ pc \in Persisting
    /\ pc' = "idle"
    /\ UNCHANGED <<memory, tmp, file, disk, confirmed>>

Return ==
    /\ pc = "return"
    /\ confirmed' = memory
    /\ pc' = "idle"
    /\ UNCHANGED <<memory, tmp, file, disk>>

-----------------------------------------------------------------------------
(* The process and the machine *)

Crash ==
    /\ pc # "down"
    /\ pc' = "down"
    /\ UNCHANGED <<memory, tmp, file, disk, confirmed>>

\* Mutant: a new process reads the temporary file when there is one.
loadLeftover ==
    /\ pc = "down"
    /\ file.state # "part"
    /\ memory' = IF tmp.state = "missing" THEN Decoded(file) ELSE Decoded(tmp)
    /\ confirmed' = memory'
    /\ pc' = "idle"
    /\ UNCHANGED <<tmp, file, disk>>

\* A file that cannot be decoded ends the new process at once.
load ==
    /\ pc = "down"
    /\ file.state # "part"
    /\ memory' = Decoded(file)
    /\ confirmed' = memory'
    /\ pc' = "idle"
    /\ UNCHANGED <<tmp, file, disk>>

\* The kernel writes its caches back at some time.
Flush ==
    /\ disk' = file
    /\ UNCHANGED <<pc, memory, tmp, file, confirmed>>

\* The directory or the data may not have been written: the lease file is the
\* old one, or the new one, whole or not.
PowerLoss ==
    /\ pc' = "down"
    /\ file' \in {disk, file}
                 \cup IF disk = file THEN {}
                                     ELSE {Unwritten("empty"), Unwritten("part")}
    /\ disk' = file'
    /\ UNCHANGED <<memory, tmp, confirmed>>

Init ==
    /\ pc = "down"
    /\ memory = NoLeases
    /\ tmp = Unwritten("missing")
    /\ file = Unwritten("missing")
    /\ disk = file
    /\ confirmed = NoLeases

Next ==
    \/ \E m \in Maps : Change(m)
    \/ Prepare
    \/ Open
    \/ WritePart
    \/ WriteRest
    \/ Rename
    \/ Fail
    \/ Return
    \/ Crash
    \/ load
    \/ Flush

Spec == Init /\ [][Next]_vars

\* On a machine that can lose power.
PowerSpec == Init /\ [][Next \/ PowerLoss]_vars

-----------------------------------------------------------------------------
(* What persistLocked and load promise *)

TypeOK ==
    /\ pc \in {"down", "idle", "return"} \cup Persisting
    /\ memory \in Maps
    /\ {tmp, file, disk} \subseteq Files
    /\ confirmed \in Maps

\* A process that dies at any point of persistLocked leaves a lease file that
\* the next one can decode: load never ends a new process.
FileDecodes == file.state # "part"

\* Seen from outside a save is one step: the lease file holds one of the maps
\* that were in memory, and never a mixture, a remainder or a leftover of the
\* temporary file.
Atomic == INSTANCE AtomicFile WITH
    stored <- Decoded(file),
    phase  <- IF pc \in Persisting THEN "saving"
              ELSE IF pc = "return" THEN "saved" ELSE pc

SavesAreAtomic == Atomic!Spec

\* A new process starts from the last map whose save was reported as done (or,
\* if none was, from the map its predecessor started from), or from the one
\* that was being saved when the predecessor died.
RestartFromConfirmed ==
    [][pc = "down" /\ pc' = "idle" => memory' \in {confirmed, memory}]_vars

=============================================================================
