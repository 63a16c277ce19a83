--------------------------- MODULE LeaseFileProofs ---------------------------
(***************************************************************************)
(* Proofs about the lease file: persistLocked and load implement a file    *)
(* that is saved in one step, for all maps and however often the process   *)
(* dies.                                                                   *)
(***************************************************************************)
EXTENDS LeaseFile, TLAPS

\* What each place in persistLocked knows of the two files.  The temporary
\* file is whole when it is renamed; the lease file is the confirmed map until
\* then and the map in memory from then on.
Progress ==
    /\ pc = "rename" => tmp = Written(memory)
    /\ pc = "return" => file = Written(memory)
    /\ pc \in Persisting \cup {"idle"} => Decoded(file) = confirmed
    /\ pc = "down" => Decoded(file) \in {confirmed, memory}

FileInv == TypeOK /\ FileDecodes /\ Progress

\* A file of a known state is a file.
LEMMA FilesTyped ==
    /\ \A m \in Maps : Written(m) \in Files /\ Decoded(Written(m)) = m
    /\ Unwritten("missing") \in Files
    /\ Unwritten("empty") \in Files
    /\ Unwritten("part") \in Files
    /\ \A f \in Files : Decoded(f) \in Maps
  BY FileAssumption DEF Files, Written, Unwritten, Decoded

\* The invariant holds when the first process starts: there is no file.
LEMMA FileInvInit == Init => FileInv
  BY FileAssumption, FilesTyped
     DEF Init, FileInv, TypeOK, FileDecodes, Progress, Persisting, Unwritten, Decoded

\* Every step of persistLocked and load keeps it, and so does a crash.
LEMMA FileInvNext == FileInv /\ [Next]_vars => FileInv'
<1> SUFFICES ASSUME FileInv, [Next]_vars
             PROVE  FileInv'
  OBVIOUS
<1> USE DEF FileInv, TypeOK, FileDecodes, Progress, Persisting
<1>1. ASSUME NEW m \in Maps, Change(m) PROVE FileInv'
  BY <1>1 DEF Change, Decoded
<1>2. CASE Prepare
  BY <1>2 DEF Prepare, Decoded
<1>3. CASE Open
  BY <1>3, FilesTyped DEF Open, Decoded
<1>4. CASE WritePart
  BY <1>4, FilesTyped DEF WritePart, Decoded
<1>5. CASE WriteRest
  BY <1>5, FilesTyped DEF WriteRest, Decoded
<1>6. CASE Rename
  BY <1>6, FilesTyped DEF Rename, Decoded, Written
<1>7. CASE Fail
  BY <1>7 DEF Fail, Decoded
<1>8. CASE Return
  BY <1>8, FilesTyped DEF Return, Decoded, Written
<1>9. CASE Crash
  BY <1>9, FilesTyped DEF Crash, Decoded, Written
<1>10. CASE load
  BY <1>10, FilesTyped DEF load, Decoded
<1>11. CASE Flush
  BY <1>11 DEF Flush, Decoded
<1>12. CASE UNCHANGED vars
  BY <1>12 DEF vars, Decoded
<1>13. QED
  BY <1>1, <1>2, <1>3, <1>4, <1>5, <1>6, <1>7, <1>8, <1>9, <1>10, <1>11, <1>12 DEF Next

\* The invariant holds always, whenever the process dies and starts again.
THEOREM FileInvariant == Spec => []FileInv
  BY FileInvInit, FileInvNext, PTL DEF Spec

\* load can decode the lease file after a crash at any point of persistLocked.
THEOREM AlwaysDecodes == Spec => []FileDecodes
  BY FileInvariant, PTL DEF FileInv

\* The writer's place, the map in memory and the files have their types, after
\* every crash, failed write and restart.
THEOREM FileTypeCorrect == Spec => []TypeOK
  BY FileInvariant, PTL DEF FileInv

\* A new process starts from the last map that persistLocked reported as
\* saved, or from the one it was saving when the old process died.
THEOREM RestartsFromConfirmed == Spec => RestartFromConfirmed
<1>1. FileInv /\ [Next]_vars =>
          [pc = "down" /\ pc' = "idle" => memory' \in {confirmed, memory}]_vars
  <2> SUFFICES ASSUME FileInv, Next, pc = "down", pc' = "idle"
               PROVE  memory' \in {confirmed, memory}
    OBVIOUS
  <2>1. load
    BY DEF Next, Change, Prepare, Open, WritePart, WriteRest, Rename, Fail,
           Return, Crash, Flush, Persisting
  <2>2. QED
    BY <2>1 DEF load, FileInv, Progress
<1>2. QED
  BY <1>1, FileInvariant, PTL DEF Spec, RestartFromConfirmed

\* Every step of persistLocked and load is a step of AtomicFile or changes
\* nothing there: only Rename saves.
LEMMA StepIsAtomic == FileInv /\ [Next]_vars => [Atomic!Next]_(Atomic!vars)
<1> SUFFICES ASSUME FileInv, [Next]_vars
             PROVE  [Atomic!Next]_(Atomic!vars)
  OBVIOUS
<1> USE DEF Persisting
<1>1. ASSUME NEW m \in Maps, Change(m) PROVE Atomic!Change
  BY <1>1 DEF Change, Atomic!Change
<1>2. CASE Prepare \/ Open \/ WritePart \/ WriteRest
  BY <1>2 DEF Prepare, Open, WritePart, WriteRest, Atomic!vars
<1>3. CASE Rename
  <2>1. Decoded(file') = memory
    BY <1>3, FilesTyped DEF Rename, FileInv, Progress, TypeOK
  <2>2. Atomic!Save
    BY <1>3, <2>1 DEF Rename, Atomic!Save, Decoded
  <2>3. QED
    BY <2>2 DEF Atomic!Next
<1>4. CASE Fail \/ Return
  BY <1>4 DEF Fail, Return, Atomic!Next, Atomic!Return
<1>5. CASE Crash
  BY <1>5, FilesTyped DEF Crash, Atomic!Next, Atomic!Crash, FileInv, TypeOK
<1>6. CASE load
  BY <1>6 DEF load, Atomic!Next, Atomic!Start
<1>7. CASE Flush
  BY <1>7 DEF Flush, Atomic!vars
<1>8. CASE UNCHANGED vars
  BY <1>8 DEF vars, Atomic!vars
<1>9. QED
  BY <1>1, <1>2, <1>3, <1>4, <1>5, <1>6, <1>7, <1>8 DEF Next, Atomic!Next

\* The lease file is saved in one instant or not at all: the steps of
\* persistLocked and load implement AtomicFile, so a method of the store may
\* be taken as one step, whenever the process dies.
THEOREM FileIsAtomic == Spec => SavesAreAtomic
<1>1. Init => Atomic!Init
  BY DEF Init, Atomic!Init, Decoded, Unwritten, Persisting
<1>2. QED
  BY <1>1, StepIsAtomic, FileInvariant, PTL DEF Spec, SavesAreAtomic, Atomic!Spec

=============================================================================
