------------------------- MODULE ServerProcessProofs -------------------------
(***************************************************************************)
(* Proofs about the server's process, for every choice of flags and every  *)
(* order in which parts start, fail and stop.                              *)
(***************************************************************************)
EXTENDS ServerProcess, TLAPS

\* What has been started follows from where run is: no part starts before its
\* turn, and once run waits all parts that the flags ask for have started.
StartedInOrder ==
    /\ pc = "start" => \A p \in Parts : parts[p] = "off"
    /\ pc \in {"metrics", "http", "wait"} => parts["grpc"] # "off"
    /\ pc = "wait" /\ Guarded(flags) => parts["http"] # "off" /\ parts["switch"] # "off"
    /\ pc # "wait" => parts["http"] = "off" /\ parts["switch"] = "off"
    /\ pc \notin {"start", "exited"} => serverOptions(flags)

ProcessInv == TypeOK /\ NoPartDiesAlone /\ StartedInOrder

\* Nothing has been started at first.
LEMMA ProcessInit == Init => ProcessInv
BY DEF Init, ProcessInv, TypeOK, NoPartDiesAlone, StartedInOrder, Parts, Errors

\* A process that has exited has no parts.
LEMMA ExitInv ==
    ASSUME ProcessInv, NEW result \in {"nil", "error", "panic"}, Exit(result),
           UNCHANGED <<flags, cancelled, err>>
    PROVE  ProcessInv'
BY DEF ProcessInv, Exit, TypeOK, NoPartDiesAlone, StartedInOrder, Parts

\* Every step of run, of a goroutine and of the environment keeps the invariant.
LEMMA ProcessStep == ProcessInv /\ [Next]_vars => ProcessInv'
<1> SUFFICES ASSUME ProcessInv, [Next]_vars
             PROVE  ProcessInv'
    OBVIOUS
<1> USE DEF ProcessInv, TypeOK, NoPartDiesAlone, StartedInOrder, Parts, Errors
<1>1. CASE StartFails \/ ListenFails \/ Wait \/ SwitchPanics
    BY <1>1, ExitInv DEF StartFails, ListenFails, Wait, SwitchPanics
<1>2. CASE StartGRPC
    BY <1>2 DEF StartGRPC
<1>3. CASE StartMetrics
    BY <1>3 DEF StartMetrics
<1>4. CASE StartHTTP
    BY <1>4 DEF StartHTTP
<1>5. ASSUME NEW p \in Parts, ServeFails(p) PROVE ProcessInv'
    BY <1>5 DEF ServeFails, Returned
<1>6. ASSUME NEW p \in Parts, NEW e \in Errors, Stop(p, e) PROVE ProcessInv'
    BY <1>6 DEF Stop, Returned
<1>7. CASE Interrupt
    BY <1>7 DEF Interrupt
<1>8. CASE UNCHANGED vars
    BY <1>8 DEF vars
<1> QED BY <1>1, <1>2, <1>3, <1>4, <1>5, <1>6, <1>7, <1>8 DEF Next, Run, Goroutines

\* The invariant holds always, whatever fails, stops or is signalled.
THEOREM ProcessInvariant == Spec => []ProcessInv
BY ProcessInit, ProcessStep, PTL DEF Spec

\* Every state of the process is of its type; it has a result exactly when it
\* has exited.
THEOREM ProcessTypeCorrect == Spec => []TypeOK
BY ProcessInvariant, PTL DEF ProcessInv

\* No part of the server ends while the others go on unaware.
THEOREM ProcessNoPartDiesAlone == Spec => []NoPartDiesAlone
BY ProcessInvariant, PTL DEF ProcessInv

\* A server with leases and secrets that has finished its start hands out keys
\* only beside its HTTP API and its switch.
THEOREM ProcessKeysAreGuarded == Spec => []KeysAreGuarded
<1>1. ProcessInv => KeysAreGuarded
    BY DEF ProcessInv, TypeOK, NoPartDiesAlone, StartedInOrder, KeysAreGuarded, Parts
<1> QED BY <1>1, ProcessInvariant, PTL

=============================================================================
