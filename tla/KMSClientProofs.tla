--------------------------- MODULE KMSClientProofs ---------------------------
(***************************************************************************)
(* Proofs about the heartbeat client, for every interval and timeout that  *)
(* its flags can have and every sequence of answers, lost answers and      *)
(* interrupts.                                                             *)
(***************************************************************************)
EXTENDS KMSClient, TLAPS

Sends == Requesting \cup {"wait"}

\* The types, and those of the variables that TypeOK leaves out.
Typed ==
    /\ TypeOK
    /\ interval \in Nat
    /\ timeout \in Nat
    /\ accepted \in BOOLEAN
    /\ signalled \in BOOLEAN
    /\ silence \in Nat
    /\ pc \in Sends => Configured

-----------------------------------------------------------------------------
(* How the client ends *)

Denied(result) == requestLabels(Code(result)) = "denied"

\* A client that runs has no result and has received no denial; one that has
\* had a success is past its first heartbeat.
Ending ==
    /\ exit # "none" <=> pc = "ended"
    /\ exit # "error" => ~Denied(received)
    /\ exit = "error" /\ Configured => Denied(received)
    /\ accepted => pc \notin {"start", "first"}
    /\ exit = "nil" /\ accepted => signalled

-----------------------------------------------------------------------------
(* How long the server hears nothing *)

\* A request starts on a tick and ends before the next one: the ticker never
\* finds its channel full.
Cycle ==
    /\ pc = "request" => ~tick /\ interval - ticker = timeout - timer
    /\ pc = "wait" /\ tick => ticker = interval

\* What the failures in a row account for.
Owed == missed * interval + timeout

\* Silence is measured from the last tick by ticker or timer.
Quiet ==
    /\ pc = "start" => silence = 0
    /\ pc = "first" => silence + timer <= timeout
    /\ pc = "request" /\ answer = "none" => silence + timer <= timeout
    /\ pc = "wait" /\ missed < MaxMissed =>
           silence + ticker <= Owed + interval + (IF tick THEN interval ELSE 0)
    /\ pc = "request" /\ missed < MaxMissed =>
           silence + timer <= Owed + interval + timeout

ClientInv == Typed /\ Ending /\ Cycle /\ Quiet

-----------------------------------------------------------------------------

\* The two lists of codes, that of the client and that of the server, agree on
\* every result of Heartbeat.
LEMMA ListsAgree ==
    \A result \in Results : classifyHeartbeatError(Code(result)) <=> Denied(result)
BY DEF Results, classifyHeartbeatError, Code, Denied, requestLabels

\* The invariant holds before the flags are looked at.
LEMMA ClientInit == Init => ClientInv
<1> SUFFICES ASSUME Init PROVE ClientInv
    OBVIOUS
<1>1. Typed
    <2>1. tick \in BOOLEAN /\ accepted \in BOOLEAN /\ signalled \in BOOLEAN
        BY Zenon DEF Init
    <2>2. /\ timer \in 0..timeout /\ ticker \in 0..interval /\ missed \in 0..MaxMissed
          /\ interval \in Nat /\ timeout \in Nat /\ silence \in Nat
        BY ClientAssumption DEF Init
    <2>3. pc = "start" /\ exit = "none" /\ answer = "none" /\ received = "none"
        BY DEF Init
    <2> QED BY <2>1, <2>2, <2>3 DEF Typed, TypeOK, Sends, Requesting, InLoop, Results
<1>2. Ending
    BY DEF Init, Ending, Denied, requestLabels, Code
<1>3. Cycle /\ Quiet
    BY DEF Init, Cycle, Quiet
<1> QED BY <1>1, <1>2, <1>3 DEF ClientInv

\* Facts about the numbers, for the steps.
LEMMA ClientNumbers ==
    ASSUME Typed
    PROVE  /\ interval \in Nat /\ timeout \in Nat /\ timer \in 0..timeout
           /\ ticker \in 0..interval /\ missed \in 0..MaxMissed /\ MaxMissed \in Nat
           /\ silence \in Nat
           /\ pc \in Sends => timeout > 0 /\ timeout < interval
           /\ Owed \in Nat
BY ClientAssumption DEF Typed, TypeOK, Configured, validateFlags, Owed

\* Types are kept.
LEMMA TypedStep == ASSUME Typed, [Next]_vars PROVE Typed'
<1> USE DEF Typed, TypeOK, Requesting, InLoop, Sends, flags, clocks, history
<1>0. ClientAssumption /\ AtMost(missed + 1, MaxMissed) \in 0..MaxMissed
    BY ClientAssumption DEF AtMost
<1>1. UNCHANGED flags => (Configured' <=> Configured)
    BY DEF Configured
<1>2. CASE run
    BY <1>1, <1>2 DEF run, sendHeartbeat, End, Results
<1>3. CASE Accepted
    <2>1. tick' \in BOOLEAN /\ accepted' \in BOOLEAN
        BY <1>3, Zenon DEF Accepted
    <2>2. ticker' \in 0..interval /\ (pc' \in InLoop => ticker' > 0)
        BY <1>3 DEF Accepted, Configured, validateFlags
    <2>3. missed' \in 0..MaxMissed /\ received' \in Results
        BY <1>3, ClientAssumption DEF Accepted, Results
    <2>4. UNCHANGED <<flags, exit, timer, answer, signalled, silence>> /\ pc' = "wait"
        BY <1>3 DEF Accepted
    <2>5. Configured
        BY <1>3 DEF Accepted
    <2> QED BY <1>1, <2>1, <2>2, <2>3, <2>4, <2>5
<1>4. CASE Rejected
    BY <1>1, <1>4 DEF Rejected, End, Results
<1>5. CASE FailedAnswer
    BY <1>0, <1>1, <1>5 DEF FailedAnswer, Failed, End, Results
<1>6. CASE NoAnswer
    BY <1>0, <1>1, <1>6 DEF NoAnswer, Failed, End, Results
<1>7. CASE NextHeartbeat
    <2>1. tick' \in BOOLEAN
        BY <1>7, Zenon DEF NextHeartbeat
    <2>2. /\ UNCHANGED <<flags, exit, ticker, history, silence>>
          /\ pc = "wait" /\ pc' = "request" /\ timer' = timeout /\ answer' = "pending"
        BY <1>7 DEF NextHeartbeat, sendHeartbeat
    <2> QED BY <1>1, <2>1, <2>2
<1>8. CASE Heartbeat
    BY <1>1, <1>8 DEF Heartbeat
<1>9. CASE Interrupt
    BY <1>1, <1>9 DEF Interrupt, End, Results
<1>10. CASE Tick
    <2>1. pc \in Sends
        BY <1>10 DEF Tick
    <2>2. timeout > 0 /\ timeout < interval
        BY <2>1 DEF Configured, validateFlags
    <2>3. timer' \in 0..timeout
        BY <1>10 DEF Tick
    <2>4. tick' \in BOOLEAN
        BY <1>10, Zenon DEF Tick
    <2>5. ticker' \in 0..interval /\ (pc \in InLoop => ticker' > 0)
        BY <1>10, <2>1, <2>2 DEF Tick
    <2>6. silence' \in Nat
        BY <1>10, ClientAssumption DEF Tick, AtMost
    <2>7. UNCHANGED <<flags, pc, exit, answer, history>>
        BY <1>10 DEF Tick
    <2> QED BY <1>1, <2>3, <2>4, <2>5, <2>6, <2>7
<1>11. CASE UNCHANGED vars
    BY <1>1, <1>11 DEF vars
<1> QED BY <1>2, <1>3, <1>4, <1>5, <1>6, <1>7, <1>8, <1>9, <1>10, <1>11 DEF Next, Step

\* How the client ends is kept.
LEMMA EndingStep == ASSUME Typed, Ending, [Next]_vars PROVE Ending'
<1> USE DEF Ending, Requesting, flags, history
<1>1. UNCHANGED flags => (Configured' <=> Configured)
    BY DEF Configured, flags
<1>2. \A r \in Results : classifyHeartbeatError(Code(r)) <=> Denied(r)
    BY ListsAgree
<1>3. ~Denied("none")
    BY DEF Denied, requestLabels, Code
<1>4. pc \in Sends => Configured
    BY DEF Typed
<1>5. (received' = received) => (Denied(received') <=> Denied(received))
    OBVIOUS
<1>6. CASE run
    BY <1>1, <1>5, <1>6 DEF run, sendHeartbeat, End
<1>7. CASE Accepted
    BY <1>1, <1>3, <1>7 DEF Accepted
<1>8. CASE Rejected
    BY <1>1, <1>2, <1>8 DEF Rejected, End
<1>9. CASE FailedAnswer
    BY <1>1, <1>2, <1>9 DEF FailedAnswer, Failed, End
<1>10. CASE NoAnswer
    BY <1>1, <1>5, <1>10 DEF NoAnswer, Failed, End
<1>11. CASE NextHeartbeat
    BY <1>1, <1>5, <1>11 DEF NextHeartbeat, sendHeartbeat
<1>12. CASE Heartbeat \/ Tick \/ UNCHANGED vars
    <2>1. UNCHANGED <<flags, pc, exit, history>>
        BY <1>12 DEF Heartbeat, Tick, vars
    <2> QED BY <1>1, <1>5, <2>1
<1>13. CASE Interrupt
    BY <1>1, <1>5, <1>13 DEF Interrupt, End
<1> QED BY <1>6, <1>7, <1>8, <1>9, <1>10, <1>11, <1>12, <1>13 DEF Next, Step

\* In the loop a tick is there if one was, or if the ticker has run down.
LEMMA TickRings ==
    ASSUME Tick, pc # "first"
    PROVE  tick' <=> (tick \/ ticker = 1)
BY Zenon DEF Tick

\* The ticker and the timer of a request stay in step.
LEMMA CycleStep == ASSUME Typed, Cycle, [Next]_vars PROVE Cycle'
<1> USE DEF Cycle, Requesting, InLoop, flags, clocks
<1>0. /\ interval \in Nat /\ timeout \in Nat /\ timer \in 0..timeout
      /\ ticker \in 0..interval
      /\ pc \in Sends => timeout > 0 /\ timeout < interval
    BY ClientNumbers
<1>1. CASE run \/ Rejected \/ Interrupt
    BY <1>1 DEF run, Rejected, Interrupt, sendHeartbeat, End
<1>2. CASE Accepted
    BY <1>0, <1>2 DEF Accepted
<1>3. CASE FailedAnswer \/ NoAnswer
    BY <1>3 DEF FailedAnswer, NoAnswer, Failed, End
<1>4. CASE NextHeartbeat
    BY <1>0, <1>4 DEF NextHeartbeat, sendHeartbeat
<1>5. CASE Heartbeat \/ UNCHANGED vars
    BY <1>5 DEF Heartbeat, vars
<1>6. CASE Tick
    <2>1. pc \in Sends /\ pc' = pc /\ interval' = interval /\ timeout' = timeout
        BY <1>6 DEF Tick, Sends
    <2>2. CASE pc = "first"
        BY <2>1, <2>2
    <2>3. CASE pc = "request"
        <3>1. /\ timer > 0 /\ timer' = timer - 1
              /\ ticker' = IF ticker = 1 THEN interval ELSE ticker - 1
            BY <1>0, <1>6, <2>3 DEF Tick
        <3>2. ticker > 1
            BY <1>0, <2>1, <2>3, <3>1
        <3>3. ~tick'
            BY <1>6, <2>3, <3>2, TickRings DEF Sends
        <3> QED BY <1>0, <2>1, <2>3, <3>1, <3>2, <3>3
    <2>4. CASE pc = "wait"
        <3>1. ~tick /\ ticker' = IF ticker = 1 THEN interval ELSE ticker - 1
            BY <1>6, <2>4 DEF Tick
        <3>2. tick' <=> ticker = 1
            BY <1>6, <2>4, <3>1, TickRings
        <3> QED BY <2>1, <2>4, <3>1, <3>2
    <2> QED BY <2>1, <2>2, <2>3, <2>4 DEF Sends
<1> QED BY <1>1, <1>2, <1>3, <1>4, <1>5, <1>6 DEF Next, Step

\* The bound on the silence is kept.
LEMMA QuietStep == ASSUME Typed, Cycle, Quiet, [Next]_vars PROVE Quiet'
<1> USE DEF Requesting, InLoop, flags, clocks
<1>0. /\ interval \in Nat /\ timeout \in Nat /\ timer \in 0..timeout
      /\ ticker \in 0..interval /\ missed \in 0..MaxMissed /\ MaxMissed \in Nat
      /\ silence \in Nat
      /\ pc \in Sends => timeout > 0 /\ timeout < interval
      /\ Owed \in Nat
    BY ClientNumbers
<1>1. UNCHANGED <<interval, timeout, missed>> => Owed' = Owed
    BY DEF Owed
<1>2. CASE run \/ Rejected \/ Interrupt
    <2>1. pc' \in {"first", "ended"}
        BY <1>2 DEF run, Rejected, Interrupt, sendHeartbeat, End
    <2>2. pc' = "first" => silence' + timer' <= timeout'
        BY <1>0, <1>2 DEF Quiet, run, Rejected, Interrupt, sendHeartbeat, End
    <2> QED BY <2>1, <2>2 DEF Quiet
<1>3. CASE Accepted
    <2>1. pc' = "wait" /\ missed' = 0 /\ UNCHANGED <<interval, timeout, silence>>
        BY <1>3 DEF Accepted
    <2>2. Owed' = timeout
        BY <1>0, <2>1 DEF Owed
    <2>3. silence + timer <= timeout
        BY <1>3 DEF Quiet, Accepted
    <2>4. CASE pc = "first"
        BY <1>0, <1>3, <2>1, <2>2, <2>3, <2>4 DEF Quiet, Accepted
    <2>5. CASE pc = "request"
        BY <1>0, <1>3, <2>1, <2>2, <2>3, <2>5 DEF Quiet, Accepted, Cycle
    <2> QED BY <1>3, <2>4, <2>5 DEF Accepted
<1>4. CASE FailedAnswer \/ NoAnswer
    <2>1. Failed /\ pc \in Requesting /\ UNCHANGED <<interval, timeout, timer, ticker, tick, silence>>
        BY <1>4 DEF FailedAnswer, NoAnswer
    <2>2. CASE pc = "first"
        BY <2>1, <2>2 DEF Quiet, Failed, End
    <2>3. CASE pc = "request"
        <3>1. pc' = "wait" /\ missed' = AtMost(missed + 1, MaxMissed)
            BY <2>1, <2>3 DEF Failed
        <3>2. SUFFICES ASSUME missed' < MaxMissed
                       PROVE  silence' + ticker' <= Owed' + interval'
                                                    + (IF tick' THEN interval' ELSE 0)
            BY <3>1 DEF Quiet
        <3>3. missed' = missed + 1 /\ missed < MaxMissed
            BY <1>0, <3>1, <3>2 DEF AtMost
        <3>4. Owed' = Owed + interval
            BY <1>0, <2>1, <3>3 DEF Owed
        <3>5. silence + timer <= Owed + interval + timeout /\ ~tick
              /\ interval - ticker = timeout - timer
            BY <2>3, <3>3 DEF Quiet, Cycle
        <3> QED BY <1>0, <2>1, <3>4, <3>5
    <2> QED BY <2>1, <2>2, <2>3
<1>5. CASE NextHeartbeat
    <2>1. /\ pc = "wait" /\ tick /\ pc' = "request" /\ timer' = timeout
          /\ answer' = "pending" /\ UNCHANGED <<interval, timeout, missed, silence>>
        BY <1>5 DEF NextHeartbeat, sendHeartbeat, history
    <2>2. missed < MaxMissed => silence <= Owed + interval
        BY <1>0, <2>1 DEF Quiet, Cycle
    <2> QED BY <1>0, <1>1, <2>1, <2>2 DEF Quiet
<1>6. CASE Heartbeat
    <2>1. UNCHANGED <<interval, timeout, pc, timer, ticker, tick, missed>> /\ pc \in Requesting
        BY <1>6 DEF Heartbeat, history
    <2>2. silence' <= silence /\ (answer' = "none" => silence' = 0) /\ silence' \in Nat
        BY <1>0, <1>6 DEF Heartbeat
    <2>3. Owed' = Owed /\ pc' \in {"first", "request"}
        BY <1>1, <2>1
    <2> DEFINE s1 == silence'
    <2>4. s1 \in Nat /\ s1 <= silence
        BY <2>2
    <2>5. timer \in Nat /\ silence \in Nat /\ timer <= timeout
        BY <1>0
    <2> HIDE DEF s1
    <2>6. pc = "first" => s1 + timer <= timeout
        <3>1. pc = "first" => silence + timer <= timeout
            BY DEF Quiet
        <3> QED BY <1>0, <2>4, <2>5, <3>1
    <2>7. s1 = 0 => s1 + timer <= timeout
        BY <2>5
    <2>8. pc = "request" /\ missed < MaxMissed => s1 + timer <= Owed + interval + timeout
        <3>1. pc = "request" /\ missed < MaxMissed => silence + timer <= Owed + interval + timeout
            BY DEF Quiet
        <3> QED BY <1>0, <2>4, <2>5, <3>1
    <2> QED BY <2>1, <2>2, <2>3, <2>6, <2>7, <2>8, Zenon DEF Quiet, s1
<1>7. CASE Tick
    <2>1. /\ pc \in Sends /\ silence' \in Nat /\ silence' <= silence + 1
          /\ UNCHANGED <<interval, timeout, pc, answer, missed>>
        BY <1>0, <1>7, ClientAssumption DEF Tick, AtMost, Sends, history
    <2>2. CASE pc \in Requesting
        <3>1. timer > 0 /\ timer' = timer - 1
            BY <1>0, <1>7, <2>2 DEF Tick
        <3>2. Owed' = Owed /\ pc' \in {"first", "request"}
            BY <1>1, <2>1, <2>2
        <3> DEFINE s1 == silence'  t1 == timer'
        <3>3. s1 \in Nat /\ s1 <= silence + 1 /\ t1 = timer - 1
            BY <2>1, <3>1
        <3>4. timer \in Nat /\ silence \in Nat
            BY <1>0
        <3> HIDE DEF s1, t1
        <3>5. pc = "first" => s1 + t1 <= timeout
            <4>1. pc = "first" => silence + timer <= timeout
                BY DEF Quiet
            <4> QED BY <1>0, <3>3, <3>4, <4>1
        <3>6. pc = "request" /\ answer = "none" => s1 + t1 <= timeout
            <4>1. pc = "request" /\ answer = "none" => silence + timer <= timeout
                BY DEF Quiet
            <4> QED BY <1>0, <3>3, <3>4, <4>1
        <3>7. pc = "request" /\ missed < MaxMissed => s1 + t1 <= Owed + interval + timeout
            <4>1. pc = "request" /\ missed < MaxMissed => silence + timer <= Owed + interval + timeout
                BY DEF Quiet
            <4> QED BY <1>0, <3>3, <3>4, <4>1
        <3> QED BY <2>1, <3>2, <3>5, <3>6, <3>7, Zenon DEF Quiet, s1, t1
    <2>3. CASE pc = "wait"
        <3>1. ~tick /\ ticker' = (IF ticker = 1 THEN interval ELSE ticker - 1)
            BY <1>7, <2>3 DEF Tick
        <3>2. tick' <=> ticker = 1
            BY <1>7, <2>3, <3>1, TickRings
        <3>3. pc' = "wait" /\ Owed' = Owed
            BY <1>1, <2>1, <2>3
        <3>4. SUFFICES ASSUME missed' < MaxMissed
                       PROVE  silence' + ticker' <= Owed' + interval'
                                                    + (IF tick' THEN interval' ELSE 0)
            BY <3>3 DEF Quiet
        <3>5. silence + ticker <= Owed + interval
            BY <1>0, <2>1, <2>3, <3>1, <3>4 DEF Quiet
        <3>6. ticker > 0
            BY <2>3 DEF Typed, TypeOK
        <3> DEFINE s1 == silence'  k1 == ticker'
        <3>7. s1 \in Nat /\ s1 <= silence + 1 /\ k1 = (IF ticker = 1 THEN interval ELSE ticker - 1)
            BY <2>1, <3>1
        <3> HIDE DEF s1, k1
        <3>8. CASE ticker = 1
            <4>1. s1 + k1 <= Owed + interval + interval
                BY <1>0, <3>5, <3>7, <3>8
            <4> QED BY <2>1, <3>2, <3>3, <3>8, <4>1 DEF s1, k1
        <3>9. CASE ticker # 1
            <4>1. s1 + k1 <= Owed + interval + 0
                BY <1>0, <3>5, <3>6, <3>7, <3>9
            <4> QED BY <2>1, <3>2, <3>3, <3>9, <4>1 DEF s1, k1
        <3> QED BY <3>8, <3>9
    <2> QED BY <2>1, <2>2, <2>3 DEF Sends
<1>8. CASE UNCHANGED vars
    BY <1>1, <1>8 DEF Quiet, vars, history
<1> QED BY <1>2, <1>3, <1>4, <1>5, <1>6, <1>7, <1>8 DEF Next, Step

\* The invariant holds always: no order of ticks, timeouts, answers and
\* interrupts breaks it.
THEOREM ClientInvariant == Spec => []ClientInv
<1>1. ClientInv /\ [Next]_vars => ClientInv'
    BY TypedStep, EndingStep, CycleStep, QuietStep DEF ClientInv
<1> QED BY <1>1, ClientInit, PTL DEF Spec

\* Every state of the client is of its type, its ticker runs in the loop.
THEOREM ClientTypeCorrect == Spec => []TypeOK
<1>1. ClientInv => TypeOK
    BY DEF ClientInv, Typed
<1> QED BY <1>1, ClientInvariant, PTL

\* An answer ends the client with an error exactly when the server has counted
\* it as denied.
THEOREM ClientEndsWhenDenied == Spec => []EndsWhenDenied
<1>1. ClientInv => EndsWhenDenied
    BY DEF ClientInv, Ending, EndsWhenDenied, Denied
<1> QED BY <1>1, ClientInvariant, PTL

\* After one success only an interrupt or a denial ends the client.
THEOREM ClientSurvivesFailures == Spec => []SurvivesFailures
<1>1. ClientInv => SurvivesFailures
    BY DEF ClientInv, Ending, SurvivesFailures
<1> QED BY <1>1, ClientInvariant, PTL

\* The server hears from a running client within an interval per heartbeat
\* missed and one more, and two timeouts.
THEOREM ClientGapBounded == Spec => []GapBounded
<1>1. ASSUME ClientInv, pc \in InLoop, missed < MaxMissed
      PROVE  silence <= (missed + 1) * interval + 2 * timeout
    <2>1. /\ interval \in Nat /\ timeout \in Nat /\ timer \in 0..timeout
          /\ ticker \in 0..interval /\ missed \in 0..MaxMissed /\ MaxMissed \in Nat
          /\ silence \in Nat /\ Owed \in Nat
        BY <1>1, ClientNumbers DEF ClientInv
    <2>2. (missed + 1) * interval + 2 * timeout = Owed + interval + timeout
        BY <2>1 DEF Owed
    <2>3. pc = "wait" => silence <= Owed + interval
        BY <1>1, <2>1 DEF ClientInv, Quiet, Cycle
    <2>4. pc = "request" => silence <= Owed + interval + timeout
        BY <1>1, <2>1 DEF ClientInv, Quiet
    <2> QED BY <1>1, <2>1, <2>2, <2>3, <2>4 DEF InLoop
<1>2. ClientInv => GapBounded
    BY <1>1 DEF GapBounded
<1> QED BY <1>2, ClientInvariant, PTL

=============================================================================
