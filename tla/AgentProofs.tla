----------------------------- MODULE AgentProofs -----------------------------
(***************************************************************************)
(* What the agent promises, for every interval, timeout, backoff limit and *)
(* number of failures.                                                     *)
(*                                                                         *)
(* The silence the server sees is bounded by what the agent has counted.   *)
(* The bound is not inductive by itself: in the middle of a request or of  *)
(* a wait it has to leave room for the rest of the timer, or of the        *)
(* ticker, that is still to run.  Rest says how much, in each of the       *)
(* loop's places.                                                          *)
(***************************************************************************)
EXTENDS Agent, WellFoundedInduction, TLAPS

-----------------------------------------------------------------------------
(* The recursive functions of the model *)

\* A set of natural numbers that is not empty has a least element: what
\* stands in for induction in the two lemmas below.
LEMMA LeastNumber ==
    ASSUME NEW T \in SUBSET Nat, T # {}
    PROVE  \E m \in T : \A k \in T : m <= k
<1>1. PICK m \in T : \A k \in T : <<k, m>> \notin OpToRel(<, Nat)
  BY WFMin, NatLessThanWellFounded, Zenon
<1>2. \A k \in T : ~(k < m)
  BY <1>1, Zenon DEF OpToRel
<1> QED
  BY <1>2

\* The doubling of backoffDuration: Pow2 exists, doubles, and is positive.
LEMMA Pow2Type ==
    /\ Pow2 = [n \in 0..OverflowAt |-> IF n = 0 THEN 1 ELSE 2 * Pow2[n - 1]]
    /\ \A n \in 0..OverflowAt : Pow2[n] \in Nat \ {0}
<1> DEFINE Doubles(g, m) ==
             /\ g = [n \in 0..m |-> IF n = 0 THEN 1 ELSE 2 * g[n - 1]]
             /\ \A n \in 0..m : g[n] \in Nat \ {0}
           T == {m \in Nat : ~ \E g : Doubles(g, m)}
<1>1. T = {}
  <2> SUFFICES ASSUME T # {} PROVE FALSE
    OBVIOUS
  <2>1. PICK m \in T : \A k \in T : m <= k
    <3>1. T \in SUBSET Nat
      OBVIOUS
    <3> HIDE DEF T
    <3> QED
      BY <3>1, LeastNumber
  <2>2. m # 0
    <3>1. Doubles([n \in 0..0 |-> 1], 0)
      OBVIOUS
    <3> QED
      BY <3>1
  <2>3. m - 1 \in Nat /\ m - 1 \notin T
    <3>1. m \in Nat
      OBVIOUS
    <3> HIDE DEF T
    <3> QED
      BY <2>1, <2>2, <3>1
  <2>4. PICK g : Doubles(g, m - 1)
    BY <2>3
  <2> DEFINE h == [n \in 0..m |-> IF n = m THEN 2 * g[m - 1] ELSE g[n]]
  <2>5. Doubles(h, m)
    <3>1. \A n \in 0..m : h[n] = IF n = 0 THEN 1 ELSE 2 * h[n - 1]
      BY <2>1, <2>2, <2>4
    <3>2. \A n \in 0..m : h[n] \in Nat \ {0}
      <4>1. g[m - 1] \in Nat \ {0}
        <5>1. m - 1 \in 0..(m - 1)
          BY <2>3
        <5> QED
          BY <2>4, <5>1
      <4>2. \A n \in 0..m : n # m => g[n] \in Nat \ {0}
        BY <2>2, <2>4
      <4> QED
        BY <4>1, <4>2
    <3> QED
      BY <3>1, <3>2
  <2> QED
    BY <2>1, <2>5
<1>2. PICK g : Doubles(g, OverflowAt)
  BY <1>1, AgentAssumption
<1>3. Pow2 = [n \in 0..OverflowAt |-> IF n = 0 THEN 1 ELSE 2 * Pow2[n - 1]]
  BY <1>2 DEF Pow2
<1> DEFINE Wrong == {n \in 0..OverflowAt : Pow2[n] \notin Nat \ {0}}
<1>4. Wrong = {}
  <2> SUFFICES ASSUME Wrong # {} PROVE FALSE
    OBVIOUS
  <2>1. PICK m \in Wrong : \A k \in Wrong : m <= k
    <3>1. Wrong \in SUBSET Nat
      BY AgentAssumption
    <3> HIDE DEF Wrong
    <3> QED
      BY <3>1, LeastNumber
  <2>2. m \in 0..OverflowAt /\ m # 0
    BY <1>3, AgentAssumption
  <2>3. m - 1 \in 0..OverflowAt /\ m - 1 \notin Wrong
    BY <2>1, <2>2, AgentAssumption
  <2>4. Pow2[m] = 2 * Pow2[m - 1] /\ Pow2[m - 1] \in Nat \ {0}
    BY <1>3, <2>2, <2>3
  <2> QED
    BY <2>4
<1> QED
  BY <1>3, <1>4

\* The longest wait after f failures.
LongestWait(f) ==
    AtMost(Interval * Pow2[f - 1],
           IF Interval < MaxBackoff THEN MaxBackoff ELSE Interval)

\* The wait that Reach counts is a number, no shorter than the interval, and
\* no shorter than what backoffDuration yields for that many failures.
LEMMA WaitBounds ==
    ASSUME NEW f \in 1..(OverflowAt - 1)
    PROVE  /\ LongestWait(f) \in Nat
           /\ Interval <= LongestWait(f)
           /\ \A d \in backoffDuration(f) : d \in Nat /\ d <= LongestWait(f)
<1> DEFINE p == Pow2[f - 1]
           q == Interval * p
<1>1. p \in Nat \ {0} /\ (f = 1 => p = 1)
  <2>1. f - 1 \in 0..OverflowAt /\ (f = 1 => f - 1 = 0)
    BY AgentAssumption
  <2>2. Pow2[0] = 1
    BY Pow2Type, AgentAssumption
  <2> QED
    BY <2>1, <2>2, Pow2Type
<1>2. f = 1 => q = Interval
  BY <1>1, AgentAssumption
<1>3. q \in Nat /\ Interval <= q
  BY <1>1, AgentAssumption
<1> HIDE DEF q
<1>4. LongestWait(f) = AtMost(q, IF Interval < MaxBackoff THEN MaxBackoff ELSE Interval)
  BY DEF LongestWait, q
<1>5. backoffDuration(f) = IF f <= 1 THEN {Interval} ELSE {AtMost(q, MaxBackoff)}
  BY AgentAssumption DEF backoffDuration, q
<1> QED
  BY <1>2, <1>3, <1>4, <1>5, AgentAssumption DEF AtMost

\* What Reach computes: a sum that grows by a request and a wait with every
\* failure, and holds an interval and two requests from the start.
LEMMA ReachEquations ==
    /\ Reach[0] = Interval + 2 * RequestTimeout
    /\ \A f \in 1..(OverflowAt - 1) :
          Reach[f] = Reach[f - 1] + RequestTimeout + LongestWait(f)
    /\ \A f \in 0..(OverflowAt - 1) :
          /\ Reach[f] \in Nat
          /\ Interval + 2 * RequestTimeout <= Reach[f]
<1> DEFINE w == [f \in 1..(OverflowAt - 1) |-> LongestWait(f)]
           N == OverflowAt - 1
           Base == Interval + 2 * RequestTimeout
           Sums(g, m) ==
             g = [f \in 0..m |-> IF f = 0 THEN Base ELSE g[f - 1] + RequestTimeout + w[f]]
           T == {m \in 0..N : ~ \E g : Sums(g, m)}
<1>0. N \in Nat /\ Base \in Nat /\ \A f \in 1..N : w[f] \in Nat /\ w[f] = LongestWait(f)
  BY AgentAssumption, WaitBounds
<1> HIDE DEF w, Base, N
<1>1. T = {}
  <2> SUFFICES ASSUME T # {} PROVE FALSE
    OBVIOUS
  <2>1. PICK m \in T : \A k \in T : m <= k
    <3>1. T \in SUBSET Nat
      BY <1>0
    <3> HIDE DEF T
    <3> QED
      BY <3>1, LeastNumber
  <2>2. m \in 0..N /\ m # 0
    <3>1. Sums([f \in 0..0 |-> Base], 0)
      OBVIOUS
    <3> QED
      BY <3>1
  <2>3. m - 1 \in 0..N /\ m - 1 \notin T
    <3> HIDE DEF T
    <3> QED
      BY <1>0, <2>1, <2>2
  <2>4. PICK g : Sums(g, m - 1)
    BY <2>3
  <2> DEFINE h == [f \in 0..m |-> IF f = m THEN g[m - 1] + RequestTimeout + w[m] ELSE g[f]]
  <2>5. Sums(h, m)
    <3>1. \A f \in 0..m :
             h[f] = IF f = 0 THEN Base ELSE h[f - 1] + RequestTimeout + w[f]
      BY <1>0, <2>2, <2>4
    <3> QED
      BY <3>1
  <2> QED
    BY <2>1, <2>5
<1>2. PICK g : Sums(g, N)
  <2>1. N \in 0..N
    BY <1>0
  <2> QED
    BY <1>1, <2>1
<1>3. g = [f \in 0..(OverflowAt - 1) |->
             IF f = 0 THEN Interval + 2 * RequestTimeout
             ELSE g[f - 1] + RequestTimeout
                  + AtMost(Interval * Pow2[f - 1],
                           IF Interval < MaxBackoff THEN MaxBackoff ELSE Interval)]
  <2>1. \A f \in 0..N : f # 0 => f \in 1..N
    BY <1>0
  <2> QED
    BY <1>0, <1>2, <2>1 DEF Base, N, LongestWait
<1>4. Reach = [f \in 0..(OverflowAt - 1) |->
                 IF f = 0 THEN Interval + 2 * RequestTimeout
                 ELSE Reach[f - 1] + RequestTimeout
                      + AtMost(Interval * Pow2[f - 1],
                               IF Interval < MaxBackoff THEN MaxBackoff ELSE Interval)]
  BY <1>3 DEF Reach
<1>5. /\ Reach[0] = Base
      /\ \A f \in 1..N : Reach[f] = Reach[f - 1] + RequestTimeout + LongestWait(f)
  <2>1. 0 \in 0..N /\ \A f \in 1..N : f \in 0..N /\ f # 0
    BY <1>0
  <2> QED
    BY <1>4, <2>1, Zenon DEF LongestWait, Base, N
<1> DEFINE Wrong == {f \in 0..N : ~(Reach[f] \in Nat /\ Base <= Reach[f])}
<1>6. Wrong = {}
  <2> SUFFICES ASSUME Wrong # {} PROVE FALSE
    OBVIOUS
  <2>1. PICK m \in Wrong : \A k \in Wrong : m <= k
    <3>1. Wrong \in SUBSET Nat
      BY <1>0
    <3> HIDE DEF Wrong
    <3> QED
      BY <3>1, LeastNumber
  <2>2. m \in 1..N
    BY <1>0, <1>5
  <2>3. m - 1 \in 0..N /\ m - 1 \notin Wrong
    BY <1>0, <2>1, <2>2
  <2>4. Reach[m - 1] \in Nat /\ Base <= Reach[m - 1]
    BY <2>3
  <2>5. Reach[m] = Reach[m - 1] + RequestTimeout + LongestWait(m) /\ LongestWait(m) \in Nat
    BY <1>0, <1>5, <2>2
  <2>6. Reach[m] \in Nat /\ Base <= Reach[m]
    BY <1>0, <2>4, <2>5, AgentAssumption
  <2> QED
    BY <2>6
<1> QED
  BY <1>5, <1>6 DEF Base, N

-----------------------------------------------------------------------------
(* Types *)

\* A backoff is a length of time, for any number of failures.
LEMMA BackoffType ==
    ASSUME NEW f \in 0..OverflowAt, NEW d \in backoffDuration(f)
    PROVE  d \in Nat
<1>1. CASE f \in 1..(OverflowAt - 1)
  BY <1>1, WaitBounds
<1>2. CASE f \notin 1..(OverflowAt - 1)
  <2>1. f = 0 \/ f = OverflowAt
    BY <1>2, AgentAssumption
  <2> QED
    BY <2>1, AgentAssumption DEF backoffDuration
<1> QED
  BY <1>1, <1>2

\* A process that has not been started has its variables in their types.
LEMMA InitTyped == Init => TypeOK
<1> SUFFICES ASSUME Init PROVE TypeOK
  OBVIOUS
<1>1. heard \in BOOLEAN /\ tick \in BOOLEAN
  BY Zenon DEF Init
<1>2. /\ failures \in 0..OverflowAt /\ timer \in Nat
      /\ ticker \in 0..Interval /\ silence \in 0..MaxSilence
  BY AgentAssumption DEF Init
<1>3. pc \in {"down", "wait"} \cup Requesting \cup BackingOff /\ pc \notin InHeartbeatLoop
  BY DEF Init, InHeartbeatLoop
<1> QED
  BY <1>1, <1>2, <1>3 DEF TypeOK

\* Each step keeps the variables in their types, and the ticker running in
\* the heartbeat loop.
LEMMA TypeStep ==
    ASSUME TypeOK, [Next]_vars
    PROVE  TypeOK'
<1> USE AgentAssumption DEF TypeOK, Sending, Requesting, BackingOff, InHeartbeatLoop, clocks
<1>0. OneMoreFailure \in 1..OverflowAt
  BY DEF OneMoreFailure, AtMost
<1>1. CASE pc \notin InHeartbeatLoop /\ (StartIdentify \/ StartHeartbeats)
  <2>1. heard' \in BOOLEAN /\ tick' \in BOOLEAN
    BY <1>1, Zenon DEF StartIdentify, StartHeartbeats
  <2> QED
    BY <1>1, <2>1 DEF StartIdentify, StartHeartbeats
<1>2. CASE Start
  BY <1>1, <1>2 DEF Start
<1>3. CASE Stop
  BY <1>3 DEF Stop
<1>4. CASE IdentifySucceeds
  BY <1>1, <1>4 DEF IdentifySucceeds
<1>5. CASE IdentifyFails
  <2>1. timer' \in Nat
    BY <1>0, <1>5, BackoffType DEF IdentifyFails
  <2> QED
    BY <1>0, <1>5, <2>1 DEF IdentifyFails
<1>6. CASE IdentifyAgain
  BY <1>6 DEF IdentifyAgain
<1>7. CASE Deliver
  BY <1>7 DEF Deliver
<1>8. CASE FirstHeartbeatSucceeds
  <2>1. ticker' = Interval /\ tick' \in BOOLEAN
    BY <1>8 DEF FirstHeartbeatSucceeds, NewTicker
  <2> QED
    BY <1>8, <2>1 DEF FirstHeartbeatSucceeds
<1>9. CASE FirstHeartbeatFails
  <2>1. ticker' = Interval /\ tick' \in BOOLEAN
    BY <1>9 DEF FirstHeartbeatFails, NewTicker
  <2> QED
    BY <1>9, <2>1 DEF FirstHeartbeatFails
<1>10. CASE sendHeartbeat
  BY <1>10 DEF sendHeartbeat
<1>11. CASE HeartbeatSucceeds
  BY <1>11 DEF HeartbeatSucceeds
<1>12. CASE HeartbeatFails
  <2>1. timer' \in Nat
    BY <1>0, <1>12, BackoffType DEF HeartbeatFails
  <2> QED
    BY <1>0, <1>12, <2>1 DEF HeartbeatFails
<1>13. CASE BackoffEnds
  BY <1>13 DEF BackoffEnds
<1>14. CASE Tick
  <2>1. pc' = pc /\ failures' = failures /\ heard' = heard
    BY <1>14 DEF Tick
  <2>2. timer' \in Nat /\ silence' \in 0..MaxSilence
    BY <1>14 DEF Tick, AtMost
  <2>3. ticker' \in 0..Interval /\ (pc \in InHeartbeatLoop => ticker' > 0)
    BY <1>14 DEF Tick, RunTicker
  <2>4. tick' \in BOOLEAN
    BY <1>14, Zenon DEF Tick, RunTicker
  <2> QED
    BY <2>1, <2>2, <2>3, <2>4
<1>15. CASE UNCHANGED vars
  BY <1>15 DEF vars
<1> QED
  BY <1>2, <1>3, <1>4, <1>5, <1>6, <1>7, <1>8, <1>9, <1>10, <1>11, <1>12, <1>13,
     <1>14, <1>15 DEF Next, LoopStep, Answer

\* Type correctness of the agent's loops and of the clocks they wait for.
THEOREM AgentTypeCorrect == Spec => []TypeOK
<1>1. TypeOK /\ [Next]_vars => TypeOK'
  BY TypeStep
<1> QED
  BY <1>1, InitTyped, PTL DEF Spec

-----------------------------------------------------------------------------
(* Silence *)

\* The bound of SilenceBounded still leaves d for what is to come.
Room(d) == failures < OverflowAt => silence + d <= Reach[failures]

\* How long the silence can still grow before the agent counts another
\* failure: the rest of the request; or the rest of the wait, for time.After
\* and for the ticker, and then a whole request.
Rest ==
    /\ pc = "firstHeartbeat" => failures = 0 /\ silence + timer <= RequestTimeout
    /\ pc = "heartbeat" =>
          /\ timer <= RequestTimeout
          /\ heard => silence + timer <= RequestTimeout
          /\ Room(timer)
    /\ pc = "wait" => Room((IF tick THEN 0 ELSE ticker) + RequestTimeout)
    /\ pc = "backoff" =>
          /\ Room(timer + RequestTimeout)
          /\ tick \/ Room(ticker + RequestTimeout)

AgentInv == TypeOK /\ Rest

\* A heartbeat that was sent leaves room for its whole timeout.
LEMMA SendRest ==
    ASSUME AgentInv, sendHeartbeat
    PROVE  Rest'
<1> USE AgentAssumption, ReachEquations DEF AgentInv, TypeOK
<1>1. Room(RequestTimeout)
  BY DEF sendHeartbeat, Rest, Room
<1> QED
  BY <1>1 DEF sendHeartbeat, Rest, Room

\* A failed heartbeat adds a wait and a request to the bound, and the agent
\* waits no longer than that, on the ticker either.
LEMMA FailRest ==
    ASSUME AgentInv, HeartbeatFails
    PROVE  Rest'
<1> USE AgentAssumption DEF AgentInv, TypeOK
<1>1. /\ pc' = "backoff" /\ failures' = OneMoreFailure /\ silence' = silence
      /\ tick' = tick /\ ticker' = ticker
  BY DEF HeartbeatFails, clocks
<1>2. SUFFICES ASSUME OneMoreFailure < OverflowAt
               PROVE  /\ silence + timer' + RequestTimeout <= Reach[failures + 1]
                      /\ silence + ticker + RequestTimeout <= Reach[failures + 1]
                      /\ OneMoreFailure = failures + 1
                      /\ timer' \in Nat
  <2>1. OneMoreFailure \in Nat
    BY DEF OneMoreFailure, AtMost
  <2> QED
    BY <1>1, <1>2, <2>1 DEF Rest, Room
<1>3. OneMoreFailure = failures + 1 /\ failures + 1 \in 1..(OverflowAt - 1)
  BY <1>2 DEF OneMoreFailure, AtMost
<1>4. /\ LongestWait(failures + 1) \in Nat
      /\ Interval <= LongestWait(failures + 1)
      /\ timer' \in Nat /\ timer' <= LongestWait(failures + 1)
  BY <1>3, WaitBounds DEF HeartbeatFails
<1>5. /\ Reach[failures] \in Nat
      /\ Reach[failures + 1] = Reach[failures] + RequestTimeout + LongestWait(failures + 1)
  <2>1. failures \in 0..(OverflowAt - 1) /\ (failures + 1) - 1 = failures
    BY <1>3
  <2> QED
    BY <1>3, <2>1, ReachEquations
<1>6. silence <= Reach[failures]
  BY <1>2, <1>3, <1>5 DEF Rest, Room, HeartbeatFails
<1> DEFINE w == LongestWait(failures + 1)
           r == Reach[failures]
           d == timer'
<1> HIDE DEF w, r, d
<1>7. /\ silence + d + RequestTimeout <= r + RequestTimeout + w
      /\ silence + ticker + RequestTimeout <= r + RequestTimeout + w
  BY <1>4, <1>5, <1>6 DEF w, r, d
<1> QED
  BY <1>3, <1>4, <1>5, <1>7 DEF w, r, d

\* An answer that the agent takes for a success is to a heartbeat the server
\* applied during the request: what remains is a tick and a request.
LEMMA SuccessRest ==
    ASSUME AgentInv, HeartbeatSucceeds \/ FirstHeartbeatSucceeds
    PROVE  Rest'
<1> USE AgentAssumption, ReachEquations
<1>1. silence \in Nat /\ silence <= RequestTimeout
  BY DEF AgentInv, TypeOK, Rest, HeartbeatSucceeds, FirstHeartbeatSucceeds
<1>2. pc' = "wait" /\ failures' = 0 /\ silence' = silence /\ ticker' \in 0..Interval
  BY DEF AgentInv, TypeOK, Rest, HeartbeatSucceeds, FirstHeartbeatSucceeds, NewTicker, clocks
<1> DEFINE t == ticker'
<1>3. \A d \in {0, t} : silence + (d + RequestTimeout) <= Reach[0]
  <2> HIDE DEF t
  <2>1. t \in 0..Interval
    BY <1>2 DEF t
  <2> QED
    BY <1>1, <2>1
<1> QED
  BY <1>2, <1>3 DEF Rest, Room

\* A first heartbeat that fails counts one failure and waits for a tick only.
LEMMA FirstFailsRest ==
    ASSUME AgentInv, FirstHeartbeatFails
    PROVE  Rest'
<1> USE AgentAssumption, ReachEquations
<1>1. silence \in Nat /\ silence <= RequestTimeout
  BY DEF AgentInv, TypeOK, Rest, FirstHeartbeatFails
<1>2. /\ pc' = "wait" /\ failures' = 1 /\ silence' = silence
      /\ ticker' = Interval /\ tick' = FALSE
  BY DEF FirstHeartbeatFails, NewTicker
<1>3. 1 \in 1..(OverflowAt - 1)
  OBVIOUS
<1>4. silence + (Interval + RequestTimeout) <= Reach[1]
  BY <1>1, <1>3
<1> QED
  BY <1>2, <1>4 DEF Rest, Room

\* Time that passes is taken from the timer and from the ticker.
LEMMA TickRest ==
    ASSUME AgentInv, Tick
    PROVE  Rest'
<1> USE AgentAssumption
<1> DEFINE s1 == silence'
           t1 == timer'
           k1 == ticker'
<1>1. pc' = pc /\ failures' = failures /\ heard' = heard
  BY DEF Tick
<1>2. s1 \in Nat /\ s1 <= silence + 1
  BY DEF AgentInv, TypeOK, Tick, AtMost
<1>3. pc \in Requesting \cup BackingOff => timer > 0 /\ t1 = timer - 1
  BY DEF AgentInv, TypeOK, Tick
<1>4. pc \in InHeartbeatLoop => ticker > 0
  BY DEF AgentInv, TypeOK
<1>5. pc \in InHeartbeatLoop /\ ~tick' => ~tick /\ k1 = ticker - 1
  BY DEF Tick, RunTicker
<1>6. pc = "wait" => ~tick
  BY DEF Tick
<1>7. pc = "wait" /\ tick' => ticker = 1
  BY <1>6 DEF Tick, RunTicker, InHeartbeatLoop
<1>8. /\ silence \in Nat /\ timer \in Nat /\ ticker \in Nat /\ failures \in 0..OverflowAt
      /\ Rest
  BY DEF AgentInv, TypeOK
<1>9. failures < OverflowAt => Reach[failures] \in Nat
  BY <1>8, ReachEquations
<1> HIDE DEF s1, t1, k1
<1>10. pc = "firstHeartbeat" => failures = 0 /\ s1 + t1 <= RequestTimeout
  BY <1>2, <1>3, <1>8 DEF Rest, Requesting, Sending
<1>11. pc = "heartbeat" =>
          /\ t1 <= RequestTimeout
          /\ heard => s1 + t1 <= RequestTimeout
          /\ failures < OverflowAt => s1 + t1 <= Reach[failures]
  BY <1>2, <1>3, <1>8, <1>9 DEF Rest, Room, Requesting, Sending
<1>12. pc = "wait" /\ failures < OverflowAt =>
          s1 + ((IF tick' THEN 0 ELSE k1) + RequestTimeout) <= Reach[failures]
  <2> SUFFICES ASSUME pc = "wait", failures < OverflowAt
               PROVE  s1 + ((IF tick' THEN 0 ELSE k1) + RequestTimeout) <= Reach[failures]
    OBVIOUS
  <2>1. silence + (ticker + RequestTimeout) <= Reach[failures]
    BY <1>6, <1>8 DEF Rest, Room
  <2>2. CASE tick'
    BY <1>2, <1>7, <1>8, <1>9, <2>1, <2>2
  <2>3. CASE ~tick'
    BY <1>2, <1>5, <1>8, <1>9, <2>1, <2>3 DEF InHeartbeatLoop
  <2> QED
    BY <2>2, <2>3
<1>13. pc = "backoff" /\ failures < OverflowAt =>
          /\ s1 + (t1 + RequestTimeout) <= Reach[failures]
          /\ tick' \/ s1 + (k1 + RequestTimeout) <= Reach[failures]
  <2> SUFFICES ASSUME pc = "backoff", failures < OverflowAt
               PROVE  /\ s1 + (t1 + RequestTimeout) <= Reach[failures]
                      /\ tick' \/ s1 + (k1 + RequestTimeout) <= Reach[failures]
    OBVIOUS
  <2>1. s1 + (t1 + RequestTimeout) <= Reach[failures]
    BY <1>2, <1>3, <1>8, <1>9 DEF Rest, Room, BackingOff
  <2>2. ASSUME ~tick' PROVE s1 + (k1 + RequestTimeout) <= Reach[failures]
    BY <1>2, <1>5, <1>8, <1>9, <2>2 DEF Rest, Room, InHeartbeatLoop
  <2> QED
    BY <2>1, <2>2
<1> QED
  BY <1>1, <1>10, <1>11, <1>12, <1>13 DEF Rest, Room, s1, t1, k1

\* Every step leaves enough room for the rest of the request or the wait it
\* leads to.
LEMMA RestStep ==
    ASSUME AgentInv, [Next]_vars
    PROVE  Rest'
<1> USE AgentAssumption
<1>1. CASE StartIdentify
  BY <1>1 DEF StartIdentify, Rest
<1>2. CASE StartHeartbeats
  BY <1>2 DEF StartHeartbeats, Rest
<1>3. CASE Start
  BY <1>1, <1>2, <1>3 DEF Start
<1>4. CASE Stop
  BY <1>4 DEF Stop, Rest
<1>5. CASE IdentifySucceeds
  BY <1>2, <1>5 DEF IdentifySucceeds
<1>6. CASE IdentifyFails
  BY <1>6 DEF IdentifyFails, Rest
<1>7. CASE IdentifyAgain
  BY <1>7 DEF IdentifyAgain, Rest
<1>8. CASE Deliver
  <2>1. timer \in Nat /\ timer <= RequestTimeout /\ (pc = "firstHeartbeat" => failures = 0)
    BY <1>8 DEF Deliver, Sending, AgentInv, TypeOK, Rest
  <2>2. failures < OverflowAt => timer <= Reach[failures]
    <3>1. failures \in 0..OverflowAt
      BY DEF AgentInv, TypeOK
    <3> QED
      BY <2>1, <3>1, ReachEquations
  <2> QED
    BY <1>8, <2>1, <2>2 DEF Deliver, Sending, Rest, Room
<1>9. CASE BackoffEnds
  <2>1. Room((IF tick THEN 0 ELSE ticker) + RequestTimeout)
    BY <1>9 DEF BackoffEnds, AgentInv, TypeOK, Rest, Room
  <2> QED
    BY <1>9, <2>1 DEF BackoffEnds, Rest, Room, clocks
<1>10. CASE UNCHANGED vars
  BY <1>10 DEF AgentInv, Rest, Room, vars
<1> QED
  BY <1>3, <1>4, <1>5, <1>6, <1>7, <1>8, <1>9, <1>10, SendRest, FailRest, SuccessRest,
     FirstFailsRest, TickRest DEF Next, LoopStep, Answer

\* The agent's inductive invariant: the types, and the room that each place
\* of the loop leaves below the bound.
THEOREM AgentInvariant == Spec => []AgentInv
<1>1. Init => AgentInv
  BY InitTyped DEF Init, AgentInv, Rest
<1>2. AgentInv /\ [Next]_vars => AgentInv'
  BY TypeStep, RestStep DEF AgentInv
<1> QED
  BY <1>1, <1>2, PTL DEF Spec

\* The server hears from a running agent within the time that follows from
\* the failures the agent has counted, whatever answers are lost, ticks
\* dropped and backoffs waited for by heartbeatLoop, for every interval,
\* request timeout and maxBackoff.
THEOREM AgentSilenceBounded == Spec => []SilenceBounded
<1>1. AgentInv => SilenceBounded
  <2> SUFFICES ASSUME AgentInv, pc \in InHeartbeatLoop, failures < OverflowAt
               PROVE  silence <= Reach[failures]
    BY DEF SilenceBounded
  <2>1. /\ silence \in Nat /\ timer \in Nat /\ ticker \in Nat /\ Reach[failures] \in Nat
    <3>1. failures \in 0..(OverflowAt - 1)
      BY AgentAssumption DEF AgentInv, TypeOK
    <3> QED
      BY <3>1, AgentAssumption, ReachEquations DEF AgentInv, TypeOK
  <2> QED
    BY <2>1, AgentAssumption DEF AgentInv, Rest, Room, InHeartbeatLoop
<1> QED
  BY <1>1, AgentInvariant, PTL

=============================================================================
