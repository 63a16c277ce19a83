---------------------------- MODULE ClusterProofs ----------------------------
(***************************************************************************)
(* Proofs about the cluster and about the timestamps and signatures it     *)
(* rests on, for every set of nodes and addresses, every duration, every   *)
(* width of the machine's integers and every order in which heartbeats     *)
(* arrive, late, again or never.                                           *)
(***************************************************************************)
EXTENDS Cluster, MCHMACAuth, LeaseStoreProofs, SequenceTheorems, WellFoundedInduction

-----------------------------------------------------------------------------
(* Integers of the machine *)

\* A word has two halves.
LEMMA HalfWord == Word \div 2 \in Nat /\ Word = 2 * (Word \div 2)
BY HMACAssumption

\* A number that fits the machine's integers is kept.
LEMMA WrapKeeps == ASSUME NEW x \in MinInt..MaxInt PROVE Wrap(x) = x
<1> DEFINE h == Word \div 2
<1>1. h \in Nat /\ Word = 2 * h /\ Word \in Nat \ {0}
    BY HMACAssumption, HalfWord
<1>2. x \in (-h)..(h - 1)
    BY DEF MinInt, MaxInt
<1>3. Wrap(x) = ((x + h) % Word) - h
    BY DEF Wrap
<1> HIDE DEF h
<1>4. x + h \in 0..(Word - 1)
    BY <1>1, <1>2
<1>5. (x + h) % Word = x + h
    BY <1>1, <1>4
<1> QED BY <1>1, <1>2, <1>3, <1>5

\* A number just above the largest integer comes back at the other end.
LEMMA WrapOnce ==
    ASSUME NEW x \in (MaxInt + 1)..(MaxInt + Word)
    PROVE  Wrap(x) = x - Word
<1> DEFINE h == Word \div 2
<1>1. h \in Nat /\ Word = 2 * h /\ Word \in Nat \ {0}
    BY HMACAssumption, HalfWord
<1>2. x \in h..(h - 1 + Word)
    BY <1>1 DEF MaxInt
<1>3. Wrap(x) = ((x + h) % Word) - h
    BY DEF Wrap
<1> HIDE DEF h
<1>4. x + h \in Word..(2 * Word - 1)
    BY <1>1, <1>2
<1>5. (x + h) % Word = x + h - Word
    BY <1>1, <1>4
<1> QED BY <1>1, <1>2, <1>3, <1>5

-----------------------------------------------------------------------------
(* ValidateTimestamp *)

\* While the difference fits, what is accepted is at most Drift old.
LEMMA AcceptedIsYoung ==
    ASSUME NEW ts \in Int, NEW t \in Int, t - ts \in MinInt..MaxInt,
           ValidateTimestamp(ts, t)
    PROVE  t - ts <= Drift
<1> DEFINE d == t - ts
<1>1. d \in Int /\ Drift \in Nat
    BY HMACAssumption
<1>2. Wrap(d) = d
    BY WrapKeeps
<1>3. (IF Wrap(d) < 0 THEN Wrap(-Wrap(d)) ELSE Wrap(d)) <= Drift
    BY DEF ValidateTimestamp
<1> HIDE DEF d
<1>4. d <= Drift
    BY <1>1, <1>2, <1>3
<1> QED BY <1>4 DEF d

\* For a clock that is far from the largest integer the test is exact, but for
\* the one timestamp whose difference is its own negation.
LEMMA DriftExact ==
    ASSUME NEW ts \in MinInt..MaxInt, NEW t \in 0 .. MaxInt \div 2, t - ts # -MinInt
    PROVE  ValidateTimestamp(ts, t) <=> (t - ts <= Drift /\ ts - t <= Drift)
<1> DEFINE h == Word \div 2
           d == t - ts
<1>1. /\ h \in Nat /\ Word = 2 * h /\ Word \in Nat \ {0}
      /\ Drift \in Nat /\ 4 * Drift <= Word
    BY HMACAssumption, HalfWord
<1>2. /\ ts \in (-h)..(h - 1)
      /\ t \in Nat /\ 2 * t <= h - 1
      /\ t - ts # h
      /\ MinInt = -h /\ MaxInt = h - 1
    BY <1>1 DEF MinInt, MaxInt
<1> HIDE DEF h
<1>3. d \in Int /\ d >= -(h - 1) /\ 2 * d <= 3 * h - 1 /\ d # h /\ ts - t = -d
    BY <1>1, <1>2
<1>4. ValidateTimestamp(ts, t) <=>
          (IF Wrap(d) < 0 THEN Wrap(-Wrap(d)) ELSE Wrap(d)) <= Drift
    BY DEF ValidateTimestamp
<1> HIDE DEF d
<1>5. CASE d < h
    <2>1. d \in MinInt..MaxInt /\ -d \in MinInt..MaxInt
        BY <1>1, <1>2, <1>3, <1>5
    <2>2. Wrap(d) = d /\ Wrap(-d) = -d
        BY <2>1, WrapKeeps
    <2> QED BY <1>1, <1>3, <1>4, <1>5, <2>2 DEF d
<1>6. CASE d > h
    <2>1. Wrap(d) = d - Word
        <3>1. d \in (MaxInt + 1)..(MaxInt + Word)
            BY <1>1, <1>2, <1>3, <1>6
        <3> QED BY <3>1, WrapOnce
    <2>2. Wrap(Word - d) = Word - d
        <3>1. Word - d \in MinInt..MaxInt
            BY <1>1, <1>2, <1>3, <1>6
        <3> QED BY <3>1, WrapKeeps
    <2>3. d - Word < 0 /\ -(d - Word) = Word - d
        BY <1>1, <1>3, <1>6
    <2>4. ValidateTimestamp(ts, t) <=> Word - d <= Drift
        BY <1>4, <2>1, <2>2, <2>3
    <2>5. Word - d > Drift /\ d > Drift
        BY <1>1, <1>3, <1>6
    <2> QED BY <1>1, <1>3, <1>6, <2>4, <2>5 DEF d
<1> QED BY <1>1, <1>3, <1>5, <1>6

-----------------------------------------------------------------------------
(* Windows *)

\* A timestamp after 1970 is rounded down, by less than a window.
LEMMA RoundDown ==
    ASSUME NEW ts \in Nat
    PROVE  /\ roundTimestamp(ts) \in Nat
           /\ roundTimestamp(ts) <= ts
           /\ ts < roundTimestamp(ts) + Window
<1>1. /\ (ts \div Window) * Window \in Nat
      /\ (ts \div Window) * Window <= ts
      /\ ts < (ts \div Window) * Window + Window
    BY HMACAssumption
<1> QED BY <1>1 DEF roundTimestamp

\* Numbers at most w apart are rounded to the same or to neighbouring
\* multiples of w.
LEMMA Neighbours ==
    ASSUME NEW w \in Nat \ {0}, NEW a \in Nat, NEW b \in Nat, a <= b + w, b <= a + w
    PROVE  (a \div w) * w - (b \div w) * w \in {-w, 0, w}
<1> DEFINE p == a \div w
           q == b \div w
<1>1. /\ p \in Nat /\ q \in Nat
      /\ p * w <= a /\ a < p * w + w
      /\ q * w <= b /\ b < q * w + w
    OBVIOUS
<1> HIDE DEF p, q
<1>2. p < q + 2
    <2> SUFFICES ASSUME p >= q + 2 PROVE FALSE
        BY <1>1
    <2>1. PICK d \in Nat : p = q + 2 + d
        <3>1. p - q - 2 \in Nat /\ p = q + 2 + (p - q - 2)
            BY <1>1
        <3> QED BY <3>1
    <2>2. p * w = q * w + 2 * w + d * w /\ d * w \in Nat
        BY <1>1, <2>1
    <2> QED BY <1>1, <2>2
<1>3. q < p + 2
    <2> SUFFICES ASSUME q >= p + 2 PROVE FALSE
        BY <1>1
    <2>1. PICK d \in Nat : q = p + 2 + d
        <3>1. q - p - 2 \in Nat /\ q = p + 2 + (q - p - 2)
            BY <1>1
        <3> QED BY <3>1
    <2>2. q * w = p * w + 2 * w + d * w /\ d * w \in Nat
        BY <1>1, <2>1
    <2> QED BY <1>1, <2>2
<1>4. p * w - q * w \in {-w, 0, w}
    <2>1. CASE p = q
        BY <1>1, <2>1
    <2>2. CASE p = q + 1
        <3>1. p * w = q * w + w
            BY <1>1, <2>2
        <3> QED BY <1>1, <3>1
    <2>3. CASE q = p + 1
        <3>1. q * w = p * w + w
            BY <1>1, <2>3
        <3> QED BY <1>1, <3>1
    <2> QED BY <1>1, <1>2, <1>3, <2>1, <2>2, <2>3
<1> QED BY <1>4 DEF p, q

\* The three windows that are tried cover a skew of one window, also around
\* 1970, where the rounding towards zero makes a double window.
LEMMA SkewCovered ==
    ASSUME NEW ts \in MinInt..MaxInt, NEW s \in 0..MaxInt,
           ts <= s + Window, s <= ts + Window
    PROVE  roundTimestamp(s) \in AcceptedWindows(ts)
<1> DEFINE r == roundTimestamp(ts)
           p == roundTimestamp(s)
<1>1. /\ Window \in Nat \ {0} /\ MaxInt \in Int /\ MinInt \in Int /\ MinInt <= 0
      /\ s \in Nat /\ ts \in Int /\ MinInt <= ts
    BY HMACAssumption, HalfWord DEF MaxInt, MinInt
<1>2. p \in Nat /\ p <= s /\ s <= MaxInt
    BY <1>1, RoundDown
<1>3. Wrap(p) = p
    <2>1. p \in MinInt..MaxInt
        BY <1>1, <1>2
    <2> QED BY <2>1, WrapKeeps
<1>4. r \in Int /\ (r = p \/ p = r - Window \/ p = r + Window)
    <2>1. CASE ts >= 0
        <3>1. ts \in Nat
            BY <1>1, <2>1
        <3>2. p - r \in {-Window, 0, Window}
            BY <1>1, <2>1, <3>1, Neighbours DEF roundTimestamp
        <3>3. r \in Nat
            BY <3>1, RoundDown
        <3> QED BY <1>1, <1>2, <3>2, <3>3
    <2>2. CASE ts < 0
        <3> DEFINE a == -ts
        <3>1. a \in Nat /\ a <= Window /\ s + a <= Window
            BY <1>1, <2>2
        <3>2. r = -((a \div Window) * Window)
            BY <1>1, <2>2 DEF roundTimestamp
        <3>3. p = 0
            <4>1. s < Window
                BY <1>1, <2>2, <3>1
            <4>2. s \div Window = 0
                BY <1>1, <4>1
            <4> QED BY <1>1, <4>2 DEF roundTimestamp
        <3> HIDE DEF a, r, p
        <3>4. CASE a < Window
            <4>1. a \div Window = 0
                BY <1>1, <3>1, <3>4
            <4> QED BY <1>1, <3>2, <3>3, <4>1
        <3>5. CASE a = Window
            <4>1. a \div Window = 1
                BY <1>1, <3>1, <3>5
            <4> QED BY <1>1, <3>2, <3>3, <4>1
        <3> QED BY <1>1, <3>1, <3>4, <3>5
    <2> QED BY <1>1, <2>1, <2>2
<1> HIDE DEF r, p
<1>5. p \in {r, Wrap(r - Window), Wrap(r + Window)}
    BY <1>3, <1>4
<1> QED BY <1>5 DEF AcceptedWindows, r, p

\* No window that is tried is further away, even where the sum or the
\* difference overflows.
LEMMA WindowsNear ==
    ASSUME NEW ts \in 0..MaxInt, NEW s \in 0..MaxInt,
           roundTimestamp(s) \in AcceptedWindows(ts)
    PROVE  ts - s < 2 * Window /\ s - ts < 2 * Window
<1> DEFINE r == roundTimestamp(ts)
           p == roundTimestamp(s)
           h == Word \div 2
           x == r + Window
<1>1. /\ Window \in Nat \ {0} /\ h \in Nat /\ Word = 2 * h
      /\ MinInt = -h /\ MaxInt = h - 1
      /\ ts \in Nat /\ s \in Nat /\ ts < h /\ s < h
    BY HMACAssumption, HalfWord DEF MaxInt, MinInt
<1>2. /\ p \in Nat /\ p <= s /\ s < p + Window
      /\ r \in Nat /\ r <= ts /\ ts < r + Window
    BY <1>1, RoundDown
<1>3. p \in {r, Wrap(r - Window), Wrap(x)}
    BY DEF AcceptedWindows
<1> HIDE DEF r, p, h
<1>4. CASE Window > h
    BY <1>1, <1>4
<1>5. CASE Window <= h
    <2>1. Wrap(r - Window) = r - Window
        <3>1. r - Window \in MinInt..MaxInt
            BY <1>1, <1>2, <1>5
        <3> QED BY <3>1, WrapKeeps
    <2>2. x \in Nat /\ x < Word /\ x = r + Window
        BY <1>1, <1>2, <1>5
    <2> HIDE DEF x
    <2>3. Wrap(x) = x \/ Wrap(x) < 0
        <3>1. CASE x <= MaxInt
            BY <1>1, <2>2, <3>1, WrapKeeps
        <3>2. CASE x > MaxInt
            <4>1. Wrap(x) = x - Word
                BY <1>1, <2>2, <3>2, WrapOnce
            <4> QED BY <1>1, <2>2, <4>1
        <3> QED BY <1>1, <2>2, <3>1, <3>2
    <2>4. p = r \/ p = r - Window \/ p = r + Window
        BY <1>2, <1>3, <2>1, <2>2, <2>3
    <2> QED BY <1>1, <1>2, <2>4
<1> QED BY <1>1, <1>4, <1>5

-----------------------------------------------------------------------------
(* The text that is signed *)

\* A set of natural numbers that is not empty has a least element: what
\* stands in for induction over the digits of a number.
LEMMA LeastNumber ==
    ASSUME NEW T \in SUBSET Nat, T # {}
    PROVE  \E m \in T : \A k \in T : m <= k
<1>1. PICK m \in T : \A k \in T : <<k, m>> \notin OpToRel(<, Nat)
    BY WFMin, NatLessThanWellFounded, Zenon
<1>2. \A k \in T : ~(k < m)
    BY <1>1, Zenon DEF OpToRel
<1> QED BY <1>2

\* A number of more than one digit is ten times a smaller one and a digit.
LEMMA LastDigit ==
    ASSUME NEW n \in Nat, n >= 10
    PROVE  /\ n \div 10 \in Nat /\ n \div 10 < n
           /\ n % 10 \in 0..9
           /\ n = 10 * (n \div 10) + (n % 10)
OBVIOUS

\* Digits exists, and writes one digit or more.
LEMMA DigitsType ==
    /\ Digits = [n \in 0..(-MinInt) |->
                    IF n < 10 THEN <<n>> ELSE Append(Digits[n \div 10], n % 10)]
    /\ \A n \in 0..(-MinInt) : Digits[n] \in Seq(0..9) /\ Digits[n] # <<>>
<1> DEFINE Writes(g, m) ==
               g = [n \in 0..m |-> IF n < 10 THEN <<n>> ELSE Append(g[n \div 10], n % 10)]
           T == {m \in Nat : ~ \E g : Writes(g, m)}
<1>1. T = {}
    <2> SUFFICES ASSUME T # {} PROVE FALSE
        OBVIOUS
    <2>1. PICK m \in T : \A k \in T : m <= k
        <3>1. T \in SUBSET Nat
            OBVIOUS
        <3> HIDE DEF T
        <3> QED BY <3>1, LeastNumber
    <2>2. m # 0
        <3>1. Writes([n \in 0..0 |-> <<0>>], 0)
            OBVIOUS
        <3> QED BY <3>1
    <2>3. m - 1 \in Nat /\ m - 1 \notin T
        <3>1. m \in Nat
            OBVIOUS
        <3> HIDE DEF T
        <3> QED BY <2>1, <2>2, <3>1
    <2>4. PICK g : Writes(g, m - 1)
        BY <2>3
    <2> DEFINE h == [n \in 0..m |-> IF n < m THEN g[n] ELSE
                        IF m < 10 THEN <<m>> ELSE Append(g[m \div 10], m % 10)]
    <2>5. Writes(h, m)
        <3> SUFFICES ASSUME NEW n \in 0..m
                     PROVE  h[n] = IF n < 10 THEN <<n>> ELSE Append(h[n \div 10], n % 10)
            OBVIOUS
        <3>1. CASE n < 10
            BY <2>3, <2>4, <3>1
        <3>2. CASE n >= 10
            <4>1. n \div 10 \in Nat /\ n \div 10 < n
                BY <3>2, LastDigit
            <4>2. h[n \div 10] = g[n \div 10]
                BY <2>3, <4>1
            <4>3. ~(n < 10)
                BY <3>2
            <4>4. CASE n = m
                <5>1. ~(n < m) /\ ~(m < 10)
                    BY <3>2, <4>4
                <5> QED BY <4>2, <4>3, <4>4, <5>1, Zenon
            <4>5. CASE n # m
                <5>1. n < m /\ n \in 0..(m - 1)
                    BY <2>3, <4>5
                <5>2. h[n] = g[n]
                    BY <5>1
                <5>3. g[n] = Append(g[n \div 10], n % 10)
                    BY <2>4, <4>3, <5>1, Zenon
                <5> QED BY <4>2, <4>3, <5>2, <5>3, Zenon
            <4> QED BY <4>4, <4>5
        <3> QED BY <3>1, <3>2
    <2> QED BY <2>1, <2>5
<1>2. -MinInt \in Nat
    BY HalfWord DEF MinInt
<1>3. PICK g : Writes(g, -MinInt)
    BY <1>1, <1>2
<1>4. Digits = [n \in 0..(-MinInt) |->
                   IF n < 10 THEN <<n>> ELSE Append(Digits[n \div 10], n % 10)]
    BY <1>3 DEF Digits
<1> DEFINE Wrong == {n \in 0..(-MinInt) : ~(Digits[n] \in Seq(0..9) /\ Digits[n] # <<>>)}
<1>5. Wrong = {}
    <2> SUFFICES ASSUME Wrong # {} PROVE FALSE
        OBVIOUS
    <2>1. PICK m \in Wrong : \A k \in Wrong : m <= k
        <3>1. Wrong \in SUBSET Nat
            BY <1>2
        <3> HIDE DEF Wrong
        <3> QED BY <3>1, LeastNumber
    <2>2. m \in 0..(-MinInt) /\ m \in Nat
        BY <1>2
    <2>3. CASE m < 10
        <3>1. Digits[m] = <<m>>
            BY <1>4, <2>2, <2>3
        <3>2. <<m>> \in Seq(0..9) /\ <<m>> # <<>>
            BY <2>2, <2>3
        <3> QED BY <3>1, <3>2
    <2>4. CASE m >= 10
        <3>1. m \div 10 \in 0..(-MinInt) /\ m \div 10 < m /\ m % 10 \in 0..9
            BY <1>2, <2>2, <2>4, LastDigit
        <3>2. m \div 10 \notin Wrong
            BY <2>1, <2>2, <3>1
        <3>3. Digits[m \div 10] \in Seq(0..9)
            BY <3>1, <3>2
        <3>4. Digits[m] = Append(Digits[m \div 10], m % 10)
            <4>1. ~(m < 10)
                BY <2>2, <2>4
            <4> QED BY <1>4, <2>2, <4>1, Zenon
        <3>5. Digits[m] \in Seq(0..9) /\ Digits[m] # <<>>
            <4> DEFINE d == Digits[m \div 10]
                       c == m % 10
            <4>1. d \in Seq(0..9) /\ c \in 0..9 /\ Digits[m] = Append(d, c)
                BY <3>1, <3>3, <3>4
            <4> HIDE DEF d, c
            <4>2. Append(d, c) \in Seq(0..9)
                BY <4>1, AppendProperties, Zenon
            <4>3. Append(d, c) # <<>>
                BY <4>1, AppendProperties, Zenon
            <4> QED BY <4>1, <4>2, <4>3, Zenon
        <3> QED BY <3>5
    <2> QED BY <2>2, <2>3, <2>4
<1> QED BY <1>4, <1>5

\* Two numbers with the same digits are equal.
LEMMA DigitsInjective ==
    ASSUME NEW m \in 0..(-MinInt), NEW n \in 0..(-MinInt), Digits[m] = Digits[n]
    PROVE  m = n
<1> DEFINE Wrong == {k \in 0..(-MinInt) :
                        \E l \in 0..(-MinInt) : Digits[k] = Digits[l] /\ k # l}
<1>1. -MinInt \in Nat
    BY HalfWord DEF MinInt
<1>2. Wrong = {}
    <2> SUFFICES ASSUME Wrong # {} PROVE FALSE
        OBVIOUS
    <2>1. PICK k \in Wrong : \A l \in Wrong : k <= l
        <3>1. Wrong \in SUBSET Nat
            BY <1>1
        <3> HIDE DEF Wrong
        <3> QED BY <3>1, LeastNumber
    <2>2. k \in 0..(-MinInt) /\ k \in Nat
        BY <1>1
    <2>3. PICK l \in 0..(-MinInt) : Digits[k] = Digits[l] /\ k # l
        OBVIOUS
    <2>4. l \in Nat
        BY <1>1
    <2>5. l >= k
        <3>1. l \in Wrong
            BY <2>2, <2>3
        <3> HIDE DEF Wrong
        <3> QED BY <2>1, <3>1
    <2>6. ASSUME NEW x \in 0..(-MinInt), x < 10
          PROVE  Digits[x] = <<x>> /\ Len(Digits[x]) = 1
        BY <2>6, DigitsType
    <2>7. ASSUME NEW x \in 0..(-MinInt), x >= 10
          PROVE  /\ Digits[x \div 10] \in Seq(0..9)
                 /\ Len(Digits[x \div 10]) > 0
                 /\ Digits[x] = Append(Digits[x \div 10], x % 10)
                 /\ Len(Digits[x]) > 1
        <3>1. x \in Nat
            BY <1>1
        <3>2. x \div 10 \in 0..(-MinInt) /\ x % 10 \in 0..9
            BY <1>1, <2>7, <3>1, LastDigit
        <3>3. Digits[x \div 10] \in Seq(0..9) /\ Digits[x \div 10] # <<>>
            BY <3>2, DigitsType
        <3>4. Len(Digits[x \div 10]) \in Nat /\ Len(Digits[x \div 10]) > 0
            BY <3>3, EmptySeq, LenProperties
        <3>5. Digits[x] = Append(Digits[x \div 10], x % 10)
            <4>1. ~(x < 10)
                BY <2>7, <3>1
            <4> QED BY <4>1, DigitsType, Zenon
        <3>6. Len(Digits[x]) = Len(Digits[x \div 10]) + 1
            BY <3>2, <3>3, <3>5, AppendProperties
        <3> QED BY <3>3, <3>4, <3>5, <3>6
    <2>8. CASE k < 10
        <3>1. Len(Digits[l]) = 1
            BY <2>2, <2>3, <2>6, <2>8
        <3>2. ~(l >= 10)
            <4> SUFFICES ASSUME l >= 10 PROVE FALSE
                OBVIOUS
            <4>1. Len(Digits[l]) > 1
                BY <2>7
            <4> QED BY <3>1, <4>1
        <3>3. <<k>> = <<l>>
            BY <2>2, <2>3, <2>4, <2>6, <2>8, <3>2
        <3> QED BY <2>3, <3>3
    <2>9. CASE k >= 10
        <3>1. l >= 10
            BY <2>2, <2>4, <2>5, <2>9
        <3> DEFINE p == Digits[k \div 10]
                   q == Digits[l \div 10]
        <3>2. /\ p \in Seq(0..9) /\ q \in Seq(0..9)
              /\ Append(p, k % 10) = Append(q, l % 10)
            BY <2>2, <2>3, <2>7, <2>9, <3>1
        <3>3. /\ k \div 10 \in Nat /\ k \div 10 < k /\ k % 10 \in 0..9
              /\ k = 10 * (k \div 10) + (k % 10)
              /\ l \div 10 \in Nat /\ l \div 10 < l /\ l % 10 \in 0..9
              /\ l = 10 * (l \div 10) + (l % 10)
            BY <2>2, <2>4, <2>9, <3>1, LastDigit
        <3>4. p = q /\ k % 10 = l % 10
            <4> HIDE DEF p, q
            <4> QED BY <3>2, <3>3, AppendProperties, AppendInjective
        <3>5. k \div 10 \notin Wrong
            <4> HIDE DEF Wrong
            <4> QED BY <2>1, <2>2, <3>3
        <3>6. k \div 10 \in 0..(-MinInt) /\ l \div 10 \in 0..(-MinInt)
            BY <1>1, <2>2, <2>3, <2>4, <3>3
        <3>7. k \div 10 = l \div 10
            BY <3>4, <3>5, <3>6
        <3> QED BY <2>3, <3>3, <3>4, <3>7
    <2> QED BY <2>2, <2>8, <2>9
<1> QED BY <1>2

\* What %d writes is a text, and tells the number.
LEMMA DecimalText ==
    ASSUME NEW s \in MinInt..MaxInt
    PROVE  Decimal(s) \in Seq(Nat)
<1>1. /\ MinInt \in Int /\ MaxInt \in Int /\ s \in Int
      /\ MaxInt < -MinInt
    BY HalfWord DEF MinInt, MaxInt
<1>2. CASE s < 0
    <2>1. Digits[-s] \in Seq(0..9)
        BY <1>1, <1>2, DigitsType
    <2>2. Digits[-s] \in Seq(Nat) /\ <<Minus>> \in Seq(Nat)
        BY <2>1 DEF Minus
    <2>3. <<Minus>> \o Digits[-s] \in Seq(Nat)
        BY <2>2, ConcatProperties
    <2> QED BY <1>2, <2>3 DEF Decimal
<1>3. CASE s >= 0
    <2>1. Digits[s] \in Seq(0..9)
        BY <1>1, <1>3, DigitsType
    <2> QED BY <1>1, <1>3, <2>1 DEF Decimal
<1> QED BY <1>1, <1>2, <1>3

\* A number that is written like a natural one is that number.
LEMMA DecimalTells ==
    ASSUME NEW s \in MinInt..MaxInt, NEW t \in 0..MaxInt, Decimal(s) = Decimal(t)
    PROVE  s = t
<1>1. /\ MinInt \in Int /\ MaxInt \in Int /\ s \in Int /\ t \in Nat
      /\ MaxInt < -MinInt
    BY HalfWord DEF MinInt, MaxInt
<1>2. Decimal(t) = Digits[t] /\ t \in 0..(-MinInt)
    BY <1>1 DEF Decimal
<1>3. CASE s < 0
    <2> DEFINE d == Digits[-s]
    <2>1. d \in Seq(0..9) /\ Digits[t] \in Seq(0..9)
        BY <1>1, <1>2, <1>3, DigitsType
    <2>2. d \in Seq(Nat) /\ <<Minus>> \in Seq(Nat) /\ Len(<<Minus>>) = 1 /\ <<Minus>>[1] = Minus
        BY <2>1 DEF Minus
    <2>3. <<Minus>> \o d = Digits[t]
        BY <1>2, <1>3 DEF Decimal
    <2> HIDE DEF d
    <2>4. Len(d) \in Nat
        BY <2>2, LenProperties
    <2>5. Len(Digits[t]) = 1 + Len(d) /\ Digits[t][1] = Minus
        BY <2>2, <2>3, <2>4, ConcatProperties
    <2>6. Digits[t][1] \in 0..9
        BY <2>1, <2>4, <2>5, ElementOfSeq
    <2> QED BY <2>5, <2>6 DEF Minus
<1>4. CASE s >= 0
    BY <1>1, <1>2, <1>4, DigitsInjective DEF Decimal
<1> QED BY <1>1, <1>3, <1>4

\* Two texts that begin with parts of one length have equal parts.
LEMMA SplitFront ==
    ASSUME NEW u \in Seq(Nat), NEW v \in Seq(Nat), NEW a \in Seq(Nat), NEW b \in Seq(Nat),
           Len(u) = Len(v), u \o a = v \o b
    PROVE  u = v /\ a = b
<1>1. Len(u) + Len(a) = Len(v) + Len(b)
    <2>1. Len(u \o a) = Len(u) + Len(a) /\ Len(v \o b) = Len(v) + Len(b)
        BY ConcatProperties, Zenon
    <2> QED BY <2>1, Zenon
<1>2. Len(a) = Len(b)
    BY <1>1, LenProperties
<1>3. \A i \in 1..Len(u) : u[i] = v[i]
    <2> SUFFICES ASSUME NEW i \in 1..Len(u) PROVE u[i] = v[i]
        OBVIOUS
    <2>1. /\ i \in 1 .. Len(u) + Len(a) /\ i \in 1 .. Len(v) + Len(b)
          /\ i <= Len(u) /\ i <= Len(v)
        BY LenProperties
    <2>2. \A k \in 1 .. Len(u) + Len(a) :
              (u \o a)[k] = IF k <= Len(u) THEN u[k] ELSE a[k - Len(u)]
        BY ConcatProperties, Zenon
    <2>3. \A k \in 1 .. Len(v) + Len(b) :
              (v \o b)[k] = IF k <= Len(v) THEN v[k] ELSE b[k - Len(v)]
        BY ConcatProperties, Zenon
    <2> QED BY <2>1, <2>2, <2>3, Zenon
<1>4. \A i \in 1..Len(a) : a[i] = b[i]
    <2> SUFFICES ASSUME NEW i \in 1..Len(a) PROVE a[i] = b[i]
        OBVIOUS
    <2> DEFINE j == Len(u) + i
    <2>1. /\ j \in 1..(Len(u) + Len(a)) /\ j \in 1..(Len(v) + Len(b))
          /\ j > Len(u) /\ j > Len(v) /\ j - Len(u) = i /\ j - Len(v) = i
        BY <1>1, LenProperties
    <2> HIDE DEF j
    <2>2. ~(j <= Len(u)) /\ ~(j <= Len(v))
        BY <2>1, LenProperties
    <2>3. (u \o a)[j] = a[j - Len(u)] /\ (v \o b)[j] = b[j - Len(v)]
        <3>1. \A k \in 1 .. Len(u) + Len(a) :
                  (u \o a)[k] = IF k <= Len(u) THEN u[k] ELSE a[k - Len(u)]
            BY ConcatProperties, Zenon
        <3>2. \A k \in 1 .. Len(v) + Len(b) :
                  (v \o b)[k] = IF k <= Len(v) THEN v[k] ELSE b[k - Len(v)]
            BY ConcatProperties, Zenon
        <3> QED BY <2>1, <2>2, <3>1, <3>2, Zenon
    <2> QED BY <2>1, <2>3
<1> QED BY <1>2, <1>3, <1>4, SeqEqual

\* The same text, as two parts in two ways, the rear parts of one length.
SplitAlike(u, a, v, b) == Len(a) = Len(b) /\ u \o a = v \o b

\* Two texts that end in parts of one length have equal parts.
LEMMA SplitRear ==
    ASSUME NEW u \in Seq(Nat), NEW v \in Seq(Nat), NEW a \in Seq(Nat), NEW b \in Seq(Nat),
           SplitAlike(u, a, v, b)
    PROVE  u = v /\ a = b
<1>1. Len(a) = Len(b) /\ u \o a = v \o b
    BY DEF SplitAlike
<1>2. Len(u) + Len(a) = Len(v) + Len(b)
    <2>1. Len(u \o a) = Len(u) + Len(a) /\ Len(v \o b) = Len(v) + Len(b)
        BY ConcatProperties, Zenon
    <2> QED BY <1>1, <2>1, Zenon
<1>3. Len(u) = Len(v)
    BY <1>1, <1>2, LenProperties
<1> QED BY <1>1, <1>3, SplitFront

\* A text that ends in a timestamp tells both, given the timestamp's length.
LEMMA TimestampTold ==
    ASSUME NEW x \in Seq(Nat), NEW y \in Seq(Nat),
           NEW w \in MinInt..MaxInt, NEW p \in 0..MaxInt, MinInt <= 0, MinInt \in Int,
           Len(Decimal(w)) = Len(Decimal(p)), x \o Decimal(w) = y \o Decimal(p)
    PROVE  x = y /\ w = p
<1> DEFINE d == Decimal(w)
           e == Decimal(p)
<1>1. p \in MinInt..MaxInt
    OBVIOUS
<1>2. d \in Seq(Nat) /\ e \in Seq(Nat)
    BY <1>1, DecimalText
<1>3. SplitAlike(x, d, y, e)
    BY DEF SplitAlike
<1> HIDE DEF d, e
<1>4. x = y /\ d = e
    BY <1>2, <1>3, SplitRear
<1> QED BY <1>4, DecimalTells DEF d, e

-----------------------------------------------------------------------------
(* One request, as MCHMACAuth has TLC check it, for every word and window *)

\* The numbers of a request.
LEMMA RequestNumbers ==
    ASSUME AuthInit
    PROVE  /\ timestamp \in MinInt..MaxInt
           /\ signedAt \in 0..MaxInt
           /\ clock \in 0 .. MaxInt \div 2
           /\ timestamp \in Int /\ signedAt \in Nat /\ clock \in Nat
           /\ MaxInt \in Nat /\ MinInt \in Int
           /\ Drift \in Nat /\ Window \in Nat \ {0}
<1>1. MaxInt \in Nat /\ MinInt \in Int /\ MaxInt \div 2 <= MaxInt
    BY HMACAssumption, HalfWord DEF MinInt, MaxInt
<1> QED BY <1>1, HMACAssumption DEF AuthInit, Clock

\* ValidateTimestamp takes exactly the timestamps within Drift of the clock,
\* for every width of the integers: no overflow of the difference or of its
\* negation lets another one pass, but for one timestamp.
THEOREM AuthDriftBounded == AuthSpec => []DriftBounded
<1>1. ASSUME AuthInit PROVE DriftBounded
    <2> SUFFICES ASSUME clock - timestamp # -MinInt
                 PROVE  ValidateTimestamp(timestamp, clock) <=> Abs(clock - timestamp) <= Drift
        BY DEF DriftBounded, Extreme
    <2>1. Abs(clock - timestamp) <= Drift <=>
              (clock - timestamp <= Drift /\ timestamp - clock <= Drift)
        BY <1>1, RequestNumbers DEF Abs
    <2> QED BY <1>1, <2>1, RequestNumbers, DriftExact
<1>2. DriftBounded /\ [AuthNext]_request => DriftBounded'
    BY DEF AuthNext, request, DriftBounded, ValidateTimestamp, Abs,
           Wrap, Extreme, MinInt
<1> QED BY <1>1, <1>2, PTL DEF AuthSpec

\* Verify and VerifyIdentify bear a skew of one window, for every window,
\* across its edges and around 1970.
THEOREM AuthSkewTolerated == AuthSpec => []SkewTolerated
<1>1. ASSUME AuthInit PROVE SkewTolerated
    <2> SUFFICES ASSUME Abs(timestamp - signedAt) <= Window
                 PROVE  roundTimestamp(signedAt) \in AcceptedWindows(timestamp)
        BY DEF SkewTolerated, Verify, VerifyIdentify, Sign, SignIdentify
    <2>1. timestamp <= signedAt + Window /\ signedAt <= timestamp + Window
        BY <1>1, RequestNumbers DEF Abs
    <2> QED BY <1>1, <2>1, RequestNumbers, SkewCovered
<1>2. SkewTolerated /\ [AuthNext]_request => SkewTolerated'
    <2> SUFFICES ASSUME SkewTolerated, timestamp' = timestamp, signedAt' = signedAt
                 PROVE  SkewTolerated'
        BY DEF AuthNext, request
    <2> QED BY DEF SkewTolerated, Verify, VerifyIdentify, Sign,
                   SignIdentify, AcceptedWindows, roundTimestamp, Wrap, Abs
<1> QED BY <1>1, <1>2, PTL DEF AuthSpec

\* The windows that are tried are integers of the machine.
LEMMA WindowsType ==
    ASSUME NEW ts \in 0..MaxInt
    PROVE  AcceptedWindows(ts) \subseteq MinInt..MaxInt
<1>1. /\ Window \in Nat \ {0} /\ ts \in Nat
      /\ MinInt \in Int /\ MaxInt \in Int /\ MinInt <= 0
    BY HMACAssumption, HalfWord DEF MinInt, MaxInt
<1>2. roundTimestamp(ts) \in MinInt..MaxInt /\ roundTimestamp(ts) \in Nat
    BY <1>1, RoundDown
<1>3. ASSUME NEW x \in Int PROVE Wrap(x) \in MinInt..MaxInt
    <2> DEFINE h == Word \div 2
    <2>1. h \in Nat /\ Word = 2 * h /\ Word \in Nat \ {0}
        BY HMACAssumption, HalfWord
    <2>2. Wrap(x) = ((x + h) % Word) - h /\ MinInt = -h /\ MaxInt = h - 1
        BY DEF Wrap, MinInt, MaxInt
    <2> HIDE DEF h
    <2>3. (x + h) % Word \in 0..(Word - 1)
        BY <2>1
    <2> QED BY <2>1, <2>2, <2>3
<1> QED BY <1>1, <1>2, <1>3 DEF AcceptedWindows

\* A request that passes both tests was signed for the node and the address
\* it names, less than Drift and two windows from now, for all UUIDs of one
\* length, all addresses and all timestamps with the same number of digits,
\* although the signed text does not say where a field ends.
THEOREM AuthAcceptedIsRecent == AuthSpec => []AcceptedIsRecent
<1>1. ASSUME AuthInit PROVE AcceptedIsRecent
    <2> SUFFICES ASSUME clock - timestamp # -MinInt, clock >= Drift, SameLength,
                        ValidateTimestamp(timestamp, clock),
                        NEW a \in Addresses, NEW b \in Addresses
                 PROVE  /\ VerifyIdentify(a, timestamp, SignIdentify(b, signedAt))
                               => a = b /\ Recent
                        /\ \A u, v \in UUIDs :
                               Len(u) = Len(v)
                               /\ Verify(u, a, timestamp, Sign(v, b, signedAt))
                                   => u = v /\ a = b /\ Recent
        BY DEF AcceptedIsRecent, Extreme
    <2> DEFINE p == roundTimestamp(signedAt)
    <2>1. a \in Seq(Nat) /\ b \in Seq(Nat)
        BY TextsAssumption
    <2>2. clock - timestamp <= Drift /\ timestamp - clock <= Drift
        BY <1>1, RequestNumbers, DriftExact
    <2>3. timestamp \in 0..MaxInt
        BY <1>1, <2>2, RequestNumbers
    <2>4. p \in 0..MaxInt /\ p \in MinInt..MaxInt
        <3>1. MinInt <= 0 /\ MinInt \in Int
            BY HalfWord DEF MinInt
        <3> QED BY <1>1, <3>1, RequestNumbers, RoundDown
    <2>5. ASSUME p \in AcceptedWindows(timestamp) PROVE Recent
        <3>1. timestamp - signedAt < 2 * Window /\ signedAt - timestamp < 2 * Window
            BY <1>1, <2>3, <2>5, RequestNumbers, WindowsNear
        <3> QED BY <1>1, <2>2, <3>1, RequestNumbers DEF Abs, Recent
    <2>6. ASSUME NEW w \in AcceptedWindows(timestamp), NEW x \in Seq(Nat), NEW y \in Seq(Nat),
                 x \o Decimal(w) = y \o Decimal(p)
          PROVE  x = y /\ Recent
        <3>1. w \in MinInt..MaxInt
            BY <2>3, WindowsType
        <3>2. Len(Decimal(w)) = Len(Decimal(p))
            BY DEF SameLength
        <3>3. MinInt <= 0 /\ MinInt \in Int
            BY HalfWord DEF MinInt
        <3> HIDE DEF p
        <3>4. x = y /\ w = p
            BY <2>4, <2>6, <3>1, <3>2, <3>3, TimestampTold
        <3> QED BY <2>5, <3>4
    <2>7. ASSUME VerifyIdentify(a, timestamp, SignIdentify(b, signedAt))
          PROVE  a = b /\ Recent
        <3>1. PICK w \in AcceptedWindows(timestamp) : b \o Decimal(p) = a \o Decimal(w)
            BY <2>7 DEF VerifyIdentify, SignIdentify, IdentifyMessage
        <3> HIDE DEF p
        <3> QED BY <2>1, <2>6, <3>1
    <2>8. ASSUME NEW u \in UUIDs, NEW v \in UUIDs, Len(u) = Len(v),
                 Verify(u, a, timestamp, Sign(v, b, signedAt))
          PROVE  u = v /\ a = b /\ Recent
        <3>1. u \in Seq(Nat) /\ v \in Seq(Nat)
            BY TextsAssumption
        <3>2. PICK w \in AcceptedWindows(timestamp) :
                  (v \o b) \o Decimal(p) = (u \o a) \o Decimal(w)
            BY <2>8 DEF Verify, Sign, Message
        <3>3. u \o a \in Seq(Nat) /\ v \o b \in Seq(Nat)
            BY <2>1, <3>1, ConcatProperties
        <3> HIDE DEF p
        <3>4. u \o a = v \o b /\ Recent
            BY <2>6, <3>2, <3>3
        <3> QED BY <2>1, <2>8, <3>1, <3>4, SplitFront
    <2> QED BY <2>7, <2>8
<1>2. AcceptedIsRecent /\ [AuthNext]_request => AcceptedIsRecent'
    <2> SUFFICES ASSUME AcceptedIsRecent, timestamp' = timestamp, signedAt' = signedAt,
                        clock' = clock
                 PROVE  AcceptedIsRecent'
        BY DEF AuthNext, request
    <2> QED BY DEF AcceptedIsRecent, Extreme, Verify, Sign, VerifyIdentify, SignIdentify,
                   MinInt, SameLength, Recent,
                   ValidateTimestamp, AcceptedWindows, roundTimestamp, Wrap, Abs
<1> QED BY <1>1, <1>2, PTL DEF AuthSpec

-----------------------------------------------------------------------------
(* The cluster: its invariant *)

\* When the node was last seen running.
LastSeen(n) == IF machine[n].on THEN now ELSE lastOn[n]

Clocks ==
    /\ now \in Times
    /\ due \in Nat
    /\ now <= due
    /\ due <= now + CheckInterval

Machines ==
    /\ machine \in [Nodes -> [on : BOOLEAN, ip : IPs \cup {NoIP}]]
    /\ agent \in [Nodes -> Nodes \cup {Absent}]
    /\ lastOn \in [Nodes -> 0..MaxTime]
    /\ \A n \in Nodes : lastOn[n] <= now

\* A running node is registered under its address, and its agent knows its
\* own name or none.
Bearing ==
    \A n \in Nodes : machine[n].on =>
        /\ machine[n].ip \in IPs
        /\ recordByIPLocked(nodes, n, machine[n].ip)
        /\ agent[n] \in {n, Absent}

\* A heartbeat was sent while its node was running.
Letters ==
    \A m \in network :
        /\ m.uuid \in Nodes
        /\ m.ip \in IPs
        /\ m.timestamp \in Int
        /\ 1 - Skew <= m.timestamp
        /\ m.timestamp <= LastSeen(m.uuid) + Skew

\* No record is later than the last words of its node, and the switch's next
\* check comes in time for every active one.
Watched ==
    \A n \in Nodes : nodes[n] # Absent =>
        /\ ~nodes[n].Maintenance
        /\ nodes[n].LastHeartbeatAt <= LastSeen(n) + LastWords
        /\ nodes[n].Status = "active" =>
               due <= nodes[n].LastHeartbeatAt + HeartbeatTimeout + CheckInterval

ClusterInv == StoreInv /\ Clocks /\ Machines /\ Bearing /\ Letters /\ Watched

-----------------------------------------------------------------------------
(* What the calls do to a record *)

\* Unseal registers the node under its address.
LEMMA BootEffect ==
    ASSUME StoreInv, NEW n \in Nodes, NEW ip \in IPs, NEW t \in Times,
           Bootstrap(n, ip, t, TRUE, "none")
    PROVE  /\ nodes'[n] # Absent
           /\ nodes'[n].LastUnsealIP = ip
           /\ nodes'[n].LastHeartbeatAt = t
           /\ ~nodes'[n].Maintenance
<1> DEFINE r == [activeLease(t) EXCEPT !.LastUnsealIP = ip, !.NodeIP = ip]
           q == ReleaseIP(nodes, n, ip)
<1>1. nodes' = [q EXCEPT ![n] = r]
    BY DEF Bootstrap, Save
<1>2. /\ r \in LeaseRecord /\ r.LastUnsealIP = ip /\ r.LastHeartbeatAt = t
      /\ r.Maintenance = FALSE
    BY TimesOK, StoreAssumption DEF activeLease, LeaseRecord, LeaseStatus, Zero
<1>3. DOMAIN q = Nodes
    BY DEF ReleaseIP
<1> HIDE DEF r, q
<1>4. nodes'[n] = r
    BY <1>1, <1>3
<1> QED BY <1>2, <1>4, StoreAssumption

\* Unseal takes the address, and nothing else, from the others.
LEMMA BootSpares ==
    ASSUME StoreInv, NEW n \in Nodes, NEW ip \in IPs, NEW t \in Times,
           Bootstrap(n, ip, t, TRUE, "none"), NEW k \in Nodes, k # n
    PROVE  /\ nodes'[k] # Absent <=> nodes[k] # Absent
           /\ nodes[k] # Absent =>
                  /\ nodes'[k].LastHeartbeatAt = nodes[k].LastHeartbeatAt
                  /\ nodes'[k].Status = nodes[k].Status
                  /\ nodes'[k].Maintenance = nodes[k].Maintenance
                  /\ nodes[k].LastUnsealIP # ip =>
                         nodes'[k].LastUnsealIP = nodes[k].LastUnsealIP
<1>1. nodes'[k] = IF nodes[k] # Absent /\ nodes[k].LastUnsealIP = ip
                  THEN [nodes[k] EXCEPT !.LastUnsealIP = NoIP]
                  ELSE nodes[k]
    BY DEF Bootstrap, Save, ReleaseIP
<1>2. CASE nodes[k] # Absent /\ nodes[k].LastUnsealIP = ip
    <2>1. nodes'[k] = [nodes[k] EXCEPT !.LastUnsealIP = NoIP]
        BY <1>1, <1>2
    <2>2. nodes[k] \in LeaseRecord
        BY <1>2 DEF StoreInv, MapOK, RecordOK
    <2>3. [nodes[k] EXCEPT !.LastUnsealIP = NoIP] \in LeaseRecord
        BY <2>2 DEF LeaseRecord
    <2> QED BY <1>2, <2>1, <2>2, <2>3, StoreAssumption DEF LeaseRecord
<1>3. CASE ~(nodes[k] # Absent /\ nodes[k].LastUnsealIP = ip)
    BY <1>1, <1>3
<1> QED BY <1>2, <1>3

\* A refused Unseal can only turn an active lease into an expired one.
LEMMA RefusedEffect ==
    ASSUME StoreInv, NEW n \in Nodes, NEW t, NEW err, Validate(n, t, TRUE, err)
    PROVE  \A k \in Nodes :
               /\ nodes'[k] # Absent <=> nodes[k] # Absent
               /\ nodes[k] # Absent =>
                      /\ nodes'[k].LastHeartbeatAt = nodes[k].LastHeartbeatAt
                      /\ nodes'[k].Status = "active" => nodes[k].Status = "active"
                      /\ nodes'[k].Maintenance = nodes[k].Maintenance
                      /\ nodes'[k].LastUnsealIP = nodes[k].LastUnsealIP
<1>1. CASE UNCHANGED storeVars
    BY <1>1 DEF storeVars
<1>2. CASE nodes[n] # Absent /\ Expire(n, t, TRUE, err)
    <2> DEFINE r == [nodes[n] EXCEPT !.Status = "expired"]
    <2>1. nodes' = [nodes EXCEPT ![n] = r]
        BY <1>2 DEF Expire, Save
    <2>2. nodes[n] \in LeaseRecord
        BY <1>2 DEF StoreInv, MapOK, RecordOK
    <2>3. /\ r \in LeaseRecord /\ r.LastHeartbeatAt = nodes[n].LastHeartbeatAt
          /\ r.Status = "expired" /\ r.Maintenance = nodes[n].Maintenance
          /\ r.LastUnsealIP = nodes[n].LastUnsealIP
        BY <2>2 DEF LeaseRecord, LeaseStatus
    <2> HIDE DEF r
    <2>4. \A k \in Nodes : nodes'[k] = IF k = n THEN r ELSE nodes[k]
        BY <2>1 DEF StoreInv, MapOK, LeaseMap
    <2> QED BY <1>2, <2>3, <2>4, StoreAssumption
<1> QED BY <1>1, <1>2 DEF Validate

\* A heartbeat refreshes the record it names, or makes one without an
\* address, and leaves the others alone.
LEMMA HeartbeatEffect ==
    ASSUME StoreInv, NEW n \in Nodes, NEW ip \in IPs, NEW t \in Times, NEW err,
           HeartbeatByUUID(n, ip, t, TRUE, err)
    PROVE  /\ \A k \in Nodes \ {n} : nodes'[k] = nodes[k]
           /\ \/ nodes'[n] = nodes[n]
              \/ /\ nodes'[n] # Absent
                 /\ nodes'[n].LastHeartbeatAt = t
                 /\ nodes[n] = Absent => ~nodes'[n].Maintenance
                 /\ nodes[n] # Absent =>
                        /\ nodes'[n].Maintenance = nodes[n].Maintenance
                        /\ nodes'[n].LastUnsealIP = nodes[n].LastUnsealIP
<1>1. CASE UNCHANGED storeVars
    BY <1>1 DEF storeVars
<1>2. CASE nodes[n] = Absent /\ ~ UNCHANGED storeVars
    <2> DEFINE r == [activeLease(t) EXCEPT !.NodeIP = ip]
    <2>1. nodes' = [nodes EXCEPT ![n] = r]
        BY <1>2 DEF HeartbeatByUUID, Save
    <2>2. r \in LeaseRecord /\ r.LastHeartbeatAt = t /\ r.Maintenance = FALSE
        BY TimesOK, StoreAssumption DEF activeLease, LeaseRecord, LeaseStatus, Zero
    <2> HIDE DEF r
    <2>3. \A k \in Nodes : nodes'[k] = IF k = n THEN r ELSE nodes[k]
        BY <2>1 DEF StoreInv, MapOK, LeaseMap
    <2> QED BY <1>2, <2>2, <2>3, StoreAssumption
<1>3. CASE nodes[n] # Absent /\ ~ UNCHANGED storeVars
    <2> DEFINE f == Refresh(nodes[n], t)
               r == [f EXCEPT !.NodeIP = ip, !.Status = "active"]
    <2>1. nodes' = [nodes EXCEPT ![n] = r]
        BY <1>3 DEF HeartbeatByUUID, Save
    <2>2. nodes[n] \in LeaseRecord
        BY <1>3 DEF StoreInv, MapOK, RecordOK
    <2>3. /\ f \in LeaseRecord /\ f.LastHeartbeatAt = t
          /\ f.Maintenance = nodes[n].Maintenance
          /\ f.LastUnsealIP = nodes[n].LastUnsealIP
        BY <2>2, TimesOK DEF Refresh, LeaseRecord
    <2> HIDE DEF f
    <2>4. /\ r \in LeaseRecord /\ r.LastHeartbeatAt = t
          /\ r.Maintenance = nodes[n].Maintenance
          /\ r.LastUnsealIP = nodes[n].LastUnsealIP
        BY <2>3 DEF LeaseRecord, LeaseStatus
    <2> HIDE DEF r
    <2>5. \A k \in Nodes : nodes'[k] = IF k = n THEN r ELSE nodes[k]
        BY <2>1 DEF StoreInv, MapOK, LeaseMap
    <2> QED BY <1>3, <2>4, <2>5, StoreAssumption
<1> QED BY <1>1, <1>2, <1>3

\* A check of the switch leaves a record without maintenance active only if
\* its last heartbeat is recent.
LEMMA CheckEffect ==
    ASSUME StoreInv, NEW t \in Times, BlockExpiredNodes(t, TRUE)
    PROVE  \A k \in Nodes :
               /\ nodes'[k] # Absent <=> nodes[k] # Absent
               /\ nodes[k] # Absent =>
                      /\ nodes'[k].LastHeartbeatAt = nodes[k].LastHeartbeatAt
                      /\ nodes'[k].Maintenance = nodes[k].Maintenance
                      /\ nodes'[k].LastUnsealIP = nodes[k].LastUnsealIP
                      /\ ~nodes[k].Maintenance /\ nodes'[k].Status = "active" =>
                             t - nodes[k].LastHeartbeatAt <= HeartbeatTimeout
<1> DEFINE overdue == {n \in Registered(nodes) : Overdue(nodes[n], t)}
<1>0. \A k \in Nodes : k \in overdue <=> nodes[k] # Absent /\ Overdue(nodes[k], t)
    BY DEF Registered
<1>1. \A k \in Nodes : nodes'[k] = IF k \in overdue THEN BlockRecord(nodes[k], t) ELSE nodes[k]
    <2>1. CASE overdue = {} /\ UNCHANGED storeVars
        BY <2>1 DEF storeVars
    <2>2. CASE Save([n \in Nodes |-> IF n \in overdue THEN BlockRecord(nodes[n], t)
                                                      ELSE nodes[n]], t, TRUE)
        BY <2>2 DEF Save
    <2> QED BY <2>1, <2>2 DEF BlockExpiredNodes
<1> HIDE DEF overdue
<1> SUFFICES ASSUME NEW k \in Nodes
             PROVE  /\ nodes'[k] # Absent <=> nodes[k] # Absent
                    /\ nodes[k] # Absent =>
                          /\ nodes'[k].LastHeartbeatAt = nodes[k].LastHeartbeatAt
                          /\ nodes'[k].Maintenance = nodes[k].Maintenance
                          /\ nodes'[k].LastUnsealIP = nodes[k].LastUnsealIP
                          /\ ~nodes[k].Maintenance /\ nodes'[k].Status = "active" =>
                                 t - nodes[k].LastHeartbeatAt <= HeartbeatTimeout
    OBVIOUS
<1>2. CASE k \in overdue
    <2>1. nodes[k] # Absent /\ RecordOK(nodes[k])
        BY <1>0, <1>2 DEF StoreInv, MapOK
    <2>2. /\ BlockRecord(nodes[k], t).Status = "blocked"
          /\ BlockRecord(nodes[k], t).LastHeartbeatAt = nodes[k].LastHeartbeatAt
          /\ BlockRecord(nodes[k], t).Maintenance = nodes[k].Maintenance
          /\ BlockRecord(nodes[k], t).LastUnsealIP = nodes[k].LastUnsealIP
          /\ BlockRecord(nodes[k], t) \in LeaseRecord
        BY <2>1, TimesOK DEF BlockRecord, RecordOK, LeaseRecord, LeaseStatus
    <2> QED BY <1>1, <1>2, <2>1, <2>2, StoreAssumption
<1>3. CASE k \notin overdue
    <2>1. nodes'[k] = nodes[k]
        BY <1>1, <1>3
    <2>2. ASSUME nodes[k] # Absent, ~nodes[k].Maintenance, nodes[k].Status = "active"
          PROVE  t - nodes[k].LastHeartbeatAt <= HeartbeatTimeout
        <3>1. nodes[k].LastHeartbeatAt \in Times
            BY <2>2 DEF StoreInv, MapOK, RecordOK
        <3>2. ~(t - nodes[k].LastHeartbeatAt > HeartbeatTimeout)
            BY <1>0, <1>3, <2>2, <3>1 DEF Overdue, Times, Zero
        <3> QED BY <3>1, <3>2, StoreAssumption DEF Times
    <2> QED BY <2>1, <2>2
<1> QED BY <1>2, <1>3

-----------------------------------------------------------------------------
(* The cluster: every step *)

\* The numbers of a state.
LEMMA ClusterNumbers ==
    ASSUME StoreInv, Clocks, Machines
    PROVE  /\ now \in Nat /\ now >= 1 /\ now <= MaxTime /\ MaxTime \in Nat
           /\ due \in Nat /\ CheckInterval \in Nat /\ HeartbeatTimeout \in Nat
           /\ Skew \in Nat /\ Drift \in Nat /\ LastWords = Drift + Skew /\ LastWords \in Nat
           /\ \A n \in Nodes : lastOn[n] \in Nat /\ LastSeen(n) \in Nat /\ LastSeen(n) <= now
           /\ \A n \in Nodes : nodes[n] # Absent => nodes[n].LastHeartbeatAt \in Nat
<1>1. /\ now \in Nat /\ now >= 1 /\ now <= MaxTime /\ MaxTime \in Nat
      /\ due \in Nat /\ CheckInterval \in Nat /\ HeartbeatTimeout \in Nat
      /\ Skew \in Nat /\ Drift \in Nat /\ LastWords = Drift + Skew /\ LastWords \in Nat
    BY StoreAssumption, ClusterAssumption, HMACAssumption DEF Clocks, Times, LastWords
<1>2. \A n \in Nodes : lastOn[n] \in Nat /\ LastSeen(n) \in Nat /\ LastSeen(n) <= now
    BY <1>1 DEF Machines, LastSeen
<1>3. \A n \in Nodes : nodes[n] # Absent => nodes[n].LastHeartbeatAt \in Nat
    BY DEF StoreInv, MapOK, RecordOK, LeaseRecord
<1> QED BY <1>1, <1>2, <1>3

\* The clocks: time never passes a check that is due.
LEMMA ClocksStep == ASSUME Clocks, [Next]_vars PROVE Clocks'
<1>0. now \in Nat /\ due \in Nat /\ CheckInterval \in Nat /\ MaxTime \in Nat /\ now >= 1
    BY StoreAssumption, ClusterAssumption DEF Clocks, Times
<1>1. CASE Check
    BY <1>0, <1>1 DEF Check, Clocks
<1>2. CASE Tick
    BY <1>0, <1>2 DEF Tick, Clocks, Times
<1>3. CASE ~Check /\ ~Tick
    <2>1. UNCHANGED <<now, due>>
        BY <1>3 DEF Next, vars, Boot, BootRefused, Shutdown, Identify, sendHeartbeat,
                    handleHeartbeat
    <2> QED BY <2>1 DEF Clocks
<1> QED BY <1>1, <1>2, <1>3

\* Types of the machines, and no node stopped in the future.
LEMMA MachinesStep == ASSUME Clocks, Machines, [Next]_vars PROVE Machines'
<1>0. now \in 0..MaxTime
    BY StoreAssumption DEF Clocks, Times
<1>1. ASSUME NEW n \in Nodes, NEW ip \in IPs, Boot(n, ip)
      PROVE  Machines'
    <2>1. machine' \in [Nodes -> [on : BOOLEAN, ip : IPs \cup {NoIP}]]
        BY <1>1, Zenon DEF Boot, Machines
    <2> QED BY <1>1, <2>1 DEF Boot, Machines
<1>2. ASSUME NEW n \in Nodes, Shutdown(n)
      PROVE  Machines'
    <2>1. machine' \in [Nodes -> [on : BOOLEAN, ip : IPs \cup {NoIP}]]
        BY <1>2 DEF Shutdown, Machines
    <2> QED BY <1>0, <1>2, <2>1 DEF Shutdown, Machines
<1>3. ASSUME NEW n \in Nodes, NEW k \in Nodes, NEW ts, Identify(n, k, ts)
      PROVE  Machines'
    BY <1>3 DEF Identify, Machines
<1>4. CASE Tick
    BY <1>0, <1>4 DEF Tick, Machines, clusterVars
<1>5. CASE UNCHANGED <<now, machine, agent, lastOn>>
    BY <1>5 DEF Machines
<1> QED BY <1>1, <1>2, <1>3, <1>4, <1>5
        DEF Next, vars, clusterVars, BootRefused, sendHeartbeat, handleHeartbeat, Check

\* A node is never seen earlier than it was.
LEMMA SeenStep ==
    ASSUME StoreInv, Clocks, Machines, [Next]_vars, NEW n \in Nodes
    PROVE  LastSeen(n) <= LastSeen(n)'
<1>0. now \in Nat /\ lastOn[n] \in Nat /\ lastOn[n] <= now /\ LastSeen(n) \in Nat
    BY ClusterNumbers DEF Machines
<1>1. ASSUME NEW k \in Nodes, NEW ip \in IPs, Boot(k, ip)
      PROVE  LastSeen(n) <= LastSeen(n)'
    <2>1. now' = now /\ lastOn' = lastOn
        BY <1>1 DEF Boot
    <2>2. k # n => machine'[n] = machine[n]
        BY <1>1 DEF Boot, Machines
    <2>3. k = n => ~machine[n].on /\ machine'[n].on
        BY <1>1 DEF Boot, Machines
    <2> QED BY <1>0, <2>1, <2>2, <2>3 DEF LastSeen
<1>2. ASSUME NEW k \in Nodes, Shutdown(k)
      PROVE  LastSeen(n) <= LastSeen(n)'
    <2>1. now' = now
        BY <1>2 DEF Shutdown
    <2>2. k # n => machine'[n] = machine[n] /\ lastOn'[n] = lastOn[n]
        BY <1>2 DEF Shutdown, Machines
    <2>3. k = n => machine[n].on /\ ~machine'[n].on /\ lastOn'[n] = now
        BY <1>2 DEF Shutdown, Machines
    <2> QED BY <1>0, <2>1, <2>2, <2>3 DEF LastSeen
<1>3. CASE Tick
    BY <1>0, <1>3 DEF Tick, clusterVars, LastSeen
<1>4. CASE UNCHANGED <<now, machine, lastOn>>
    BY <1>0, <1>4 DEF LastSeen
<1> QED BY <1>1, <1>2, <1>3, <1>4
        DEF Next, vars, clusterVars, BootRefused, Identify, sendHeartbeat, handleHeartbeat, Check

\* Who bears an address is kept: only a node that boots takes one, and
\* Identify finds no node but the one that asks.
LEMMA BearingStep ==
    ASSUME StoreInv, Clocks, Machines, Bearing, Letters, [Next]_vars
    PROVE  Bearing'
<1> USE DEF recordByIPLocked
<1>0. ASSUME UNCHANGED <<machine, agent>>,
             \A k \in Nodes : nodes[k] # Absent =>
                 nodes'[k] # Absent /\ nodes'[k].LastUnsealIP = nodes[k].LastUnsealIP
      PROVE  Bearing'
    BY <1>0 DEF Bearing
<1>1. ASSUME NEW n \in Nodes, NEW ip \in IPs, Boot(n, ip)
      PROVE  Bearing'
    <2> SUFFICES ASSUME NEW k \in Nodes, machine'[k].on
                 PROVE  /\ machine'[k].ip \in IPs
                        /\ nodes'[k] # Absent /\ nodes'[k].LastUnsealIP = machine'[k].ip
                        /\ agent'[k] \in {k, Absent}
        BY DEF Bearing
    <2>1. Bootstrap(n, ip, now, TRUE, "none") /\ now \in Times
        BY <1>1 DEF Boot, Clocks
    <2>2. CASE k = n
        <3>1. machine'[n].ip = ip /\ agent'[n] = Absent
            BY <1>1 DEF Boot, Machines
        <3> QED BY <2>1, <2>2, <3>1, BootEffect
    <2>3. CASE k # n
        <3>1. machine'[k] = machine[k] /\ agent'[k] = agent[k]
            BY <1>1, <2>3 DEF Boot, Machines
        <3>2. machine[k].on /\ machine[k].ip # ip
            BY <1>1, <3>1 DEF Boot, Running
        <3>3. /\ machine[k].ip \in IPs /\ agent[k] \in {k, Absent}
              /\ nodes[k] # Absent /\ nodes[k].LastUnsealIP = machine[k].ip
            BY <3>2 DEF Bearing
        <3>4. nodes'[k] # Absent /\ nodes'[k].LastUnsealIP = nodes[k].LastUnsealIP
            BY <2>1, <2>3, <3>2, <3>3, BootSpares
        <3> QED BY <3>1, <3>3, <3>4
    <2> QED BY <2>2, <2>3
<1>2. ASSUME NEW n \in Nodes, NEW err \in Errors, BootRefused(n, err)
      PROVE  Bearing'
    BY <1>0, <1>2, RefusedEffect DEF BootRefused, clusterVars
<1>3. ASSUME NEW n \in Nodes, Shutdown(n)
      PROVE  Bearing'
    <2>1. \A k \in Nodes : machine'[k].on => machine'[k] = machine[k]
        BY <1>3 DEF Shutdown, Machines
    <2> QED BY <1>3, <2>1 DEF Shutdown, Bearing, storeVars
<1>4. ASSUME NEW n \in Nodes, NEW k \in Nodes, NEW ts, Identify(n, k, ts)
      PROVE  Bearing'
    <2>1. /\ machine[n].on /\ LookupByIP(k, machine[n].ip)
          /\ UNCHANGED <<machine, nodes>> /\ agent' = [agent EXCEPT ![n] = k]
        BY <1>4 DEF Identify, storeVars
    <2>2. machine[n].ip \in IPs /\ nodes[n] # Absent /\ nodes[n].LastUnsealIP = machine[n].ip
        BY <2>1 DEF Bearing
    <2>3. nodes[k] # Absent /\ nodes[k].LastUnsealIP = machine[n].ip
        BY <2>1, <2>2 DEF LookupByIP
    <2>4. k = n
        BY <2>2, <2>3, StoreAssumption DEF StoreInv, MapOK
    <2>5. \A j \in Nodes : agent'[j] = IF j = n THEN n ELSE agent[j]
        BY <2>1, <2>4 DEF Machines
    <2> QED BY <2>1, <2>5 DEF Bearing
<1>5. ASSUME NEW m \in network, NEW err \in Errors, handleHeartbeat(m, err)
      PROVE  Bearing'
    <2>1. HeartbeatByUUID(m.uuid, m.ip, now, TRUE, err) /\ UNCHANGED <<machine, agent>>
        BY <1>5 DEF handleHeartbeat, clusterVars
    <2>2. m.uuid \in Nodes /\ m.ip \in IPs /\ now \in Times
        BY DEF Letters, Clocks
    <2> QED BY <1>0, <2>1, <2>2, HeartbeatEffect
<1>6. CASE Check
    BY <1>0, <1>6, CheckEffect DEF Check, clusterVars, Clocks
<1>7. CASE UNCHANGED <<nodes, machine, agent>>
    BY <1>0, <1>7
<1> QED BY <1>1, <1>2, <1>3, <1>4, <1>5, <1>6, <1>7
        DEF Next, vars, storeVars, clusterVars, sendHeartbeat, Tick

\* What is under way was sent by its own node, while that was running.
LEMMA LettersStep ==
    ASSUME StoreInv, Clocks, Machines, Bearing, Letters, [Next]_vars
    PROVE  Letters'
<1>0. /\ now \in Nat /\ now >= 1 /\ Skew \in Nat
      /\ \A n \in Nodes : LastSeen(n) \in Nat
    BY ClusterNumbers
<1>1. \A n \in Nodes : LastSeen(n) <= LastSeen(n)' /\ LastSeen(n)' \in Nat
    <2>1. Clocks' /\ Machines' /\ StoreAssumption
        BY ClocksStep, MachinesStep, StoreAssumption
    <2>2. \A n \in Nodes : LastSeen(n)' \in Nat
        BY <2>1 DEF Clocks, Machines, LastSeen, Times
    <2> QED BY <2>2, SeenStep
<1>2. ASSUME NEW m \in network
      PROVE  /\ m.uuid \in Nodes /\ m.ip \in IPs /\ m.timestamp \in Int
             /\ 1 - Skew <= m.timestamp
             /\ m.timestamp <= LastSeen(m.uuid)' + Skew
    <2>1. /\ m.uuid \in Nodes /\ m.ip \in IPs /\ m.timestamp \in Int
          /\ 1 - Skew <= m.timestamp
          /\ m.timestamp <= LastSeen(m.uuid) + Skew
        BY DEF Letters
    <2> DEFINE a == LastSeen(m.uuid)
               b == LastSeen(m.uuid)'
    <2>2. a \in Nat /\ b \in Nat /\ a <= b
        BY <1>0, <1>1, <2>1
    <2> HIDE DEF a, b
    <2>3. m.timestamp <= a + Skew => m.timestamp <= b + Skew
        BY <1>0, <2>1, <2>2
    <2> QED BY <2>1, <2>3 DEF a, b
<1>3. ASSUME NEW n \in Nodes, NEW ts \in NodeClocks, sendHeartbeat(n, ts)
      PROVE  Letters'
    <2> DEFINE m == [uuid |-> agent[n], ip |-> machine[n].ip, timestamp |-> ts,
                     signature |-> Sign(<<agent[n]>>, <<machine[n].ip>>, ts)]
    <2>1. /\ machine[n].on /\ agent[n] # Absent
          /\ network' = network \cup {m}
          /\ UNCHANGED <<now, machine, agent, lastOn>>
        BY <1>3 DEF sendHeartbeat
    <2>2. agent[n] = n /\ machine[n].ip \in IPs
        BY <2>1 DEF Bearing
    <2>3. LastSeen(n)' = now
        BY <2>1 DEF LastSeen
    <2>4. ts \in Int /\ 1 - Skew <= ts /\ ts <= now + Skew
        BY <1>0 DEF NodeClocks
    <2>5. m.uuid = n /\ m.ip = machine[n].ip /\ m.timestamp = ts
        BY <2>2
    <2> HIDE DEF m
    <2>6. ASSUME NEW x \in network', x = m
          PROVE  /\ x.uuid \in Nodes /\ x.ip \in IPs /\ x.timestamp \in Int
                 /\ 1 - Skew <= x.timestamp
                 /\ x.timestamp <= LastSeen(x.uuid)' + Skew
        <3>1. x.uuid = n /\ x.ip = machine[n].ip /\ x.timestamp = ts
            BY <2>5, <2>6
        <3>2. LastSeen(x.uuid)' = now
            BY <2>3, <3>1
        <3> QED BY <2>2, <2>4, <3>1, <3>2
    <2> QED BY <1>2, <2>1, <2>6 DEF Letters
<1>4. CASE network' = network
    BY <1>2, <1>4 DEF Letters
<1> QED BY <1>3, <1>4
        DEF Next, vars, clusterVars, Boot, BootRefused, Shutdown, Identify, handleHeartbeat,
            Check, Tick

\* A heartbeat that the server takes is one of the node's last words.
LEMMA AcceptedIsLastWord ==
    ASSUME StoreInv, Clocks, Machines, Letters, NEW m \in network, Accepts(m)
    PROVE  now <= LastSeen(m.uuid) + LastWords
<1>0. /\ now \in Nat /\ now >= 1 /\ now <= MaxTime /\ MaxTime \in Nat
      /\ Skew \in Nat /\ Drift \in Nat /\ LastWords = Drift + Skew
      /\ \A n \in Nodes : LastSeen(n) \in Nat /\ LastSeen(n) <= now
    BY ClusterNumbers
<1>1. /\ m.uuid \in Nodes /\ m.timestamp \in Int /\ 1 - Skew <= m.timestamp
      /\ m.timestamp <= LastSeen(m.uuid) + Skew
    BY DEF Letters
<1>2. MaxTime + Skew < Word \div 2 /\ Word \div 2 \in Nat
    BY ClusterAssumption, HalfWord
<1> DEFINE ts == m.timestamp
           seen == LastSeen(m.uuid)
<1>3. ts \in Int /\ 1 - Skew <= ts /\ ts <= seen + Skew /\ seen \in Nat /\ seen <= now
    BY <1>0, <1>1
<1> HIDE DEF ts, seen
<1>4. now - ts \in MinInt..MaxInt
    <2> DEFINE h == Word \div 2
    <2>1. h \in Nat /\ MaxTime + Skew < h /\ MinInt = -h /\ MaxInt = h - 1
        BY <1>2 DEF MinInt, MaxInt
    <2> HIDE DEF h
    <2> QED BY <1>0, <1>3, <2>1
<1>5. now - ts <= Drift
    BY <1>0, <1>3, <1>4, AcceptedIsYoung DEF Accepts, ts
<1>6. now <= seen + LastWords
    BY <1>0, <1>3, <1>5
<1> QED BY <1>6 DEF seen

\* Arithmetic of a refreshed record and of a kept one.
LEMMA WatchedNumbers ==
    /\ \A beat, seen, seen1, w \in Nat : beat <= seen + w /\ seen <= seen1 => beat <= seen1 + w
    /\ \A d, t, c, h \in Nat : d <= t + c => d <= t + h + c
OBVIOUS

\* The records are kept in the switch's sight.
LEMMA WatchedStep ==
    ASSUME StoreInv, Clocks, Machines, Bearing, Letters, Watched, [Next]_vars
    PROVE  Watched'
<1>0. /\ now \in Nat /\ now >= 1 /\ due \in Nat /\ CheckInterval \in Nat
      /\ HeartbeatTimeout \in Nat /\ LastWords \in Nat
      /\ \A n \in Nodes : LastSeen(n) \in Nat /\ LastSeen(n) <= now
      /\ \A n \in Nodes : nodes[n] # Absent => nodes[n].LastHeartbeatAt \in Nat
    BY ClusterNumbers
<1>1. \A n \in Nodes : LastSeen(n) <= LastSeen(n)' /\ LastSeen(n)' \in Nat
    <2>1. Clocks' /\ Machines' /\ StoreAssumption
        BY ClocksStep, MachinesStep, StoreAssumption
    <2>2. \A n \in Nodes : LastSeen(n)' \in Nat
        BY <2>1 DEF Clocks, Machines, LastSeen, Times
    <2> QED BY <2>2, SeenStep
<1> DEFINE Sighted(k) ==
        nodes'[k] # Absent =>
            /\ ~nodes'[k].Maintenance
            /\ nodes'[k].LastHeartbeatAt <= LastSeen(k)' + LastWords
            /\ nodes'[k].Status = "active" =>
                   due' <= nodes'[k].LastHeartbeatAt + HeartbeatTimeout + CheckInterval
<1>2. SUFFICES ASSUME NEW k \in Nodes PROVE Sighted(k)
    BY DEF Watched
<1>3. ASSUME due' = due,
             nodes'[k] # Absent => nodes[k] # Absent,
             nodes[k] # Absent =>
                 /\ nodes'[k].LastHeartbeatAt = nodes[k].LastHeartbeatAt
                 /\ nodes'[k].Maintenance = nodes[k].Maintenance
                 /\ nodes'[k].Status = "active" => nodes[k].Status = "active"
      PROVE  Sighted(k)
    <2> SUFFICES ASSUME nodes'[k] # Absent PROVE Sighted(k)
        OBVIOUS
    <2>1. /\ ~nodes[k].Maintenance
          /\ nodes[k].LastHeartbeatAt <= LastSeen(k) + LastWords
          /\ nodes[k].Status = "active" =>
                 due <= nodes[k].LastHeartbeatAt + HeartbeatTimeout + CheckInterval
        BY <1>3 DEF Watched
    <2>2. nodes[k].LastHeartbeatAt <= LastSeen(k)' + LastWords
        BY <1>0, <1>1, <1>3, <2>1, WatchedNumbers
    <2> QED BY <1>3, <2>1, <2>2
<1>4. ASSUME due' = due, nodes'[k] # Absent, nodes'[k].LastHeartbeatAt = now,
             ~nodes'[k].Maintenance, now <= LastSeen(k) + LastWords
      PROVE  Sighted(k)
    <2>1. now <= LastSeen(k)' + LastWords
        BY <1>0, <1>1, <1>4, WatchedNumbers
    <2>2. due <= now + HeartbeatTimeout + CheckInterval
        BY <1>0, WatchedNumbers DEF Clocks
    <2> QED BY <1>4, <2>1, <2>2
<1>5. ASSUME NEW n \in Nodes, NEW ip \in IPs, Boot(n, ip)
      PROVE  Sighted(k)
    <2>1. Bootstrap(n, ip, now, TRUE, "none") /\ now \in Times /\ due' = due /\ now' = now
        BY <1>5 DEF Boot, Clocks
    <2>2. CASE k = n
        <3>1. /\ nodes'[k] # Absent /\ nodes'[k].LastHeartbeatAt = now
              /\ ~nodes'[k].Maintenance
            BY <2>1, <2>2, BootEffect
        <3>2. LastSeen(k)' = now
            BY <1>5, <2>1, <2>2 DEF Boot, Machines, LastSeen
        <3>3. now <= LastSeen(k)' + LastWords
            BY <1>0, <3>2
        <3>4. due <= now + HeartbeatTimeout + CheckInterval
            BY <1>0, WatchedNumbers DEF Clocks
        <3> QED BY <2>1, <3>1, <3>3, <3>4
    <2>3. CASE k # n
        BY <1>3, <2>1, <2>3, BootSpares
    <2> QED BY <2>2, <2>3
<1>6. ASSUME NEW n \in Nodes, NEW err \in Errors, BootRefused(n, err)
      PROVE  Sighted(k)
    BY <1>3, <1>6, RefusedEffect DEF BootRefused
<1>7. ASSUME NEW m \in network, NEW err \in Errors, handleHeartbeat(m, err)
      PROVE  Sighted(k)
    <2>1. /\ HeartbeatByUUID(m.uuid, m.ip, now, TRUE, err) /\ due' = due
          /\ Accepts(m) /\ m.uuid \in Nodes /\ m.ip \in IPs /\ now \in Times
        BY <1>7 DEF handleHeartbeat, Letters, Clocks
    <2>2. now <= LastSeen(m.uuid) + LastWords
        BY <2>1, AcceptedIsLastWord
    <2>3. CASE nodes'[k] = nodes[k]
        BY <1>3, <2>1, <2>3
    <2>4. CASE nodes'[k] # nodes[k]
        <3>1. /\ k = m.uuid
              /\ nodes'[k] # Absent
              /\ nodes'[k].LastHeartbeatAt = now
              /\ nodes[k] = Absent => ~nodes'[k].Maintenance
              /\ nodes[k] # Absent => nodes'[k].Maintenance = nodes[k].Maintenance
            BY <2>1, <2>4, HeartbeatEffect
        <3>2. ~nodes'[k].Maintenance
            BY <3>1 DEF Watched
        <3> QED BY <1>4, <2>1, <2>2, <3>1, <3>2
    <2> QED BY <2>3, <2>4
<1>8. CASE Check
    <2>1. /\ BlockExpiredNodes(now, TRUE) /\ now \in Times
          /\ due' = now + CheckInterval
        BY <1>8 DEF Check, Clocks
    <2> SUFFICES ASSUME nodes'[k] # Absent PROVE Sighted(k)
        OBVIOUS
    <2>2. /\ nodes[k] # Absent
          /\ nodes'[k].LastHeartbeatAt = nodes[k].LastHeartbeatAt
          /\ nodes'[k].Maintenance = nodes[k].Maintenance
          /\ ~nodes[k].Maintenance /\ nodes'[k].Status = "active" =>
                 now - nodes[k].LastHeartbeatAt <= HeartbeatTimeout
        BY <2>1, CheckEffect
    <2>3. /\ ~nodes[k].Maintenance
          /\ nodes[k].LastHeartbeatAt <= LastSeen(k) + LastWords
        BY <2>2 DEF Watched
    <2>4. nodes[k].LastHeartbeatAt <= LastSeen(k)' + LastWords
        BY <1>0, <1>1, <2>2, <2>3, WatchedNumbers
    <2>5. nodes'[k].Status = "active" =>
              now + CheckInterval <= nodes[k].LastHeartbeatAt + HeartbeatTimeout + CheckInterval
        BY <1>0, <2>2, <2>3
    <2> QED BY <2>1, <2>2, <2>3, <2>4, <2>5
<1>9. CASE UNCHANGED <<nodes, due>>
    BY <1>3, <1>9
<1> QED BY <1>5, <1>6, <1>7, <1>8, <1>9
        DEF Next, vars, storeVars, Shutdown, Identify, sendHeartbeat, Tick

-----------------------------------------------------------------------------
(* Theorems about the cluster *)

\* Whatever nodes, agents and the network do is to the store a call of one of
\* its methods, or nothing.
LEMMA StepIsStore ==
    ASSUME Clocks, Letters, [Next]_vars
    PROVE  [StoreNext]_storeVars
<1>0. now \in Times /\ TRUE \in PersistOutcomes /\ "none" \in Errors
    BY StoreAssumption DEF Clocks, PersistOutcomes, Errors
<1>1. ASSUME NEW n \in Nodes, NEW ip \in IPs, Boot(n, ip)
      PROVE  StoreNext
    <2>1. Bootstrap(n, ip, now, TRUE, "none")
        BY <1>1 DEF Boot
    <2> QED BY <1>0, <2>1, Zenon DEF StoreNext
<1>2. ASSUME NEW n \in Nodes, NEW err \in Errors, BootRefused(n, err)
      PROVE  StoreNext
    <2>1. Validate(n, now, TRUE, err)
        BY <1>2 DEF BootRefused
    <2> QED BY <1>0, <2>1, Zenon DEF StoreNext
<1>3. ASSUME NEW m \in network, NEW err \in Errors, handleHeartbeat(m, err)
      PROVE  StoreNext
    <2>1. HeartbeatByUUID(m.uuid, m.ip, now, TRUE, err)
        BY <1>3 DEF handleHeartbeat
    <2>2. m.uuid \in Nodes /\ m.ip \in IPs
        BY DEF Letters
    <2> QED BY <1>0, <2>1, <2>2, Zenon DEF StoreNext
<1>4. CASE Check
    <2>1. BlockExpiredNodes(now, TRUE)
        BY <1>4 DEF Check
    <2> QED BY <1>0, <2>1, Zenon DEF StoreNext
<1>5. CASE UNCHANGED storeVars
    BY <1>5
<1> QED BY <1>1, <1>2, <1>3, <1>4, <1>5
        DEF Next, vars, Shutdown, Identify, sendHeartbeat, Tick

\* The invariant holds at first.
LEMMA ClusterInitOK == Init => ClusterInv
<1> SUFFICES ASSUME Init PROVE ClusterInv
    OBVIOUS
<1>1. StoreInv
    BY StoreInitOK DEF Init
<1>2. Clocks
    BY StoreAssumption, ClusterAssumption DEF Init, Clocks, Times
<1>3. Machines
    <2>1. now = 1 /\ MaxTime \in Nat
        BY StoreAssumption DEF Init
    <2> QED BY <2>1 DEF Init, Machines, Zero
<1>4. Bearing /\ Letters /\ Watched
    BY DEF Init, Bearing, Letters, Watched, StoreInit, NoLeases
<1> QED BY <1>1, <1>2, <1>3, <1>4 DEF ClusterInv

\* The invariant of the cluster.
THEOREM ClusterInvariant == Spec => []ClusterInv
<1>1. ClusterInv /\ [Next]_vars => ClusterInv'
    BY StepIsStore, StoreStep, ClocksStep, MachinesStep, BearingStep, LettersStep, WatchedStep
       DEF ClusterInv
<1> QED BY <1>1, ClusterInitOK, PTL DEF Spec

\* The cluster's server is the lease store: everything proved of the store
\* holds in the cluster too.
THEOREM ClusterImplementsStore == Spec => StoreSpec
<1>1. Init => StoreInit
    BY DEF Init
<1>2. ClusterInv /\ [Next]_vars => [StoreNext]_storeVars
    BY StepIsStore DEF ClusterInv
<1> QED BY <1>1, <1>2, ClusterInvariant, PTL DEF Spec, StoreSpec

\* The store, the clocks, the machines and every heartbeat under way have
\* their types.
THEOREM ClusterTypeCorrect == Spec => []TypeOK
<1>1. ClusterInv => TypeOK
    BY StoreInvImplies DEF ClusterInv, TypeOK, Clocks, Machines, Letters
<1> QED BY <1>1, ClusterInvariant, PTL

\* Identify tells an agent the name of its own node and of no other, for any
\* number of nodes that pass addresses on to each other, although old
\* heartbeats write addresses that are no longer theirs into NodeIP.
THEOREM ClusterSpeaksForItself == Spec => []SpeaksForItself
<1>1. ClusterInv => SpeaksForItself
    BY DEF ClusterInv, Bearing, SpeaksForItself, Running
<1> QED BY <1>1, ClusterInvariant, PTL

\* A node that is off is blocked within its last words, the timeout and one
\* interval between checks.
LEMMA OffIsBlocked == ClusterInv => StoppedNodeIsBlocked
<1> SUFFICES ASSUME ClusterInv, NEW n \in Nodes, nodes[n] # Absent, ~machine[n].on,
                    nodes[n].Status = "active"
             PROVE  now - lastOn[n] <= LastWords + HeartbeatTimeout + CheckInterval
    BY DEF StoppedNodeIsBlocked, Registered, Running
<1>1. /\ now \in Nat /\ due \in Nat /\ CheckInterval \in Nat /\ HeartbeatTimeout \in Nat
      /\ LastWords \in Nat /\ lastOn[n] \in Nat /\ nodes[n].LastHeartbeatAt \in Nat
    BY ClusterNumbers DEF ClusterInv
<1>2. LastSeen(n) = lastOn[n]
    BY DEF LastSeen
<1>3. /\ nodes[n].LastHeartbeatAt <= lastOn[n] + LastWords
      /\ due <= nodes[n].LastHeartbeatAt + HeartbeatTimeout + CheckInterval
      /\ now <= due
    BY <1>2 DEF ClusterInv, Watched, Clocks
<1> QED BY <1>1, <1>3

\* No late, repeated or reordered heartbeat keeps a stopped node active: the
\* switch blocks it in time, for any number of nodes, any timeout and any
\* skew of the clocks.
THEOREM ClusterStoppedNodeIsBlocked == Spec => []StoppedNodeIsBlocked
BY OffIsBlocked, ClusterInvariant, PTL

\* A node that has been off for longer than its last words and its lease, or
\* the timeout and an interval between checks, gets no key.
THEOREM ClusterKeyOnlySoonAfterStop == Spec => KeyOnlySoonAfterStop
<1>1. ASSUME ClusterInv, [Next]_vars, NEW n \in Registered(nodes),
             ~machine[n].on, machine'[n].on
      PROVE  /\ now - lastOn[n] <= LastWords + LeaseDuration
             /\ now - lastOn[n] <= LastWords + HeartbeatTimeout + CheckInterval
    <2>0. n \in Nodes /\ nodes[n] # Absent
        BY DEF Registered
    <2>1. \E ip \in IPs : Boot(n, ip)
        <3>1. ASSUME NEW k \in Nodes, NEW ip \in IPs, Boot(k, ip)
              PROVE  k = n
            BY <1>1, <2>0, <3>1 DEF Boot, ClusterInv, Machines
        <3>2. ASSUME NEW k \in Nodes, Shutdown(k)
              PROVE  FALSE
            <4>1. machine' = [machine EXCEPT ![k].on = FALSE]
                BY <3>2 DEF Shutdown
            <4> QED BY <1>1, <2>0, <4>1 DEF ClusterInv, Machines
        <3>3. machine' # machine
            BY <1>1
        <3> QED BY <1>1, <3>1, <3>2, <3>3
                DEF Next, vars, clusterVars, BootRefused, Identify, sendHeartbeat,
                    handleHeartbeat, Check, Tick
    <2>2. nodes[n].Status # "blocked" /\ ~LeaseOver(nodes[n], now)
        BY <2>0, <2>1 DEF Boot
    <2>3. RecordOK(nodes[n])
        BY <1>1, <2>0 DEF ClusterInv, StoreInv, MapOK
    <2>4. nodes[n].Status = "active"
        BY <2>2, <2>3 DEF LeaseOver, RecordOK, LeaseRecord, LeaseStatus
    <2>5. now - lastOn[n] <= LastWords + HeartbeatTimeout + CheckInterval
        BY <1>1, <2>0, <2>4, OffIsBlocked DEF StoppedNodeIsBlocked, Registered, Running
    <2>6. /\ now \in Nat /\ LastWords \in Nat /\ lastOn[n] \in Nat
          /\ nodes[n].LastHeartbeatAt \in Nat
        BY <1>1, <2>0, ClusterNumbers DEF ClusterInv
    <2>7. nodes[n].LastHeartbeatAt <= lastOn[n] + LastWords
        BY <1>1, <2>0 DEF ClusterInv, Watched, LastSeen
    <2>8. /\ LeaseDuration \in Nat /\ nodes[n].LastHeartbeatAt >= 1
          /\ nodes[n].LeaseUntil = nodes[n].LastHeartbeatAt + LeaseDuration
        BY <2>3, StoreAssumption DEF RecordOK, Times
    <2>9. now <= nodes[n].LastHeartbeatAt + LeaseDuration
        BY <2>2, <2>6, <2>8 DEF LeaseOver, isExpired, Zero
    <2> QED BY <2>5, <2>6, <2>7, <2>8, <2>9
<1>2. ClusterInv /\ [Next]_vars =>
          [\A n \in Registered(nodes) :
              ~machine[n].on /\ machine'[n].on =>
                  /\ now - lastOn[n] <= LastWords + LeaseDuration
                  /\ now - lastOn[n] <= LastWords + HeartbeatTimeout + CheckInterval]_vars
    BY <1>1
<1> QED BY <1>2, ClusterInvariant, PTL DEF Spec, KeyOnlySoonAfterStop

=============================================================================
