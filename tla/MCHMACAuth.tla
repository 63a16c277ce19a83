----------------------------- MODULE MCHMACAuth -----------------------------
(***************************************************************************)
(* The signatures and timestamps of HMACAuth, for TLC: every request of a  *)
(* small integer type against every time of the server's clock, for texts  *)
(* that end in digits and have different lengths.                          *)
(***************************************************************************)
EXTENDS HMACAuth

CONSTANTS
    UUIDs,      \* the texts a request gives as node_uuid
    Addresses   \* the texts a request gives as node_ip

ASSUME TextsAssumption ==
    /\ UUIDs \subseteq Seq(Nat)
    /\ Addresses \subseteq Seq(Nat)

\* For TLC: texts whose ends can be taken for the beginning of the next
\* field, in a UUID (1 and 14, 11 and 4) and in an address (4 and 30, 43 and 0).
SomeUUIDs == {<<1>>, <<2>>, <<1, 1>>}
SomeAddresses == {<<4>>, <<1, 4>>, <<4, 3>>}

VARIABLES
    timestamp,   \* the timestamp in the request
    signedAt,    \* the signer's clock when it signed
    clock        \* the server's clock

request == <<timestamp, signedAt, clock>>

\* A clock shows times after 1970 that are far from the largest integer.
Clock == 0 .. MaxInt \div 2

Abs(x) == IF x < 0 THEN -x ELSE x

\* The one difference whose negation is itself.
Extreme == clock - timestamp = -MinInt

AuthInit ==
    /\ timestamp \in MinInt..MaxInt
    /\ signedAt \in Clock
    /\ clock \in Clock

AuthNext == UNCHANGED request

AuthSpec == AuthInit /\ [][AuthNext]_request

-----------------------------------------------------------------------------

\* ValidateTimestamp accepts the timestamps within Drift of the clock and no
\* others, though the difference overflows for half of all timestamps, except
\* for the one timestamp whose difference is the smallest integer.
DriftBounded ==
    ~Extreme => (ValidateTimestamp(timestamp, clock) <=> Abs(clock - timestamp) <= Drift)

\* Verify and VerifyIdentify bear a skew of one window between the timestamp
\* and the signature, in both directions and across the edges of windows.
SkewTolerated ==
    Abs(timestamp - signedAt) <= Window =>
        \A u \in UUIDs, a \in Addresses :
            /\ Verify(u, a, timestamp, Sign(u, a, signedAt))
            /\ VerifyIdentify(a, timestamp, SignIdentify(a, signedAt))

\* The timestamps tried have as many characters as the one that was signed:
\* from 2001 to 2286 a clock shows ten digits.
SameLength ==
    \A ts \in AcceptedWindows(timestamp) :
        Len(Decimal(ts)) = Len(Decimal(roundTimestamp(signedAt)))

Recent == Abs(clock - signedAt) < Drift + 2 * Window

\* What passes both tests was signed less than Drift and two windows from
\* now, for the node and the address it names, although neither test alone
\* bounds the age of a signature and the signed text has no separators.  The
\* signer's UUID has the length of the one in the request, as all UUIDs of
\* machines have (the server does not test it), and the timestamps have the
\* same number of digits; without the one or the other the fields of a text
\* are not determined.
AcceptedIsRecent ==
    ~Extreme /\ clock >= Drift /\ SameLength
    /\ ValidateTimestamp(timestamp, clock) =>
        \A a, b \in Addresses :
            /\ VerifyIdentify(a, timestamp, SignIdentify(b, signedAt))
                   => a = b /\ Recent
            /\ \A u, v \in UUIDs :
                   Len(u) = Len(v) /\ Verify(u, a, timestamp, Sign(v, b, signedAt))
                       => u = v /\ a = b /\ Recent

=============================================================================
