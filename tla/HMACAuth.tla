------------------------------ MODULE HMACAuth ------------------------------
(***************************************************************************)
(* The signatures of heartbeat and identify requests and the test of their *)
(* timestamps (pkg/server/hmac.go).  Timestamps are seconds, in integers   *)
(* of Word values: the code's are int64, with Word = 2^64.                 *)
(*                                                                         *)
(* A text is a sequence of characters, and a character a number: a digit   *)
(* is its own value.  A signature stands for the text that was signed: two *)
(* signatures under the same key are equal when their texts are.  The      *)
(* fields of a message are run together with nothing between them.         *)
(***************************************************************************)
EXTENDS Integers, Sequences

CONSTANTS
    Window,   \* timestamps are rounded to windows of this length (30)
    Drift,    \* how far a timestamp may be from the server's clock (60)
    Word      \* the number of values of an integer (2^64)

ASSUME HMACAssumption ==
    /\ Window \in Nat \ {0}
    /\ Drift \in Nat
    /\ Word \in Nat \ {0}
    /\ Word % 2 = 0
    /\ 4 * Drift <= Word

MinInt == -(Word \div 2)
MaxInt == (Word \div 2) - 1

\* The value the machine keeps of the integer x.
Wrap(x) == ((x + Word \div 2) % Word) - Word \div 2

\* Go divides towards zero, so the window around zero is a double one.
roundTimestamp(ts) ==
    IF ts >= 0 THEN (ts \div Window) * Window
               ELSE -(((-ts) \div Window) * Window)

-----------------------------------------------------------------------------

(* The text that is signed *)

Minus == 10   \* the character before the digits of a negative number

\* The digits of n, without leading zeros.
Digits[n \in 0..(-MinInt)] ==
    IF n < 10 THEN <<n>> ELSE Append(Digits[n \div 10], n % 10)

\* What %d writes.
Decimal(ts) == IF ts < 0 THEN <<Minus>> \o Digits[-ts] ELSE Digits[ts]

\* Mutant: the address is left out.
MessageWithoutIP(nodeUUID, nodeIP, ts) == nodeUUID \o Decimal(ts)

Message(nodeUUID, nodeIP, ts) == nodeUUID \o nodeIP \o Decimal(ts)

IdentifyMessage(nodeIP, ts) == nodeIP \o Decimal(ts)

-----------------------------------------------------------------------------

Sign(nodeUUID, nodeIP, timestamp) ==
    Message(nodeUUID, nodeIP, roundTimestamp(timestamp))

SignIdentify(nodeIP, timestamp) ==
    IdentifyMessage(nodeIP, roundTimestamp(timestamp))

\* Mutant: only the signer's next window is tried.
AcceptedWindowsAhead(timestamp) ==
    LET rounded == roundTimestamp(timestamp) IN
    {rounded, Wrap(rounded + Window)}

\* The windows in which a request with this timestamp may have been signed.
AcceptedWindows(timestamp) ==
    LET rounded == roundTimestamp(timestamp) IN
    {rounded, Wrap(rounded - Window), Wrap(rounded + Window)}

Verify(nodeUUID, nodeIP, timestamp, signature) ==
    \E ts \in AcceptedWindows(timestamp) : signature = Message(nodeUUID, nodeIP, ts)

VerifyIdentify(nodeIP, timestamp, signature) ==
    \E ts \in AcceptedWindows(timestamp) : signature = IdentifyMessage(nodeIP, ts)

\* Mutant: the sign of the difference is forgotten.
ValidatePast(timestamp, now) == Wrap(now - timestamp) <= Drift

\* Both the difference and its negation are cut to the word.
ValidateTimestamp(timestamp, now) ==
    LET diff == Wrap(now - timestamp) IN
    (IF diff < 0 THEN Wrap(-diff) ELSE diff) <= Drift

=============================================================================
