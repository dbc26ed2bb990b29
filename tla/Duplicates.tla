----------------------------- MODULE Duplicates -----------------------------
(***************************************************************************)
(* The duplicate detector: a bill against the bills on file.  A bill is    *)
(* [vendor, number, amount, date], each of them None when it is absent.    *)
(* Amounts are in cents, dates are days, likeness is in percent and        *)
(* confidence in 1/10000.                                                  *)
(***************************************************************************)
EXTENDS VendorMatching

CONSTANTS
    NumberKey,  \* the letters and digits of each invoice number, in capitals
    Tolerance   \* amounts that differ by this many percent count as equal

Numbers == DOMAIN NumberKey

ASSUME ToleranceAssumption == Tolerance \in 0..100 /\ None \notin Numbers

Absolute(n) == IF n < 0 THEN -n ELSE n
Larger(m, n) == IF m < n THEN n ELSE m
Smaller(m, n) == IF m < n THEN m ELSE n

-----------------------------------------------------------------------------
SameNumber(q, c) ==
    /\ q.number # None /\ c.number # None
    /\ NumberKey[q.number] = NumberKey[c.number]

VendorSimilarity(a, b) ==
    IF a = None \/ b = None THEN 0
    ELSE IF Normal(a) # <<>> /\ Normal(a) = Normal(b) THEN 100
    ELSE Likeness[<<Normal(a), Normal(b)>>]
VendorMatch(q, c) == VendorSimilarity(q.vendor, c.vendor) >= Threshold

\* Mutant: the difference is a percentage of the bill's own amount.
OwnBase(a, b) == Absolute(a)

Base(a, b) == Larger(Absolute(a), Absolute(b))

WithinTolerance(a, b) ==
    /\ a # None /\ b # None
    /\ Absolute(a - b) * 100 <= Tolerance * Base(a, b)

Closeness(a, b) ==
    IF a = None \/ b = None THEN 0
    ELSE IF a = b THEN 10000
    ELSE Larger(0, (10000 * (Base(a, b) - Absolute(a - b))) \div Base(a, b))

\* The verdict on one bill on file.
NoMatch == [type |-> "none", confidence |-> 0]
EvaluateCandidate(q, c) ==
    LET close == Closeness(q.amount, c.amount)
        near == 5000 + 30 * VendorSimilarity(q.vendor, c.vendor) + close \div 5
        dated == IF q.date # None /\ q.date = c.date THEN 500 ELSE 0
    IN  IF SameNumber(q, c) /\ VendorMatch(q, c)
        THEN [type |-> "exact", confidence |-> 9000 + close \div 10]
        ELSE IF VendorMatch(q, c) /\ WithinTolerance(q.amount, c.amount)
        THEN [type |-> "near", confidence |-> Smaller(10000, near + dated)]
        ELSE IF SameNumber(q, c) THEN [type |-> "near", confidence |-> 6000]
        ELSE NoMatch

\* The window reaches back from the bill's own date, and not forward.
InWindow(q, c, lookback) ==
    \/ lookback = None \/ q.date = None \/ c.date = None
    \/ c.date >= q.date - lookback

Matches(q, candidates, lookback) ==
    {c \in candidates : InWindow(q, c, lookback) /\ EvaluateCandidate(q, c) # NoMatch}

DetectDuplicates(q, candidates, lookback) ==
    LET found == {EvaluateCandidate(q, c) : c \in Matches(q, candidates, lookback)}
    IN  [isDuplicate |-> \E m \in found : m.type = "exact",
         isNear |-> \E m \in found : m.type = "near",
         highest |-> Largest({m.confidence : m \in found} \cup {0})]
=============================================================================
