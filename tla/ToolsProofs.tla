----------------------------- MODULE ToolsProofs -----------------------------
(***************************************************************************)
(* What the tools promise, for any bills, vendor masters, terms and lists  *)
(* of fields.  Each answer is computed in one step, so the invariant only  *)
(* says where an answer came from; the lemmas about the four algorithms    *)
(* do the work.  The same holds of an extraction, whose request is built   *)
(* file by file: the proof is an induction on the files, of sets of        *)
(* numbers (AllNumbers), because the recursion is that of functions.       *)
(***************************************************************************)
EXTENDS Tools, Extraction, FiniteSetTheorems, NaturalsInduction, TLAPS

\* The answers each tool gives.
FromTerms ==
  \E r \in Requests :
    asked = [tool |-> "terms", request |-> r, answer |-> CalculatePaymentTerms(r)]
FromCompleteness ==
  \E required \in Required, present \in SUBSET Fields, process, hold \in Thresholds :
    asked = [tool |-> "completeness", required |-> required, present |-> present,
             process |-> process, hold |-> hold,
             answer |-> CheckCompleteness(required, present, process, hold)]
FromNormalise ==
  \E raw \in Names, master \in Masters :
    asked = [tool |-> "normalise", raw |-> raw, master |-> master,
             answer |-> Resolved(raw, master)]
FromDuplicates ==
  \E bill, other \in Bills, lookback \in Lookbacks :
    asked = [tool |-> "duplicates", bill |-> bill, other |-> other, lookback |-> lookback,
             answer |-> DetectDuplicates(bill, {other}, lookback)]
FromProcess ==
  \E bill, other \in Bills, master \in Masters, lookback \in Lookbacks :
    \E name \in SearchNames(bill, master) :
      asked = [tool |-> "process", bill |-> bill, other |-> other, master |-> master,
               answer |-> DetectDuplicates([bill EXCEPT !.vendor = name], {other}, lookback)]

Answered ==
  \/ asked = Nothing
  \/ FromTerms \/ FromCompleteness \/ FromNormalise \/ FromDuplicates \/ FromProcess

LEMMA Answers == ToolsSpec => []Answered
<1>1. ToolsInit => Answered
  BY DEF ToolsInit, Answered
<1>2. Answered /\ [ToolsNext]_asked => Answered'
  <2> SUFFICES ASSUME Answered, [ToolsNext]_asked PROVE Answered'
    OBVIOUS
  <2>1. CASE asked' = asked
    BY <2>1 DEF Answered, FromTerms, FromCompleteness, FromNormalise, FromDuplicates, FromProcess
  <2>2. CASE ToolPaymentTerms
    BY <2>2 DEF ToolPaymentTerms, FromTerms, Answered
  <2>3. CASE ToolCompleteness
    BY <2>3 DEF ToolCompleteness, FromCompleteness, Answered
  <2>4. CASE ToolNormaliseVendor
    BY <2>4 DEF ToolNormaliseVendor, FromNormalise, Answered
  <2>5. CASE ToolDetectDuplicates
    BY <2>5 DEF ToolDetectDuplicates, FromDuplicates, Answered
  <2>6. CASE ProcessInvoice
    BY <2>6 DEF ProcessInvoice, FromProcess, Answered
  <2> QED BY <2>1, <2>2, <2>3, <2>4, <2>5, <2>6 DEF ToolsNext
<1> QED BY <1>1, <1>2, PTL DEF ToolsSpec

\* The tool is named in the answer.
LEMMA ByTool ==
  ASSUME Answered
  PROVE  /\ asked.tool = "terms" => FromTerms
         /\ asked.tool = "completeness" => FromCompleteness
         /\ asked.tool = "duplicates" => FromDuplicates
         /\ asked.tool = "process" => FromProcess
<1>1. asked = Nothing => asked.tool = "none"
  BY DEF Nothing
<1>2. FromTerms => asked.tool = "terms"
  BY DEF FromTerms
<1>3. FromCompleteness => asked.tool = "completeness"
  BY DEF FromCompleteness
<1>4. FromNormalise => asked.tool = "normalise"
  BY DEF FromNormalise
<1>5. FromDuplicates => asked.tool = "duplicates"
  BY DEF FromDuplicates
<1>6. FromProcess => asked.tool = "process"
  BY DEF FromProcess
<1> QED BY <1>1, <1>2, <1>3, <1>4, <1>5, <1>6 DEF Answered

-----------------------------------------------------------------------------
(* Division                                                                *)

\* A larger number of n-ths makes no fewer wholes.
LEMMA QuotientGrows ==
  ASSUME NEW a \in Int, NEW b \in Int, NEW n \in Nat \ {0}, a <= b
  PROVE  a \div n <= b \div n
<1>1. /\ a \div n \in Int /\ b \div n \in Int
      /\ a = n * (a \div n) + (a % n) /\ a % n \in 0..(n - 1)
      /\ b = n * (b \div n) + (b % n) /\ b % n \in 0..(n - 1)
  OBVIOUS
<1>2. SUFFICES ASSUME (b \div n) + 1 <= a \div n PROVE FALSE
  BY <1>1
<1>3. n * ((b \div n) + 1) <= n * (a \div n)
  BY <1>1, <1>2
<1>4. n * ((b \div n) + 1) = n * (b \div n) + n
  BY <1>1
<1> QED BY <1>1, <1>3, <1>4

-----------------------------------------------------------------------------
(* Duplicates                                                              *)

LEMMA NormalTyped ==
  ASSUME NEW name \in Names
  PROVE  Normal(name) \in NormalNames
BY DEF NormalNames

LEMMA SimilaritySymmetric ==
  ASSUME NEW a \in OrNone(Names), NEW b \in OrNone(Names)
  PROVE  /\ VendorSimilarity(a, b) = VendorSimilarity(b, a)
         /\ VendorSimilarity(a, b) \in 0..100
<1>1. CASE a = None \/ b = None
  BY <1>1 DEF VendorSimilarity
<1>2. CASE a # None /\ b # None
  <2>1. Normal(a) \in NormalNames /\ Normal(b) \in NormalNames
    BY <1>2, NormalTyped DEF OrNone
  <2>2. /\ Likeness[<<Normal(a), Normal(b)>>] = Likeness[<<Normal(b), Normal(a)>>]
        /\ Likeness[<<Normal(a), Normal(b)>>] \in 0..100
    BY <2>1, LikenessAssumption
  <2> QED BY <1>2, <2>2 DEF VendorSimilarity
<1> QED BY <1>1, <1>2

\* How close two amounts are does not depend on which is taken first.
LEMMA ClosenessSymmetric ==
  ASSUME NEW a \in OrNone(Int), NEW b \in OrNone(Int)
  PROVE  /\ Closeness(a, b) = Closeness(b, a)
         /\ WithinTolerance(a, b) <=> WithinTolerance(b, a)
         /\ Closeness(a, b) \in Nat
<1>1. CASE a = None \/ b = None
  BY <1>1 DEF Closeness, WithinTolerance
<1>2. CASE a # None /\ b # None
  <2>1. a \in Int /\ b \in Int
    BY <1>2 DEF OrNone
  <2>2. /\ Base(a, b) = Base(b, a) /\ Base(a, b) \in Nat
        /\ a # b => Base(a, b) > 0
        /\ Absolute(a - b) = Absolute(b - a) /\ Absolute(a - b) \in Nat
    BY <2>1 DEF Base, Absolute, Larger
  <2>3. WithinTolerance(a, b) <=> WithinTolerance(b, a)
    BY <1>2, <2>2 DEF WithinTolerance
  <2>4. Closeness(a, b) = Closeness(b, a)
    BY <1>2, <2>2 DEF Closeness
  <2>5. Closeness(a, b) \in Nat
    <3>1. CASE a = b
      BY <1>2, <3>1 DEF Closeness
    <3>2. CASE a # b
      <4> DEFINE share == (10000 * (Base(a, b) - Absolute(a - b))) \div Base(a, b)
      <4>1. share \in Int
        BY <2>2, <3>2
      <4>2. Closeness(a, b) = Larger(0, share)
        BY <1>2, <3>2 DEF Closeness
      <4> HIDE DEF share
      <4> QED BY <4>1, <4>2 DEF Larger
    <3> QED BY <3>1, <3>2
  <2> QED BY <2>3, <2>4, <2>5
<1> QED BY <1>1, <1>2

\* Of two bills each is the same match of the other, and a match has a confidence.
LEMMA EvaluateSymmetric ==
  ASSUME NEW q \in Bills, NEW c \in Bills
  PROVE  /\ EvaluateCandidate(q, c) = EvaluateCandidate(c, q)
         /\ EvaluateCandidate(q, c) # NoMatch =>
              /\ EvaluateCandidate(q, c).confidence \in Nat
              /\ EvaluateCandidate(q, c).confidence > 0
<1>1. /\ q.vendor \in OrNone(Names) /\ c.vendor \in OrNone(Names)
      /\ q.amount \in OrNone(Int) /\ c.amount \in OrNone(Int)
  BY ToolsAssumption
<1>2. /\ VendorSimilarity(q.vendor, c.vendor) = VendorSimilarity(c.vendor, q.vendor)
      /\ VendorSimilarity(q.vendor, c.vendor) \in 0..100
  BY <1>1, SimilaritySymmetric
<1>3. /\ Closeness(q.amount, c.amount) = Closeness(c.amount, q.amount)
      /\ WithinTolerance(q.amount, c.amount) <=> WithinTolerance(c.amount, q.amount)
      /\ Closeness(q.amount, c.amount) \in Nat
  BY <1>1, ClosenessSymmetric
<1>4. SameNumber(q, c) <=> SameNumber(c, q)
  BY DEF SameNumber
<1>5. VendorMatch(q, c) <=> VendorMatch(c, q)
  BY <1>2 DEF VendorMatch
<1>6. EvaluateCandidate(q, c) = EvaluateCandidate(c, q)
  <2>1. (q.date # None /\ q.date = c.date) <=> (c.date # None /\ c.date = q.date)
    OBVIOUS
  <2> QED BY <1>2, <1>3, <1>4, <1>5, <2>1 DEF EvaluateCandidate
<1>7. ASSUME EvaluateCandidate(q, c) # NoMatch
      PROVE  /\ EvaluateCandidate(q, c).confidence \in Nat
             /\ EvaluateCandidate(q, c).confidence > 0
  <2> DEFINE close == Closeness(q.amount, c.amount)
  <2> DEFINE near == 5000 + 30 * VendorSimilarity(q.vendor, c.vendor) + close \div 5
  <2> DEFINE dated == IF q.date # None /\ q.date = c.date THEN 500 ELSE 0
  <2>1. \/ EvaluateCandidate(q, c).confidence = 9000 + close \div 10
        \/ EvaluateCandidate(q, c).confidence = Smaller(10000, near + dated)
        \/ EvaluateCandidate(q, c).confidence = 6000
    BY <1>7 DEF EvaluateCandidate
  <2>2. close \in Nat
    BY <1>3
  <2>3. near + dated \in Nat /\ near + dated > 0
    BY <1>2, <2>2
  <2>4. 9000 + close \div 10 \in Nat /\ 9000 + close \div 10 > 0
    BY <2>2
  <2> HIDE DEF close, near, dated
  <2> QED BY <2>1, <2>3, <2>4 DEF Smaller
<1> QED BY <1>6, <1>7

\* What the detector finds when a single bill is on file.
LEMMA DetectOne ==
  ASSUME NEW q, NEW c, NEW lookback, InWindow(q, c, lookback),
         EvaluateCandidate(q, c) # NoMatch
  PROVE  LET answer == DetectDuplicates(q, {c}, lookback)
             m == EvaluateCandidate(q, c)
         IN  /\ answer.isDuplicate <=> m.type = "exact"
             /\ answer.isNear <=> m.type = "near"
             /\ m.confidence \in Nat /\ m.confidence > 0 => answer.highest > 0
<1> DEFINE m == EvaluateCandidate(q, c)
<1> DEFINE found == {EvaluateCandidate(q, b) : b \in Matches(q, {c}, lookback)}
<1>1. Matches(q, {c}, lookback) = {c}
  BY DEF Matches
<1>2. found = {m}
  BY <1>1
<1>3. /\ DetectDuplicates(q, {c}, lookback).isDuplicate <=> \E n \in found : n.type = "exact"
      /\ DetectDuplicates(q, {c}, lookback).isNear <=> \E n \in found : n.type = "near"
      /\ DetectDuplicates(q, {c}, lookback).highest = Largest({n.confidence : n \in found} \cup {0})
  BY DEF DetectDuplicates
<1>4. ASSUME m.confidence \in Nat, m.confidence > 0
      PROVE  DetectDuplicates(q, {c}, lookback).highest > 0
  <2>1. {n.confidence : n \in found} \cup {0} = {m.confidence, 0}
    BY <1>2
  <2>2. Largest({m.confidence, 0}) = m.confidence
    BY <1>4 DEF Largest
  <2> QED BY <1>3, <1>4, <2>1, <2>2
<1> QED BY <1>2, <1>3, <1>4

\* Two bills with dates: one of them is not before the other.
LEMMA OneInWindow ==
  ASSUME NEW q \in Bills, NEW c \in Bills, NEW lookback \in Lookbacks
  PROVE  InWindow(q, c, lookback) \/ InWindow(c, q, lookback)
<1>1. CASE lookback = None \/ q.date = None \/ c.date = None
  BY <1>1 DEF InWindow
<1>2. CASE lookback # None /\ q.date # None /\ c.date # None
  <2>1. lookback \in Nat /\ q.date \in Int /\ c.date \in Int
    BY <1>2, ToolsAssumption DEF OrNone
  <2> QED BY <2>1 DEF InWindow
<1> QED BY <1>1, <1>2

\* Whichever of two bills is checked, it is the same match of the other, and
\* the one checked last finds it (duplicate_detector.py:25-142).
THEOREM Mutual == ToolsSpec => []DuplicateIsMutual
<1>1. Answered => DuplicateIsMutual
  <2> SUFFICES ASSUME Answered, asked.tool = "duplicates" PROVE DuplicateIsMutual
    BY DEF DuplicateIsMutual
  <2>1. PICK bill \in Bills, other \in Bills, lookback \in Lookbacks :
          asked = [tool |-> "duplicates", bill |-> bill, other |-> other, lookback |-> lookback,
                   answer |-> DetectDuplicates(bill, {other}, lookback)]
    BY ByTool DEF FromDuplicates
  <2> DEFINE match == EvaluateCandidate(bill, other)
  <2>2. /\ match = EvaluateCandidate(other, bill)
        /\ match # NoMatch => match.confidence \in Nat /\ match.confidence > 0
    BY EvaluateSymmetric
  <2>3. ASSUME match # NoMatch
        PROVE  \/ DetectDuplicates(bill, {other}, lookback).highest > 0
               \/ DetectDuplicates(other, {bill}, lookback).highest > 0
    <3>1. CASE InWindow(bill, other, lookback)
      BY <2>2, <2>3, <3>1, DetectOne
    <3>2. CASE InWindow(other, bill, lookback)
      BY <2>2, <2>3, <3>2, DetectOne
    <3> QED BY <3>1, <3>2, OneInWindow
  <2>4. /\ asked.bill = bill /\ asked.other = other /\ asked.lookback = lookback
        /\ asked.answer = DetectDuplicates(bill, {other}, lookback)
    BY <2>1
  <2>5. match # NoMatch => \/ asked.answer.highest > 0
                           \/ DetectDuplicates(asked.other, {asked.bill}, asked.lookback).highest > 0
    BY <2>3, <2>4
  <2> HIDE DEF match
  <2>6. EvaluateCandidate(asked.bill, asked.other) = match
    BY <2>4 DEF match
  <2>7. EvaluateCandidate(asked.other, asked.bill) = match
    BY <2>2, <2>4 DEF match
  <2> QED BY <2>5, <2>6, <2>7 DEF DuplicateIsMutual
<1> QED BY <1>1, Answers, PTL

\* A vendor the search may go under, when no alias is involved, is written like
\* the bill's own name, or near enough for the detector.
LEMMA ResolvedAlike ==
  ASSUME NEW bill \in Bills, NEW other \in Bills, NEW master \in Masters,
         SameBill(bill, other),
         \A m \in Resolved(bill.vendor, master) : m.type # "alias" /\ m.vendor.aliases = {},
         NEW name \in SearchNames(bill, master)
  PROVE  VendorSimilarity(name, other.vendor) >= Threshold
<1>1. /\ bill.vendor \in Names /\ other.vendor \in Names
      /\ bill.vendor # None /\ other.vendor # None
      /\ Normal(bill.vendor) = Normal(other.vendor) /\ Normal(bill.vendor) # <<>>
  BY ToolsAssumption DEF SameBill, OrNone
<1>2. Threshold \in 0..100
  BY LikenessAssumption
<1>3. CASE Resolved(bill.vendor, master) = {}
  <2>1. name = bill.vendor
    BY <1>3 DEF SearchNames
  <2>2. VendorSimilarity(bill.vendor, other.vendor) = 100
    BY <1>1 DEF VendorSimilarity
  <2> QED BY <1>2, <2>1, <2>2
<1>4. CASE Resolved(bill.vendor, master) # {}
  <2>1. PICK m \in Resolved(bill.vendor, master) : name = m.vendor.name
    BY <1>1, <1>4 DEF SearchNames
  <2>2. PICK vendor \in master : m = Match(bill.vendor, vendor)
    BY DEF Resolved
  <2>3. m.type # "fuzzy" \/ m.score >= Threshold
    BY DEF Resolved
  <2>4. m.type # "alias" /\ m.vendor.aliases = {}
    OBVIOUS
  <2>5. m.vendor = vendor
    BY <2>2 DEF Match
  <2>6. vendor.name \in Names /\ vendor.name # None /\ vendor.aliases = {} /\ name = vendor.name
    BY <2>1, <2>4, <2>5, ToolsAssumption, LikenessAssumption
  <2>7. CASE Normal(vendor.name) = Normal(bill.vendor)
    <3>1. VendorSimilarity(vendor.name, other.vendor) = 100
      BY <1>1, <2>6, <2>7 DEF VendorSimilarity
    <3> QED BY <1>2, <2>6, <3>1
  <2>8. CASE Normal(vendor.name) # Normal(bill.vendor)
    <3> DEFINE likeness == Likeness[<<Normal(bill.vendor), Normal(vendor.name)>>]
    <3> DEFINE alike == {Likeness[<<Normal(bill.vendor), Normal(n)>>] :
                            n \in {vendor.name} \cup vendor.aliases}
    <3>1. m = [vendor |-> vendor, type |-> "fuzzy", score |-> Largest(alike)]
      BY <2>2, <2>6, <2>8 DEF Match
    <3>2. alike = {likeness}
      BY <2>6
    <3>3. likeness \in 0..100 /\ likeness = Likeness[<<Normal(vendor.name), Normal(bill.vendor)>>]
      BY <1>1, <2>6, NormalTyped, LikenessAssumption
    <3> HIDE DEF likeness, alike
    <3>4. Largest(alike) = likeness
      BY <3>2, <3>3 DEF Largest
    <3>5. likeness >= Threshold
      BY <2>3, <3>1, <3>4
    <3>6. VendorSimilarity(vendor.name, other.vendor) = likeness
      BY <1>1, <2>6, <2>8, <3>3 DEF VendorSimilarity
    <3> QED BY <2>6, <3>5, <3>6
  <2> QED BY <2>7, <2>8
<1> QED BY <1>3, <1>4

\* A bill that is sent twice is found, and rejected unless its vendor goes by
\* an alias (orchestrator.py:249).
THEOREM Caught == ToolsSpec => []CopyIsCaught
<1>1. Answered => CopyIsCaught
  <2> SUFFICES ASSUME Answered, asked.tool = "process", SameBill(asked.bill, asked.other)
               PROVE  CopyIsCaught
    BY DEF CopyIsCaught
  <2>1. PICK bill \in Bills, other \in Bills, master \in Masters, lookback \in Lookbacks :
          \E name \in SearchNames(bill, master) :
            asked = [tool |-> "process", bill |-> bill, other |-> other, master |-> master,
                     answer |-> DetectDuplicates([bill EXCEPT !.vendor = name], {other}, lookback)]
    BY ByTool DEF FromProcess
  <2>2. PICK name \in SearchNames(bill, master) :
          asked = [tool |-> "process", bill |-> bill, other |-> other, master |-> master,
                   answer |-> DetectDuplicates([bill EXCEPT !.vendor = name], {other}, lookback)]
    BY <2>1
  <2> DEFINE q == [bill EXCEPT !.vendor = name]
  <2> DEFINE m == EvaluateCandidate(q, other)
  <2>3. /\ asked.bill = bill /\ asked.other = other /\ asked.master = master
        /\ asked.answer = DetectDuplicates(q, {other}, lookback)
    BY <2>2
  <2>4. SameBill(bill, other)
    BY <2>3
  <2>5. /\ q.vendor = name /\ q.number = bill.number
        /\ q.amount = bill.amount /\ q.date = bill.date
    BY ToolsAssumption
  <2> HIDE DEF q
  <2>6. InWindow(q, other, lookback)
    <3>1. q.date = other.date
      BY <2>4, <2>5 DEF SameBill
    <3>2. CASE lookback = None \/ q.date = None
      BY <3>2 DEF InWindow
    <3>3. CASE lookback # None /\ q.date # None
      <4>1. lookback \in Nat /\ other.date \in Int
        BY <3>1, <3>3, ToolsAssumption DEF OrNone
      <4> QED BY <3>1, <4>1 DEF InWindow
    <3> QED BY <3>2, <3>3
  <2>7. SameNumber(q, other)
    BY <2>4, <2>5 DEF SameBill, SameNumber
  <2>8. m.type \in {"exact", "near"} /\ (VendorMatch(q, other) => m.type = "exact")
    BY <2>7 DEF EvaluateCandidate
  <2>9. m # NoMatch
    BY <2>8 DEF NoMatch
  <2>10. /\ asked.answer.isDuplicate <=> m.type = "exact"
         /\ asked.answer.isNear <=> m.type = "near"
    BY <2>3, <2>6, <2>9, DetectOne
  <2>11. ASSUME \A k \in Resolved(bill.vendor, master) : k.type # "alias" /\ k.vendor.aliases = {}
         PROVE  asked.answer.isDuplicate
    <3>1. VendorSimilarity(name, other.vendor) >= Threshold
      BY <2>4, <2>11, ResolvedAlike
    <3> QED BY <2>5, <2>8, <2>10, <3>1 DEF VendorMatch
  <2> QED BY <2>3, <2>8, <2>10, <2>11 DEF CopyIsCaught
<1> QED BY <1>1, Answers, PTL

-----------------------------------------------------------------------------
(* Payment terms                                                           *)

LEMMA MonthEnd ==
  ASSUME NEW date, IsDate(date)
  PROVE  /\ EndOfMonth(date)
              = Ordinal(date.year, date.month, MonthLength(date.year, date.month))
         /\ EndOfMonth(date) \in Int /\ Day(date) \in Int
         /\ Day(date) <= EndOfMonth(date)
<1> DEFINE years == 365 * (date.year - 1) + (date.year - 1) \div 4 - (date.year - 1) \div 100
                      + (date.year - 1) \div 400
<1> DEFINE extra == IF Leap(date.year) THEN 1 ELSE 0
<1>1. date.year \in Int /\ date.month \in 1..12 /\ date.day \in 1..MonthLength(date.year, date.month)
  BY DEF IsDate
<1>2. years \in Int /\ extra \in {0, 1}
  BY <1>1
<1>3. \A month \in 1..12, day \in Int :
        Ordinal(date.year, month, day)
          = years + DaysBeforeMonth[month] + (IF month > 2 THEN extra ELSE 0) + day
  BY DEF Ordinal
<1>4. MonthLength(date.year, 2) = 28 + extra
  BY DEF MonthLength
<1>5. Ordinal(date.year, 12, 31) = Ordinal(date.year, 12, MonthLength(date.year, 12))
  BY DEF MonthLength
<1> HIDE DEF years, extra
<1>6. \A month \in 1..12 : MonthLength(date.year, month) \in Int
  BY <1>2, <1>4 DEF MonthLength
<1>7. \A month \in 1..12 : DaysBeforeMonth[month] \in Int
  BY DEF DaysBeforeMonth
<1>8. \A month \in 1..11 :
        (DaysBeforeMonth[month + 1] + (IF month + 1 > 2 THEN extra ELSE 0))
          = DaysBeforeMonth[month] + (IF month > 2 THEN extra ELSE 0) + MonthLength(date.year, month)
  <2>1. \A month \in 1..11 :
          DaysBeforeMonth[month + 1] - DaysBeforeMonth[month]
            = IF month = 2 THEN 28 ELSE IF month \in {4, 6, 9, 11} THEN 30 ELSE 31
    BY DEF DaysBeforeMonth
  <2> QED BY <1>2, <1>4, <1>7, <2>1 DEF MonthLength
<1>9. \A month \in 1..11 :
        Ordinal(date.year, month + 1, 1) - 1
          = Ordinal(date.year, month, MonthLength(date.year, month))
  <2> SUFFICES ASSUME NEW month \in 1..11
               PROVE  Ordinal(date.year, month + 1, 1) - 1
                        = Ordinal(date.year, month, MonthLength(date.year, month))
    OBVIOUS
  <2>1. /\ month \in 1..12 /\ month + 1 \in 1..12 /\ MonthLength(date.year, month) \in Int
        /\ DaysBeforeMonth[month] \in Int /\ DaysBeforeMonth[month + 1] \in Int
    BY <1>6, <1>7
  <2>2. Ordinal(date.year, month + 1, 1)
          = years + DaysBeforeMonth[month + 1] + (IF month + 1 > 2 THEN extra ELSE 0) + 1
    BY <1>3, <2>1
  <2>3. Ordinal(date.year, month, MonthLength(date.year, month))
          = years + DaysBeforeMonth[month] + (IF month > 2 THEN extra ELSE 0)
              + MonthLength(date.year, month)
    BY <1>3, <2>1
  <2>4. (DaysBeforeMonth[month + 1] + (IF month + 1 > 2 THEN extra ELSE 0))
          = DaysBeforeMonth[month] + (IF month > 2 THEN extra ELSE 0) + MonthLength(date.year, month)
    BY <1>8
  <2> DEFINE shift == IF month > 2 THEN extra ELSE 0
  <2> DEFINE shiftNext == IF month + 1 > 2 THEN extra ELSE 0
  <2>5. shift \in Int /\ shiftNext \in Int
    BY <1>2
  <2> HIDE DEF shift, shiftNext
  <2>6. /\ Ordinal(date.year, month + 1, 1) = years + DaysBeforeMonth[month + 1] + shiftNext + 1
        /\ Ordinal(date.year, month, MonthLength(date.year, month))
              = years + DaysBeforeMonth[month] + shift + MonthLength(date.year, month)
        /\ DaysBeforeMonth[month + 1] + shiftNext
              = DaysBeforeMonth[month] + shift + MonthLength(date.year, month)
    BY <2>2, <2>3, <2>4 DEF shift, shiftNext
  <2> DEFINE len == MonthLength(date.year, month)
  <2> DEFINE before == DaysBeforeMonth[month]
  <2> DEFINE beforeNext == DaysBeforeMonth[month + 1]
  <2> DEFINE last == Ordinal(date.year, month, len)
  <2> DEFINE firstNext == Ordinal(date.year, month + 1, 1)
  <2>7. /\ years \in Int /\ len \in Int /\ before \in Int /\ beforeNext \in Int
        /\ shift \in Int /\ shiftNext \in Int
        /\ firstNext = years + beforeNext + shiftNext + 1
        /\ last = years + before + shift + len
        /\ beforeNext + shiftNext = before + shift + len
    BY <1>2, <2>1, <2>5, <2>6
  <2> HIDE DEF len, before, beforeNext, last, firstNext
  <2>8. firstNext - 1 = last
    BY <2>7
  <2> QED BY <2>8 DEF firstNext, last, len
<1>10. EndOfMonth(date) = Ordinal(date.year, date.month, MonthLength(date.year, date.month))
  BY <1>1, <1>5, <1>9 DEF EndOfMonth
<1>11. Day(date) \in Int /\ EndOfMonth(date) \in Int /\ Day(date) <= EndOfMonth(date)
  <2> DEFINE first == years + DaysBeforeMonth[date.month] + (IF date.month > 2 THEN extra ELSE 0)
  <2>1. first \in Int
    BY <1>1, <1>2, <1>7
  <2>2. MonthLength(date.year, date.month) \in Int
    BY <1>1, <1>6
  <2>3. /\ Day(date) = first + date.day
        /\ EndOfMonth(date) = first + MonthLength(date.year, date.month)
    BY <1>1, <1>3, <1>10, <2>2 DEF Day
  <2> HIDE DEF first
  <2> QED BY <1>1, <2>1, <2>2, <2>3
<1> QED BY <1>10, <1>11

\* The discount and what is left make the amount, as it is rounded.
LEMMA DiscountAddsUp ==
  ASSUME NEW amount \in Int, NEW d \in Int, amount >= 10 * d, amount > 0
  PROVE  d + HalfUp(amount - 10 * d, 10) = HalfUp(amount, 10)
BY DEF HalfUp

\* Dates, days and amounts of an answer agree (payment_terms.py:65-128).
THEOREM AddUp == ToolsSpec => []TermsAddUp
<1>1. Answered => TermsAddUp
  <2> SUFFICES ASSUME Answered, asked.tool = "terms",
                      asked.answer \notin {NotParsed, Failed} PROVE TermsAddUp
    BY DEF TermsAddUp
  <2>1. PICK r \in Requests :
          asked = [tool |-> "terms", request |-> r, answer |-> CalculatePaymentTerms(r)]
    BY ByTool DEF FromTerms
  <2> DEFINE a == CalculatePaymentTerms(r)
  <2> DEFINE kind == TermType(r.terms)
  <2> DEFINE asOf == IF r.asOf = NoTerm THEN r.date ELSE r.asOf
  <2>2. asked.request = r /\ asked.answer = a /\ a # NotParsed /\ a # Failed
    BY <2>1
  <2>3. kind # "unknown" /\ ~OutOfRange(r.terms, r.date)
    BY <2>2 DEF CalculatePaymentTerms
  <2> DEFINE discounted == kind = "discount" /\ r.amount # NoTerm /\ r.amount > 0
  <2> DEFINE deadline == Day(r.date) + r.terms.discount.days
  <2>4. /\ a.termType = kind
        /\ a.netDays = NetDays(r.terms, r.date)
        /\ a.due = DueDay(r.terms, r.date)
        /\ a.daysUntilDue = DueDay(r.terms, r.date) - Day(asOf)
        /\ kind = "discount" => a.daysUntilDeadline = deadline - Day(asOf)
        /\ kind # "discount" => a.deadline = NoTerm /\ a.discount = NoTerm
        /\ a.discount # NoTerm =>
             /\ kind = "discount" /\ r.amount # NoTerm /\ r.amount > 0
             /\ a.discount = DiscountAmount(r.amount, r.terms.discount.percent)
             /\ a.afterDiscount = AmountAfterDiscount(r.amount, r.terms.discount.percent)
    <3>1. a = [termType |-> kind,
               netDays |-> NetDays(r.terms, r.date),
               due |-> DueDay(r.terms, r.date),
               daysUntilDue |-> DueDay(r.terms, r.date) - Day(asOf),
               deadline |-> IF kind = "discount" THEN deadline ELSE NoTerm,
               daysUntilDeadline |-> IF kind = "discount" THEN deadline - Day(asOf) ELSE NoTerm,
               discount |-> IF discounted
                   THEN DiscountAmount(r.amount, r.terms.discount.percent) ELSE NoTerm,
               afterDiscount |-> IF discounted
                   THEN AmountAfterDiscount(r.amount, r.terms.discount.percent) ELSE NoTerm]
      BY <2>3, Zenon DEF CalculatePaymentTerms
    <3> HIDE DEF a, kind, asOf, deadline
    <3> QED BY <3>1
  <2>5. /\ IsDate(r.date) /\ IsDate(asOf)
        /\ r.amount \in OrNoTerm(Int)
        /\ r.terms.discount \in OrNoTerm([percent : Nat, days : Nat, net : Nat])
        /\ r.terms.eom \in OrNoTerm(Nat) /\ r.terms.net \in OrNoTerm(Nat)
    BY ToolsAssumption
  <2>6. /\ kind \in {"due_on_receipt", "cod", "discount", "eom", "net"}
        /\ kind = "discount" => r.terms.discount \in [percent : Nat, days : Nat, net : Nat]
        /\ kind = "eom" => r.terms.eom \in Nat
        /\ kind = "net" => r.terms.net \in Nat
    BY <2>3, <2>5 DEF TermType, OrNoTerm
  <2>7. /\ EndOfMonth(r.date)
              = Ordinal(r.date.year, r.date.month, MonthLength(r.date.year, r.date.month))
        /\ EndOfMonth(r.date) \in Int /\ Day(r.date) \in Int /\ Day(asOf) \in Int
        /\ Day(r.date) <= EndOfMonth(r.date)
    BY <2>5, MonthEnd
  <2> HIDE DEF a, kind, asOf
  <2>8. /\ kind = "discount" => /\ DueDay(r.terms, r.date) = Day(r.date) + r.terms.discount.net
                                /\ NetDays(r.terms, r.date) = r.terms.discount.net
        /\ kind = "eom" => /\ DueDay(r.terms, r.date) = EndOfMonth(r.date) + r.terms.eom
                           /\ NetDays(r.terms, r.date) = DueDay(r.terms, r.date) - Day(r.date)
        /\ kind = "net" => /\ DueDay(r.terms, r.date) = Day(r.date) + r.terms.net
                           /\ NetDays(r.terms, r.date) = r.terms.net
        /\ kind \in {"due_on_receipt", "cod"} =>
             DueDay(r.terms, r.date) = Day(r.date) /\ NetDays(r.terms, r.date) = 0
    BY DEF kind, DueDay, NetDays
  <2>9. a.due = Day(r.date) + a.netDays /\ a.netDays >= 0
    BY <2>4, <2>6, <2>7, <2>8
  <2>10. a.termType = "eom" =>
           a.due - r.terms.eom
             = Ordinal(r.date.year, r.date.month, MonthLength(r.date.year, r.date.month))
    BY <2>4, <2>6, <2>7, <2>8
  <2>11. a.deadline # NoTerm =>
           a.daysUntilDue - a.daysUntilDeadline = r.terms.discount.net - r.terms.discount.days
    BY <2>4, <2>6, <2>7, <2>8
  <2>12. ASSUME a.discount # NoTerm, r.amount >= 10 * a.discount
         PROVE  a.discount + a.afterDiscount = HalfUp(r.amount, 10)
    <3> DEFINE d == DiscountAmount(r.amount, r.terms.discount.percent)
    <3>1. /\ a.discount = d /\ a.afterDiscount = HalfUp(r.amount - 10 * d, 10)
          /\ r.amount > 0 /\ r.amount \in Int
      BY <2>4, <2>5, <2>12 DEF AmountAfterDiscount, OrNoTerm
    <3>2. r.terms.discount.percent \in Nat
      BY <2>4, <2>6, <2>12
    <3>3. r.amount * r.terms.discount.percent \in Int
      BY <3>1, <3>2
    <3>4. d \in Int
      BY <3>3 DEF DiscountAmount, HalfUp
    <3> HIDE DEF d
    <3> QED BY <2>12, <3>1, <3>4, DiscountAddsUp
  <2> QED BY <2>2, <2>9, <2>10, <2>11, <2>12 DEF TermsAddUp
<1> QED BY <1>1, Answers, PTL

-----------------------------------------------------------------------------
(* Completeness                                                            *)

LEMMA CountGrows ==
  ASSUME NEW required \in Required, NEW present, NEW field
  PROVE  /\ PresentCount(required, present) \in Nat
         /\ PresentCount(required, present \cup {field}) \in Nat
         /\ PresentCount(required, present) <= PresentCount(required, present \cup {field})
         /\ Len(required) \in Nat /\ (required # <<>> => Len(required) > 0)
<1> DEFINE some == {i \in DOMAIN required : required[i] \in present}
<1> DEFINE more == {i \in DOMAIN required : required[i] \in present \cup {field}}
<1>1. required \in Seq({required[i] : i \in DOMAIN required})
  BY ToolsAssumption
<1>2. Len(required) \in Nat /\ DOMAIN required = 1..Len(required)
  BY <1>1
<1>3. IsFiniteSet(DOMAIN required)
  BY <1>2, FS_Interval
<1>4. IsFiniteSet(more)
  BY <1>3, FS_Subset
<1>5. /\ IsFiniteSet(some) /\ Cardinality(some) <= Cardinality(more)
  BY <1>4, FS_Subset
<1>6. Cardinality(some) \in Nat /\ Cardinality(more) \in Nat
  BY <1>4, <1>5, FS_CardinalityType
<1>7. required # <<>> => Len(required) > 0
  BY <1>1, <1>2
<1> QED BY <1>2, <1>5, <1>6, <1>7 DEF PresentCount

LEMMA ScoreGrows ==
  ASSUME NEW required \in Required, NEW present, NEW field
  PROVE  /\ Score(required, present) \in Int
         /\ Score(required, present \cup {field}) \in Int
         /\ Score(required, present) <= Score(required, present \cup {field})
<1>1. CASE required = <<>>
  BY <1>1 DEF Score
<1>2. CASE required # <<>>
  <2> DEFINE n == 2 * Len(required)
  <2> DEFINE x == 20000 * PresentCount(required, present) + Len(required)
  <2> DEFINE y == 20000 * PresentCount(required, present \cup {field}) + Len(required)
  <2>1. x \in Int /\ y \in Int /\ x <= y /\ n \in Nat \ {0}
    <3>1. /\ PresentCount(required, present) \in Nat
          /\ PresentCount(required, present \cup {field}) \in Nat
          /\ PresentCount(required, present) <= PresentCount(required, present \cup {field})
          /\ Len(required) \in Nat /\ Len(required) > 0
      BY <1>2, CountGrows
    <3> QED BY <3>1
  <2>2. Score(required, present) = x \div n /\ Score(required, present \cup {field}) = y \div n
    BY <1>2 DEF Score
  <2> HIDE DEF n, x, y
  <2>3. x \div n \in Int /\ y \div n \in Int
    BY <2>1
  <2> QED BY <2>1, <2>2, <2>3, QuotientGrows
<1> QED BY <1>1, <1>2

\* A field more never makes the recommendation worse, however the thresholds
\* lie (completeness.py:40-53).
THEOREM Monotone == ToolsSpec => []CompletenessMonotone
<1>1. Answered => CompletenessMonotone
  <2> SUFFICES ASSUME Answered, asked.tool = "completeness", NEW field \in Fields
               PROVE  ActionRank[CheckCompleteness(asked.required, asked.present \cup {field},
                                                   asked.process, asked.hold)]
                        >= ActionRank[asked.answer]
    BY DEF CompletenessMonotone
  <2>1. PICK required \in Required, present \in SUBSET Fields,
             process \in Thresholds, hold \in Thresholds :
          asked = [tool |-> "completeness", required |-> required, present |-> present,
                   process |-> process, hold |-> hold,
                   answer |-> CheckCompleteness(required, present, process, hold)]
    BY ByTool DEF FromCompleteness
  <2>2. /\ asked.required = required /\ asked.present = present
        /\ asked.process = process /\ asked.hold = hold
        /\ asked.answer = CheckCompleteness(required, present, process, hold)
    BY <2>1
  <2>3. process \in Int /\ hold \in Int
    BY ToolsAssumption
  <2>4. \A m, n \in Int : m <= n =>
          ActionRank[RecommendedAction(n, process, hold)]
            >= ActionRank[RecommendedAction(m, process, hold)]
    BY <2>3 DEF RecommendedAction, ActionRank
  <2> QED BY <2>2, <2>4, ScoreGrows DEF CheckCompleteness
<1> QED BY <1>1, Answers, PTL

-----------------------------------------------------------------------------
(* Extraction: recursion                                                   *)

\* Induction, of a set and not of an operator: a set with 0 and every successor has
\* every number.
LEMMA AllNumbers ==
  ASSUME NEW S \in SUBSET Nat, 0 \in S, \A n \in S : n + 1 \in S
  PROVE  S = Nat
<1> DEFINE R == OpToRel(<, Nat)
<1>1. \A m, n \in Nat : m < n => <<m, n>> \in R
  BY DEF OpToRel
<1>2. IsWellFoundedOn(R, Nat)
  BY NatLessThanWellFounded
<1> HIDE DEF R
<1>3. SUFFICES ASSUME Nat \ S # {} PROVE FALSE
  OBVIOUS
<1>4. PICK n \in Nat \ S : \A m \in Nat \ S : ~ (<<m, n>> \in R)
  BY <1>2, <1>3, WFMin
<1>5. n # 0 /\ n - 1 \in Nat /\ n - 1 < n /\ (n - 1) + 1 = n
  <2>1. n \in Nat /\ n # 0
    BY <1>4
  <2> QED BY <2>1
<1>6. n - 1 \in S
  BY <1>1, <1>4, <1>5
<1> QED BY <1>4, <1>5, <1>6

\* f is computed from `start', number by number up to N.
Recursion(N, S, start, step, f) ==
  /\ f \in [0..N -> S] /\ f[0] = start
  /\ \A n \in 1..N : f[n] = step[<<f[n - 1], n>>]

\* A function that is defined by recursion on the numbers up to N exists.
LEMMA RecursionExists ==
  ASSUME NEW N \in Nat, NEW S, NEW start \in S, NEW step \in [S \X (1..N) -> S]
  PROVE  \E f : Recursion(N, S, start, step, f)
<1> DEFINE Runs(m, f) == /\ f \in [0..m -> S] /\ f[0] = start
                         /\ \A n \in 1..m : f[n] = step[<<f[n - 1], n>>]
           Reached == {m \in Nat : m <= N => \E f : Runs(m, f)}
<1>1. 0 \in Reached
  <2>1. Runs(0, [n \in 0..0 |-> start])
    OBVIOUS
  <2> QED BY <2>1
<1>2. ASSUME NEW m \in Reached PROVE m + 1 \in Reached
  <2> SUFFICES ASSUME m + 1 <= N PROVE \E f : Runs(m + 1, f)
    OBVIOUS
  <2>1. m \in Nat /\ \E f : Runs(m, f)
    OBVIOUS
  <2>2. PICK f : Runs(m, f)
    BY <2>1
  <2> DEFINE g == [n \in 0..(m + 1) |-> IF n = m + 1 THEN step[<<f[m], m + 1>>] ELSE f[n]]
  <2>3. f[m] \in S /\ m + 1 \in 1..N
    BY <2>1, <2>2
  <2>4. step[<<f[m], m + 1>>] \in S
    BY <2>3
  <2>5. g \in [0..(m + 1) -> S] /\ g[0] = start
    BY <2>1, <2>2, <2>4
  <2>6. ASSUME NEW n \in 1..(m + 1) PROVE g[n] = step[<<g[n - 1], n>>]
    <3>1. CASE n = m + 1
      <4>1. m + 1 \in 0..(m + 1) /\ m \in 0..(m + 1) /\ m # m + 1 /\ (m + 1) - 1 = m
        BY <2>1
      <4>2. g[m + 1] = step[<<f[m], m + 1>>] /\ g[m] = f[m]
        BY <4>1
      <4> QED BY <3>1, <4>1, <4>2
    <3>2. CASE n # m + 1
      <4>1. n \in 1..m /\ n - 1 \in 0..m /\ n - 1 # m + 1 /\ n \in 0..(m + 1) /\ n - 1 \in 0..(m + 1)
        BY <2>1, <3>2
      <4>2. g[n] = f[n] /\ g[n - 1] = f[n - 1]
        BY <3>2, <4>1
      <4> QED BY <2>2, <4>1, <4>2
    <3> QED BY <3>1, <3>2
  <2> HIDE DEF g
  <2>7. Runs(m + 1, g)
    BY <2>5, <2>6
  <2> QED BY <2>7
<1>3. Reached = Nat
  <2> HIDE DEF Reached
  <2>1. Reached \in SUBSET Nat
    BY DEF Reached
  <2> QED BY <1>1, <1>2, <2>1, AllNumbers
<1>4. N \in Reached
  BY <1>3
<1> QED BY <1>4 DEF Recursion

-----------------------------------------------------------------------------
(* Extraction: the provider                                                *)

\* What is settled of a call: it was refused before anything was sent, or the
\* request was made of the files and the settings it names.
Refused(files, s) ==
  \E outcome : extraction = [sent |-> FALSE, files |-> files, settings |-> s, outcome |-> outcome]
Requested(files, s) ==
  \E hasText \in BOOLEAN, schema \in Schemas : \E outcome :
    extraction = [sent |-> TRUE, files |-> files, settings |-> s, schema |-> schema,
                  request |-> ToolRequest(s, Content(hasText, files), schema),
                  outcome |-> outcome]
Settled ==
  \/ extraction = NoCall
  \/ \E files \in Seq(Files), s \in [provider : ProviderNames, keys : SUBSET ProviderNames] :
       \/ Refused(files, s)
       \/ LlmAvailable(s) /\ Built(files).failure = "none" /\ Requested(files, s)

\* The single file and the list are one list of files.
LEMMA FilesCollected ==
  ASSUME NEW single \in Singles, NEW list \in Uploads
  PROVE  CollectSpecs(single, list) \in Seq(Files)
<1>1. single \in Seq(Files) /\ list \in Seq(Files)
  BY ExtractionAssumption
<1> QED BY <1>1 DEF CollectSpecs

LEMMA SettledHolds == ExtractionSpec => []Settled
<1>1. ExtractionInit => Settled
  BY DEF ExtractionInit, Settled
<1>2. Settled /\ [ExtractionNext]_extraction => Settled'
  <2> SUFFICES ASSUME Settled, [ExtractionNext]_extraction PROVE Settled'
    OBVIOUS
  <2>1. CASE extraction' = extraction
    BY <2>1 DEF Settled, Refused, Requested
  <2>2. CASE ExtractionNext
    <3>1. PICK single \in Singles, list \in Uploads, hasText \in BOOLEAN,
               provider \in ProviderNames, keys \in SUBSET ProviderNames :
            LET files == CollectSpecs(single, list)
                s == [provider |-> provider, keys |-> keys]
                failure == Built(files).failure
                empty == Len(Content(hasText, files)) = 1
            IN  \/ ~Accepted(files) /\ Refuse(files, s, "refused")
                \/ Accepted(files) /\ ~LlmAvailable(s) /\ Refuse(files, s, "unavailable")
                \/ Accepted(files) /\ LlmAvailable(s) /\ failure # "none" /\ Refuse(files, s, failure)
                \/ /\ Accepted(files) /\ LlmAvailable(s) /\ failure = "none" /\ empty
                   /\ Refuse(files, s, "refused")
                \/ /\ Accepted(files) /\ LlmAvailable(s) /\ failure = "none" /\ ~empty
                   /\ \E schema \in Schemas, reply \in Replies : Send(files, hasText, s, schema, reply)
      BY <2>2, Zenon DEF ExtractionNext, Extract
    <3> DEFINE files == CollectSpecs(single, list)
               s == [provider |-> provider, keys |-> keys]
    <3>2. files \in Seq(Files) /\ s \in [provider : ProviderNames, keys : SUBSET ProviderNames]
      BY FilesCollected
    <3>3. \/ \E outcome : Refuse(files, s, outcome)
          \/ /\ LlmAvailable(s) /\ Built(files).failure = "none"
             /\ \E schema \in Schemas, reply \in Replies : Send(files, hasText, s, schema, reply)
      BY <3>1, Zenon
    <3> HIDE DEF files, s
    <3>4. CASE \E outcome : Refuse(files, s, outcome)
      BY <3>2, <3>4 DEF Settled, Refused, Refuse
    <3>5. CASE /\ LlmAvailable(s) /\ Built(files).failure = "none"
               /\ \E schema \in Schemas, reply \in Replies : Send(files, hasText, s, schema, reply)
      <4>1. Requested(files, s)'
        BY <3>5 DEF Requested, Send
      <4>2. (LlmAvailable(s) /\ Built(files).failure = "none")'
        BY <3>5
      <4> QED BY <3>2, <4>1, <4>2 DEF Settled
    <3> QED BY <3>3, <3>4, <3>5
  <2> QED BY <2>1, <2>2
<1> QED BY <1>1, <1>2, PTL DEF ExtractionSpec

\* Whatever the settings: there is a usable provider just when the call has somewhere
\* to go, and it goes with that provider's key to the model the record will name.
THEOREM ProvidersAgree == ExtractionSpec => []ProviderAgrees
<1>1. Settled => ProviderAgrees
  <2> SUFFICES ASSUME Settled, extraction # NoCall PROVE ProviderAgrees
    BY DEF ProviderAgrees, NoCall, Sent
  <2>1. PICK files \in Seq(Files), s \in [provider : ProviderNames, keys : SUBSET ProviderNames] :
          \/ Refused(files, s)
          \/ LlmAvailable(s) /\ Built(files).failure = "none" /\ Requested(files, s)
    BY DEF Settled
  <2>2. s.provider \in {"claude", "openai", "gemini"}
    BY DEF ProviderNames
  <2>3. LlmAvailable(s) = (Endpoint(s) # Unavailable)
    BY <2>2 DEF LlmAvailable, Endpoint, Unavailable
  <2>4. LlmAvailable(s) => Endpoint(s).model = RecordedModel(s) /\ Endpoint(s).key = s.provider
    BY <2>2 DEF LlmAvailable, Endpoint, RecordedModel
  <2>5. CASE Refused(files, s)
    BY <2>3, <2>5 DEF Refused, ProviderAgrees, Sent
  <2>6. CASE LlmAvailable(s) /\ Requested(files, s)
    <3>1. extraction.settings = s /\ extraction.request.model = Endpoint(s).model
      BY <2>6 DEF Requested, ToolRequest
    <3> QED BY <2>3, <2>4, <2>6, <3>1 DEF ProviderAgrees
  <2> QED BY <2>1, <2>5, <2>6
<1> QED BY <1>1, SettledHolds, PTL

-----------------------------------------------------------------------------
(* Extraction: the images                                                  *)

\* Page p of file i.
Images == Nat \X Nat
Building == [images : Seq(Images), budget : Nat, failure : {"none", "refused", "failed"}]

\* How many pages a file shows, if the budget is not the limit.
PagesOf(file) ==
  IF ContentType(file) = "image" THEN 1 ELSE Least({file.pages, MaxPdfPages})

LEMMA LeastOfTwo ==
  ASSUME NEW m \in Nat, NEW n \in Nat
  PROVE  /\ Least({m, n}) = IF m <= n THEN m ELSE n
         /\ Least({m, n}) \in Nat
<1>1. \E k \in {m, n} : \A j \in {m, n} : k <= j
  OBVIOUS
<1>2. Least({m, n}) \in {m, n} /\ \A j \in {m, n} : Least({m, n}) <= j
  BY <1>1 DEF Least
<1> QED BY <1>2

LEMMA LeastOfThree ==
  ASSUME NEW m \in Nat, NEW n \in Nat, NEW k \in Nat
  PROVE  Least({m, n, k}) = Least({Least({m, n}), k})
<1>1. \E i \in {m, n, k} : \A j \in {m, n, k} : i <= j
  OBVIOUS
<1>2. Least({m, n, k}) \in {m, n, k} /\ \A j \in {m, n, k} : Least({m, n, k}) <= j
  BY <1>1 DEF Least
<1>3. Least({m, n}) = IF m <= n THEN m ELSE n
  BY LeastOfTwo
<1>4. Least({Least({m, n}), k}) = IF Least({m, n}) <= k THEN Least({m, n}) ELSE k
  BY <1>3, LeastOfTwo
<1> HIDE DEF Least
<1> QED BY <1>2, <1>3, <1>4

\* A file gives its pages in order, as many as the budget has room for.
LEMMA PartsOf ==
  ASSUME NEW file \in Files, NEW i \in Nat, NEW budget \in Nat \ {0}
  PROVE  /\ PagesOf(file) \in Nat
         /\ ImageParts(file, i, budget) \in Seq(Images)
         /\ Len(ImageParts(file, i, budget)) = Least({PagesOf(file), budget})
         /\ \A p \in 1..Len(ImageParts(file, i, budget)) : ImageParts(file, i, budget)[p] = <<i, p>>
<1> DEFINE many == IF ContentType(file) = "image" THEN 1
                   ELSE Least({file.pages, MaxPdfPages, budget})
<1>1. file.pages \in Nat /\ MaxPdfPages \in Nat /\ 1 \in Nat /\ budget \in Nat /\ 1 <= budget
  <2>1. file.pages \in Nat
    BY DEF Files
  <2> QED BY <2>1, ExtractionAssumption
<1>2. PagesOf(file) \in Nat
  BY <1>1, LeastOfTwo DEF PagesOf
<1>3. many = Least({PagesOf(file), budget})
  <2>1. CASE ContentType(file) = "image"
    BY <1>1, <2>1, LeastOfTwo DEF PagesOf
  <2>2. CASE ContentType(file) # "image"
    BY <1>1, <2>2, LeastOfThree DEF PagesOf
  <2> QED BY <2>1, <2>2
<1>4. many \in Nat
  BY <1>1, <1>2, <1>3, LeastOfTwo
<1>5. ImageParts(file, i, budget) = [p \in 1..many |-> <<i, p>>]
  BY DEF ImageParts
<1> HIDE DEF many
<1>6. /\ ImageParts(file, i, budget) \in Seq(Images) /\ Len(ImageParts(file, i, budget)) = many
      /\ \A p \in 1..many : ImageParts(file, i, budget)[p] = <<i, p>>
  BY <1>4, <1>5 DEF Images
<1> QED BY <1>2, <1>3, <1>6

\* One more file: nothing without a budget, a refusal, or as many images as it shows.
LEMMA FileAdded ==
  ASSUME NEW built \in Building, NEW i \in Nat, NEW file \in Files
  PROVE  /\ AddFile(built, i, file) \in Building
         /\ built.budget = 0 \/ built.failure # "none" => AddFile(built, i, file) = built
         /\ built.budget # 0 /\ AddFile(built, i, file).failure = "none" =>
              LET parts == ImageParts(file, i, built.budget)
              IN  /\ built.failure = "none"
                  /\ AddFile(built, i, file).images = built.images \o parts
                  /\ AddFile(built, i, file).budget = built.budget - Len(parts)
<1> DEFINE parts == ImageParts(file, i, built.budget)
           after == AddFile(built, i, file)
<1>1. CASE built.budget = 0 \/ built.failure # "none"
  BY <1>1 DEF AddFile
<1>2. CASE ~ (built.budget = 0 \/ built.failure # "none") /\ Failure(file, built.budget) # "none"
  <2>1. after = [built EXCEPT !.failure = Failure(file, built.budget)]
    BY <1>2 DEF AddFile
  <2>2. Failure(file, built.budget) \in {"none", "refused", "failed"}
    BY DEF Failure
  <2>3. after \in Building /\ after.failure # "none"
    BY <1>2, <2>1, <2>2 DEF Building
  <2> QED BY <1>2, <2>3
<1>3. CASE ~ (built.budget = 0 \/ built.failure # "none") /\ Failure(file, built.budget) = "none"
  <2>1. built.budget \in Nat \ {0} /\ built.images \in Seq(Images)
    BY <1>3 DEF Building
  <2>2. /\ parts \in Seq(Images) /\ PagesOf(file) \in Nat
        /\ Len(parts) = Least({PagesOf(file), built.budget})
    BY <2>1, PartsOf
  <2>3. Len(parts) \in Nat /\ Len(parts) <= built.budget
    BY <2>1, <2>2, LeastOfTwo
  <2>4. after = [built EXCEPT !.images = @ \o parts, !.budget = @ - Len(parts)]
    BY <1>3, Zenon DEF AddFile
  <2> HIDE DEF parts
  <2>5. built.images \o parts \in Seq(Images) /\ built.budget - Len(parts) \in Nat
    BY <2>1, <2>2, <2>3
  <2>6. /\ after.images = built.images \o parts /\ after.budget = built.budget - Len(parts)
        /\ after \in Building
    BY <2>4, <2>5 DEF Building
  <2> QED BY <1>3, <2>6 DEF parts
<1> QED BY <1>1, <1>2, <1>3

\* The recursion of Built, step by step.
LEMMA BuiltRuns ==
  ASSUME NEW files \in Seq(Files)
  PROVE  \E built : /\ built[0] = Empty
                    /\ \A n \in 1..Len(files) : built[n] = AddFile(built[n - 1], n, files[n])
                    /\ Built(files) = built[Len(files)]
<1> DEFINE N == Len(files)
           step == [p \in Building \X (1..N) |-> AddFile(p[1], p[2], files[p[2]])]
           Runs(f) == f = [n \in 0..N |-> IF n = 0 THEN Empty ELSE AddFile(f[n - 1], n, files[n])]
<1>1. N \in Nat /\ \A n \in 1..N : files[n] \in Files /\ n \in Nat
  OBVIOUS
<1>2. Empty \in Building
  BY ExtractionAssumption DEF Empty, Building
<1>3. step \in [Building \X (1..N) -> Building]
  BY <1>1, FileAdded
<1> HIDE DEF N
<1>4. PICK f : Recursion(N, Building, Empty, step, f)
  <2> HIDE DEF step
  <2>1. N \in Nat
    BY <1>1
  <2> QED BY ONLY <2>1, <1>2, <1>3, RecursionExists
<1>5. Runs(f)
  <2>1. \A n \in 1..N : f[n] = AddFile(f[n - 1], n, files[n])
    <3> SUFFICES ASSUME NEW n \in 1..N PROVE f[n] = AddFile(f[n - 1], n, files[n])
      OBVIOUS
    <3>1. n - 1 \in 0..N
      BY <1>1 DEF Recursion
    <3>2. <<f[n - 1], n>> \in Building \X (1..N)
      BY <1>4, <3>1 DEF Recursion
    <3> QED BY <1>4, <3>2 DEF Recursion
  <2>2. f = [n \in 0..N |-> f[n]]
    BY <1>4 DEF Recursion
  <2>3. \A n \in 0..N : f[n] = IF n = 0 THEN Empty ELSE AddFile(f[n - 1], n, files[n])
    BY <1>1, <1>4, <2>1 DEF Recursion
  <2> QED BY <2>2, <2>3
<1> DEFINE built == CHOOSE g : Runs(g)
<1>6. Runs(built)
  BY <1>5
<1>7. Built(files) = built[N]
  BY DEF Built, N
<1> HIDE DEF built
<1>8. built[0] = Empty /\ \A n \in 1..N : built[n] = AddFile(built[n - 1], n, files[n])
  BY <1>1, <1>6
<1> QED BY <1>7, <1>8 DEF N

\* Sequences put together one after the other, step by step.
LEMMA FlatRuns ==
  ASSUME NEW S, NEW seqs \in Seq(Seq(S))
  PROVE  \E flat : /\ flat[0] = <<>>
                   /\ \A n \in 1..Len(seqs) : flat[n - 1] \in Seq(S) => flat[n] = flat[n - 1] \o seqs[n]
                   /\ FlattenSeq(seqs) = flat[Len(seqs)]
<1> DEFINE N == Len(seqs)
           step == [p \in Seq(S) \X (1..N) |-> p[1] \o seqs[p[2]]]
           Runs(f) == f = [i \in 1..N |-> IF i = 1 THEN seqs[i] ELSE f[i - 1] \o seqs[i]]
<1>1. N \in Nat /\ \A n \in 1..N : seqs[n] \in Seq(S)
  OBVIOUS
<1>2. CASE N = 0
  <2> DEFINE flat == [n \in {0} |-> <<>>]
  <2>1. FlattenSeq(seqs) = seqs /\ seqs = <<>>
    BY <1>2 DEF FlattenSeq
  <2>2. flat[0] = <<>> /\ FlattenSeq(seqs) = flat[Len(seqs)] /\ 1..Len(seqs) = {}
    BY <1>2, <2>1
  <2> QED BY <2>2
<1>3. CASE N # 0
  <2>1. <<>> \in Seq(S) /\ step \in [Seq(S) \X (1..N) -> Seq(S)]
    BY <1>1
  <2> HIDE DEF N
  <2>2. PICK f : Recursion(N, Seq(S), <<>>, step, f)
    <3> HIDE DEF step
    <3>1. N \in Nat
      BY <1>1
    <3> QED BY ONLY <2>1, <3>1, RecursionExists
  <2>3. /\ f \in [0..N -> Seq(S)] /\ f[0] = <<>>
        /\ \A n \in 1..N : n - 1 \in 0..N /\ f[n - 1] \in Seq(S) /\ f[n] = f[n - 1] \o seqs[n]
    <3>1. f \in [0..N -> Seq(S)] /\ f[0] = <<>>
      BY <2>2 DEF Recursion
    <3>2. \A n \in 1..N : n - 1 \in 0..N
      BY <1>1
    <3>3. \A n \in 1..N : <<f[n - 1], n>> \in Seq(S) \X (1..N)
      BY <3>1, <3>2
    <3>4. \A n \in 1..N : step[<<f[n - 1], n>>] = f[n - 1] \o seqs[n]
      BY <3>3
    <3> HIDE DEF step
    <3> QED BY <2>2, <3>1, <3>2, <3>4 DEF Recursion
  <2> DEFINE g == [i \in 1..N |-> f[i]]
  <2>4. Runs(g)
    <3>1. \A i \in 1..N : f[i] = IF i = 1 THEN seqs[i] ELSE g[i - 1] \o seqs[i]
      <4> SUFFICES ASSUME NEW i \in 1..N
                   PROVE  f[i] = IF i = 1 THEN seqs[i] ELSE g[i - 1] \o seqs[i]
        OBVIOUS
      <4>1. CASE i = 1
        <5>1. seqs[i] \in Seq(S) /\ i - 1 = 0
          BY <1>1, <4>1
        <5>2. f[i] = f[0] \o seqs[i]
          BY <2>3, <5>1
        <5>3. f[i] = <<>> \o seqs[i]
          BY <2>3, <5>2
        <5>4. <<>> \o seqs[i] = seqs[i]
          BY <5>1
        <5> QED BY <4>1, <5>3, <5>4
      <4>2. CASE i # 1
        <5>1. i - 1 \in 1..N
          BY <1>1, <4>2
        <5>2. g[i - 1] = f[i - 1]
          BY <5>1
        <5> QED BY <2>3, <4>2, <5>2
      <4> QED BY <4>1, <4>2
    <3> QED BY <3>1
  <2> DEFINE flatten == CHOOSE h : Runs(h)
  <2>5. Runs(flatten)
    BY <2>4
  <2>6. FlattenSeq(seqs) = flatten[N]
    BY <1>3 DEF FlattenSeq, N
  <2> HIDE DEF flatten
  <2> DEFINE flat == [n \in 0..N |-> IF n = 0 THEN <<>> ELSE flatten[n]]
  <2>7. flat[0] = <<>> /\ flat[N] = flatten[N]
    BY <1>1, <1>3
  <2>8. ASSUME NEW n \in 1..N, flat[n - 1] \in Seq(S) PROVE flat[n] = flat[n - 1] \o seqs[n]
    <3>1. n \in 0..N /\ n # 0 /\ flat[n] = flatten[n]
      BY <1>1
    <3>2. CASE n = 1
      <4>1. flatten[n] = seqs[n] /\ seqs[n] \in Seq(S) /\ n - 1 = 0
        BY <1>1, <2>5, <3>2
      <4>2. flat[n - 1] = <<>>
        BY <2>7, <4>1
      <4>3. <<>> \o seqs[n] = seqs[n]
        BY <4>1
      <4> HIDE DEF flat
      <4> QED BY <3>1, <4>1, <4>2, <4>3
    <3>3. CASE n # 1
      <4>1. flatten[n] = flatten[n - 1] \o seqs[n]
        BY <1>1, <2>5, <3>3
      <4>2. n - 1 \in 0..N /\ n - 1 # 0
        BY <1>1, <3>3
      <4>3. flat[n - 1] = flatten[n - 1]
        BY <4>2
      <4> HIDE DEF flat
      <4> QED BY <3>1, <4>1, <4>3
    <3> QED BY <3>2, <3>3
  <2> HIDE DEF flat
  <2> QED BY <2>6, <2>7, <2>8 DEF N
<1> QED BY <1>2, <1>3

\* u is s and then t.
Joined(u, s, t) ==
  /\ Len(s) \in Nat /\ Len(t) \in Nat /\ Len(u) = Len(s) + Len(t)
  /\ \A k \in 1..Len(s) : u[k] = s[k]
  /\ \A k \in 1..Len(t) : u[Len(s) + k] = t[k]

LEMMA Concatenated ==
  ASSUME NEW S, NEW s \in Seq(S), NEW t \in Seq(S)
  PROVE  s \o t \in Seq(S) /\ Joined(s \o t, s, t)
<1>1. s \o t \in Seq(S) /\ Len(s) \in Nat /\ Len(t) \in Nat /\ Len(s \o t) = Len(s) + Len(t)
  OBVIOUS
<1>2. ASSUME NEW k \in 1..Len(s) PROVE (s \o t)[k] = s[k]
  OBVIOUS
<1>3. ASSUME NEW k \in 1..Len(t) PROVE (s \o t)[Len(s) + k] = t[k]
  <2>1. Len(s) + k \in 1..(Len(s) + Len(t)) /\ ~ (Len(s) + k <= Len(s)) /\ Len(s) + k - Len(s) = k
    BY <1>1
  <2> QED BY <2>1
<1> QED BY <1>1, <1>2, <1>3 DEF Joined

\* The pages of the first n files, and what has been built from them.
Prefix(built, flat) ==
  /\ built \in Building /\ flat \in Seq(Images)
  /\ built.failure = "none" =>
       /\ Len(built.images) <= Len(flat)
       /\ Len(built.images) + built.budget = MaxImages
       /\ built.budget # 0 => Len(built.images) = Len(flat)
       /\ \A k \in 1..Len(built.images) : built.images[k] = flat[k]

\* One more file keeps what is built the beginning of the pages.
LEMMA PrefixGrows ==
  ASSUME NEW built, NEW flat, Prefix(built, flat), NEW i \in Nat, NEW file \in Files
  PROVE  Prefix(AddFile(built, i, file), flat \o ImageParts(file, i, MaxPdfPages))
<1> DEFINE after == AddFile(built, i, file)
           shown == ImageParts(file, i, MaxPdfPages)
           parts == ImageParts(file, i, built.budget)
           more == flat \o shown
<1>1. built \in Building /\ built.images \in Seq(Images) /\ built.budget \in Nat
      /\ flat \in Seq(Images)
  BY DEF Prefix, Building
<1>2. after \in Building
  BY <1>1, FileAdded
<1>3. MaxPdfPages \in Nat \ {0} /\ MaxImages \in Nat
  BY ExtractionAssumption
<1>4. /\ shown \in Seq(Images) /\ PagesOf(file) \in Nat
      /\ Len(shown) = Least({PagesOf(file), MaxPdfPages})
      /\ \A p \in 1..Len(shown) : shown[p] = <<i, p>>
  BY <1>3, PartsOf
<1>5. PagesOf(file) <= MaxPdfPages
  <2>1. file.pages \in Nat
    BY DEF Files
  <2> QED BY <1>3, <2>1, LeastOfTwo DEF PagesOf
<1>6. Len(shown) = PagesOf(file)
  BY <1>3, <1>4, <1>5, LeastOfTwo
<1> HIDE DEF shown
<1>7. /\ more \in Seq(Images) /\ Len(more) = Len(flat) + Len(shown)
      /\ \A k \in 1..Len(flat) : more[k] = flat[k]
      /\ \A k \in 1..Len(shown) : more[Len(flat) + k] = shown[k]
      /\ Len(flat) \in Nat /\ Len(shown) \in Nat
  <2>1. more \in Seq(Images) /\ Joined(more, flat, shown)
    BY <1>1, <1>4, Concatenated
  <2> HIDE DEF more
  <2> QED BY <2>1 DEF Joined
<1> HIDE DEF more
<1>8. SUFFICES ASSUME after.failure = "none"
               PROVE  /\ Len(after.images) <= Len(more)
                      /\ Len(after.images) + after.budget = MaxImages
                      /\ after.budget # 0 => Len(after.images) = Len(more)
                      /\ \A k \in 1..Len(after.images) : after.images[k] = more[k]
  BY <1>2, <1>7 DEF Prefix, more, shown
<1>9. CASE built.budget = 0
  <2>1. after = built
    BY <1>1, <1>9, FileAdded
  <2>2. /\ Len(built.images) <= Len(flat) /\ Len(built.images) + built.budget = MaxImages
        /\ \A k \in 1..Len(built.images) : built.images[k] = flat[k]
        /\ Len(built.images) \in Nat
    BY <1>1, <1>8, <2>1 DEF Prefix
  <2>3. \A k \in 1..Len(built.images) : k \in 1..Len(flat)
    BY <1>7, <2>2
  <2> HIDE DEF after
  <2> QED BY <1>7, <1>9, <2>1, <2>2, <2>3
<1>10. CASE built.budget # 0
  <2>1. /\ built.failure = "none" /\ after.images = built.images \o parts
        /\ after.budget = built.budget - Len(parts)
    BY <1>1, <1>8, <1>10, FileAdded
  <2>2. /\ Len(built.images) = Len(flat) /\ Len(built.images) + built.budget = MaxImages
        /\ \A k \in 1..Len(built.images) : built.images[k] = flat[k]
    BY <1>10, <2>1 DEF Prefix
  <2>3. /\ parts \in Seq(Images) /\ Len(parts) = Least({PagesOf(file), built.budget})
        /\ \A p \in 1..Len(parts) : parts[p] = <<i, p>>
    BY <1>1, <1>10, PartsOf
  <2> HIDE DEF after, parts
  <2>4. /\ Len(parts) = IF Len(shown) <= built.budget THEN Len(shown) ELSE built.budget
        /\ Len(parts) \in Nat
    BY <1>1, <1>4, <1>6, <2>3, LeastOfTwo
  <2>5. \A p \in 1..Len(parts) : p \in 1..Len(shown) /\ parts[p] = shown[p]
    <3>1. \A p \in 1..Len(parts) : p \in 1..Len(shown)
      BY <1>1, <1>7, <2>4
    <3> QED BY <1>4, <2>3, <3>1
  <2>6. /\ Len(after.images) = Len(flat) + Len(parts)
        /\ \A k \in 1..Len(flat) : after.images[k] = built.images[k]
        /\ \A k \in 1..Len(parts) : after.images[Len(flat) + k] = parts[k]
    <3>1. Joined(built.images \o parts, built.images, parts)
      BY <1>1, <2>3, Concatenated
    <3>2. Joined(after.images, built.images, parts)
      BY <2>1, <3>1
    <3> QED BY <2>2, <3>2 DEF Joined
  <2>7. \A k \in 1..Len(flat) : after.images[k] = more[k]
    BY <1>7, <2>2, <2>6
  <2>8. \A k \in 1..Len(parts) : after.images[Len(flat) + k] = more[Len(flat) + k]
    BY <1>7, <2>5, <2>6
  <2>9. ASSUME NEW k \in 1..Len(after.images) PROVE after.images[k] = more[k]
    <3>1. CASE k \in 1..Len(flat)
      BY <2>7, <3>1
    <3>2. CASE k \notin 1..Len(flat)
      <4>1. k - Len(flat) \in 1..Len(parts) /\ Len(flat) + (k - Len(flat)) = k
        BY <1>7, <2>4, <2>6, <3>2
      <4>2. after.images[Len(flat) + (k - Len(flat))] = more[Len(flat) + (k - Len(flat))]
        BY <2>8, <4>1
      <4> QED BY <4>1, <4>2
    <3> QED BY <3>1, <3>2
  <2>10. /\ Len(after.images) <= Len(more) /\ Len(after.images) + after.budget = MaxImages
         /\ after.budget # 0 => Len(after.images) = Len(more)
    BY <1>1, <1>3, <1>7, <2>1, <2>2, <2>4, <2>6
  <2> QED BY <2>9, <2>10
<1> QED BY <1>9, <1>10

\* Of all the files the beginning of their pages has been built, as far as the budget goes.
LEMMA AllBuilt ==
  ASSUME NEW files \in Seq(Files)
  PROVE  LET pages == FlattenSeq([i \in DOMAIN files |-> ImageParts(files[i], i, MaxPdfPages)])
         IN  Prefix(Built(files), pages)
<1> DEFINE N == Len(files)
           shown == [i \in DOMAIN files |-> ImageParts(files[i], i, MaxPdfPages)]
<1>1. N \in Nat /\ DOMAIN files = 1..N /\ \A n \in 1..N : files[n] \in Files
  OBVIOUS
<1>2. shown \in Seq(Seq(Images)) /\ Len(shown) = N
      /\ \A n \in 1..N : shown[n] = ImageParts(files[n], n, MaxPdfPages)
  <2>1. \A n \in 1..N : ImageParts(files[n], n, MaxPdfPages) \in Seq(Images)
    <3>1. MaxPdfPages \in Nat \ {0} /\ \A n \in 1..N : n \in Nat
      BY ExtractionAssumption
    <3> QED BY <1>1, <3>1, PartsOf
  <2> HIDE DEF N
  <2> QED BY <1>1, <2>1
<1> HIDE DEF N, shown
<1>3. PICK built : /\ built[0] = Empty
                   /\ \A n \in 1..N : built[n] = AddFile(built[n - 1], n, files[n])
                   /\ Built(files) = built[N]
  BY BuiltRuns DEF N
<1>4. PICK flat : /\ flat[0] = <<>>
                  /\ \A n \in 1..N : flat[n - 1] \in Seq(Images) => flat[n] = flat[n - 1] \o shown[n]
                  /\ FlattenSeq(shown) = flat[N]
  BY <1>2, FlatRuns
<1> DEFINE Reached == {n \in Nat : n <= N => Prefix(built[n], flat[n])}
<1>5. 0 \in Reached
  <2>1. Prefix(Empty, <<>>)
    <3>1. Empty \in Building /\ Empty.images = <<>> /\ Empty.budget = MaxImages /\ MaxImages \in Nat
      BY ExtractionAssumption DEF Empty, Building
    <3> QED BY <3>1 DEF Prefix
  <2> QED BY <1>3, <1>4, <2>1
<1>6. ASSUME NEW n \in Reached PROVE n + 1 \in Reached
  <2> SUFFICES ASSUME n + 1 <= N PROVE Prefix(built[n + 1], flat[n + 1])
    OBVIOUS
  <2>1. n \in Nat /\ n + 1 \in 1..N /\ (n + 1) - 1 = n /\ n + 1 \in Nat
    BY <1>1
  <2>2. Prefix(built[n], flat[n])
    BY <1>1, <2>1
  <2>3. flat[n] \in Seq(Images) /\ files[n + 1] \in Files
    BY <1>1, <2>1, <2>2 DEF Prefix
  <2>4. /\ built[n + 1] = AddFile(built[n], n + 1, files[n + 1])
        /\ flat[n + 1] = flat[n] \o ImageParts(files[n + 1], n + 1, MaxPdfPages)
    BY <1>2, <1>3, <1>4, <2>1, <2>3
  <2> QED BY <2>1, <2>2, <2>3, <2>4, PrefixGrows
<1>7. N \in Reached
  <2> HIDE DEF Reached
  <2>1. Reached \in SUBSET Nat
    BY DEF Reached
  <2>2. Reached = Nat
    BY <1>5, <1>6, <2>1, AllNumbers
  <2> QED BY <1>1, <2>2
<1>8. Prefix(Built(files), FlattenSeq(shown))
  BY <1>1, <1>3, <1>4, <1>7
<1> QED BY <1>8 DEF shown

\* The content of a request: one or two texts, then the images.
TextThenImages(sent, texts, images) ==
  /\ texts \in Nat /\ Len(sent) = texts + Len(images)
  /\ Cardinality({n \in DOMAIN sent : sent[n].type = "text"}) = texts
  /\ \A n \in 1..texts : sent[n].type = "text"
  /\ \A n \in (texts + 1)..Len(sent) : sent[n].data = images[n - texts]

LEMMA ContentSent ==
  ASSUME NEW files \in Seq(Files), NEW hasText \in BOOLEAN, NEW backend,
         Built(files).images \in Seq(Images)
  PROVE  \E texts : TextThenImages(BackendContent(backend, Content(hasText, files)), texts,
                                   Built(files).images)
<1> DEFINE images == Built(files).images
           image(i) == [type |-> "image", data |-> images[i]]
           one == Text("instruction")
           two == Text("invoice text")
           Parts == {one, two} \cup {image(i) : i \in DOMAIN images}
           head == IF hasText THEN <<one, two>> ELSE <<one>>
           shown == [i \in DOMAIN images |-> image(i)]
           content == head \o shown
           sent == BackendContent(backend, content)
           count == IF hasText THEN 2 ELSE 1
<1>0. sent = BackendContent(backend, Content(hasText, files))
  BY DEF Content
<1> HIDE DEF images
<1>t. one.type = "text" /\ two.type = "text" /\ \A i : image(i).type = "image" /\ image(i).data = images[i]
  BY DEF Text
<1> HIDE DEF image, one, two
<1>1. /\ head \in Seq(Parts) /\ Len(head) = count
      /\ \A n \in 1..count : head[n].type = "text"
  <2>1. one \in Parts /\ two \in Parts
    OBVIOUS
  <2> HIDE DEF Parts
  <2>2. CASE hasText
    <3>1. head = <<one, two>> /\ count = 2
      BY <2>2
    <3> QED BY <1>t, <2>1, <3>1
  <2>3. CASE ~ hasText
    <3>1. head = <<one>> /\ count = 1
      BY <2>3
    <3> QED BY <1>t, <2>1, <3>1
  <2> QED BY <2>2, <2>3
<1>2. /\ shown \in Seq(Parts) /\ Len(shown) = Len(images) /\ Len(images) \in Nat
      /\ \A n \in 1..Len(images) : shown[n].type = "image" /\ shown[n].data = images[n]
  <2>1. images \in Seq(Images)
    BY DEF images
  <2>2. Len(images) \in Nat /\ DOMAIN images = 1..Len(images)
    BY <2>1
  <2>3. \A i \in 1..Len(images) : image(i) \in Parts
    BY <2>2
  <2> HIDE DEF Parts
  <2> QED BY <1>t, <2>2, <2>3
<1> HIDE DEF head, shown
<1>3. content \in Seq(Parts) /\ Joined(content, head, shown)
  BY <1>1, <1>2, Concatenated
<1> HIDE DEF content, Parts
<1>4. /\ Len(content) = count + Len(images) /\ DOMAIN content = 1..Len(content)
      /\ \A n \in 1..count : content[n].type = "text"
      /\ \A n \in 1..Len(images) : /\ content[count + n].type = "image"
                                   /\ content[count + n].data = images[n]
  <2>1. count \in Nat
    OBVIOUS
  <2>2. Len(content) \in Nat /\ DOMAIN content = 1..Len(content)
    BY <1>3
  <2>3. /\ Len(content) = count + Len(images)
        /\ \A n \in 1..count : content[n] = head[n]
        /\ \A n \in 1..Len(images) : content[count + n] = shown[n]
    BY <1>1, <1>2, <1>3, Zenon DEF Joined
  <2> HIDE DEF count
  <2>4. \A n \in 1..count : content[n].type = "text"
    BY <1>1, <2>3
  <2>5. \A n \in 1..Len(images) : /\ content[count + n].type = "image"
                                  /\ content[count + n].data = images[n]
    BY <1>2, <2>3
  <2> QED BY <2>2, <2>3, <2>4, <2>5
<1>5. /\ DOMAIN sent = 1..Len(content) /\ Len(sent) = Len(content)
      /\ \A n \in 1..Len(content) :
           /\ sent[n].type = "text" <=> content[n].type = "text"
           /\ sent[n].data = content[n].data
  <2>1. /\ DOMAIN sent = 1..Len(content)
        /\ \A n \in 1..Len(content) :
             sent[n] = IF content[n].type = "text" THEN content[n]
                       ELSE [type |-> IF backend = "anthropic" THEN "image" ELSE "image_url",
                             data |-> content[n].data]
    BY <1>4 DEF BackendContent
  <2>2. Len(sent) = Len(content)
    BY <1>2, <1>4, <2>1 DEF BackendContent
  <2> HIDE DEF sent
  <2> QED BY <2>1, <2>2
<1> HIDE DEF sent
<1>6. {n \in DOMAIN sent : sent[n].type = "text"} = 1..count
  <2>1. \A n \in 1..Len(content) : n \in 1..count \/ n - count \in 1..Len(images)
    BY <1>2, <1>4
  <2>2. \A n \in 1..Len(content) : n \notin 1..count => content[n].type = "image"
    <3> SUFFICES ASSUME NEW n \in 1..Len(content), n \notin 1..count
                 PROVE  content[n].type = "image"
      OBVIOUS
    <3>1. n - count \in 1..Len(images) /\ count + (n - count) = n
      BY <1>2, <1>4, <2>1
    <3>2. content[count + (n - count)].type = "image"
      BY <1>4, <3>1
    <3> QED BY <3>1, <3>2
  <2>3. \A n \in 1..count : n \in 1..Len(content)
    BY <1>2, <1>4
  <2> QED BY <1>4, <1>5, <2>2, <2>3
<1>7. Cardinality({n \in DOMAIN sent : sent[n].type = "text"}) = count
  <2>1. 1 \in Int /\ count \in Int /\ ~ (1 > count) /\ count - 1 + 1 = count
    OBVIOUS
  <2> HIDE DEF count
  <2>2. Cardinality(1..count) = count
    BY <2>1, FS_Interval
  <2> QED BY <1>6, <2>2
<1>8. ASSUME NEW n \in (count + 1)..Len(sent) PROVE sent[n].data = images[n - count]
  <2>1. n \in 1..Len(content) /\ n - count \in 1..Len(images) /\ count + (n - count) = n
    BY <1>2, <1>4, <1>5
  <2> QED BY <1>4, <1>5, <2>1
<1>9. \A n \in 1..count : sent[n].type = "text"
  BY <1>6
<1>10. count \in Nat /\ Len(sent) = count + Len(images)
  BY <1>4, <1>5
<1> HIDE DEF count
<1>11. TextThenImages(sent, count, images)
  BY <1>7, <1>8, <1>9, <1>10 DEF TextThenImages
<1> QED BY <1>0, <1>11 DEF images

\* For any files and any budget: what a model is shown, after the text, is the beginning
\* of the pages of all the files, in order and with no gap, up to the budget.
THEOREM FirstImagesSent == ExtractionSpec => []SendsFirstImages
<1>1. Settled => SendsFirstImages
  <2> SUFFICES ASSUME Settled, Sent PROVE SendsFirstImages
    BY DEF SendsFirstImages
  <2>1. PICK files \in Seq(Files), s \in [provider : ProviderNames, keys : SUBSET ProviderNames] :
          Built(files).failure = "none" /\ Requested(files, s)
    BY DEF Settled, Sent, NoCall, Refused
  <2>2. PICK hasText \in BOOLEAN, schema \in Schemas :
          /\ extraction.files = files
          /\ extraction.request = ToolRequest(s, Content(hasText, files), schema)
    BY <2>1 DEF Requested
  <2> DEFINE built == Built(files)
             pages == FlattenSeq([i \in DOMAIN files |-> ImageParts(files[i], i, MaxPdfPages)])
             sent == BackendContent(Endpoint(s).backend, Content(hasText, files))
  <2>3. Prefix(built, pages)
    BY AllBuilt
  <2>4. extraction.request.content = sent
    BY <2>2 DEF ToolRequest
  <2>5. built.images \in Seq(Images) /\ built.budget \in Nat /\ pages \in Seq(Images)
    BY <2>3 DEF Prefix, Building
  <2>6. PICK texts : TextThenImages(sent, texts, built.images)
    BY <2>5, ContentSent
  <2> HIDE DEF built, pages, sent
  <2>7. /\ Len(built.images) <= Len(pages) /\ Len(built.images) + built.budget = MaxImages
        /\ built.budget # 0 => Len(built.images) = Len(pages)
        /\ \A k \in 1..Len(built.images) : built.images[k] = pages[k]
    BY <2>1, <2>3 DEF Prefix, built
  <2>8. Len(built.images) \in Nat /\ Len(pages) \in Nat /\ MaxImages \in Nat
    BY <2>5, ExtractionAssumption
  <2>9. Len(built.images) = Least({MaxImages, Len(pages)})
    BY <2>5, <2>7, <2>8, LeastOfTwo
  <2>10. ASSUME NEW n \in (texts + 1)..Len(sent) PROVE sent[n].data = pages[n - texts]
    <3>1. n - texts \in 1..Len(built.images)
      BY <2>6, <2>8 DEF TextThenImages
    <3> QED BY <2>6, <2>7, <3>1 DEF TextThenImages
  <2>11. /\ texts = Cardinality({n \in DOMAIN sent : sent[n].type = "text"})
         /\ \A n \in 1..texts : sent[n].type = "text"
         /\ Len(sent) = texts + Least({MaxImages, Len(pages)})
    BY <2>6, <2>9 DEF TextThenImages
  <2> QED BY <2>2, <2>4, <2>10, <2>11 DEF SendsFirstImages, pages
<1> QED BY <1>1, SettledHolds, PTL
=============================================================================
