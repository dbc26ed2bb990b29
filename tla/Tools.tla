------------------------------- MODULE Tools --------------------------------
(***************************************************************************)
(* The matching and checking tools as their callers use them: the REST     *)
(* routes and the MCP tools, which answer one question each, and the step  *)
(* of the pipeline that resolves the vendor of a bill and then looks for   *)
(* duplicates under the name it resolved to.  `asked' is the question and  *)
(* its answer.                                                             *)
(***************************************************************************)
EXTENDS Duplicates, PaymentTerms, Completeness

CONSTANTS
    Bills,      \* the bills in use
    Masters,    \* the vendor masters in use: sets of vendors
    Lookbacks,  \* the windows in use: days, or None
    Requests,   \* the questions about payment terms
    Required,   \* the lists of mandatory fields
    Fields,     \* the fields an invoice may have
    Thresholds  \* the process and hold thresholds in use

OrNone(S) == S \cup {None}
OrNoTerm(S) == S \cup {NoTerm}

ASSUME ToolsAssumption ==
    /\ Bills \subseteq [vendor : OrNone(Names), number : OrNone(Numbers),
                       amount : OrNone(Int), date : OrNone(Int)]
    /\ \A master \in Masters : \A vendor \in master :
         vendor.name \in Names /\ vendor.aliases \subseteq Names
    /\ Lookbacks \subseteq OrNone(Nat)
    /\ \A r \in Requests :
         /\ r.terms \in [receipt : BOOLEAN, cod : BOOLEAN,
                        discount : OrNoTerm([percent : Nat, days : Nat, net : Nat]),
                        eom : OrNoTerm(Nat), net : OrNoTerm(Nat)]
         /\ IsDate(r.date) /\ (r.asOf = NoTerm \/ IsDate(r.asOf))
         /\ r.amount \in OrNoTerm(Int)
    /\ \A required \in Required : required \in Seq({required[i] : i \in DOMAIN required})
    /\ Thresholds \subseteq Int

VARIABLE asked

Nothing == [tool |-> "none"]
ToolsInit == asked = Nothing

ToolPaymentTerms ==
    \E r \in Requests :
        asked' = [tool |-> "terms", request |-> r, answer |-> CalculatePaymentTerms(r)]

ToolCompleteness ==
    \E required \in Required, present \in SUBSET Fields, process, hold \in Thresholds :
        asked' = [tool |-> "completeness", required |-> required, present |-> present,
                  process |-> process, hold |-> hold,
                  answer |-> CheckCompleteness(required, present, process, hold)]

ToolNormaliseVendor ==
    \E raw \in Names, master \in Masters :
        asked' = [tool |-> "normalise", raw |-> raw, master |-> master,
                  answer |-> Resolved(raw, master)]

ToolDetectDuplicates ==
    \E bill, other \in Bills, lookback \in Lookbacks :
        asked' = [tool |-> "duplicates", bill |-> bill, other |-> other, lookback |-> lookback,
                  answer |-> DetectDuplicates(bill, {other}, lookback)]

\* Mutant: a bill whose vendor is not in the master is searched under no name.
CanonicalNameOnly(bill, master) ==
    LET resolved == Resolved(bill.vendor, master)
    IN  IF bill.vendor = None \/ resolved = {} THEN {None}
        ELSE {m.vendor.name : m \in resolved}

\* The name a bill's duplicates are looked for under: that of the vendor it
\* resolves to, else the one it carries.  The bills on file carry the names
\* they were written with.
SearchNames(bill, master) ==
    LET resolved == Resolved(bill.vendor, master)
    IN  IF bill.vendor = None \/ resolved = {} THEN {bill.vendor}
        ELSE {m.vendor.name : m \in resolved}

ProcessInvoice ==
    \E bill, other \in Bills, master \in Masters, lookback \in Lookbacks :
        \E name \in SearchNames(bill, master) :
            asked' = [tool |-> "process", bill |-> bill, other |-> other, master |-> master,
                      answer |-> DetectDuplicates([bill EXCEPT !.vendor = name], {other}, lookback)]

ToolsNext ==
    /\ asked = Nothing
    /\ \/ ToolPaymentTerms
       \/ ToolCompleteness
       \/ ToolNormaliseVendor
       \/ ToolDetectDuplicates
       \/ ProcessInvoice

ToolsSpec == ToolsInit /\ [][ToolsNext]_asked

-----------------------------------------------------------------------------
(* Properties                                                              *)

\* It does not matter which of two bills arrives first: each is the same kind
\* of match of the other, with the same confidence, and of two bills that
\* match at least the one checked last finds the other, however far apart
\* their dates are (duplicate_detector.py:25-142).
DuplicateIsMutual ==
    asked.tool = "duplicates" =>
        LET q == asked.bill
            c == asked.other
            match == EvaluateCandidate(q, c)
        IN  /\ match = EvaluateCandidate(c, q)
            /\ match # NoMatch => \/ asked.answer.highest > 0
                                  \/ DetectDuplicates(c, {q}, asked.lookback).highest > 0

\* Two writings of one bill: punctuation and case of the number, a legal
\* suffix of the name.  A name that is only punctuation is no such name: how
\* like it is to itself is the library's to say (duplicate_detector.py:29).
SameBill(b, c) ==
    /\ b.vendor # None /\ c.vendor # None
    /\ Normal(b.vendor) = Normal(c.vendor) /\ Normal(b.vendor) # <<>>
    /\ b.number # None /\ c.number # None /\ NumberKey[b.number] = NumberKey[c.number]
    /\ b.amount = c.amount /\ b.date = c.date

\* A bill that is sent twice, however its name and number are written, is an
\* exact duplicate of its copy in the pipeline, which rejects it; unless the
\* master knows its vendor by an alias: then the copy is found, but may count
\* as no more than a near match, because the search goes under the canonical
\* name while the bills on file carry the alias (orchestrator.py:249).
CopyIsCaught ==
    asked.tool = "process" /\ SameBill(asked.bill, asked.other) =>
        LET known == Resolved(asked.bill.vendor, asked.master)
        IN  /\ asked.answer.isDuplicate \/ asked.answer.isNear
            /\ (\A m \in known : m.type # "alias" /\ m.vendor.aliases = {})
                 => asked.answer.isDuplicate

\* The dates and amounts an answer gives agree with each other: nothing is due
\* before its invoice, the days of the terms are the days between the dates,
\* an end-of-month date is the last day of the invoice's month, discount and
\* remainder add up to the amount, and both countdowns run to the same clock
\* (payment_terms.py:65-128).
TermsAddUp ==
    asked.tool = "terms" /\ asked.answer \notin {NotParsed, Failed} =>
        LET r == asked.request
            a == asked.answer
        IN  /\ a.due = Day(r.date) + a.netDays /\ a.netDays >= 0
            /\ a.termType = "eom" =>
                 a.due - r.terms.eom
                   = Ordinal(r.date.year, r.date.month, MonthLength(r.date.year, r.date.month))
            /\ a.deadline # NoTerm =>
                 a.daysUntilDue - a.daysUntilDeadline = r.terms.discount.net - r.terms.discount.days
            /\ a.discount # NoTerm /\ r.amount >= 10 * a.discount =>
                 a.discount + a.afterDiscount = HalfUp(r.amount, 10)

ActionRank == [return_to_vendor |-> 0, hold |-> 1, process |-> 2]

\* One more field on an invoice never makes its recommendation worse, whatever
\* the two thresholds are: they are independent settings, and nothing orders
\* them (completeness.py:40-53).
CompletenessMonotone ==
    asked.tool = "completeness" =>
        \A field \in Fields :
            ActionRank[CheckCompleteness(asked.required, asked.present \cup {field},
                                         asked.process, asked.hold)]
              >= ActionRank[asked.answer]
=============================================================================
