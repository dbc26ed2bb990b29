---------------------------- MODULE Completeness ----------------------------
(***************************************************************************)
(* The completeness checker.  The mandatory fields are a list, in which a  *)
(* name may be repeated; of the extracted fields only those that are       *)
(* present (neither None nor blank) matter.  Scores and thresholds are in  *)
(* hundredths of a percent.                                                *)
(***************************************************************************)
EXTENDS Integers, Sequences, FiniteSets

PresentCount(required, present) == Cardinality({i \in DOMAIN required : required[i] \in present})

Score(required, present) ==
    IF required = <<>> THEN 10000
    ELSE (20000 * PresentCount(required, present) + Len(required)) \div (2 * Len(required))

\* Mutant: the hold threshold is tested first.
HoldFirst(score, process, hold) ==
    IF score >= hold THEN "hold"
    ELSE IF score >= process THEN "process"
    ELSE "return_to_vendor"

RecommendedAction(score, process, hold) ==
    IF score >= process THEN "process"
    ELSE IF score >= hold THEN "hold"
    ELSE "return_to_vendor"

CheckCompleteness(required, present, process, hold) ==
    RecommendedAction(Score(required, present), process, hold)
=============================================================================
