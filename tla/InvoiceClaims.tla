--------------------------- MODULE InvoiceClaims ---------------------------
(***************************************************************************)
(* What the documentation and the docstrings say of the pipeline and       *)
(* InvoicePipeline, which follows the code, does not keep.                 *)
(***************************************************************************)
EXTENDS InvoicePipeline

\* services/llm_decision.py:12-13, "Exact duplicate (DB-based) -> hard reject.
\* Double-payment prevention is not a per-vendor preference": no two stored invoices
\* that are exact duplicates of each other have both been auto-approved.
DuplicatesNeverBothApproved ==
  \A i, j \in stored : Twins(i, j) => Approvers(i) = {} \/ Approvers(j) = {}

\* docs/architecture.md:113-114, "an optional idempotency_key makes re-submitting
\* the same document a no-op": a submission that finds its invoice already there,
\* and already decided or reviewed, leaves its status as it is.
ResubmissionIsNoOp ==
  [][\A r \in Requests, i \in stored \cap stored' :
       job[r].op \in Submissions /\ Active(r) /\ pc'[r] = "ok" /\ i # r
         /\ row[i].status \in Reviewed
         => row'[i].status = row[i].status]_vars

\* services/orchestrator.py:134-135, "the invoice still lands in held for review
\* until the vendor is trusted, rather than being auto-approved": no auto-approval
\* is recorded for an invoice whose vendor is still being onboarded.
OnboardingHolds ==
  [][\A i \in stored' :
       Len(trail'[i]) > Len(trail[i]) /\ trail'[i][Len(trail'[i])].decision = "auto_approve"
         => vendors'[row'[i].vendor] # "onboarding"]_vars
=============================================================================
