---------------------------- MODULE InvoiceData ----------------------------
(***************************************************************************)
(* The data of the invoice pipeline: what the columns of "invoices" and    *)
(* "processing_events" hold, as far as control depends on them.            *)
(***************************************************************************)
EXTENDS Naturals, Sequences, FiniteSets

CONSTANTS
  Docs,        \* business content of an invoice: vendor name, number, amount, date
  Vendors,     \* vendor names that can be in the organization's vendor master
  Keys,        \* idempotency keys a client may send
  BlankKey,    \* the empty string: stored like a key, but never looked up
  NoKey,       \* no idempotency key (SQL NULL, never equal to another)
  NoVendor     \* no vendor (SQL NULL)

ASSUME DataAssumption ==
  /\ Docs # {}
  /\ NoKey \notin Keys
  /\ NoVendor \notin Vendors

\* The statuses the code ever assigns. "normalized", "validated" and "paid" are
\* declared in the enumeration and set nowhere.
Initial  == {"received", "extracted"}
Reviewed == {"approved", "held", "flagged", "rejected"}
Statuses == Initial \cup Reviewed

Decisions == {"auto_approve", "hold", "flag", "reject"}
Actions   == Decisions \cup {"none"}       \* recommended_action, "none" for NULL

\* Mutant: the decision itself is stored as the status.
DecisionUnmapped == [d \in Decisions |-> d]

\* How a policy decision maps to the persisted invoice status.
DecisionStatus ==
  [d \in Decisions |-> CASE d = "auto_approve" -> "approved"
                         [] d = "hold"         -> "held"
                         [] d = "flag"         -> "flagged"
                         [] d = "reject"       -> "rejected"]

Rows == [doc : Docs, key : Keys \cup {NoKey}, vendor : Vendors \cup {NoVendor},
         status : Statuses, action : Actions]

\* "inactive" is left out: the pipeline never reads a vendor's status, and nothing
\* said here tells it from "active".
VendorStatuses == {"absent", "onboarding", "active"}
=============================================================================
