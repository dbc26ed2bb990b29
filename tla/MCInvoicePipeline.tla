------------------------- MODULE MCInvoicePipeline -------------------------
(* Instances of InvoicePipeline for TLC. *)
EXTENDS InvoiceClaims, TLC

CONSTANTS r1, r2, r3, acme, bill, note, k1

MCVendorOf  == [d \in Docs |-> IF d = note THEN NoVendor ELSE acme]
MCDuplicate == [p \in Docs \X Docs |-> p = <<bill, bill>>]
\* One known vendor with a policy on file: every verdict of the model can occur.
InitKnown == /\ Init
             /\ vendors = [v \in Vendors |-> "active"]
             /\ onFile = Vendors
SpecKnown == InitKnown /\ [][Next]_vars

MCSymmetry  == Permutations(Requests)
=============================================================================
