------------------------ MODULE MCPolicyDocuments ---------------------------
(* Instance of PolicyDocuments for TLC. *)
EXTENDS PolicyDocuments
CONSTANTS q1, q2, q3, old
=============================================================================
