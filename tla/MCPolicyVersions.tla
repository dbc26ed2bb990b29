-------------------------- MODULE MCPolicyVersions -------------------------
(* An instance of PolicyVersions for TLC. *)
EXTENDS PolicyVersions, TLC
CONSTANTS t1, t2, t3, acme
=============================================================================
