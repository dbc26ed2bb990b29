---------------------------- MODULE MCAccounts -----------------------------
(* Instances of Accounts for TLC. *)
EXTENDS AccountClaims, TLC
CONSTANTS t1, t2, t3, mail, p1, p2
=============================================================================
