--------------------------- MODULE AccountClaims ---------------------------
(***************************************************************************)
(* What the docstrings say of accounts and Accounts, which follows the     *)
(* code, does not keep when calls overlap.                                 *)
(***************************************************************************)
EXTENDS Accounts

\* services/accounts.py:83-84, "invalidates any earlier unconsumed codes for the user
\* so exactly one code is ever live": an address never has two live codes.
OneLiveCode == \A e \in Emails : Cardinality(Pending(e) \ expired) <= 1

\* services/accounts.py:116-118, re-registering an unverified email updates the
\* password, "a verified email raises": the password of a verified user is not changed
\* by a registration.
VerifiedPasswordStands ==
  [][\A e \in Emails : users[e].state = "verified"
                         => users'[e].password = users[e].password]_vars
=============================================================================
