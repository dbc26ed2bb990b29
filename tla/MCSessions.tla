----------------------------- MODULE MCSessions -----------------------------
(* Instance of Sessions for TLC: three calls of every combination of kinds. *)
EXTENDS Sessions
CONSTANTS c1, c2, c3

MCCalls == {c1, c2, c3}

\* Calls differ in their kind only, so one order of the kinds is enough.
InOrder == <<"use", "revoke", "guess", "register">>
MCMixes ==
    {[c \in MCCalls |-> InOrder[CASE c = c1 -> i [] c = c2 -> j [] c = c3 -> k]] :
        <<i, j, k>> \in {t \in (1 .. 4) \X (1 .. 4) \X (1 .. 4) :
                            t[1] <= t[2] /\ t[2] <= t[3]}}
=============================================================================
