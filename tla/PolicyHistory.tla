--------------------------- MODULE PolicyHistory ---------------------------
(***************************************************************************)
(* What the versioned policies of a vendor promise to those who read them: *)
(* the versions of a vendor are 1, 2, 3, ... without gaps or repetitions,  *)
(* they are never edited or withdrawn one by one, and the last one, alone, *)
(* is active.                                                              *)
(***************************************************************************)
EXTENDS Naturals

CONSTANTS Vendors,    \* vendor ids
          Authors     \* those who publish a policy version

VARIABLES vendor,     \* whether the vendor exists
          policies,   \* the policy versions of each vendor
          active      \* those with is_active set

vars == <<vendor, policies, active>>

Policies == [version : Nat \ {0}, by : Authors]

Init ==
  /\ vendor = [v \in Vendors |-> "absent"]
  /\ policies = [v \in Vendors |-> {}]
  /\ active = [v \in Vendors |-> {}]

\* A vendor begins without a policy or with version 1.
Add(v) ==
  /\ vendor[v] = "absent"
  /\ vendor' = [vendor EXCEPT ![v] = "present"]
  /\ \/ UNCHANGED <<policies, active>>
     \/ \E a \in Authors :
          /\ policies' = [policies EXCEPT ![v] = {[version |-> 1, by |-> a]}]
          /\ active' = [active EXCEPT ![v] = {[version |-> 1, by |-> a]}]

\* p follows every version there is, immediately.
Follows(p, v) ==
  /\ \A q \in policies[v] : q.version < p.version
  /\ p.version = 1 \/ \E q \in policies[v] : p.version = q.version + 1

Publish(v) ==
  /\ vendor[v] = "present"
  /\ \E p \in policies'[v] :
       /\ p \in Policies
       /\ Follows(p, v)
       /\ policies' = [policies EXCEPT ![v] = @ \cup {p}]
       /\ active' = [active EXCEPT ![v] = {p}]
  /\ UNCHANGED vendor

Remove(v) ==
  /\ vendor[v] = "present"
  /\ vendor' = [vendor EXCEPT ![v] = "deleted"]
  /\ policies' = [policies EXCEPT ![v] = {}]
  /\ active' = [active EXCEPT ![v] = {}]

Next == \E v \in Vendors : Add(v) \/ Publish(v) \/ Remove(v)

Spec == Init /\ [][Next]_vars
=============================================================================
