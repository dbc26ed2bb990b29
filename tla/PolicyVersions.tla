--------------------------- MODULE PolicyVersions --------------------------
(***************************************************************************)
(* The versioned policies of the vendors: create_vendor, delete_vendor,    *)
(* auto-onboarding and _create_policy_version, called by transactions that *)
(* run at the same time on PostgreSQL at READ COMMITTED.                   *)
(*                                                                         *)
(* No lock is taken before the version number is computed. What keeps one  *)
(* policy active is the order of the three statements of                   *)
(* _create_policy_version together with the unique constraint on           *)
(* (vendor_id, version): each statement is an action here.                 *)
(*                                                                         *)
(* An UPDATE works on the rows that match in the snapshot it starts from;  *)
(* it waits for rows locked by other transactions, and looks at them again *)
(* once they are free. Rows committed meanwhile are not in its snapshot.   *)
(***************************************************************************)
EXTENDS Naturals, FiniteSetsExt

CONSTANTS
  Requests,   \* the calls of POST /vendors/{id}/policies, one transaction each
  Vendors,    \* vendor ids (uuid4, never used twice)
  Founder     \* author of the policy a vendor is created with

ASSUME FounderAssumption == Founder \notin Requests

VARIABLES
  vendor,     \* "absent" until created, "deleted" for good afterwards
  policies,   \* committed rows of vendor_policies
  active,     \* those with is_active set
  pc,         \* where each call is
  of,         \* the vendor it names
  next,       \* the version number it computed
  seen,       \* active rows in the snapshot of its UPDATE
  held,       \* rows its UPDATE deactivated and keeps locked until the end
  after       \* the calls that had ended when it began

tables == <<vendor, policies, active>>
vars   == <<vendor, policies, active, pc, of, next, seen, held, after>>

Authors  == Requests \cup {Founder}
Policies == [version : Nat \ {0}, by : Authors]

Open  == {"begun", "select", "update", "locking", "insert", "commit"}
Ended == {"ok", "failed"}

Active(t) == pc[t] \in Open

Goto(t, where) == pc' = [pc EXCEPT ![t] = where]

\* Rolled back, or finished: the locks are released.
End(t, outcome) ==
  /\ Goto(t, outcome)
  /\ seen' = [seen EXCEPT ![t] = {}]
  /\ held' = [held EXCEPT ![t] = {}]
  /\ UNCHANGED <<of, next, after>>

Fail(t) == End(t, "failed") /\ UNCHANGED tables

-----------------------------------------------------------------------------

Numbers(v) == {p.version : p \in policies[v]}

\* Mutant: max(version), or 0.
NextFromZero(v) == IF policies[v] = {} THEN 0 ELSE Max(Numbers(v))

\* max(version) or 0, plus one.
NextVersion(v) == IF policies[v] = {} THEN 1 ELSE 1 + Max(Numbers(v))

\* The call begins; its first statement finds the vendor, or it answers 404.
Begin(t) ==
  /\ pc[t] = "idle"
  /\ \E v \in Vendors : of' = [of EXCEPT ![t] = v]
  /\ after' = [after EXCEPT ![t] = {u \in Requests : pc[u] \in Ended}]
  /\ Goto(t, "begun")
  /\ UNCHANGED <<tables, next, seen, held>>

GetVendor(t) ==
  /\ pc[t] = "begun"
  /\ IF vendor[of[t]] = "present"
     THEN Goto(t, "select") /\ UNCHANGED <<tables, of, next, seen, held, after>>
     ELSE Fail(t)

SelectMax(t) ==
  /\ pc[t] = "select"
  /\ next' = [next EXCEPT ![t] = NextVersion(of[t])]
  /\ Goto(t, "update")
  /\ UNCHANGED <<tables, of, seen, held, after>>

\* The UPDATE starts: its snapshot.
UpdateStarts(t) ==
  /\ pc[t] = "update"
  /\ seen' = [seen EXCEPT ![t] = active[of[t]]]
  /\ Goto(t, "locking")
  /\ UNCHANGED <<tables, of, next, held, after>>

LockedByOthers(t) == \E u \in Requests \ {t} : seen[t] \cap held[u] # {}

\* Mutant: nothing is deactivated.
UpdateNothing(t) ==
  /\ pc[t] = "locking"
  /\ ~ LockedByOthers(t)
  /\ Goto(t, "insert")
  /\ UNCHANGED <<tables, of, next, seen, held, after>>

\* It has the locks, and deactivates the rows that still match.
UpdateEnds(t) ==
  /\ pc[t] = "locking"
  /\ ~ LockedByOthers(t)
  /\ held' = [held EXCEPT ![t] = seen[t] \cap active[of[t]]]
  /\ Goto(t, "insert")
  /\ UNCHANGED <<tables, of, next, seen, after>>

\* Mutant: INSERT does not see the rows of open transactions.
InsertBlind(t) == FALSE

\* Mutant: INSERT waits for the version to be withdrawn.
InsertPatient(t) ==
  \E u \in Requests \ {t} :
    pc[u] \in {"commit", "ok"} /\ of[u] = of[t] /\ next[u] = next[t]

\* An open transaction has inserted the same version: INSERT waits for it.
InsertedByOthers(t) ==
  \E u \in Requests \ {t} : pc[u] = "commit" /\ of[u] = of[t] /\ next[u] = next[t]

\* Mutant: no unique constraint on (vendor_id, version).
NumberNeverTaken(t) == FALSE

\* The unique constraint on (vendor_id, version).
NumberTaken(t) == next[t] \in Numbers(of[t])

\* The INSERT fails on the unique constraint, or because the vendor has been
\* deleted; the handler has no answer to that but an error.
Insert(t) ==
  /\ pc[t] = "insert"
  /\ ~ InsertedByOthers(t)
  /\ IF NumberTaken(t) \/ vendor[of[t]] # "present"
     THEN Fail(t)
     ELSE Goto(t, "commit") /\ UNCHANGED <<tables, of, next, seen, held, after>>

New(t) == [version |-> next[t], by |-> t]

Commit(t) ==
  /\ pc[t] = "commit"
  /\ policies' = [policies EXCEPT ![of[t]] = @ \cup {New(t)}]
  /\ active' = [active EXCEPT ![of[t]] = (@ \ held[t]) \cup {New(t)}]
  /\ End(t, "ok")
  /\ UNCHANGED vendor

Abort(t) == Active(t) /\ Fail(t)

-----------------------------------------------------------------------------
(* Vendors. Both are one step: a new vendor is invisible until the commit, and *)
(* DELETE waits until no other transaction has locked a row of the vendor.     *)

First == [version |-> 1, by |-> Founder]

\* create_vendor without a policy, or with one; process_invoice onboards with one.
CreateVendor(v) ==
  /\ vendor[v] = "absent"
  /\ vendor' = [vendor EXCEPT ![v] = "present"]
  /\ \/ UNCHANGED <<policies, active>>
     \/ /\ policies' = [policies EXCEPT ![v] = {First}]
        /\ active' = [active EXCEPT ![v] = {First}]
  /\ UNCHANGED <<pc, of, next, seen, held, after>>

\* Locked rows: those an UPDATE deactivated, and the vendor's own row, which the
\* foreign key of an inserted policy keeps from being deleted.
InUse(v) == \E t \in Requests : of[t] = v /\ (held[t] # {} \/ pc[t] = "commit")

DeleteVendor(v) ==
  /\ vendor[v] = "present"
  /\ ~ InUse(v)
  /\ vendor' = [vendor EXCEPT ![v] = "deleted"]
  /\ policies' = [policies EXCEPT ![v] = {}]
  /\ active' = [active EXCEPT ![v] = {}]
  /\ UNCHANGED <<pc, of, next, seen, held, after>>

-----------------------------------------------------------------------------

Init ==
  /\ vendor = [v \in Vendors |-> "absent"]
  /\ policies = [v \in Vendors |-> {}]
  /\ active = [v \in Vendors |-> {}]
  /\ pc = [t \in Requests |-> "idle"]
  /\ of \in [Requests -> Vendors]
  /\ next = [t \in Requests |-> 1]
  /\ seen = [t \in Requests |-> {}]
  /\ held = [t \in Requests |-> {}]
  /\ after = [t \in Requests |-> {}]

\* The statements of _create_policy_version and the commit of the middleware.
Handle(t) ==
  \/ GetVendor(t) \/ SelectMax(t)
  \/ UpdateStarts(t) \/ UpdateEnds(t)
  \/ Insert(t) \/ Commit(t)

Next ==
  \/ \E t \in Requests : Begin(t) \/ Handle(t) \/ Abort(t)
  \/ \E v \in Vendors : CreateVendor(v) \/ DeleteVendor(v)

Spec == Init /\ [][Next]_vars

\* A handler that is not waiting for a lock goes on.
FairSpec == Spec /\ \A t \in Requests : WF_vars(Handle(t))

-----------------------------------------------------------------------------
(* Properties *)

TypeOK ==
  /\ vendor \in [Vendors -> {"absent", "present", "deleted"}]
  /\ policies \in [Vendors -> SUBSET Policies]
  /\ active \in [Vendors -> SUBSET Policies]
  /\ pc \in [Requests -> {"idle"} \cup Open \cup Ended]
  /\ of \in [Requests -> Vendors]
  /\ next \in [Requests -> Nat \ {0}]
  /\ seen \in [Requests -> SUBSET Policies]
  /\ held \in [Requests -> SUBSET Policies]
  /\ after \in [Requests -> SUBSET Requests]

\* Exactly one policy is active as soon as there is one: the reads that use
\* scalar_one_or_none (decisions, GET .../policies/active) never find two.
OneActivePolicy ==
  \A v \in Vendors :
    /\ active[v] \subseteq policies[v]
    /\ \A p, q \in active[v] : p = q
    /\ policies[v] # {} => active[v] # {}

\* The active policy is the last one, whatever order calls came in.
ActiveIsLatest ==
  \A v \in Vendors : \A p \in active[v], q \in policies[v] : q.version <= p.version

\* Calls that are answered 201 create distinct versions, and a call that begins
\* after another one was answered creates a later version.
VersionsFollowTime ==
  \A t, u \in Requests :
    t # u /\ pc[t] = "ok" /\ pc[u] = "ok" /\ of[t] = of[u]
      => /\ next[t] # next[u]
         /\ t \in after[u] => next[t] < next[u]

\* The tables keep what PolicyHistory promises.
History == INSTANCE PolicyHistory
ImplementsHistory == History!Spec

\* Every call that has begun is answered: no two calls wait for each other.
RequestsEnd == \A t \in Requests : Active(t) ~> pc[t] \in Ended
=============================================================================
