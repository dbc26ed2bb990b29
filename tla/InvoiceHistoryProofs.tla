------------------------ MODULE InvoiceHistoryProofs ------------------------
(***************************************************************************)
(* What the overlapping calls of the pipeline mean to each other: which    *)
(* status an invoice ends with, which of two copies of a bill is approved, *)
(* and what onboarding does to a vendor.                                   *)
(*                                                                         *)
(* All of it rests on the fact that after[r], the calls that had ended     *)
(* when r began, never gains a member: an entry that another call writes   *)
(* while r is open is not one of a call in after[r].  So if nothing but    *)
(* calls of after[r] wrote to what r has loaded, what r has loaded is what *)
(* is stored.                                                              *)
(***************************************************************************)
EXTENDS InvoicePipelineProofs

\* Entries are written by commits, and "after" names calls that have ended.
Signed(i) == \A n \in DOMAIN trail[i] : pc[trail[i][n].by] \in Ended
Behind(r) == \A q \in after[r] : pc[q] \in Ended

\* A loaded invoice has the document it was loaded with, and the status too if
\* every call that wrote to it had ended before this one began.
Current(r) ==
  LET i == txn[r].inv
  IN  pc[r] \in Working /\ ~ txn[r].new /\ i \in stored =>
        /\ txn[r].copy.doc = row[i].doc
        /\ (\A n \in DOMAIN trail[i] : trail[i][n].by \in after[r])
             => txn[r].copy.status = row[i].status

HInv == \A r \in Requests : Signed(r) /\ Behind(r) /\ Current(r)

-----------------------------------------------------------------------------
(* The steps, as far as the history of the tables is concerned *)

Alone(r) == \A q \in Requests \ {r} : pc'[q] = pc[q] /\ txn'[q] = txn[q]

\* A call begins.
Begins(r) ==
  /\ pc[r] = "idle" /\ pc'[r] = "begun" /\ Alone(r)
  /\ UNCHANGED <<ledger, txn>>
  /\ after' = [after EXCEPT ![r] = {q \in Requests : pc[q] \in Ended}]

\* process_invoice goes on without loading anything anew.
Continues(r) ==
  /\ pc[r] \in Deciding
  /\ txn'[r].inv = txn[r].inv /\ txn'[r].new = txn[r].new /\ txn'[r].copy = txn[r].copy
  /\ \/ pc'[r] \in {"onboard", "compare"}
     \/ /\ pc'[r] = "decide"
        /\ txn'[r].duplicate =
             \E c \in Candidates(r) : ExactDuplicate[txn[r].copy.doc, row[c].doc]
     \/ /\ pc[r] = "decide" /\ pc'[r] = "write"
        /\ txn[r].duplicate => txn'[r].decision = "reject"

\* A call goes on, or ends, and writes nothing.
Works(r) ==
  /\ pc[r] \in Open /\ Alone(r)
  /\ UNCHANGED <<ledger, after>>
  /\ \/ pc'[r] \in Ended \cup {"insert"}
     \/ \E i \in stored : /\ pc'[r] \in {"match", "write"}
                          /\ txn'[r] = Holding(i, FALSE, row[i])
     \/ /\ pc'[r] \in {"match", "write"}
        /\ txn'[r].new /\ txn'[r].decision = "none"
     \/ Continues(r)

\* A call ends with a commit.
Commits(r) == pc[r] = "write" /\ pc'[r] = "ok" /\ Alone(r) /\ UNCHANGED after

Records(r, e) ==
  /\ Commits(r)
  /\ Recorded(r, e)
  /\ e.by = r /\ e.from = txn[r].copy.status
  /\ e.decision \in {txn[r].decision, "none"}

Adds(r) ==
  /\ Commits(r)
  /\ r \notin stored /\ stored' = stored \cup {r}
  /\ row' = [row EXCEPT ![r] = txn[r].copy]
  /\ trail[r] = <<>> /\ UNCHANGED trail

Drops(r) ==
  LET i == txn[r].inv
  IN  /\ Commits(r)
      /\ stored' = stored \ {i}
      /\ row' = [row EXCEPT ![i] = NoRow]
      /\ trail' = [trail EXCEPT ![i] = <<>>]

Steps ==
  \/ UNCHANGED <<ledger, pc, txn, after>>
  \/ \E r \in Requests :
       \/ Begins(r) \/ Works(r) \/ Adds(r) \/ Drops(r)
       \/ \E e \in Entries : Records(r, e)

LEMMA EndEffect ==
  ASSUME IInv, NEW r \in Requests, NEW o \in Ended, End(r, o)
  PROVE  pc'[r] = o /\ Alone(r)
BY DEF End, Goto, Alone, IInv, TypeOK

LEMMA ThinkSteps ==
  ASSUME IInv, NEW r \in Requests, UNCHANGED past,
         MatchVendor(r) \/ Onboard(r) \/ CheckDuplicates(r) \/ Decide(r)
  PROVE  Works(r)
<1>1. pc \in [Requests -> {"idle"} \cup Open \cup Ended] /\ txn \in [Requests -> Txns]
  BY DEF IInv, TypeOK
<1>2. CASE Fail(r)
  BY <1>2, EndEffect
     DEF Fail, MatchVendor, Onboard, CheckDuplicates, Decide, Works, Open, Ended, past
<1>3. CASE ~ Fail(r) /\ (MatchVendor(r) \/ Onboard(r))
  <2>1. pc[r] \in {"match", "onboard"} /\ pc'[r] \in {"onboard", "compare"} /\ UNCHANGED ledger
        /\ \A q \in Requests \ {r} : pc'[q] = pc[q]
    BY <1>1, <1>3 DEF MatchVendor, Onboard, Goto
  <2>2. /\ txn'[r].inv = txn[r].inv /\ txn'[r].new = txn[r].new /\ txn'[r].copy = txn[r].copy
        /\ \A q \in Requests \ {r} : txn'[q] = txn[q]
    BY <1>1, <1>3 DEF MatchVendor, Onboard, Txns
  <2> QED BY <2>1, <2>2 DEF Works, Continues, Alone, Deciding, Open, past
<1>4. CASE CheckDuplicates(r)
  <2> DEFINE b == \E c \in Candidates(r) : ExactDuplicate[txn[r].copy.doc, row[c].doc]
  <2>1. pc[r] = "compare" /\ pc'[r] = "decide" /\ UNCHANGED ledger
        /\ \A q \in Requests \ {r} : pc'[q] = pc[q]
    BY <1>1, <1>4 DEF CheckDuplicates, Goto
  <2>2. txn' = [txn EXCEPT ![r].duplicate = b]
    BY <1>4 DEF CheckDuplicates
  <2>3. /\ txn'[r].inv = txn[r].inv /\ txn'[r].new = txn[r].new /\ txn'[r].copy = txn[r].copy
        /\ txn'[r].duplicate = b
        /\ \A q \in Requests \ {r} : txn'[q] = txn[q]
    <3> HIDE DEF b
    <3> QED BY <1>1, <2>2 DEF Txns
  <2> QED BY <2>1, <2>3 DEF Works, Continues, Alone, Deciding, Open, past
<1>5. CASE Decide(r)
  <2>1. pc[r] = "decide" /\ pc'[r] = "write" /\ UNCHANGED ledger
        /\ \A q \in Requests \ {r} : pc'[q] = pc[q]
    BY <1>1, <1>5 DEF Decide, Goto
  <2>2. PICK d \in Verdicts(r) : txn' = [txn EXCEPT ![r].decision = d]
    BY <1>5 DEF Decide
  <2>3. txn[r].duplicate => d = "reject"
    BY <2>2 DEF Verdicts
  <2>4. /\ txn'[r].inv = txn[r].inv /\ txn'[r].new = txn[r].new /\ txn'[r].copy = txn[r].copy
        /\ txn'[r].decision = d
        /\ \A q \in Requests \ {r} : txn'[q] = txn[q]
    BY <1>1, <2>2 DEF Txns
  <2> QED BY <2>1, <2>3, <2>4 DEF Works, Continues, Alone, Deciding, Open, past
<1> QED BY <1>2, <1>3, <1>4, <1>5

LEMMA ReadSteps ==
  ASSUME IInv, NEW r \in Requests, UNCHANGED past, FindByKey(r) \/ Load(r) \/ Insert(r)
  PROVE  Works(r)
<1>1. pc \in [Requests -> {"idle"} \cup Open \cup Ended] /\ txn \in [Requests -> Txns]
  BY DEF IInv, TypeOK
<1>2. pc[r] \in Open /\ UNCHANGED <<ledger, after>>
  BY DEF FindByKey, Load, Insert, Fail, End, Open, past
<1>3. ASSUME NEW o \in Ended, End(r, o) PROVE Works(r)
  BY <1>2, <1>3, EndEffect DEF Works
<1>4. ASSUME NEW i \in stored, NEW p \in {"match", "write"}, Goto(r, p),
             txn' = [txn EXCEPT ![r] = Holding(i, FALSE, row[i])]
      PROVE  Works(r)
  BY <1>1, <1>2, <1>4 DEF Works, Alone, Goto
<1>5. CASE FindByKey(r)
  <2>1. CASE Goto(r, "insert") /\ UNCHANGED <<txn, job>>
    BY <1>1, <1>2, <2>1 DEF Works, Alone, Goto
  <2> QED BY <1>3, <1>4, <1>5, <2>1 DEF FindByKey, Holders, Ended
<1>6. CASE Load(r)
  BY <1>3, <1>4, <1>6 DEF Load, Fail, Ended
<1>7. CASE Insert(r)
  <2>1. CASE Conflict(job[r].key)
    BY <1>3, <1>7, <2>1 DEF Insert, Ended
  <2>2. CASE ~ Conflict(job[r].key)
    <3>1. PICK v \in GivenVendors(r) :
            /\ txn' = [txn EXCEPT ![r] = Holding(r, TRUE, Inserting(r, v))]
            /\ Goto(r, IF job[r].op = "process" THEN "match" ELSE "write")
      BY <1>7, <2>2 DEF Insert
    <3>2. /\ pc'[r] \in {"match", "write"} /\ Alone(r)
          /\ txn'[r] = Holding(r, TRUE, Inserting(r, v))
      BY <1>1, <3>1 DEF Goto, Alone
    <3>3. txn'[r].new /\ txn'[r].decision = "none"
      BY <3>2 DEF Holding
    <3> QED BY <1>2, <3>2, <3>3 DEF Works
  <2> QED BY <2>1, <2>2
<1> QED BY <1>5, <1>6, <1>7

LEMMA WriteSteps ==
  ASSUME IInv, NEW r \in Requests, UNCHANGED past, Persist(r) \/ Transition(r)
  PROVE  Works(r) \/ \E e \in Entries : Records(r, e)
<1>1. CASE Fail(r)
  BY <1>1, EndEffect DEF Fail, Persist, Transition, Works, Open, Ended, past
<1>2. CASE ~ Fail(r) /\ Persist(r)
  <2> DEFINE e == Entry(r, DecisionStatus[txn[r].decision], txn[r].decision)
  <2>1. Recorded(r, e) /\ End(r, "ok")
    BY <1>2, PersistRecords
  <2>2. e.by = r /\ e.from = txn[r].copy.status /\ e.decision = txn[r].decision
    BY DEF Entry
  <2>3. e \in Entries
    BY <2>1 DEF Recorded
  <2>4. Commits(r)
    BY <1>2, <2>1, EndEffect DEF Commits, Persist, Ended, past
  <2> HIDE DEF e
  <2> QED BY <2>1, <2>2, <2>3, <2>4 DEF Records
<1>3. CASE ~ Fail(r) /\ Transition(r)
  <2> DEFINE e == Entry(r, job[r].target, "none")
  <2>1. Recorded(r, e) /\ End(r, "ok")
    BY <1>3, TransitionRecords
  <2>2. e.by = r /\ e.from = txn[r].copy.status /\ e.decision = "none"
    BY DEF Entry
  <2>3. e \in Entries
    BY <2>1 DEF Recorded
  <2>4. Commits(r)
    BY <1>3, <2>1, EndEffect DEF Commits, Transition, Ended, past
  <2> HIDE DEF e
  <2> QED BY <2>1, <2>2, <2>3, <2>4 DEF Records
<1> QED BY <1>1, <1>2, <1>3

LEMMA StepKinds == IInv /\ [Next]_vars => Steps
<1> SUFFICES ASSUME IInv, [Next]_vars PROVE Steps
  OBVIOUS
<1>1. ASSUME NEW r \in Requests, Begin(r) PROVE Begins(r)
  <2>1. PICK j \in Jobs : BeginWith(r, j)
    BY <1>1, BeginTypes DEF IInv
  <2> QED BY <2>1 DEF BeginWith, Begins, Alone, Goto, IInv, TypeOK
<1>2. ASSUME NEW r \in Requests, Handle(r)
      PROVE  Works(r) \/ Adds(r) \/ Drops(r) \/ \E e \in Entries : Records(r, e)
  <2>1. CASE FindByKey(r) \/ Load(r) \/ Insert(r)
    BY <1>2, <2>1, ReadSteps DEF Handle
  <2>2. CASE MatchVendor(r) \/ Onboard(r) \/ CheckDuplicates(r) \/ Decide(r)
    BY <1>2, <2>2, ThinkSteps DEF Handle
  <2>3. CASE Persist(r) \/ Transition(r)
    BY <1>2, <2>3, WriteSteps DEF Handle
  <2>4. CASE CommitNew(r)
    BY <1>2, <2>4, CommitNewEffect, EndEffect DEF Handle, Adds, Commits, Ended, past
  <2>5. CASE Delete(r)
    BY <1>2, <2>5, EndEffect DEF Handle, Delete, Drops, Commits, Ended, past
  <2> QED BY <1>2, <2>1, <2>2, <2>3, <2>4, <2>5 DEF Handle, Submit, Process, Review
<1>3. ASSUME NEW r \in Requests, Abort(r) PROVE Works(r)
  BY <1>3, EndEffect DEF Abort, Active, Fail, Works, Ended, past
<1>4. ASSUME NEW v \in Vendors, Administer(v) PROVE UNCHANGED <<ledger, pc, txn, after>>
  BY <1>4 DEF Administer, CreateVendor, UpdateVendor, UploadPolicy, RemovePolicy, past
<1>5. CASE UNCHANGED vars
  BY <1>5 DEF vars, Steps, ledger
<1> QED BY <1>1, <1>2, <1>3, <1>4, <1>5 DEF Next, Steps

-----------------------------------------------------------------------------
(* What overlapping calls leave as it was *)

\* A call that has ended stays so.
LEMMA EndedStays ==
  ASSUME IInv, Steps, NEW q \in Requests, pc[q] \in Ended
  PROVE  pc'[q] \in Ended
BY DEF Steps, Begins, Works, Adds, Drops, Records, Commits, Alone, Open, Ended

LEMMA SignedHolds ==
  ASSUME IInv, HInv, Steps, NEW i \in Requests
  PROVE  Signed(i)'
<1>1. \A n \in DOMAIN trail[i] : pc[trail[i][n].by] \in Ended /\ trail[i][n].by \in Requests
  <2>1. trail[i] \in Seq(Entries)
    BY DEF IInv, TypeOK
  <2>2. \A n \in DOMAIN trail[i] : trail[i][n] \in Entries
    BY <2>1
  <2>3. \A e \in Entries : e.by \in Requests
    BY DEF Entries
  <2> QED BY <2>2, <2>3 DEF HInv, Signed
<1>2. \A q \in Requests : pc[q] \in Ended => pc'[q] \in Ended
  BY EndedStays
<1>3. CASE trail'[i] = trail[i]
  BY <1>1, <1>2, <1>3 DEF Signed
<1>4. ASSUME NEW r \in Requests, NEW e \in Entries, Records(r, e) PROVE Signed(i)'
  <2>1. trail'[i] = trail[i] \/ trail'[i] = Append(trail[i], e)
    BY <1>4 DEF Records, Recorded, IInv, TypeOK
  <2>2. trail[i] \in Seq(Entries) /\ e.by = r /\ pc'[r] \in Ended
    BY <1>4 DEF Records, Commits, IInv, TypeOK, Ended
  <2> QED BY <1>1, <1>2, <2>1, <2>2 DEF Signed
<1>5. ASSUME NEW r \in Requests, Drops(r) PROVE Signed(i)'
  <2>1. trail'[i] = trail[i] \/ trail'[i] = <<>>
    BY <1>5 DEF Drops, IInv, TypeOK
  <2> QED BY <1>3, <2>1 DEF Signed
<1>6. trail' = trail \/ (\E r \in Requests : Drops(r) \/ \E e \in Entries : Records(r, e))
  BY DEF Steps, Begins, Works, Adds, ledger
<1> QED BY <1>3, <1>4, <1>5, <1>6

LEMMA BehindHolds ==
  ASSUME IInv, HInv, Steps, NEW r \in Requests
  PROVE  Behind(r)'
<1>1. after'[r] = after[r] \/ after'[r] = {q \in Requests : pc[q] \in Ended}
  BY DEF Steps, Begins, Works, Adds, Drops, Records, Commits, IInv, TypeOK
<1>2. \A q \in Requests : pc[q] \in Ended => pc'[q] \in Ended
  BY EndedStays
<1>3. after[r] \subseteq Requests /\ Behind(r)
  BY DEF HInv, IInv, TypeOK
<1> QED BY <1>1, <1>2, <1>3 DEF Behind

\* What one call has loaded while another one takes a step.
LEMMA CurrentElsewhere ==
  ASSUME IInv, IInv', HInv, NEW q \in Requests,
         pc'[q] = pc[q], txn'[q] = txn[q], after'[q] = after[q],
         \/ UNCHANGED ledger
         \/ \E r \in Requests \ {q} : pc[r] = "write" /\ (Adds(r) \/ Drops(r) \/ \E e \in Entries : Records(r, e))
  PROVE  Current(q)'
<1> SUFFICES ASSUME pc[q] \in Working, ~ txn[q].new, txn[q].inv \in stored'
             PROVE  LET i == txn[q].inv
                    IN  /\ txn[q].copy.doc = row'[i].doc
                        /\ (\A n \in DOMAIN trail'[i] : trail'[i][n].by \in after[q])
                             => txn[q].copy.status = row'[i].status
  BY DEF Current
<1> DEFINE i == txn[q].inv
<1>1. i \in Requests /\ pc[i] \in Ended /\ row \in [Requests -> Rows] /\ trail \in [Requests -> Seq(Entries)]
  BY DEF IInv, TypeOK, Txns, Grounded
<1>2. CASE i \in stored /\ row'[i] = row[i] /\ trail'[i] = trail[i]
  BY <1>2 DEF HInv, Current
<1>3. CASE UNCHANGED ledger
  BY <1>2, <1>3 DEF ledger
<1>4. ASSUME NEW r \in Requests, Adds(r) PROVE i \in stored /\ row'[i] = row[i] /\ trail'[i] = trail[i]
  BY <1>1, <1>4 DEF Adds, Commits, Ended
<1>5. ASSUME NEW r \in Requests, Drops(r) PROVE i \in stored /\ row'[i] = row[i] /\ trail'[i] = trail[i]
  BY <1>1, <1>5 DEF Drops
<1>6. ASSUME NEW r \in Requests \ {q}, NEW e \in Entries, Records(r, e)
      PROVE  /\ txn[q].copy.doc = row'[i].doc
             /\ (\A n \in DOMAIN trail'[i] : trail'[i][n].by \in after[q])
                  => txn[q].copy.status = row'[i].status
  <2>1. CASE i # txn[r].inv
    <3>1. i \in stored /\ row'[i] = row[i] /\ trail'[i] = trail[i]
      BY <1>1, <1>6, <2>1 DEF Records, Recorded
    <3> QED BY <1>2, <3>1
  <2>2. CASE i = txn[r].inv
    <3>1. pc[r] = "write" /\ pc[r] \notin Ended /\ ~ txn[r].new /\ i \in stored
      <4>1. pc[r] = "write" /\ pc[r] \notin Ended
        BY <1>6 DEF Records, Commits, Ended
      <4>2. IF txn[r].new THEN i = r ELSE i \in stored
        BY <1>6, <2>2 DEF Records, Recorded
      <4> QED BY <1>1, <4>1, <4>2
    <3>2. row'[i].doc = row[i].doc /\ trail'[i] = Append(trail[i], e) /\ e.by = r
      BY <1>1, <1>6, <2>2, <3>1 DEF Records, Recorded, Old
    <3>3. Len(trail[i]) + 1 \in DOMAIN trail'[i] /\ trail'[i][Len(trail[i]) + 1] = e
      BY <1>1, <3>2
    <3>4. r \notin after[q]
      BY <3>1 DEF HInv, Behind
    <3>5. txn[q].copy.doc = row[i].doc
      BY <3>1 DEF HInv, Current
    <3> QED BY <3>2, <3>3, <3>4, <3>5
  <2> QED BY <2>1, <2>2
<1> QED BY <1>2, <1>3, <1>4, <1>5, <1>6

LEMMA CurrentHolds ==
  ASSUME IInv, IInv', HInv, Steps, NEW q \in Requests
  PROVE  Current(q)'
<1>1. CASE UNCHANGED <<ledger, pc, txn, after>>
  BY <1>1, CurrentElsewhere
<1>2. ASSUME NEW r \in Requests, Begins(r) PROVE Current(q)'
  <2>1. CASE q = r
    BY <1>2, <2>1 DEF Begins, Current, Working, Deciding
  <2>2. CASE q # r
    <3>1. pc'[q] = pc[q] /\ txn'[q] = txn[q] /\ after'[q] = after[q] /\ UNCHANGED ledger
      BY <1>2, <2>2 DEF Begins, Alone, IInv, TypeOK
    <3> QED BY <3>1, CurrentElsewhere
  <2> QED BY <2>1, <2>2
<1>3. ASSUME NEW r \in Requests, Works(r) PROVE Current(q)'
  <2>1. CASE q # r
    <3>1. pc'[q] = pc[q] /\ txn'[q] = txn[q] /\ after'[q] = after[q] /\ UNCHANGED ledger
      BY <1>3, <2>1 DEF Works, Alone
    <3> QED BY <3>1, CurrentElsewhere
  <2>2. CASE q = r /\ pc'[r] \in Ended \cup {"insert"}
    BY <2>2 DEF Current, Working, Deciding, Ended
  <2>3. ASSUME q = r, NEW i \in stored, txn'[r] = Holding(i, FALSE, row[i]) PROVE Current(q)'
    BY <1>3, <2>3 DEF Current, Holding, Works, ledger
  <2>4. CASE q = r /\ txn'[r].new
    BY <2>4 DEF Current
  <2>5. CASE q = r /\ Continues(r)
    BY <1>3, <2>5 DEF HInv, Current, Continues, Working, Works, ledger
  <2> QED BY <1>3, <2>1, <2>2, <2>3, <2>4, <2>5 DEF Works
<1>4. ASSUME NEW r \in Requests, Commits(r), Adds(r) \/ Drops(r) \/ \E e \in Entries : Records(r, e)
      PROVE  Current(q)'
  <2>1. CASE q = r
    BY <1>4, <2>1 DEF Commits, Current, Working, Deciding
  <2>2. CASE q # r
    <3>1. pc'[q] = pc[q] /\ txn'[q] = txn[q] /\ after'[q] = after[q] /\ pc[r] = "write"
      BY <1>4, <2>2 DEF Commits, Alone
    <3> QED BY <1>4, <2>2, <3>1, CurrentElsewhere
  <2> QED BY <2>1, <2>2
<1> QED BY <1>1, <1>2, <1>3, <1>4 DEF Steps, Adds, Drops, Records

LEMMA InitHistory == Init => HInv
<1> SUFFICES ASSUME Init PROVE HInv
  OBVIOUS
<1> QED BY DEF Init, HInv, Signed, Behind, Current, Working, Deciding

LEMMA StepHistory == IInv /\ IInv' /\ HInv /\ [Next]_vars => HInv'
<1> SUFFICES ASSUME IInv, IInv', HInv, [Next]_vars PROVE HInv'
  OBVIOUS
<1>1. Steps
  BY StepKinds
<1> QED BY <1>1, SignedHolds, BehindHolds, CurrentHolds DEF HInv

\* No entry is written by a call that has not ended, no call counts another one as
\* ended before its time, and what a call has loaded is what is stored unless an
\* overlapping call has written to it.
THEOREM HistoryInvariance == Spec => []HInv
BY Invariance, InitHistory, StepHistory, PTL DEF Spec


-----------------------------------------------------------------------------
(* The last word *)

\* What a trail that has just gained the entry e says of the status.
LEMMA LastWord ==
  ASSUME IInv, HInv, NEW r \in Requests, NEW e \in Entries, Records(r, e),
         NEW i, i = txn[r].inv,
         \A n \in DOMAIN trail[i] : trail[i][n].by \in after[r]
  PROVE  row'[i].status = e.to
<1>1. CASE txn[r].new
  BY <1>1 DEF Records, Recorded
<1>2. CASE ~ txn[r].new
  <2>1. pc[r] \in Working /\ i \in stored
    BY <1>2 DEF Records, Commits, Recorded, Working
  <2>2. txn[r].copy.status = row[i].status
    BY <1>2, <2>1 DEF HInv, Current
  <2> QED BY <1>2, <2>2 DEF Records, Recorded, Column, Old
<1> QED BY <1>1, <1>2

LEMMA LastWordHolds ==
  ASSUME IInv, HInv, HInv', LastWordStands, Steps
  PROVE  LastWordStands'
<1> DEFINE Overtaken(i) ==
      \A n \in 1 .. Len(trail[i]) - 1 : trail[i][n].by \in after[trail[i][Len(trail[i])].by]
<1>1. stored \subseteq Requests /\ trail \in [Requests -> Seq(Entries)] /\ row \in [Requests -> Rows]
  BY DEF IInv, TypeOK
<1> SUFFICES ASSUME NEW i \in stored', trail'[i] # <<>>, Overtaken(i)'
             PROVE  row'[i].status = trail'[i][Len(trail'[i])].to
  BY DEF LastWordStands
<1>2. ASSUME i \in stored, trail'[i] = trail[i], row'[i] = row[i],
             \A q \in Requests : pc[q] \in Ended => after'[q] = after[q]
      PROVE  row'[i].status = trail'[i][Len(trail'[i])].to
  <2>1. Len(trail[i]) \in DOMAIN trail[i]
    BY <1>1, <1>2
  <2>2. trail[i][Len(trail[i])] \in Entries
    BY <1>1, <1>2, <2>1
  <2>3. pc[trail[i][Len(trail[i])].by] \in Ended /\ trail[i][Len(trail[i])].by \in Requests
    BY <1>1, <1>2, <2>1, <2>2 DEF HInv, Signed, Entries
  <2>4. after'[trail[i][Len(trail[i])].by] = after[trail[i][Len(trail[i])].by]
    BY <1>2, <2>3
  <2> QED BY <1>2, <2>4 DEF LastWordStands
<1>3. CASE UNCHANGED <<ledger, pc, txn, after>>
  BY <1>2, <1>3 DEF ledger
<1>4. ASSUME NEW r \in Requests, Begins(r) PROVE row'[i].status = trail'[i][Len(trail'[i])].to
  BY <1>2, <1>4 DEF Begins, Ended, ledger, IInv, TypeOK
<1>5. ASSUME NEW r \in Requests, Works(r) PROVE row'[i].status = trail'[i][Len(trail'[i])].to
  BY <1>2, <1>5 DEF Works, ledger
<1>6. ASSUME NEW r \in Requests, Adds(r) PROVE row'[i].status = trail'[i][Len(trail'[i])].to
  BY <1>1, <1>2, <1>6 DEF Adds, Commits
<1>7. ASSUME NEW r \in Requests, Drops(r) PROVE row'[i].status = trail'[i][Len(trail'[i])].to
  <2>1. i \in stored /\ trail'[i] = trail[i] /\ row'[i] = row[i] /\ UNCHANGED after
    BY <1>1, <1>7 DEF Drops, Commits
  <2> QED BY <1>2, <2>1
<1>8. ASSUME NEW r \in Requests, NEW e \in Entries, Records(r, e)
      PROVE  row'[i].status = trail'[i][Len(trail'[i])].to
  <2>1. UNCHANGED after
    BY <1>8 DEF Records, Commits
  <2>2. CASE i # txn[r].inv
    <3>1. i \in stored /\ trail'[i] = trail[i] /\ row'[i] = row[i]
      BY <1>1, <1>8, <2>2 DEF Records, Recorded
    <3> QED BY <1>2, <2>1, <3>1
  <2>3. CASE i = txn[r].inv
    <3>1. i \in Requests /\ trail[i] \in Seq(Entries) /\ trail'[i] = Append(trail[i], e) /\ e.by = r
      BY <1>1, <1>8, <2>3 DEF Records, Recorded, IInv, TypeOK, Txns
    <3>2. /\ Len(trail'[i]) = Len(trail[i]) + 1 /\ trail'[i][Len(trail'[i])] = e
          /\ \A n \in DOMAIN trail[i] : n \in 1 .. Len(trail'[i]) - 1 /\ trail'[i][n] = trail[i][n]
      BY <3>1
    <3>3. \A n \in DOMAIN trail[i] : trail[i][n].by \in after[r]
      BY <2>1, <3>1, <3>2
    <3>4. row'[i].status = e.to
      BY <1>8, <2>3, <3>3, LastWord
    <3> QED BY <3>2, <3>4
  <2> QED BY <2>2, <2>3
<1> QED BY <1>3, <1>4, <1>5, <1>6, <1>7, <1>8 DEF Steps

\* Whatever overlaps, an invoice whose last writer had seen all earlier ones out has
\* the status that writer announced: the UPDATE leaves a column out only when it is
\* as loaded, and then nobody has changed it since.
THEOREM LastWordKept == Spec => []LastWordStands
<1>1. Init => LastWordStands
  BY DEF Init, LastWordStands
<1>2. IInv /\ HInv /\ HInv' /\ LastWordStands /\ [Next]_vars => LastWordStands'
  BY LastWordHolds, StepKinds
<1> QED BY <1>1, <1>2, Invariance, HistoryInvariance, PTL DEF Spec

-----------------------------------------------------------------------------
(* Two copies of a bill *)

\* Invoices are made by submissions, and a call that has not begun has no date.
Dated(r) ==
  /\ pc[r] = "idle" => begun[r] = 0
  /\ r \in stored \/ txn[r].new => job[r].op \in Submissions

DInv == \A r \in Requests : Dated(r)

\* What a call is, when it began and what had ended by then does not change.
Lasting ==
  \A r \in Requests :
    pc[r] # "idle" => begun'[r] = begun[r] /\ job'[r].op = job[r].op /\ after'[r] = after[r]

\* The steps that start no call.
Keeps ==
  /\ UNCHANGED <<begun, after>>
  /\ \A q \in Requests :
       /\ job'[q].op = job[q].op /\ (pc'[q] = "idle" => pc[q] = "idle")
       /\ q \in stored' \/ txn'[q].new => q \in stored \/ txn[q].new \/ job[q].op \in Submissions

LEMMA EndKeeps ==
  ASSUME IInv, NEW r \in Requests, NEW o \in Ended, End(r, o)
  PROVE  \A q \in Requests : /\ job'[q].op = job[q].op /\ (pc'[q] = "idle" => pc[q] = "idle")
                             /\ txn'[q].new => txn[q].new
<1>1. \A q \in Requests \ {r} : job'[q] = job[q] /\ pc'[q] = pc[q] /\ txn'[q] = txn[q]
  BY DEF End, Goto, IInv, TypeOK
<1>2. job'[r].op = job[r].op /\ pc'[r] # "idle" /\ ~ txn'[r].new
  BY DEF End, Goto, IInv, TypeOK, Ended, Submission, Blank, Holding
<1> QED BY <1>1, <1>2

LEMMA FailKeeps ==
  ASSUME IInv, NEW r \in Requests, Fail(r), UNCHANGED past
  PROVE  Keeps
BY EndKeeps DEF Fail, Ended, ledger, past, Keeps

LEMMA HandleKeeps ==
  ASSUME IInv, NEW r \in Requests, Handle(r)
  PROVE  Keeps
<1>0. /\ pc \in [Requests -> {"idle"} \cup Open \cup Ended] /\ txn \in [Requests -> Txns]
      /\ UNCHANGED <<begun, after>> /\ stored \subseteq Requests
      /\ Placed(r) /\ Untouched(r)
  BY DEF IInv, TypeOK, Handle, past
<1>1. ASSUME NEW o \in Ended, End(r, o), stored' \subseteq stored PROVE Keeps
  BY <1>0, <1>1, EndKeeps DEF Keeps
<1>2. ASSUME NEW where, where # "idle", Goto(r, where), UNCHANGED <<job, stored>>,
             \A q \in Requests : txn'[q].new => txn[q].new \/ job[q].op \in Submissions
      PROVE  Keeps
  BY <1>0, <1>2 DEF Goto, Keeps
<1>3. CASE FindByKey(r)
  <2>1. ASSUME NEW i \in Holders(job[r].key), Goto(r, "match"),
               txn' = [txn EXCEPT ![r] = Holding(i, FALSE, row[i])], UNCHANGED job
        PROVE  Keeps
    BY <1>0, <1>2, <1>3, <2>1 DEF FindByKey, Holding, ledger
  <2>2. CASE Goto(r, "insert") /\ UNCHANGED <<txn, job>>
    BY <1>2, <1>3, <2>2 DEF FindByKey, ledger
  <2> QED BY <1>1, <1>3, <2>1, <2>2 DEF FindByKey, ledger, Ended
<1>4. CASE Load(r)
  <2>1. CASE Fail(r)
    BY <1>1, <2>1 DEF Fail, ledger, Ended
  <2>2. CASE ~ Fail(r)
    <3>1. /\ txn' = [txn EXCEPT ![r] = Holding(job[r].inv, FALSE, row[job[r].inv])]
          /\ UNCHANGED <<job, stored>>
          /\ \E where \in {"match", "write"} : Goto(r, where)
      BY <1>4, <2>2 DEF Load, ledger
    <3>2. \A q \in Requests : txn'[q].new => txn[q].new
      BY <1>0, <3>1 DEF Holding
    <3> QED BY <1>2, <3>1, <3>2
  <2> QED BY <2>1, <2>2
<1>5. CASE Insert(r)
  <2>1. job[r].op \in Submissions /\ UNCHANGED stored
    BY <1>0, <1>5 DEF Insert, Placed, ledger
  <2>2. ASSUME NEW x, txn' = [txn EXCEPT ![r] = x], UNCHANGED job,
               NEW where \in {"match", "write"}, Goto(r, where)
        PROVE  Keeps
    BY <1>0, <1>2, <2>1, <2>2
  <2> QED BY <1>1, <1>5, <2>1, <2>2 DEF Insert, Ended
<1>6. CASE MatchVendor(r) \/ Onboard(r) \/ CheckDuplicates(r) \/ Decide(r)
  <2>1. CASE Fail(r)
    BY <1>1, <2>1 DEF Fail, ledger, Ended
  <2>2. CASE ~ Fail(r)
    <3>1. UNCHANGED <<job, stored>>
      BY <1>6, <2>2 DEF MatchVendor, Onboard, CheckDuplicates, Decide, ledger
    <3>2. \E where \in {"compare", "onboard", "decide", "write"} : Goto(r, where)
      BY <1>6, <2>2 DEF MatchVendor, Onboard, CheckDuplicates, Decide
    <3>3. \A q \in Requests : txn'[q].new = txn[q].new
      <4>1. CASE MatchVendor(r) \/ Onboard(r)
        BY <1>0, <2>2, <4>1 DEF MatchVendor, Onboard, Txns
      <4>2. ASSUME NEW b, txn' = [txn EXCEPT ![r].duplicate = b] PROVE \A q \in Requests : txn'[q].new = txn[q].new
        BY <1>0, <4>2 DEF Txns
      <4>3. ASSUME NEW d, txn' = [txn EXCEPT ![r].decision = d] PROVE \A q \in Requests : txn'[q].new = txn[q].new
        BY <1>0, <4>3 DEF Txns
      <4> QED BY <1>6, <4>1, <4>2, <4>3 DEF CheckDuplicates, Decide
    <3> QED BY <1>2, <3>1, <3>2, <3>3
  <2> QED BY <2>1, <2>2
<1>7. CASE CommitNew(r) \/ Persist(r)
  <2>1. CASE Fail(r)
    BY <1>1, <2>1 DEF Fail, ledger, Ended
  <2>2. CASE ~ Fail(r)
    <3>1. End(r, "ok")
      BY <1>7, <2>2 DEF CommitNew, Persist
    <3>2. \A q \in Requests : q \in stored' => q \in stored \/ txn[q].new \/ job[q].op \in Submissions
      BY <1>0, <1>7, <2>2 DEF CommitNew, Persist, Untouched, Submissions
    <3> QED BY <1>0, <3>1, <3>2, EndKeeps DEF Keeps, Ended
  <2> QED BY <2>1, <2>2
<1>8. CASE Transition(r)
  BY <1>1, <1>8 DEF Transition, Fail, ledger, Ended
<1>9. CASE Delete(r)
  BY <1>1, <1>9 DEF Delete, Ended
<1> QED BY <1>3, <1>4, <1>5, <1>6, <1>7, <1>8, <1>9 DEF Handle, Submit, Process, Review

LEMMA DatesLast == IInv /\ DInv /\ [Next]_vars => DInv' /\ Lasting
<1> SUFFICES ASSUME IInv, DInv, [Next]_vars PROVE DInv' /\ Lasting
  OBVIOUS
<1>1. CASE Keeps
  <2>1. ASSUME NEW q \in Requests PROVE Dated(q)'
    BY <1>1, <2>1 DEF Keeps, DInv, Dated
  <2> QED BY <1>1, <2>1 DEF Keeps, Lasting, DInv
<1>2. ASSUME NEW r \in Requests, Begin(r) PROVE DInv' /\ Lasting
  <2>1. PICK j \in Jobs : BeginWith(r, j)
    BY <1>2, BeginTypes DEF IInv
  <2>2. /\ pc[r] = "idle" /\ pc'[r] = "begun" /\ UNCHANGED <<stored, txn>>
        /\ \A q \in Requests \ {r} :
             pc'[q] = pc[q] /\ begun'[q] = begun[q] /\ job'[q] = job[q] /\ after'[q] = after[q]
    BY <2>1 DEF BeginWith, Goto, ledger, IInv, TypeOK
  <2>3. r \notin stored /\ ~ txn[r].new
    BY <2>2 DEF IInv, Placed, Untouched, Working, Deciding, Ended
  <2> QED BY <2>2, <2>3 DEF DInv, Dated, Lasting
<1>3. ASSUME NEW r \in Requests, Abort(r) PROVE Keeps
  BY <1>3, FailKeeps DEF Abort
<1>4. ASSUME NEW v \in Vendors, Administer(v) PROVE Keeps
  BY <1>4 DEF Administer, CreateVendor, UpdateVendor, UploadPolicy, RemovePolicy, ledger, past, Keeps
<1>5. ASSUME UNCHANGED vars PROVE Keeps
  BY <1>5 DEF vars, Keeps
<1> QED BY <1>1, <1>2, <1>3, <1>4, <1>5, HandleKeeps DEF Next

\* Fewer than CandidateLimit submissions lie between that of i and the end of b.
Near(i, j, b) == Cardinality(Since(i, j, b)) < CandidateLimit

LEMMA SinceFinite ==
  ASSUME NEW i, NEW j, NEW b
  PROVE  IsFiniteSet(Since(i, j, b)) /\ Cardinality(Since(i, j, b)) \in Nat
BY PipelineAssumption, FS_Subset, FS_CardinalityType DEF Since

\* What is near has always been: submissions are only added.
LEMMA NearBefore ==
  ASSUME IInv, IInv', DInv, Lasting, NEW i \in stored, NEW j, NEW b, Near(i, j, b)'
  PROVE  Near(i, j, b)
<1>1. i \in Requests /\ pc[i] # "idle" /\ begun'[i] = begun[i] /\ begun[i] \in Nat
  BY DEF IInv, TypeOK, Placed, Ended, Lasting
<1>2. Since(i, j, b) \subseteq Since(i, j, b)'
  <2> SUFFICES ASSUME NEW r \in Since(i, j, b) PROVE r \in Since(i, j, b)'
    OBVIOUS
  <2>1. r \in Requests /\ begun[r] > begun[i] /\ job[r].op \in Submissions /\ b \notin after[r]
    BY DEF Since
  <2>2. pc[r] # "idle"
    BY <1>1, <2>1 DEF DInv, Dated
  <2>3. begun'[r] = begun[r] /\ job'[r].op = job[r].op /\ after'[r] = after[r]
    BY <2>1, <2>2 DEF Lasting
  <2> QED BY <1>1, <2>1, <2>3 DEF Since
<1>3. IsFiniteSet(Since(i, j, b)')
  BY PipelineAssumption, FS_Subset DEF Since
<1>4. /\ Cardinality(Since(i, j, b)) <= Cardinality(Since(i, j, b)')
      /\ Cardinality(Since(i, j, b)') \in Nat
  BY <1>2, <1>3, FS_Subset, FS_CardinalityType
<1> QED BY <1>4, SinceFinite, PipelineAssumption DEF Near

\* A copy of the bill is stored that a call approved which had ended when r began.
Forewarned(r) ==
  \E c \in stored \ {txn[r].inv} :
    /\ Approvers(c) \cap after[r] # {}
    /\ ExactDuplicate[txn[r].copy.doc, row[c].doc]
    /\ Near(c, txn[r].inv, r)

\* A call that is forewarned finds the copy and rejects its own invoice.
Heeds(r) ==
  Forewarned(r) => /\ pc[r] = "decide" => txn[r].duplicate
                   /\ pc[r] = "write" => txn[r].decision # "auto_approve"

\* While r is open, what is near is among the candidates.
LEMMA NearCompared ==
  ASSUME IInv, HInv, DInv, NEW r \in Requests, pc[r] \in Open,
         NEW c \in Others(r), Near(c, txn[r].inv, r)
  PROVE  c \in Candidates(r)
<1> DEFINE newer == {d \in Others(r) : begun[d] > begun[c]}
<1>1. pc[r] \notin Ended
  BY DEF Open, Ended
<1>2. r \notin stored /\ stored \subseteq Requests
  BY <1>1 DEF IInv, TypeOK, Placed
<1>3. ASSUME NEW d \in newer PROVE d \in Since(c, txn[r].inv, r)
  <2>1. d \in stored /\ d # r /\ d # txn[r].inv
    BY <1>2 DEF Others
  <2>2. job[d].op \in Submissions /\ r \notin after[d]
    BY <1>1, <1>2, <2>1 DEF DInv, Dated, HInv, Behind
  <2> QED BY <1>2, <2>1, <2>2 DEF Since
<1>4. newer \subseteq Since(c, txn[r].inv, r)
  BY <1>3
<1>5. Cardinality(newer) <= Cardinality(Since(c, txn[r].inv, r)) /\ Cardinality(newer) \in Nat
  BY <1>4, SinceFinite, FS_Subset, FS_CardinalityType
<1>6. Cardinality(newer) < CandidateLimit
  BY <1>5, SinceFinite, PipelineAssumption DEF Near
<1> QED BY <1>6 DEF Candidates

\* Who approved an invoice changes with one more entry only.
LEMMA ApproversAppend ==
  ASSUME NEW tr \in Seq(Entries), NEW e \in Entries
  PROVE  LET of(s) == {s[n].by : n \in {m \in DOMAIN s : s[m].decision = "auto_approve"}}
         IN  of(Append(tr, e)) = of(tr) \cup (IF e.decision = "auto_approve" THEN {e.by} ELSE {})
<1> DEFINE app == Append(tr, e)
           of(s) == {s[n].by : n \in {m \in DOMAIN s : s[m].decision = "auto_approve"}}
<1>1. /\ DOMAIN app = DOMAIN tr \cup {Len(tr) + 1} /\ Len(tr) + 1 \notin DOMAIN tr
      /\ app[Len(tr) + 1] = e
      /\ \A n \in DOMAIN tr : app[n] = tr[n]
  OBVIOUS
<1> HIDE DEF app
<1>2. of(app) = of(tr) \cup (IF e.decision = "auto_approve" THEN {e.by} ELSE {})
  BY <1>1
<1> QED BY <1>2 DEF app

\* The approvers of an invoice after a commit of r, and its document.
LEMMA ApproversStep ==
  ASSUME IInv, NEW r \in Requests, Adds(r) \/ Drops(r) \/ \E e \in Entries : Records(r, e),
         NEW i \in stored'
  PROVE  /\ i \in Requests
         /\ i \in stored => row'[i].doc = row[i].doc
         /\ i \notin stored => Approvers(i) = {}
         /\ \/ Approvers(i)' = Approvers(i)
            \/ /\ i = txn[r].inv /\ txn[r].decision = "auto_approve"
               /\ row'[i].doc = Old(r).doc
               /\ Approvers(i)' = Approvers(i) \cup {r}
<1>1. /\ stored \subseteq Requests /\ txn[r].inv \in Requests
      /\ trail \in [Requests -> Seq(Entries)] /\ row \in [Requests -> Rows]
  BY DEF IInv, TypeOK, Txns
<1>2. i \in Requests
  BY <1>1 DEF Adds, Drops, Records, Recorded
<1>3. i \notin stored => trail[i] = <<>>
  BY <1>2 DEF IInv, Vacant
<1>4. i \notin stored => Approvers(i) = {}
  BY <1>3 DEF Approvers
<1>5. CASE Adds(r)
  BY <1>1, <1>2, <1>4, <1>5 DEF Adds, Approvers
<1>6. CASE Drops(r)
  <2>1. trail'[i] = trail[i] /\ row'[i] = row[i]
    BY <1>1, <1>2, <1>6 DEF Drops
  <2> QED BY <1>2, <1>4, <2>1 DEF Approvers
<1>7. ASSUME NEW e \in Entries, Records(r, e)
      PROVE  /\ i \in stored => row'[i].doc = row[i].doc
             /\ \/ Approvers(i)' = Approvers(i)
                \/ /\ i = txn[r].inv /\ txn[r].decision = "auto_approve"
                   /\ row'[i].doc = Old(r).doc
                   /\ Approvers(i)' = Approvers(i) \cup {r}
  <2>1. CASE i # txn[r].inv
    <3>1. trail'[i] = trail[i] /\ row'[i] = row[i]
      BY <1>1, <1>2, <1>7, <2>1 DEF Records, Recorded
    <3> QED BY <3>1 DEF Approvers
  <2>2. CASE i = txn[r].inv
    <3>1. /\ trail'[i] = Append(trail[i], e) /\ trail[i] \in Seq(Entries)
          /\ row'[i].doc = Old(r).doc
          /\ i \in stored => row'[i].doc = row[i].doc
      BY <1>1, <1>2, <1>7, <2>2 DEF Records, Recorded, Old
    <3>2. Approvers(i)' = Approvers(i) \cup (IF e.decision = "auto_approve" THEN {e.by} ELSE {})
      BY <3>1, ApproversAppend DEF Approvers
    <3>3. e.by = r /\ e.decision \in {txn[r].decision, "none"}
      BY <1>7 DEF Records
    <3> QED BY <2>2, <3>1, <3>2, <3>3
  <2> QED BY <2>1, <2>2
<1> QED BY <1>2, <1>4, <1>5, <1>6, <1>7

\* No call is forewarned by a step that writes nothing.
LEMMA UnwarnedBefore ==
  ASSUME IInv, IInv', DInv, Lasting, NEW q \in Requests, UNCHANGED ledger, after'[q] = after[q],
         txn'[q].inv = txn[q].inv, txn'[q].copy = txn[q].copy, Forewarned(q)'
  PROVE  Forewarned(q)
<1>1. PICK k : k = txn[q].inv
  OBVIOUS
<1>2. PICK c \in stored \ {k} :
        /\ Approvers(c) \cap after[q] # {}
        /\ ExactDuplicate[txn[q].copy.doc, row[c].doc]
        /\ Near(c, k, q)'
  BY <1>1 DEF Forewarned, Approvers, ledger
<1>3. Near(c, k, q)
  BY <1>2, NearBefore
<1> QED BY <1>1, <1>2, <1>3 DEF Forewarned

LEMMA HeedsElsewhere ==
  ASSUME IInv, IInv', HInv, DInv, Lasting, NEW q \in Requests, Heeds(q),
         pc'[q] = pc[q], txn'[q] = txn[q], after'[q] = after[q],
         \/ UNCHANGED ledger
         \/ \E r \in Requests : Adds(r) \/ Drops(r) \/ \E e \in Entries : Records(r, e)
  PROVE  Heeds(q)'
<1>1. ASSUME NEW r \in Requests, Adds(r) \/ Drops(r) \/ \E e \in Entries : Records(r, e),
             Forewarned(q)'
      PROVE  Forewarned(q)
  <2>1. PICK c \in stored' \ {txn[q].inv} :
          /\ Approvers(c)' \cap after[q] # {}
          /\ ExactDuplicate[txn[q].copy.doc, row'[c].doc]
          /\ Near(c, txn[q].inv, q)'
    BY <1>1 DEF Forewarned, Near, Since
  <2>2. r \notin after[q]
    <3>1. pc[r] = "write"
      BY <1>1 DEF Adds, Drops, Records, Commits
    <3> QED BY <3>1 DEF HInv, Behind, Ended
  <2>3. /\ c \in stored => row'[c].doc = row[c].doc
        /\ c \notin stored => Approvers(c) = {}
        /\ Approvers(c)' = Approvers(c) \/ Approvers(c)' = Approvers(c) \cup {r}
    BY <1>1, <2>1, ApproversStep
  <2>4. Approvers(c) \cap after[q] # {}
    BY <2>1, <2>2, <2>3
  <2>5. Near(c, txn[q].inv, q)
    BY <2>1, <2>3, <2>4, NearBefore
  <2> QED BY <2>1, <2>3, <2>4, <2>5 DEF Forewarned
<1>2. ASSUME UNCHANGED ledger, Forewarned(q)' PROVE Forewarned(q)
  BY <1>2, UnwarnedBefore
<1> QED BY <1>1, <1>2 DEF Heeds

LEMMA HeedsHolds ==
  ASSUME IInv, IInv', HInv, DInv, Lasting, Steps, NEW q \in Requests, Heeds(q)
  PROVE  Heeds(q)'
<1>1. CASE UNCHANGED <<ledger, pc, txn, after>>
  BY <1>1, HeedsElsewhere
<1>2. ASSUME NEW r \in Requests, Begins(r) PROVE Heeds(q)'
  <2>1. CASE q = r
    BY <1>2, <2>1 DEF Begins, Heeds
  <2>2. CASE q # r
    <3>1. pc'[q] = pc[q] /\ txn'[q] = txn[q] /\ after'[q] = after[q] /\ UNCHANGED ledger
      BY <1>2, <2>2 DEF Begins, Alone, IInv, TypeOK
    <3> QED BY <3>1, HeedsElsewhere
  <2> QED BY <2>1, <2>2
<1>3. ASSUME NEW r \in Requests, Works(r) PROVE Heeds(q)'
  <2>1. CASE q # r
    <3>1. pc'[q] = pc[q] /\ txn'[q] = txn[q] /\ after'[q] = after[q] /\ UNCHANGED ledger
      BY <1>3, <2>1 DEF Works, Alone
    <3> QED BY <3>1, HeedsElsewhere
  <2>2. CASE q = r /\ pc'[r] \in Ended \cup {"insert", "match", "onboard", "compare"}
    BY <2>2 DEF Heeds, Ended
  <2>3. CASE q = r /\ pc'[r] = "write" /\ txn'[r].decision = "none"
    BY <2>3 DEF Heeds
  <2>4. CASE q = r /\ Continues(r)
    <3>1. Forewarned(q)' => Forewarned(q)
      BY <1>3, <2>4, UnwarnedBefore DEF Works, Continues
    <3>2. ASSUME Forewarned(q) PROVE \E c \in Candidates(r) : ExactDuplicate[txn[r].copy.doc, row[c].doc]
      BY <1>3, <2>4, <3>2, NearCompared DEF Works, Forewarned, Others
    <3>3. CASE pc'[r] = "decide"
      <4>1. Forewarned(q)' => txn'[r].duplicate
        BY <2>4, <3>1, <3>2, <3>3 DEF Continues
      <4> QED BY <2>4, <3>3, <4>1 DEF Heeds
    <3>4. CASE pc[r] = "decide" /\ pc'[r] = "write" /\ (txn[r].duplicate => txn'[r].decision = "reject")
      BY <2>4, <3>1, <3>4 DEF Heeds
    <3> QED BY <2>2, <2>4, <3>3, <3>4 DEF Continues
  <2>5. \A i \in stored : Holding(i, FALSE, row[i]).decision = "none"
    BY DEF Holding
  <2>6. \/ pc'[r] \in Ended \cup {"insert", "match"} \/ Continues(r)
        \/ pc'[r] = "write" /\ txn'[r].decision = "none"
    BY <1>3, <2>5 DEF Works
  <2> QED BY <2>1, <2>2, <2>3, <2>4, <2>6
<1>4. ASSUME NEW r \in Requests, Commits(r), Adds(r) \/ Drops(r) \/ \E e \in Entries : Records(r, e)
      PROVE  Heeds(q)'
  <2>1. CASE q = r
    BY <1>4, <2>1 DEF Commits, Heeds
  <2>2. CASE q # r
    BY <1>4, <2>2, HeedsElsewhere DEF Commits, Alone
  <2> QED BY <2>1, <2>2
<1> QED BY <1>1, <1>2, <1>3, <1>4 DEF Steps, Adds, Drops, Records

LEMMA SerialHolds ==
  ASSUME IInv, IInv', HInv, DInv, Lasting, Steps,
         SerialDuplicatesRejected, \A q \in Requests : Heeds(q)
  PROVE  SerialDuplicatesRejected'
<1>1. stored \subseteq Requests /\ after \in [Requests -> SUBSET Requests]
  BY DEF IInv, TypeOK
<1> SUFFICES ASSUME NEW i \in stored', NEW j \in stored', Twins(i, j)',
                    NEW a \in Approvers(i)', NEW b \in Approvers(j)', a \in after'[b],
                    Near(i, j, b)'
             PROVE  FALSE
  <2>1. ASSUME NEW i, NEW j, NEW b PROVE Cardinality(Since(i, j, b)') \in Nat
    BY PipelineAssumption, FS_Subset, FS_CardinalityType DEF Since
  <2> QED BY <2>1, PipelineAssumption DEF SerialDuplicatesRejected, Near
<1>2. ASSUME NEW k \in stored, NEW x \in Approvers(k) PROVE x \in Requests /\ pc[x] \in Ended
  <2>1. PICK n \in DOMAIN trail[k] : x = trail[k][n].by
    BY <1>2 DEF Approvers
  <2>2. trail[k] \in Seq(Entries) /\ pc[trail[k][n].by] \in Ended
    BY <1>1, <2>1 DEF HInv, Signed, IInv, TypeOK
  <2>3. trail[k][n] \in Entries
    BY <2>1, <2>2
  <2> QED BY <2>1, <2>2, <2>3 DEF Entries
<1>3. CASE UNCHANGED ledger
  <2>1. i \in stored /\ j \in stored /\ Twins(i, j) /\ a \in Approvers(i) /\ b \in Approvers(j)
    BY <1>3 DEF ledger, Twins, Approvers
  <2>2. a \notin after[b]
    BY <2>1, NearBefore, SinceFinite, PipelineAssumption DEF SerialDuplicatesRejected, Near
  <2>3. after'[b] # after[b] => \E r \in Requests : Begins(r) /\ b = r
    BY <1>1, <1>2, <2>1 DEF Steps, Begins, Works, Adds, Drops, Records, Commits
  <2> QED BY <1>2, <2>1, <2>2, <2>3 DEF Begins, Ended
<1>4. ASSUME NEW r \in Requests, Commits(r), Adds(r) \/ Drops(r) \/ \E e \in Entries : Records(r, e)
      PROVE  FALSE
  <2>1. pc[r] = "write" /\ UNCHANGED after
    BY <1>4 DEF Commits
  <2>2. r \notin after[b]
    <3>1. b \in Requests
      BY <1>2, <1>4, ApproversStep
    <3> QED BY <2>1, <3>1 DEF HInv, Behind, Ended
  <2>3. a # r /\ i \in stored /\ a \in Approvers(i) /\ row'[i].doc = row[i].doc
    BY <1>4, <2>1, <2>2, ApproversStep
  <2>4. CASE b \in Approvers(j)
    <3>1. j \in stored /\ row'[j].doc = row[j].doc
      BY <1>4, <2>4, ApproversStep
    <3>2. Twins(i, j) /\ a \in after[b] /\ Near(i, j, b)
      BY <2>1, <2>3, <3>1, NearBefore DEF Twins
    <3> QED BY <2>3, <2>4, <3>1, <3>2, SinceFinite, PipelineAssumption
            DEF SerialDuplicatesRejected, Near
  <2>5. CASE b \notin Approvers(j)
    <3>1. b = r /\ j = txn[r].inv /\ txn[r].decision = "auto_approve" /\ row'[j].doc = Old(r).doc
      BY <1>4, <2>5, ApproversStep
    <3>2. Old(r).doc = txn[r].copy.doc
      <4>1. CASE txn[r].new
        BY <4>1 DEF Old
      <4>2. CASE ~ txn[r].new
        <5>1. j \in stored
          <6>1. ASSUME Adds(r) PROVE Approvers(j)' = Approvers(j)
            BY <6>1 DEF Adds, Approvers
          <6>2. ASSUME Drops(r) PROVE j \in stored
            BY <6>2 DEF Drops
          <6>3. ASSUME NEW e \in Entries, Records(r, e) PROVE j \in stored
            BY <3>1, <4>2, <6>3 DEF Records, Recorded
          <6> QED BY <1>4, <2>5, <6>1, <6>2, <6>3
        <5> QED BY <2>1, <3>1, <4>2, <5>1 DEF HInv, Current, Working, Old
      <4> QED BY <4>1, <4>2
    <3>3. ExactDuplicate[txn[r].copy.doc, row[i].doc] /\ i # j
      BY <2>3, <3>1, <3>2 DEF Twins
    <3>4. Forewarned(r)
      BY <2>1, <2>3, <3>1, <3>3, NearBefore DEF Forewarned
    <3> QED BY <2>1, <3>1, <3>4 DEF Heeds
  <2> QED BY <2>4, <2>5
<1> QED BY <1>3, <1>4 DEF Steps, Begins, Works, Adds, Drops, Records, ledger

\* Two exact duplicates of each other are both approved only by calls that overlap, or
\* when duplicate_candidate_limit other submissions have come between the two: whatever
\* else happens, and however many invoices the organization has.
THEOREM CopiesRejected == Spec => []SerialDuplicatesRejected
<1> DEFINE All == DInv /\ SerialDuplicatesRejected /\ \A q \in Requests : Heeds(q)
<1>1. Init => All
  <2> SUFFICES ASSUME Init PROVE All
    OBVIOUS
  <2>1. \A q \in Requests : pc[q] = "idle" /\ begun[q] = 0 /\ ~ txn[q].new
    BY DEF Init, Blank, Holding
  <2>2. stored = {}
    BY DEF Init
  <2>3. DInv
    BY <2>1, <2>2 DEF DInv, Dated
  <2>4. SerialDuplicatesRejected
    BY <2>2 DEF SerialDuplicatesRejected
  <2>5. \A q \in Requests : Heeds(q)
    BY <2>1 DEF Heeds
  <2> QED BY <2>3, <2>4, <2>5
<1>2. IInv /\ IInv' /\ HInv /\ All /\ [Next]_vars => All'
  BY HeedsHolds, SerialHolds, StepKinds, DatesLast
<1>3. All => SerialDuplicatesRejected
  OBVIOUS
<1> HIDE DEF All
<1> QED BY <1>1, <1>2, <1>3, Invariance, HistoryInvariance, PTL DEF Spec

-----------------------------------------------------------------------------
(* Onboarding *)

\* A call that has inserted a vendor is the only one to have done so, and nobody has
\* committed that vendor meanwhile; a call about to insert one knows its name.
Opening(r) ==
  /\ txn[r].opened =>
       /\ pc[r] \in {"compare", "decide", "write"}
       /\ txn[r].vendor \in Vendors /\ vendors[txn[r].vendor] = "absent"
       /\ \A q \in Requests \ {r} : txn[q].opened => txn[q].vendor # txn[r].vendor
  /\ pc[r] = "onboard" => VendorOf[txn[r].copy.doc] # NoVendor

OInv == \A r \in Requests : Opening(r)

\* The steps, as far as the vendor master is concerned.
Opens(r) ==
  LET v == VendorOf[txn[r].copy.doc]
  IN  /\ v \in Vendors /\ vendors[v] = "absent"
      /\ \A q \in Requests : txn[q].opened => txn[q].vendor # v
      /\ txn'[r].vendor = v /\ txn'[r].opened
      /\ pc'[r] = "compare" /\ Alone(r)
      /\ UNCHANGED vendors

Publishes(r) ==
  /\ txn[r].opened /\ ~ txn'[r].opened /\ pc'[r] \in Ended /\ Alone(r)
  /\ vendors' = [vendors EXCEPT ![txn[r].vendor] = "onboarding"]

Spares(r) ==
  /\ UNCHANGED vendors /\ Alone(r)
  /\ txn'[r].opened => /\ txn[r].opened /\ txn'[r].vendor = txn[r].vendor
                       /\ pc'[r] \in {"compare", "decide", "write"}
  /\ pc'[r] = "onboard" => VendorOf[txn'[r].copy.doc] # NoVendor

Decrees(v) ==
  /\ UNCHANGED <<pc, txn>>
  /\ \/ UNCHANGED vendors
     \/ /\ KnownVendor(v) \/ ~ Onboarding(v)
        /\ \E s \in VendorStatuses : vendors' = [vendors EXCEPT ![v] = s]

MasterSteps ==
  \/ UNCHANGED <<vendors, pc, txn>>
  \/ \E r \in Requests : Opens(r) \/ Publishes(r) \/ Spares(r)
  \/ \E v \in Vendors : Decrees(v)

LEMMA EndSpares ==
  ASSUME IInv, NEW r \in Requests, NEW o \in Ended, End(r, o)
  PROVE  Alone(r) /\ ~ txn'[r].opened /\ pc'[r] \in Ended
BY EndEffect DEF End, Blank, Holding, IInv, TypeOK

LEMMA OnboardSteps ==
  ASSUME IInv, OInv, NEW r \in Requests, Onboard(r)
  PROVE  Opens(r) \/ Spares(r)
<1> DEFINE v == VendorOf[txn[r].copy.doc]
<1>1. CASE KnownVendor(v)
  BY <1>1, EndSpares DEF Onboard, Fail, Spares, master, Ended
<1>2. CASE ~ KnownVendor(v)
  <2>1. txn[r].copy.doc \in Docs /\ pc[r] = "onboard" /\ v \in Vendors
    BY PipelineAssumption DEF Onboard, IInv, TypeOK, Txns, Rows, OInv, Opening
  <2>2. \A q \in Requests : txn[q].opened => txn[q].vendor # v
    BY DEF Onboard, Onboarding, Active, Open, OInv, Opening
  <2>3. vendors[v] = "absent"
    BY <1>2 DEF KnownVendor
  <2>4. /\ txn' = [txn EXCEPT ![r].vendor = v, ![r].opened = TRUE]
        /\ Goto(r, "compare") /\ UNCHANGED vendors
    BY <1>2 DEF Onboard, master
  <2>5. txn'[r].vendor = v /\ txn'[r].opened /\ pc'[r] = "compare" /\ Alone(r)
    <3> HIDE DEF v
    <3> QED BY <2>4 DEF Goto, Alone, IInv, TypeOK, Txns
  <2> QED BY <2>1, <2>2, <2>3, <2>4, <2>5 DEF Opens
<1> QED BY <1>1, <1>2

LEMMA MasterKinds == IInv /\ OInv /\ [Next]_vars => MasterSteps
<1> SUFFICES ASSUME IInv, OInv, [Next]_vars PROVE MasterSteps
  OBVIOUS
<1>0. /\ pc \in [Requests -> {"idle"} \cup Open \cup Ended] /\ txn \in [Requests -> Txns]
      /\ \A r \in Requests : txn[r].opened => pc[r] \in {"compare", "decide", "write"}
  BY DEF IInv, TypeOK, OInv, Opening
<1>1. ASSUME NEW r \in Requests, NEW o \in Ended, End(r, o), UNCHANGED vendors PROVE Spares(r)
  BY <1>1, EndSpares DEF Spares, Ended
<1>2. ASSUME NEW r \in Requests, Begin(r) PROVE Spares(r)
  <2>1. PICK j \in Jobs : BeginWith(r, j)
    BY <1>2, BeginTypes DEF IInv
  <2> QED BY <1>0, <2>1 DEF BeginWith, Spares, Alone, Goto, master
<1>3. ASSUME NEW r \in Requests, NEW i, NEW new, NEW copy, NEW p \in {"match", "write"},
             txn' = [txn EXCEPT ![r] = Holding(i, new, copy)], Goto(r, p), UNCHANGED vendors
      PROVE  Spares(r)
  BY <1>0, <1>3 DEF Spares, Alone, Goto, Holding
<1>4. ASSUME NEW r \in Requests, FindByKey(r) \/ Load(r) \/ Insert(r) PROVE Spares(r)
  <2>1. CASE FindByKey(r)
    <3>1. CASE Goto(r, "insert") /\ UNCHANGED <<txn, job>>
      BY <1>0, <2>1, <3>1 DEF FindByKey, Spares, Alone, Goto, master
    <3> QED BY <1>1, <1>3, <2>1, <3>1 DEF FindByKey, master, Ended
  <2>2. CASE Load(r)
    BY <1>1, <1>3, <2>2 DEF Load, Fail, master, Ended
  <2>3. CASE Insert(r)
    BY <1>1, <1>3, <2>3 DEF Insert, master, Ended
  <2> QED BY <1>4, <2>1, <2>2, <2>3
<1>5. ASSUME NEW r \in Requests, MatchVendor(r) \/ CheckDuplicates(r) \/ Decide(r) PROVE Spares(r)
  <2>1. CASE MatchVendor(r)
    <3>1. pc[r] = "match" /\ ~ txn[r].opened /\ UNCHANGED vendors
      BY <1>0, <2>1 DEF MatchVendor, master
    <3>2. txn'[r].opened = txn[r].opened /\ txn'[r].copy = txn[r].copy /\ Alone(r)
      BY <1>0, <2>1 DEF MatchVendor, Goto, Alone, Txns
    <3>3. pc'[r] = "onboard" => VendorOf[txn[r].copy.doc] # NoVendor
      BY <1>0, <2>1 DEF MatchVendor, Goto
    <3> QED BY <3>1, <3>2, <3>3 DEF Spares
  <2>2. CASE CheckDuplicates(r)
    <3>1. PICK b : txn' = [txn EXCEPT ![r].duplicate = b]
      BY <2>2 DEF CheckDuplicates
    <3>2. pc[r] = "compare" /\ pc' = [pc EXCEPT ![r] = "decide"] /\ UNCHANGED vendors
      BY <2>2 DEF CheckDuplicates, Goto, master
    <3> QED BY <1>0, <3>1, <3>2 DEF Spares, Alone, Txns
  <2>3. CASE Decide(r)
    <3>1. PICK d : txn' = [txn EXCEPT ![r].decision = d]
      BY <2>3 DEF Decide
    <3>2. pc[r] = "decide" /\ pc' = [pc EXCEPT ![r] = "write"] /\ UNCHANGED vendors
      BY <2>3 DEF Decide, Goto, master
    <3> QED BY <1>0, <3>1, <3>2 DEF Spares, Alone, Txns
  <2> QED BY <1>5, <2>1, <2>2, <2>3
<1>6. ASSUME NEW r \in Requests, CommitNew(r) \/ Transition(r) \/ Delete(r) \/ Abort(r)
      PROVE  Spares(r)
  BY <1>1, <1>6 DEF CommitNew, Transition, Delete, Abort, Fail, master, Ended
<1>7. ASSUME NEW r \in Requests, Persist(r) PROVE Spares(r) \/ Publishes(r)
  BY <1>1, <1>7, EndSpares DEF Persist, Fail, Publishes, master, Ended
<1>8. ASSUME NEW v \in Vendors, Administer(v) PROVE Decrees(v)
  BY <1>8 DEF Administer, CreateVendor, UpdateVendor, UploadPolicy, RemovePolicy, Decrees
<1>9. CASE UNCHANGED vars
  BY <1>9 DEF vars, master, MasterSteps
<1> QED BY <1>2, <1>4, <1>5, <1>6, <1>7, <1>8, <1>9, OnboardSteps
        DEF Next, Handle, Submit, Process, Review, MasterSteps

LEMMA OnboardingHolds ==
  ASSUME IInv, IInv', OInv, MasterSteps, NEW q \in Requests
  PROVE  Opening(q)'
<1>0. vendors \in [Vendors -> VendorStatuses]
  BY DEF IInv, TypeOK
<1>1. CASE UNCHANGED <<vendors, pc, txn>>
  BY <1>1 DEF OInv, Opening
<1>2. ASSUME NEW r \in Requests, Opens(r) PROVE Opening(q)'
  BY <1>2 DEF Opens, Alone, OInv, Opening
<1>3. ASSUME NEW r \in Requests, Publishes(r) PROVE Opening(q)'
  <2>1. CASE q = r
    BY <1>3, <2>1 DEF Publishes, Opening, Ended
  <2>2. CASE q # r
    <3>1. txn[q].opened => vendors'[txn[q].vendor] = vendors[txn[q].vendor]
      BY <1>0, <1>3, <2>2 DEF Publishes, OInv, Opening
    <3> QED BY <1>3, <2>2, <3>1 DEF Publishes, Alone, OInv, Opening
  <2> QED BY <2>1, <2>2
<1>4. ASSUME NEW r \in Requests, Spares(r) PROVE Opening(q)'
  BY <1>4 DEF Spares, Alone, OInv, Opening
<1>5. ASSUME NEW v \in Vendors, Decrees(v) PROVE Opening(q)'
  <2>1. txn[q].opened => vendors'[txn[q].vendor] = vendors[txn[q].vendor]
    <3>1. txn[q].opened => Onboarding(txn[q].vendor) /\ ~ KnownVendor(txn[q].vendor)
      BY DEF OInv, Opening, Onboarding, KnownVendor, Active, Open
    <3>2. CASE v = txn[q].vendor
      BY <1>5, <3>1, <3>2 DEF Decrees
    <3>3. CASE v # txn[q].vendor
      <4>1. txn[q].opened => txn[q].vendor \in Vendors
        BY DEF OInv, Opening
      <4>2. \A u \in Vendors : u # v => vendors'[u] = vendors[u]
        BY <1>0, <1>5 DEF Decrees
      <4> QED BY <3>3, <4>1, <4>2
    <3> QED BY <3>2, <3>3
  <2> QED BY <1>5, <2>1 DEF Decrees, OInv, Opening
<1> QED BY <1>1, <1>2, <1>3, <1>4, <1>5 DEF MasterSteps

LEMMA OpeningInvariance == Spec => []OInv
<1>1. Init => OInv
  BY DEF Init, OInv, Opening, Blank, Holding
<1>2. IInv /\ IInv' /\ OInv /\ [Next]_vars => OInv'
  BY MasterKinds, OnboardingHolds DEF OInv
<1> QED BY <1>1, <1>2, Invariance, PTL DEF Spec

\* A call that onboards a vendor can only do so while the vendor is absent, at its
\* commit as at its INSERT: the uncommitted row keeps everybody else from adding it.
THEOREM TrustKept == Spec => OnboardingKeepsTrust
<1>1. IInv /\ OInv /\ [Next]_vars =>
        [\A v \in Vendors : vendors[v] = "active" /\ vendors'[v] = "onboarding"
                               => \A r \in Requests : pc[r] = pc'[r]]_vars
  <2> SUFFICES ASSUME IInv, OInv, [Next]_vars,
                      NEW v \in Vendors, vendors[v] = "active", vendors'[v] = "onboarding"
               PROVE  \A r \in Requests : pc[r] = pc'[r]
    OBVIOUS
  <2>1. MasterSteps
    BY MasterKinds
  <2>2. vendors \in [Vendors -> VendorStatuses]
    BY DEF IInv, TypeOK
  <2>3. ASSUME NEW r \in Requests, Publishes(r) PROVE FALSE
    BY <2>2, <2>3 DEF Publishes, OInv, Opening
  <2> QED BY <2>1, <2>3 DEF MasterSteps, Opens, Spares, Decrees
<1> QED BY <1>1, Invariance, OpeningInvariance, PTL DEF Spec, OnboardingKeepsTrust


-----------------------------------------------------------------------------
(* Locks: the uncommitted rows that INSERTs of the same key, or name, wait for. *)

\* The INSERT of r waits for the invoice, or for the vendor, that q has inserted.
Waits(r, q) ==
  \/ /\ pc[r] = "insert" /\ job[r].key # NoKey
     /\ q \in Inserted /\ txn[q].copy.key = job[r].key
  \/ /\ pc[r] = "onboard"
     /\ Active(q) /\ txn[q].opened /\ txn[q].vendor = VendorOf[txn[r].copy.doc]

Stage(r) ==
  IF pc[r] \in {"compare", "decide", "write"} THEN 2
  ELSE IF pc[r] \in {"match", "onboard"} THEN 1 ELSE 0

LocksOrdered == \A r, q \in Requests : Waits(r, q) => Active(q) /\ Stage(r) < Stage(q)

SomebodyGoesOn ==
  \A r \in Requests : Active(r) => \E q \in Requests : Active(q) /\ \A w \in Requests : ~Waits(q, w)

\* Waits is what the guards of the two INSERTs say.
LEMMA WaitsAtGuards ==
  ASSUME NEW r \in Requests
  PROVE  (\E q \in Requests : Waits(r, q))
           <=> \/ pc[r] = "insert" /\ Locked(job[r].key)
               \/ pc[r] = "onboard" /\ Onboarding(VendorOf[txn[r].copy.doc])
BY DEF Waits, Locked, Onboarding, Inserted

\* No circle of calls that wait for each other's rows, with any number of calls: an
\* invoice is inserted before a vendor, and a call that has inserted a vendor waits for
\* nobody (process_invoice). So as long as a call is open, one is that can go on.
THEOREM NoCircle == Spec => [](LocksOrdered /\ SomebodyGoesOn)
<1>1. IInv /\ OInv => LocksOrdered /\ SomebodyGoesOn
  <2> SUFFICES ASSUME IInv, OInv PROVE LocksOrdered /\ SomebodyGoesOn
    OBVIOUS
  <2>1. ASSUME NEW r \in Requests, NEW q \in Requests, Waits(r, q)
        PROVE  Active(q) /\ Stage(r) < Stage(q)
    <3>1. /\ txn[q].new => pc[q] \in Working
          /\ txn[q].opened => pc[q] \in {"compare", "decide", "write"}
      BY DEF IInv, Untouched, OInv, Opening
    <3> QED BY <2>1, <3>1 DEF Waits, Inserted, Active, Stage, Working, Deciding
  <2>2. ASSUME NEW r \in Requests, Active(r)
        PROVE  \E q \in Requests : Active(q) /\ \A w \in Requests : ~Waits(q, w)
    <3>1. \A q, w \in Requests : Waits(q, w) => Active(w) /\ Stage(q) < Stage(w)
      BY <2>1
    <3>2. \A q \in Requests : Stage(q) \in {0, 1, 2}
      BY DEF Stage
    <3> QED BY <2>2, <3>1, <3>2
  <2> QED BY <2>1, <2>2 DEF LocksOrdered, SomebodyGoesOn
<1> QED BY <1>1, Invariance, OpeningInvariance, PTL
=============================================================================
