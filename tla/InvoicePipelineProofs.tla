----------------------- MODULE InvoicePipelineProofs -----------------------
(***************************************************************************)
(* For any number of calls, documents, vendors and keys: idempotency keys  *)
(* stay unique, the audit trail explains every invoice, and the handlers   *)
(* implement InvoiceLedger.                                                *)
(*                                                                         *)
(* What makes this inductive is what each open transaction carries: an     *)
(* invoice that is new is nobody else's and untouched; a status that was   *)
(* loaded long before the write is one that the trail tells of, unless the *)
(* invoice has been deleted meanwhile, and then it never comes back.       *)
(***************************************************************************)
EXTENDS InvoicePipeline, FiniteSetTheorems, TLAPS

Deciding == {"match", "onboard", "compare", "decide"}
Working  == Deciding \cup {"write"}       \* the transaction has its invoice

Decides(op) == op \in {"process", "reprocess"}

\* Where a transaction is, what it was asked for and what it has done agree.
Placed(r) ==
  /\ pc[r] \notin Ended => r \notin stored
  /\ pc[r] = "insert" => job[r].op \in Submissions
  /\ pc[r] \in Deciding => Decides(job[r].op)
  /\ pc[r] = "write" /\ Decides(job[r].op) => txn[r].decision \in Decisions
  /\ pc[r] = "write" /\ job[r].op \in {"create", "ingest"} => txn[r].new

\* A new invoice has the id of its request and is as it was inserted.
Untouched(r) ==
  txn[r].new => /\ pc[r] \in Working
                /\ txn[r].inv = r
                /\ txn[r].copy.status \in Initial
                /\ txn[r].copy.action = "none"

\* An invoice that was loaded is there, and its trail tells of what was loaded,
\* or it is gone for good.
Grounded(r) ==
  pc[r] \in Working /\ ~ txn[r].new =>
    LET i == txn[r].inv
    IN  /\ pc[i] \in Ended
        /\ i \in stored => /\ Announced(trail[i], txn[r].copy.status, Len(trail[i]))
                           /\ Advised(trail[i], txn[r].copy.action)

Vacant(i) == i \notin stored => trail[i] = <<>> /\ row[i] = NoRow

IInv ==
  /\ TypeOK
  /\ \A r \in Requests : Placed(r) /\ Untouched(r) /\ Grounded(r) /\ Vacant(r)
  /\ OneInvoicePerKey
  /\ TrailExplainsInvoice

-----------------------------------------------------------------------------
(* Trails *)

\* What a trail has told, it still tells with one more entry.
LEMMA AnnouncedAppend ==
  ASSUME NEW tr \in Seq(Entries), NEW e \in Entries, NEW s,
         Announced(tr, s, Len(tr))
  PROVE  Announced(Append(tr, e), s, Len(Append(tr, e)))
BY DEF Announced

LEMMA AdvisedAppend ==
  ASSUME NEW tr \in Seq(Entries), NEW e \in Entries, NEW a, Advised(tr, a)
  PROVE  Advised(Append(tr, e), a)
BY DEF Advised

\* A trail that explains a row explains what an entry, which begins with a status
\* it has told of, and the columns of that entry make of the row.
LEMMA TellsAppend ==
  ASSUME NEW tr \in Seq(Entries), NEW e \in Entries, NEW old, NEW new,
         Tells(tr, old),
         Announced(tr, e.from, Len(tr)),
         new.status \in {old.status, e.to},
         new.action \in {old.action, e.decision}
  PROVE  Tells(Append(tr, e), new)
<1> DEFINE app == Append(tr, e)
<1>1. /\ app \in Seq(Entries) /\ Len(app) = Len(tr) + 1 /\ Len(tr) \in Nat
      /\ app[Len(tr) + 1] = e
      /\ \A n \in 1 .. Len(tr) : app[n] = tr[n]
  OBVIOUS
<1>2. Announced(app, new.status, Len(app))
  <2>1. CASE new.status = old.status
    BY <2>1, AnnouncedAppend DEF Tells
  <2>2. CASE new.status = e.to
    <3>1. Len(app) \in 1 .. Len(app) /\ app[Len(app)].to = new.status
      BY <1>1, <2>2
    <3> QED BY <3>1 DEF Announced
  <2> QED BY <2>1, <2>2
<1>3. Advised(app, new.action)
  <2>1. CASE new.action = old.action
    BY <2>1, AdvisedAppend DEF Tells
  <2>2. CASE new.action = e.decision
    <3>1. Len(app) \in DOMAIN app /\ app[Len(app)].decision = new.action
      BY <1>1, <2>2
    <3> QED BY <3>1 DEF Advised
  <2> QED BY <2>1, <2>2
<1>4. ASSUME NEW n \in DOMAIN app PROVE Announced(app, app[n].from, n - 1)
  <2>1. n \in 1 .. Len(tr) + 1
    BY <1>1
  <2>2. Announced(tr, app[n].from, n - 1)
    <3>1. CASE n = Len(tr) + 1
      BY <1>1, <3>1
    <3>2. CASE n # Len(tr) + 1
      BY <1>1, <2>1, <3>2 DEF Tells
    <3> QED BY <3>1, <3>2
  <2> HIDE DEF app
  <2> QED BY <1>1, <2>1, <2>2 DEF Announced
<1> QED BY <1>2, <1>3, <1>4 DEF Tells

-----------------------------------------------------------------------------
(* Types *)

LEMMA BlankTypes ==
  /\ AnyDoc \in Docs
  /\ NoRow \in Rows
  /\ \A i \in Requests, new \in BOOLEAN, copy \in Rows : Holding(i, new, copy) \in Txns
<1>1. AnyDoc \in Docs
  BY DataAssumption DEF AnyDoc
<1>2. NoRow \in Rows
  BY <1>1 DEF NoRow, Rows, Statuses, Initial, Actions
<1>3. ASSUME NEW i \in Requests, NEW new \in BOOLEAN, NEW copy \in Rows
      PROVE  Holding(i, new, copy) \in Txns
  BY DEF Holding, Txns, Rows, Actions
<1> QED BY <1>1, <1>2, <1>3

LEMMA EndTypes ==
  ASSUME TypeOK, NEW r \in Requests, NEW o \in Ended, End(r, o)
  PROVE  /\ pc' \in [Requests -> {"idle"} \cup Open \cup Ended]
         /\ job' \in [Requests -> Jobs]
         /\ txn' \in [Requests -> Txns]
<1>1. Submission(r, job[r].op, AnyDoc, NoKey, FALSE) \in Jobs
  BY BlankTypes DEF Submission, Jobs, TypeOK, Reviewed
<1>2. Blank(r) \in Txns
  BY BlankTypes DEF Blank
<1> QED BY <1>1, <1>2 DEF End, Goto, TypeOK

LEMMA BeginTypes ==
  ASSUME TypeOK, NEW r \in Requests, Begin(r)
  PROVE  /\ TypeOK'
         /\ \E j \in Jobs : BeginWith(r, j)
<1>1. ASSUME NEW j \in Jobs, BeginWith(r, j) PROVE TypeOK'
  <2>1. Cardinality({q \in Requests : pc[q] # "idle"}) \in Nat
    BY PipelineAssumption, FS_Subset, FS_CardinalityType
  <2>2. begun' \in [Requests -> Nat] /\ after' \in [Requests -> SUBSET Requests]
    BY <1>1, <2>1 DEF BeginWith, TypeOK
  <2> QED BY <1>1, <2>2 DEF BeginWith, TypeOK, Goto, Open, ledger, master
<1>2. \A op \in Submissions, d \in Docs, k \in Keys \cup {NoKey}, a \in BOOLEAN :
        Submission(r, op, d, k, a) \in Jobs
  BY DEF Submission, Jobs, Reviewed
<1>3. \A i \in Requests, op \in Reviews, a \in BOOLEAN, s \in Reviewed :
        ReviewOf(i, op, a, s) \in Jobs
  BY BlankTypes DEF ReviewOf, Jobs, Reviewed
<1>4. stored \subseteq Requests /\ Targets \subseteq Reviewed /\ Autos \subseteq BOOLEAN
  BY PipelineAssumption DEF TypeOK
<1>5. \E j \in Jobs : BeginWith(r, j)
  BY <1>2, <1>3, <1>4 DEF Begin, Submissions, Reviews, Reviewed
<1> QED BY <1>1, <1>5

-----------------------------------------------------------------------------
(* Steps that write no table *)

\* A step of r that leaves the tables alone keeps the invariant if r is placed
\* where its work says and takes no key that an invoice has.
LEMMA LocalStep ==
  ASSUME IInv, TypeOK', NEW r \in Requests, pc[r] \notin Ended,
         UNCHANGED ledger,
         \A q \in Requests \ {r} : pc'[q] = pc[q] /\ txn'[q] = txn[q] /\ job'[q] = job[q],
         Placed(r)', Untouched(r)', Grounded(r)',
         txn[r].new /\ txn'[r].new => txn'[r].copy.key = txn[r].copy.key,
         ~ txn[r].new /\ txn'[r].new /\ txn'[r].copy.key # NoKey =>
           \A j \in stored \cup Inserted : KeyOf(j) # txn'[r].copy.key
  PROVE  IInv'
<1>1. ASSUME NEW q \in Requests
      PROVE  Placed(q)' /\ Untouched(q)' /\ Grounded(q)' /\ Vacant(q)'
  <2>1. Placed(q) /\ Untouched(q) /\ Grounded(q) /\ Vacant(q)
    BY DEF IInv
  <2>2. Vacant(q)'
    BY <2>1 DEF Vacant, ledger
  <2>3. CASE q = r
    BY <2>2, <2>3
  <2>4. CASE q # r
    <3>1. Placed(q)' /\ Untouched(q)'
      BY <2>1, <2>4 DEF Placed, Untouched, ledger
    <3>2. Grounded(q)'
      <4>1. pc'[q] = pc[q] /\ txn'[q] = txn[q] /\ txn[q].inv \in Requests
        BY <2>4 DEF IInv, TypeOK, Txns
      <4>2. CASE txn[q].inv = r
        BY <2>1, <4>1, <4>2 DEF Grounded
      <4>3. CASE txn[q].inv # r
        BY <2>1, <4>1, <4>3 DEF Grounded, ledger
      <4> QED BY <4>2, <4>3
    <3> QED BY <2>2, <3>1, <3>2
  <2> QED BY <2>3, <2>4
<1>2. OneInvoicePerKey'
  <2>1. r \notin stored
    BY DEF IInv, Placed
  <2>2. \A i \in stored : KeyOf(i)' = KeyOf(i)
    BY DEF KeyOf, ledger
  <2>3. \A i \in Inserted' \ {r} : i \in Inserted /\ KeyOf(i)' = KeyOf(i)
    BY DEF Inserted, Active, KeyOf, ledger
  <2>4. r \in Inserted' =>
          /\ KeyOf(r)' = txn'[r].copy.key
          /\ txn[r].new => r \in Inserted /\ KeyOf(r) = KeyOf(r)'
    <3>1. txn[r].new => Active(r)
      BY DEF IInv, Untouched, Active, Working, Deciding, Open
    <3> QED BY <2>1, <3>1 DEF Inserted, KeyOf, ledger
  <2>5. ASSUME NEW i \in (stored \cup Inserted)', i # r, r \in Inserted', KeyOf(r)' # NoKey
        PROVE  KeyOf(i)' # KeyOf(r)'
    <3>1. i \in stored \cup Inserted /\ KeyOf(i)' = KeyOf(i)
      BY <2>2, <2>3, <2>5 DEF ledger
    <3>2. CASE txn[r].new
      BY <2>4, <2>5, <3>1, <3>2 DEF IInv, OneInvoicePerKey
    <3>3. CASE ~ txn[r].new
      BY <2>4, <2>5, <3>1, <3>3 DEF Inserted
    <3> QED BY <3>2, <3>3
  <2>6. ASSUME NEW i \in (stored \cup Inserted)', NEW j \in (stored \cup Inserted)',
               i # j, KeyOf(i)' # NoKey
        PROVE  KeyOf(i)' # KeyOf(j)'
    <3>1. CASE i # r /\ j # r
      BY <2>2, <2>3, <2>6, <3>1 DEF IInv, OneInvoicePerKey, ledger
    <3>2. CASE i = r
      BY <2>1, <2>5, <2>6, <3>2 DEF ledger
    <3>3. CASE j = r
      BY <2>1, <2>5, <2>6, <3>3 DEF ledger
    <3> QED BY <3>1, <3>2, <3>3
  <2> QED BY <2>6 DEF OneInvoicePerKey
<1>3. TrailExplainsInvoice'
  BY DEF IInv, TrailExplainsInvoice, ledger
<1> QED BY <1>1, <1>2, <1>3 DEF IInv
LEMMA EndHolds ==
  ASSUME IInv, NEW r \in Requests, pc[r] \notin Ended, NEW o \in Ended, End(r, o),
         UNCHANGED <<ledger, master, past>>
  PROVE  IInv'
<1>1. TypeOK'
  BY EndTypes DEF IInv, TypeOK, ledger, master, past
<1>2. /\ pc'[r] = o /\ ~ txn'[r].new
      /\ \A q \in Requests \ {r} : pc'[q] = pc[q] /\ txn'[q] = txn[q] /\ job'[q] = job[q]
  BY DEF End, Goto, Blank, Holding, IInv, TypeOK
<1>3. Placed(r)' /\ Untouched(r)' /\ Grounded(r)'
  BY <1>2 DEF Placed, Untouched, Grounded, Ended, Working, Deciding
<1> QED BY <1>1, <1>2, <1>3, LocalStep

LEMMA BeginHolds ==
  ASSUME IInv, NEW r \in Requests, Begin(r)
  PROVE  IInv'
<1>1. TypeOK'
  BY BeginTypes DEF IInv
<1>2. PICK j \in Jobs : BeginWith(r, j)
  BY BeginTypes DEF IInv
<1>3. /\ pc[r] = "idle" /\ pc'[r] = "begun" /\ txn' = txn
      /\ \A q \in Requests \ {r} : pc'[q] = pc[q] /\ job'[q] = job[q]
      /\ UNCHANGED ledger
  BY <1>2 DEF BeginWith, Goto, IInv, TypeOK
<1>4. ~ txn[r].new
  BY <1>3 DEF IInv, Untouched, Working, Deciding
<1>5. Placed(r)' /\ Untouched(r)' /\ Grounded(r)'
  BY <1>3, <1>4 DEF IInv, Placed, Untouched, Grounded, Working, Deciding, ledger, Ended
<1> QED BY <1>1, <1>3, <1>4, <1>5, LocalStep DEF Ended

\* A session that loads a committed invoice.
LEMMA LoadHolds ==
  ASSUME IInv, NEW r \in Requests, NEW i \in stored, NEW p \in {"match", "write"},
         pc[r] = "begun",
         Goto(r, p), txn' = [txn EXCEPT ![r] = Holding(i, FALSE, row[i])],
         IF p = "match" THEN Decides(job[r].op) ELSE job[r].op \in {"transition", "delete"},
         UNCHANGED <<ledger, master, past, job>>
  PROVE  IInv'
<1>1. i \in Requests /\ row[i] \in Rows /\ Holding(i, FALSE, row[i]) \in Txns
  BY BlankTypes DEF IInv, TypeOK
<1>2. TypeOK'
  BY <1>1 DEF IInv, TypeOK, Goto, Open, ledger, master, past
<1>3. /\ pc'[r] = p /\ txn'[r] = Holding(i, FALSE, row[i])
      /\ txn'[r].inv = i /\ ~ txn'[r].new /\ txn'[r].copy = row[i]
      /\ \A q \in Requests \ {r} : pc'[q] = pc[q] /\ txn'[q] = txn[q] /\ job'[q] = job[q]
  BY DEF Goto, Holding, IInv, TypeOK
<1>4. pc[i] \in Ended /\ Tells(trail[i], row[i])
  BY <1>1 DEF IInv, Placed, TrailExplainsInvoice
<1>5. Grounded(r)'
  <2>1. pc'[i] \in Ended
    BY <1>1, <1>3, <1>4 DEF Ended
  <2> QED BY <1>3, <1>4, <2>1 DEF Grounded, Tells, ledger
<1>6. Placed(r)' /\ Untouched(r)'
  BY <1>3 DEF IInv, Placed, Untouched, Decides, Deciding, ledger, Ended
<1> QED BY <1>2, <1>3, <1>5, <1>6, LocalStep DEF Ended

LEMMA ReadHolds ==
  ASSUME IInv, NEW r \in Requests, FindByKey(r) \/ Load(r), UNCHANGED past
  PROVE  IInv'
<1>1. ASSUME NEW o \in Ended, End(r, o), UNCHANGED <<ledger, master>> PROVE IInv'
  BY <1>1, EndHolds DEF FindByKey, Load, Ended
<1>2. CASE FindByKey(r)
  <2>1. CASE Goto(r, "insert") /\ UNCHANGED <<txn, job>>
    <3>1. TypeOK'
      BY <1>2, <2>1 DEF FindByKey, IInv, TypeOK, Goto, Open, ledger, master, past
    <3>2. /\ pc[r] = "begun" /\ pc'[r] = "insert" /\ job[r].op \in Submissions
          /\ \A q \in Requests \ {r} : pc'[q] = pc[q]
      BY <1>2, <2>1 DEF FindByKey, Goto, IInv, TypeOK
    <3>3. ~ txn[r].new
      BY <3>2 DEF IInv, Untouched, Working, Deciding
    <3>4. Placed(r)' /\ Untouched(r)' /\ Grounded(r)'
      BY <1>2, <2>1, <3>2, <3>3
         DEF FindByKey, IInv, Placed, Untouched, Grounded, Working, Deciding, Ended, ledger
    <3> QED BY <1>2, <2>1, <3>1, <3>2, <3>3, <3>4, LocalStep DEF FindByKey, Ended
  <2>2. ASSUME NEW i \in Holders(job[r].key), job[r].op = "process",
               Goto(r, "match"), txn' = [txn EXCEPT ![r] = Holding(i, FALSE, row[i])],
               UNCHANGED job
        PROVE  IInv'
    BY <1>2, <2>2, LoadHolds DEF FindByKey, Holders, Decides
  <2> QED BY <1>1, <1>2, <2>1, <2>2 DEF FindByKey, Ended
<1>3. CASE Load(r)
  <2>1. CASE job[r].inv \in stored
    <3>1. Decides("reprocess") /\ (job[r].op # "reprocess" => job[r].op \in {"transition", "delete"})
      BY <1>3 DEF Load, Reviews, Decides
    <3> QED BY <1>3, <2>1, <3>1, LoadHolds DEF Load
  <2>2. CASE job[r].inv \notin stored
    BY <1>1, <1>3, <2>2 DEF Load, Fail, Ended
  <2> QED BY <2>1, <2>2
<1> QED BY <1>2, <1>3

LEMMA InsertHolds ==
  ASSUME IInv, NEW r \in Requests, Insert(r), UNCHANGED past
  PROVE  IInv'
<1>1. ASSUME NEW o \in Ended, End(r, o) PROVE IInv'
  BY <1>1, EndHolds DEF Insert, Ended
<1>2. CASE ~ Conflict(job[r].key)
  <2>1. PICK v \in GivenVendors(r) :
          /\ txn' = [txn EXCEPT ![r] = Holding(r, TRUE, Inserting(r, v))]
          /\ Goto(r, IF job[r].op = "process" THEN "match" ELSE "write")
          /\ UNCHANGED <<job, ledger, master>>
    BY <1>2 DEF Insert
  <2>2. Inserting(r, v) \in Rows
    BY DEF Inserting, Rows, IInv, TypeOK, Jobs, GivenVendors, Statuses, Initial, Actions
  <2>3. TypeOK'
    <3>1. Holding(r, TRUE, Inserting(r, v)) \in Txns
      BY <2>2, BlankTypes
    <3> QED BY <2>1, <3>1 DEF IInv, TypeOK, Goto, Open, ledger, master, past
  <2>4. /\ pc[r] = "insert" /\ job[r].op \in Submissions
        /\ pc'[r] = IF job[r].op = "process" THEN "match" ELSE "write"
        /\ txn'[r] = Holding(r, TRUE, Inserting(r, v))
        /\ \A q \in Requests \ {r} : pc'[q] = pc[q] /\ txn'[q] = txn[q]
    BY <2>1 DEF Insert, Goto, IInv, TypeOK, Placed
  <2>5. /\ txn'[r].inv = r /\ txn'[r].new /\ txn'[r].copy = Inserting(r, v)
        /\ Inserting(r, v).key = job[r].key
        /\ Inserting(r, v).status \in Initial
        /\ Inserting(r, v).action = "none"
    BY <2>4 DEF Holding, Inserting, Initial
  <2>6. ~ txn[r].new
    BY <2>4 DEF IInv, Untouched, Working, Deciding
  <2>7. Placed(r)' /\ Untouched(r)' /\ Grounded(r)'
    BY <2>1, <2>4, <2>5
       DEF IInv, Placed, Untouched, Grounded, Working, Deciding, Ended, ledger,
           Submissions, Decides
  <2>8. txn'[r].copy.key # NoKey =>
          \A j \in stored \cup Inserted : KeyOf(j) # txn'[r].copy.key
    BY <1>2, <2>5 DEF Insert, Conflict, Locked, KeyOf
  <2>9. pc[r] \notin Ended /\ UNCHANGED ledger
    BY <2>1, <2>4 DEF Ended
  <2> QED BY <2>9, <2>1, <2>3, <2>4, <2>5, <2>6, <2>7, <2>8, LocalStep DEF Ended
<1> QED BY <1>1, <1>2 DEF Insert, Ended

\* The steps of process_invoice before it writes.
LEMMA ThinkHolds ==
  ASSUME IInv, NEW r \in Requests, UNCHANGED past,
         MatchVendor(r) \/ Onboard(r) \/ CheckDuplicates(r) \/ Decide(r)
  PROVE  IInv'
<1>1. CASE Fail(r)
  BY <1>1, EndHolds DEF Fail, MatchVendor, Onboard, CheckDuplicates, Decide, Ended
<1>2. CASE ~ Fail(r)
  <2>1. pc[r] \in Deciding /\ UNCHANGED <<ledger, master, job>>
    BY <1>2 DEF MatchVendor, Onboard, CheckDuplicates, Decide, Deciding
  <2>2. /\ pc' = [pc EXCEPT ![r] = pc'[r]]
        /\ pc'[r] \in Deciding \/ (pc'[r] = "write" /\ txn'[r].decision \in Decisions)
    <3>1. pc \in [Requests -> {"idle"} \cup Open \cup Ended] /\ txn \in [Requests -> Txns]
      BY DEF IInv, TypeOK
    <3>2. CASE MatchVendor(r)
      BY <3>1, <3>2 DEF MatchVendor, Goto, Deciding
    <3>3. CASE Onboard(r)
      BY <1>2, <3>1, <3>3 DEF Onboard, Goto, Deciding
    <3>4. CASE CheckDuplicates(r)
      BY <3>1, <3>4 DEF CheckDuplicates, Goto, Deciding
    <3>5. CASE Decide(r)
      <4>1. PICK d \in Verdicts(r) : txn' = [txn EXCEPT ![r].decision = d]
        BY <3>5 DEF Decide
      <4>2. d \in Decisions
        BY DEF Verdicts, Decisions
      <4>3. txn'[r].decision = d
        BY <3>1, <4>1 DEF Txns
      <4> QED BY <3>1, <3>5, <4>2, <4>3 DEF Decide, Goto
    <3> QED BY <3>2, <3>3, <3>4, <3>5
  <2>3. /\ txn' = [txn EXCEPT ![r] = txn'[r]]
        /\ txn'[r] \in Txns
        /\ txn'[r].inv = txn[r].inv /\ txn'[r].new = txn[r].new /\ txn'[r].copy = txn[r].copy
    <3>1. txn \in [Requests -> Txns] /\ VendorOf \in [Docs -> Vendors \cup {NoVendor}]
      BY PipelineAssumption DEF IInv, TypeOK
    <3>2. CASE MatchVendor(r)
      BY <1>2, <3>1, <3>2 DEF MatchVendor, Txns, Rows
    <3>3. CASE Onboard(r)
      BY <1>2, <3>1, <3>3 DEF Onboard, Txns, Rows
    <3>4. CASE CheckDuplicates(r)
      <4>1. PICK b \in BOOLEAN : txn' = [txn EXCEPT ![r].duplicate = b]
        BY <3>4, Zenon DEF CheckDuplicates
      <4> QED BY <3>1, <4>1 DEF Txns
    <3>5. CASE Decide(r)
      BY <1>2, <3>1, <3>5 DEF Decide, Txns, Verdicts, Decisions, Actions
    <3> QED BY <3>2, <3>3, <3>4, <3>5
  <2>4. TypeOK'
    BY <2>1, <2>2, <2>3 DEF IInv, TypeOK, Open, Deciding, ledger, master, past
  <2>5. \A q \in Requests \ {r} : pc'[q] = pc[q] /\ txn'[q] = txn[q] /\ job'[q] = job[q]
    BY <2>1, <2>2, <2>3 DEF IInv, TypeOK
  <2>6. Placed(r)'
    BY <2>1, <2>2 DEF IInv, Placed, Deciding, Decides, Ended, ledger
  <2>7. Untouched(r)'
    BY <2>1, <2>2, <2>3 DEF IInv, Untouched, Working
  <2>8. Grounded(r)'
    <3>1. Grounded(r) /\ pc[r] \in Working
      BY <2>1 DEF IInv, Working
    <3>2. CASE txn[r].new
      BY <2>3, <3>2 DEF Grounded
    <3>3. CASE ~ txn[r].new
      <4>1. txn[r].inv \in Requests /\ txn[r].inv # r
        BY <2>1, <3>1, <3>3 DEF Grounded, IInv, TypeOK, Txns, Deciding, Ended
      <4> QED BY <2>1, <2>3, <2>5, <3>1, <3>3, <4>1 DEF Grounded, ledger
    <3> QED BY <3>2, <3>3
  <2>9. pc[r] \notin Ended
    BY <2>1 DEF Deciding, Ended
  <2> QED BY <2>1, <2>3, <2>4, <2>5, <2>6, <2>7, <2>8, <2>9, LocalStep
<1> QED BY <1>1, <1>2
-----------------------------------------------------------------------------
(* Steps that write the tables *)

\* r ends with a commit that changes the invoice i: its own new one, or one that
\* an ended request has created.
LEMMA WriteHolds ==
  ASSUME IInv, NEW r \in Requests, NEW i \in Requests,
         pc[r] \notin Ended, End(r, "ok"), i = r \/ pc[i] \in Ended,
         vendors' \in [Vendors -> VendorStatuses], UNCHANGED <<onFile, past>>,
         stored' = stored \cup {i} \/ stored' = stored \ {i},
         row' = [row EXCEPT ![i] = row'[i]], row'[i] \in Rows,
         trail' = [trail EXCEPT ![i] = trail'[i]], trail'[i] \in Seq(Entries),
         Vacant(i)',
         i \in stored' => /\ Tells(trail'[i], row'[i])
                          /\ i \in stored \cup Inserted
                          /\ row'[i].key = KeyOf(i),
         \A s : i \in stored' /\ Announced(trail[i], s, Len(trail[i]))
                  => Announced(trail'[i], s, Len(trail'[i])),
         \A a : i \in stored' /\ Advised(trail[i], a) => Advised(trail'[i], a)
  PROVE  IInv'
<1>1. TypeOK'
  <2>1. /\ stored \subseteq Requests /\ row \in [Requests -> Rows]
        /\ trail \in [Requests -> Seq(Entries)]
    BY DEF IInv, TypeOK
  <2>2. stored' \subseteq Requests /\ row' \in [Requests -> Rows]
    BY <2>1
  <2>3. trail' \in [Requests -> Seq(Entries)]
    BY <2>1
  <2> QED BY <2>2, <2>3, EndTypes DEF IInv, TypeOK, Ended, past
<1>2. /\ pc'[r] = "ok" /\ ~ txn'[r].new
      /\ \A q \in Requests \ {r} : pc'[q] = pc[q] /\ txn'[q] = txn[q] /\ job'[q] = job[q]
  BY DEF End, Goto, Blank, Holding, IInv, TypeOK
<1>3. \A j \in Requests \ {i} :
        /\ row'[j] = row[j] /\ trail'[j] = trail[j]
        /\ j \in stored' <=> j \in stored
  BY DEF IInv, TypeOK
<1>4. ASSUME NEW q \in Requests
      PROVE  Placed(q)' /\ Untouched(q)' /\ Grounded(q)' /\ Vacant(q)'
  <2>1. Placed(q) /\ Untouched(q) /\ Grounded(q) /\ Vacant(q)
    BY DEF IInv
  <2>2. Vacant(q)'
    <3>1. CASE q = i
      BY <3>1
    <3>2. CASE q # i
      BY <1>3, <2>1, <3>2 DEF Vacant
    <3> QED BY <3>1, <3>2
  <2>3. CASE q = r
    BY <1>2, <2>2, <2>3 DEF Placed, Untouched, Grounded, Working, Deciding, Ended
  <2>4. CASE q # r
    <3>1. pc'[q] = pc[q] /\ txn'[q] = txn[q] /\ job'[q] = job[q] /\ txn[q].inv \in Requests
      BY <1>2, <2>4 DEF IInv, TypeOK, Txns
    <3>2. Placed(q)' /\ Untouched(q)'
      BY <1>3, <2>1, <2>4, <3>1 DEF Placed, Untouched
    <3>3. ASSUME pc[q] \in Working, ~ txn[q].new
          PROVE  LET j == txn[q].inv
                 IN  /\ pc'[j] \in Ended
                     /\ j \in stored' => /\ Announced(trail'[j], txn[q].copy.status, Len(trail'[j]))
                                         /\ Advised(trail'[j], txn[q].copy.action)
      <4> DEFINE j == txn[q].inv
      <4>1. pc[j] \in Ended /\ j # r /\ pc'[j] = pc[j]
        BY <1>2, <2>1, <3>1, <3>3 DEF Grounded
      <4>2. j \in stored' => j \in stored
        BY <1>3, <3>1, <4>1 DEF Inserted, Active, Open, Ended
      <4>3. j \in stored' => /\ Announced(trail[j], txn[q].copy.status, Len(trail[j]))
                             /\ Advised(trail[j], txn[q].copy.action)
        BY <2>1, <3>3, <4>2 DEF Grounded
      <4>4. CASE j = i
        BY <4>1, <4>3, <4>4
      <4>5. CASE j # i
        BY <1>3, <3>1, <4>1, <4>3, <4>5
      <4> QED BY <4>4, <4>5
    <3>4. Grounded(q)'
      BY <3>1, <3>3 DEF Grounded
    <3> QED BY <2>2, <3>2, <3>4
  <2> QED BY <2>3, <2>4
<1>5. OneInvoicePerKey'
  <2>1. ASSUME NEW j \in (stored \cup Inserted)'
        PROVE  j \in stored \cup Inserted /\ KeyOf(j)' = KeyOf(j)
    <3>1. CASE j \in stored'
      <4>1. CASE j = i
        BY <3>1, <4>1 DEF KeyOf
      <4>2. CASE j # i
        BY <1>1, <1>3, <3>1, <4>2 DEF KeyOf, TypeOK
      <4> QED BY <4>1, <4>2
    <3>2. CASE j \notin stored'
      <4>1. j \in Requests /\ pc'[j] \in Open /\ txn'[j].new
        BY <2>1, <3>2 DEF Inserted, Active
      <4>2. j # r
        BY <1>2, <4>1
      <4>3. j # i
        BY <1>2, <4>1, <4>2 DEF Open, Ended
      <4>4. j \in Inserted /\ j \notin stored
        BY <1>2, <1>3, <3>2, <4>1, <4>2, <4>3 DEF Inserted, Active
      <4> QED BY <1>2, <3>2, <4>1, <4>2, <4>4 DEF KeyOf
    <3> QED BY <3>1, <3>2
  <2> QED BY <2>1 DEF IInv, OneInvoicePerKey
<1>6. TrailExplainsInvoice'
  <2>1. ASSUME NEW j \in stored' PROVE Tells(trail'[j], row'[j])
    BY <1>1, <1>3, <2>1 DEF IInv, TrailExplainsInvoice, TypeOK
  <2> QED BY <2>1 DEF TrailExplainsInvoice
<1> QED BY <1>1, <1>4, <1>5, <1>6 DEF IInv
\* The columns that a transaction changes.
Old(r) == IF txn[r].new THEN txn[r].copy ELSE row[txn[r].inv]

\* The commit of r gives its invoice one more entry, e, and what e tells.
Recorded(r, e) ==
  LET i == txn[r].inv
  IN  /\ e \in Entries
      /\ stored' = stored \cup {i}
      /\ row' = [row EXCEPT ![i] = row'[i]]
      /\ row'[i] \in Rows
      /\ row'[i].doc = Old(r).doc
      /\ row'[i].key = Old(r).key
      /\ row'[i].status \in {Old(r).status, e.to}
      /\ row'[i].status = Column(e.from, e.to, Old(r).status)
      /\ row'[i].action \in {Old(r).action, e.decision}
      /\ trail' = [trail EXCEPT ![i] = Append(trail[i], e)]
      /\ Announced(trail[i], e.from, Len(trail[i]))
      /\ Tells(trail[i], Old(r))
      /\ IF txn[r].new
         THEN /\ i = r /\ r \in Inserted /\ r \notin stored /\ trail[i] = <<>>
              /\ e.from \in Initial /\ row'[i].status = e.to
         ELSE i \in stored /\ pc[i] \in Ended

\* What an open transaction holds when it writes.
LEMMA HeldFacts ==
  ASSUME IInv, NEW r \in Requests, pc[r] = "write", txn[r].new \/ txn[r].inv \in stored
  PROVE  /\ txn[r].inv \in Requests /\ txn[r].copy \in Rows /\ Old(r) \in Rows
         /\ trail[txn[r].inv] \in Seq(Entries)
         /\ Announced(trail[txn[r].inv], txn[r].copy.status, Len(trail[txn[r].inv]))
         /\ Tells(trail[txn[r].inv], Old(r))
         /\ txn[r].new => /\ txn[r].inv = r /\ r \in Inserted /\ r \notin stored
                          /\ trail[r] = <<>> /\ txn[r].copy.status \in Initial
         /\ ~ txn[r].new => txn[r].inv \in stored /\ pc[txn[r].inv] \in Ended
<1>1. txn[r].inv \in Requests /\ txn[r].copy \in Rows /\ Old(r) \in Rows
  BY DEF IInv, TypeOK, Txns, Old
<1>2. trail[txn[r].inv] \in Seq(Entries)
  BY <1>1 DEF IInv, TypeOK
<1>3. CASE txn[r].new
  <2>1. /\ txn[r].inv = r /\ r \in Inserted /\ r \notin stored
        /\ trail[r] = <<>> /\ txn[r].copy.status \in Initial /\ txn[r].copy.action = "none"
    BY <1>3 DEF IInv, Untouched, Placed, Vacant, Inserted, Active, Open, Ended
  <2>2. Tells(<<>>, txn[r].copy)
    BY <2>1 DEF Tells, Announced, Advised
  <2> QED BY <1>1, <1>2, <1>3, <2>1, <2>2 DEF Announced, Old
<1>4. CASE ~ txn[r].new
  BY <1>1, <1>2, <1>4 DEF IInv, Grounded, Working, TrailExplainsInvoice, Old
<1> QED BY <1>3, <1>4

LEMMA PersistRecords ==
  ASSUME IInv, NEW r \in Requests, Persist(r)
  PROVE  \/ Fail(r)
         \/ /\ Recorded(r, Entry(r, DecisionStatus[txn[r].decision], txn[r].decision))
            /\ End(r, "ok") /\ UNCHANGED onFile /\ vendors' \in [Vendors -> VendorStatuses]
<1> DEFINE i  == txn[r].inv
           d  == txn[r].decision
           to == DecisionStatus[d]
           e  == Entry(r, to, d)
<1>1. CASE ~ (txn[r].new \/ i \in stored)
  BY <1>1 DEF Persist
<1>2. CASE txn[r].new \/ i \in stored
  <2>1. pc[r] = "write" /\ d \in Decisions
    BY DEF Persist, IInv, Placed, Decides
  <2>2. to \in Reviewed
    BY <2>1 DEF DecisionStatus, Decisions, Reviewed
  <2>3. e \in Entries /\ e.from = txn[r].copy.status /\ e.to = to /\ e.decision = d
    <3>1. txn[r].copy.status \in Statuses
      BY <1>2, <2>1, HeldFacts DEF Rows
    <3> QED BY <2>1, <2>2, <3>1 DEF Entry, Entries, Actions
  <2>4. /\ i \in Requests /\ txn[r].copy \in Rows /\ Old(r) \in Rows
        /\ txn[r].vendor \in Vendors \cup {NoVendor}
    BY <1>2, <2>1, HeldFacts DEF IInv, TypeOK, Txns
  <2>5. /\ row' = [row EXCEPT ![i] =
                     [Old(r) EXCEPT !.status = Column(txn[r].copy.status, to, @),
                                    !.action = Column(txn[r].copy.action, d, @),
                                    !.vendor = Column(txn[r].copy.vendor, txn[r].vendor, @)]]
        /\ stored' = stored \cup {i}
        /\ trail' = [trail EXCEPT ![i] = Append(trail[i], e)]
        /\ End(r, "ok") /\ UNCHANGED onFile
    <3>1. trail' = [trail EXCEPT ![i] = Append(@, e)] /\ trail \in [Requests -> Seq(Entries)]
      BY <1>2 DEF Persist, IInv, TypeOK
    <3> QED BY <1>2, <2>4, <3>1 DEF Persist, Old
  <2>6. /\ Column(txn[r].copy.status, to, Old(r).status) \in {Old(r).status, to}
        /\ Column(txn[r].copy.action, d, Old(r).action) \in {Old(r).action, d}
        /\ Column(txn[r].copy.vendor, txn[r].vendor, Old(r).vendor)
             \in {Old(r).vendor, txn[r].vendor}
    BY DEF Column
  <2>7. /\ row' = [row EXCEPT ![i] = row'[i]]
        /\ row'[i] \in Rows
        /\ row'[i].doc = Old(r).doc
        /\ row'[i].key = Old(r).key
        /\ row'[i].status = Column(txn[r].copy.status, to, Old(r).status)
        /\ row'[i].action = Column(txn[r].copy.action, d, Old(r).action)
    <3>1. row \in [Requests -> Rows]
      BY DEF IInv, TypeOK
    <3> HIDE DEF i, d, to, e
    <3>2. to \in Statuses /\ d \in Actions
      BY <2>1, <2>2 DEF Statuses, Actions
    <3> QED BY <2>4, <2>5, <2>6, <3>1, <3>2 DEF Rows
  <2>8. txn[r].new => row'[i].status = to
    <3>1. txn[r].new => txn[r].copy.status \in Initial /\ Old(r).status = txn[r].copy.status
      BY <1>2, <2>1, HeldFacts DEF Old
    <3> QED BY <2>2, <2>7, <3>1 DEF Column
  <2>9. vendors' \in [Vendors -> VendorStatuses]
    BY <1>2 DEF Persist, IInv, TypeOK, VendorStatuses
  <2>10. Recorded(r, e)
    <3> HIDE DEF to, e
    <3> QED BY <1>2, <2>1, <2>3, <2>5, <2>6, <2>7, <2>8, HeldFacts DEF Recorded
  <2> QED BY <2>5, <2>9, <2>10
<1> QED BY <1>1, <1>2

LEMMA TransitionRecords ==
  ASSUME IInv, NEW r \in Requests, Transition(r)
  PROVE  \/ Fail(r)
         \/ /\ Recorded(r, Entry(r, job[r].target, "none"))
            /\ End(r, "ok") /\ UNCHANGED master
<1> DEFINE i  == txn[r].inv
           to == job[r].target
           e  == Entry(r, to, "none")
<1>1. CASE i \notin stored
  BY <1>1 DEF Transition
<1>2. CASE i \in stored
  <2>1. pc[r] = "write" /\ ~ txn[r].new
    BY <1>2 DEF Transition, IInv, Untouched, Placed, Ended
  <2>2. to \in Reviewed
    BY DEF IInv, TypeOK, Jobs
  <2>3. e \in Entries /\ e.from = txn[r].copy.status /\ e.to = to /\ e.decision = "none"
    <3>1. txn[r].copy.status \in Statuses
      BY <1>2, <2>1, HeldFacts DEF Rows
    <3> QED BY <2>1, <2>2, <3>1 DEF Entry, Entries, Actions
  <2>4. i \in Requests /\ row[i] \in Rows /\ Old(r) = row[i]
    BY <1>2, <2>1 DEF IInv, TypeOK, Old
  <2>5. /\ row' = [row EXCEPT ![i].status = Column(txn[r].copy.status, to, @)]
        /\ stored' = stored \cup {i}
        /\ trail' = [trail EXCEPT ![i] = Append(trail[i], e)]
        /\ End(r, "ok") /\ UNCHANGED master
    <3>1. trail' = [trail EXCEPT ![i] = Append(@, e)] /\ trail \in [Requests -> Seq(Entries)]
      BY <1>2 DEF Transition, IInv, TypeOK
    <3> QED BY <1>2, <2>4, <3>1 DEF Transition
  <2>6. Column(txn[r].copy.status, to, row[i].status) \in {row[i].status, to}
    BY DEF Column
  <2>7. /\ row' = [row EXCEPT ![i] = row'[i]]
        /\ row'[i] \in Rows
        /\ row'[i].doc = row[i].doc
        /\ row'[i].key = row[i].key
        /\ row'[i].action = row[i].action
        /\ row'[i].status = Column(txn[r].copy.status, to, row[i].status)
    <3>1. row \in [Requests -> Rows]
      BY DEF IInv, TypeOK
    <3> HIDE DEF i, to, e
    <3>2. to \in Statuses
      BY <2>2 DEF Statuses
    <3> QED BY <2>4, <2>5, <2>6, <3>1, <3>2 DEF Rows
  <2>8. Recorded(r, e)
    <3> HIDE DEF to, e
    <3> QED BY <1>2, <2>1, <2>3, <2>4, <2>5, <2>6, <2>7, HeldFacts DEF Recorded
  <2> QED BY <2>5, <2>8
<1> QED BY <1>1, <1>2

LEMMA RecordedHolds ==
  ASSUME IInv, NEW r \in Requests, NEW e, pc[r] = "write", Recorded(r, e), End(r, "ok"),
         vendors' \in [Vendors -> VendorStatuses], UNCHANGED <<onFile, past>>
  PROVE  IInv'
<1>0. PICK i \in Requests : i = txn[r].inv
  BY DEF IInv, TypeOK, Txns
<1>1. e \in Entries /\ trail[i] \in Seq(Entries)
  BY DEF IInv, TypeOK, Recorded
<1>2. trail'[i] = Append(trail[i], e) /\ trail' = [trail EXCEPT ![i] = trail'[i]]
  BY <1>0 DEF Recorded, IInv, TypeOK
<1>3. Tells(trail'[i], row'[i])
  BY <1>0, <1>1, <1>2, TellsAppend DEF Recorded, Rows
<1>4. i \in stored \cup Inserted /\ row'[i].key = KeyOf(i)
  BY <1>0 DEF Recorded, Old, KeyOf
<1>5. \A s : Announced(trail[i], s, Len(trail[i])) => Announced(trail'[i], s, Len(trail'[i]))
  BY <1>1, <1>2, AnnouncedAppend
<1>6. \A a : Advised(trail[i], a) => Advised(trail'[i], a)
  BY <1>1, <1>2, AdvisedAppend
<1>7. Vacant(i)' /\ trail'[i] \in Seq(Entries)
  BY <1>0, <1>1, <1>2 DEF Vacant, Recorded
<1>8. /\ i = r \/ pc[i] \in Ended
      /\ stored' = stored \cup {i}
      /\ row' = [row EXCEPT ![i] = row'[i]] /\ row'[i] \in Rows
  BY <1>0 DEF Recorded
<1>9. pc[r] \notin Ended
  BY DEF Ended
<1> QED BY <1>1, <1>2, <1>3, <1>4, <1>5, <1>6, <1>7, <1>8, <1>9, WriteHolds
LEMMA CommitNewEffect ==
  ASSUME IInv, NEW r \in Requests, CommitNew(r)
  PROVE  /\ r \notin stored /\ r \in Inserted /\ pc[r] = "write" /\ trail[r] = <<>>
         /\ txn[r].copy \in Rows /\ txn[r].copy.status \in Initial
         /\ Tells(trail[r], txn[r].copy) /\ KeyOf(r) = txn[r].copy.key
         /\ stored' = stored \cup {r}
         /\ row' = [row EXCEPT ![r] = txn[r].copy] /\ row'[r] = txn[r].copy
         /\ End(r, "ok") /\ UNCHANGED <<trail, master>>
<1>1. pc[r] = "write" /\ txn[r].new
  BY DEF CommitNew, IInv, Placed
<1>2. row'[r] = txn[r].copy
  BY DEF CommitNew, IInv, TypeOK
<1> QED BY <1>1, <1>2, HeldFacts DEF CommitNew, Old, KeyOf

LEMMA CommitNewHolds ==
  ASSUME IInv, NEW r \in Requests, CommitNew(r), UNCHANGED past
  PROVE  IInv'
<1>1. trail[r] \in Seq(Entries) /\ trail' = [trail EXCEPT ![r] = trail'[r]]
      /\ vendors' \in [Vendors -> VendorStatuses] /\ pc[r] \notin Ended
  BY CommitNewEffect DEF IInv, TypeOK, master, Ended
<1>2. Vacant(r)'
  BY CommitNewEffect DEF Vacant
<1> QED BY <1>1, <1>2, CommitNewEffect, WriteHolds DEF master

LEMMA DeleteHolds ==
  ASSUME IInv, NEW r \in Requests, Delete(r), UNCHANGED past
  PROVE  IInv'
<1>1. PICK i \in Requests : i = txn[r].inv
  BY DEF IInv, TypeOK, Txns
<1>2. pc[r] = "write" /\ pc[r] \notin Ended /\ End(r, "ok") /\ UNCHANGED master
  BY DEF Delete, Ended
<1>3. i = r \/ pc[i] \in Ended
  BY <1>1, <1>2 DEF IInv, Untouched, Grounded, Working
<1>4. /\ stored' = stored \ {i} /\ i \notin stored'
      /\ row' = [row EXCEPT ![i] = row'[i]] /\ row'[i] = NoRow
      /\ trail' = [trail EXCEPT ![i] = trail'[i]] /\ trail'[i] = <<>>
  BY <1>1 DEF Delete, IInv, TypeOK
<1>5. NoRow \in Rows /\ <<>> \in Seq(Entries) /\ vendors' \in [Vendors -> VendorStatuses]
  BY <1>2, BlankTypes DEF IInv, TypeOK, master
<1>6. Vacant(i)'
  BY <1>4 DEF Vacant
<1> QED BY <1>1, <1>2, <1>3, <1>4, <1>5, <1>6, WriteHolds DEF master

LEMMA HandleHolds ==
  ASSUME IInv, NEW r \in Requests, Handle(r)
  PROVE  IInv'
<1> USE DEF Handle
<1>1. CASE FindByKey(r) \/ Load(r)
  BY <1>1, ReadHolds
<1>2. CASE Insert(r)
  BY <1>2, InsertHolds
<1>3. CASE MatchVendor(r) \/ Onboard(r) \/ CheckDuplicates(r) \/ Decide(r)
  BY <1>3, ThinkHolds
<1>4. CASE Fail(r) /\ (Persist(r) \/ Transition(r))
  BY <1>4, EndHolds DEF Fail, Persist, Transition, Ended
<1>5. CASE ~ Fail(r) /\ Persist(r)
  <2>1. pc[r] = "write"
    BY <1>5 DEF Persist
  <2> QED BY <1>5, <2>1, PersistRecords, RecordedHolds
<1>6. CASE ~ Fail(r) /\ Transition(r)
  <2>1. pc[r] = "write" /\ vendors \in [Vendors -> VendorStatuses]
    BY <1>6 DEF Transition, IInv, TypeOK
  <2> QED BY <1>6, <2>1, TransitionRecords, RecordedHolds DEF master
<1>7. CASE CommitNew(r) \/ Delete(r)
  BY <1>7, CommitNewHolds, DeleteHolds
<1> QED BY <1>1, <1>2, <1>3, <1>4, <1>5, <1>6, <1>7 DEF Submit, Process, Review

\* The vendor master is no part of what the invariant relates.
LEMMA ElsewhereHolds ==
  ASSUME IInv, UNCHANGED <<ledger, pc, job, txn, past>>,
         vendors' \in [Vendors -> VendorStatuses], onFile' \in SUBSET Vendors
  PROVE  IInv'
<1>1. TypeOK'
  BY DEF IInv, TypeOK, ledger, past
<1>2. ASSUME NEW q \in Requests
      PROVE  Placed(q)' /\ Untouched(q)' /\ Grounded(q)' /\ Vacant(q)'
  BY DEF IInv, Placed, Untouched, Grounded, Vacant, ledger
<1>3. OneInvoicePerKey' /\ TrailExplainsInvoice'
  BY DEF IInv, OneInvoicePerKey, KeyOf, Inserted, Active, TrailExplainsInvoice, ledger
<1> QED BY <1>1, <1>2, <1>3 DEF IInv

LEMMA InitHolds == Init => IInv
<1> SUFFICES ASSUME Init PROVE IInv
  OBVIOUS
<1>1. TypeOK
  <2>1. \A r \in Requests : Submission(r, "create", AnyDoc, NoKey, FALSE) \in Jobs
    BY BlankTypes DEF Submission, Jobs, Submissions, Reviewed
  <2>2. \A r \in Requests : Blank(r) \in Txns
    BY BlankTypes DEF Blank
  <2>3. NoRow \in Rows
    BY BlankTypes
  <2>4. job \in [Requests -> Jobs] /\ txn \in [Requests -> Txns] /\ row \in [Requests -> Rows]
    BY <2>1, <2>2, <2>3 DEF Init
  <2>5. stored \subseteq Requests /\ trail \in [Requests -> Seq(Entries)]
    BY DEF Init
  <2>6. vendors \in [Vendors -> VendorStatuses] /\ onFile \in SUBSET Vendors
    BY DEF Init
  <2>7. /\ pc \in [Requests -> {"idle"} \cup Open \cup Ended]
        /\ begun \in [Requests -> Nat] /\ after \in [Requests -> SUBSET Requests]
    BY DEF Init
  <2> QED BY <2>4, <2>5, <2>6, <2>7 DEF TypeOK
<1>2. ASSUME NEW r \in Requests
      PROVE  Placed(r) /\ Untouched(r) /\ Grounded(r) /\ Vacant(r) /\ r \notin Inserted
  BY DEF Init, Placed, Untouched, Grounded, Vacant, Working, Deciding, Blank, Holding,
         Inserted, Active, Open
<1>3. OneInvoicePerKey /\ TrailExplainsInvoice
  BY <1>2 DEF Init, OneInvoicePerKey, TrailExplainsInvoice, Inserted
<1> QED BY <1>1, <1>2, <1>3 DEF IInv

LEMMA StepHolds == IInv /\ [Next]_vars => IInv'
<1> SUFFICES ASSUME IInv, [Next]_vars PROVE IInv'
  OBVIOUS
<1>1. ASSUME NEW r \in Requests, Begin(r) PROVE IInv'
  BY <1>1, BeginHolds
<1>2. ASSUME NEW r \in Requests, Handle(r) PROVE IInv'
  BY <1>2, HandleHolds
<1>3. ASSUME NEW r \in Requests, Abort(r) PROVE IInv'
  BY <1>3, EndHolds DEF Abort, Fail, Active, Open, Ended
<1>4. ASSUME NEW v \in Vendors, Administer(v) PROVE IInv'
  BY <1>4, ElsewhereHolds
     DEF Administer, CreateVendor, UpdateVendor, UploadPolicy, RemovePolicy, IInv, TypeOK
<1>5. CASE UNCHANGED vars
  BY <1>5, ElsewhereHolds DEF vars, ledger, past, IInv, TypeOK
<1> QED BY <1>1, <1>2, <1>3, <1>4, <1>5 DEF Next

THEOREM Invariance == Spec => []IInv
BY InitHolds, StepHolds, PTL DEF Spec

-----------------------------------------------------------------------------

\* Invoices, trails, vendors and the state of every call keep their types; that
\* a decision is always one that has a status is part of it.
THEOREM TypeCorrect == Spec => []TypeOK
<1>1. IInv => TypeOK
  BY DEF IInv
<1> QED BY <1>1, Invariance, PTL

\* A key that several clients send at once makes one invoice, whatever the calls
\* wait for and however they end.
THEOREM KeysUnique == Spec => []OneInvoicePerKey
<1>1. IInv => OneInvoicePerKey
  BY DEF IInv
<1> QED BY <1>1, Invariance, PTL

\* No interleaving leaves an invoice with a status, a recommendation or a stale old
\* status in its trail that the trail itself does not account for.
THEOREM TrailComplete == Spec => []TrailExplainsInvoice
<1>1. IInv => TrailExplainsInvoice
  BY DEF IInv
<1> QED BY <1>1, Invariance, PTL
-----------------------------------------------------------------------------
(* Nothing half-processed is seen *)

\* POST /invoices/process publishes the invoice it inserts with its decision, or
\* not at all, whatever fails in between.
THEOREM AllOrNothing == Spec => []ProcessedOrAbsent
<1> DEFINE Whole(i) == /\ trail[i] # <<>>
                       /\ trail[i][1].by = i
                       /\ trail[i][1].decision # "none"
           Safe(i) == i \in stored /\ job[i].op = "process" => Whole(i)
<1>1. Init => ProcessedOrAbsent
  BY DEF Init, ProcessedOrAbsent
<1>2. ASSUME IInv, ProcessedOrAbsent, [Next]_vars PROVE ProcessedOrAbsent'
  <2>1. ASSUME NEW i \in Requests, UNCHANGED ledger,
               i \in stored => job'[i].op = job[i].op
        PROVE  Safe(i)'
    BY <1>2, <2>1 DEF ledger, ProcessedOrAbsent
  <2>2. ASSUME NEW r \in Requests, NEW o, End(r, o), NEW i \in Requests
        PROVE  job'[i].op = job[i].op
    BY <1>2, <2>2 DEF End, Submission, IInv, TypeOK
  <2>3. ASSUME NEW r \in Requests, NEW e, Recorded(r, e), e.by = r, End(r, "ok"),
               Decides(job[r].op) => e.decision # "none", NEW i \in Requests
        PROVE  Safe(i)'
    <3>1. trail \in [Requests -> Seq(Entries)] /\ txn[r].inv \in Requests /\ e \in Entries
      BY <1>2, <2>3 DEF IInv, TypeOK, Txns, Recorded
    <3>2. job'[i].op = job[i].op
      BY <2>2, <2>3
    <3>3. CASE i # txn[r].inv
      BY <1>2, <2>3, <3>1, <3>2, <3>3 DEF Recorded, ProcessedOrAbsent
    <3>4. CASE i = txn[r].inv /\ txn[r].new
      <4>1. i = r /\ trail[i] = <<>> /\ trail'[i] = Append(trail[i], e)
        BY <2>3, <3>1, <3>4 DEF Recorded
      <4>2. Append(<<>>, e) # <<>> /\ Append(<<>>, e)[1] = e
        BY <3>1
      <4> QED BY <2>3, <3>2, <4>1, <4>2 DEF Decides
    <3>5. CASE i = txn[r].inv /\ ~ txn[r].new
      <4>1. i \in stored /\ trail'[i] = Append(trail[i], e)
        BY <2>3, <3>1, <3>5 DEF Recorded
      <4>2. trail[i] # <<>> => trail'[i] # <<>> /\ trail'[i][1] = trail[i][1]
        BY <3>1, <4>1
      <4> QED BY <1>2, <3>2, <4>1, <4>2 DEF ProcessedOrAbsent
    <3> QED BY <3>3, <3>4, <3>5
  <2>4. ASSUME NEW r \in Requests, Handle(r), NEW i \in Requests PROVE Safe(i)'
    <3>1. CASE FindByKey(r) \/ Insert(r) \/ Load(r)
      BY <2>1, <2>2, <3>1 DEF FindByKey, Insert, Load, Fail
    <3>2. CASE MatchVendor(r) \/ Onboard(r) \/ CheckDuplicates(r) \/ Decide(r)
      BY <2>1, <2>2, <3>2 DEF MatchVendor, Onboard, CheckDuplicates, Decide, Fail
    <3>3. CASE Fail(r)
      BY <2>1, <2>2, <3>3 DEF Fail
    <3>4. CASE ~ Fail(r) /\ Persist(r)
      <4> DEFINE e == Entry(r, DecisionStatus[txn[r].decision], txn[r].decision)
      <4>1. e.by = r /\ e.decision # "none" /\ Recorded(r, e) /\ End(r, "ok")
        <5>1. txn[r].decision \in Decisions
          BY <1>2, <3>4 DEF Persist, IInv, Placed, Decides
        <5> QED BY <1>2, <3>4, <5>1, PersistRecords DEF Entry, Decisions
      <4> QED BY <2>3, <4>1
    <3>5. CASE ~ Fail(r) /\ Transition(r)
      <4> DEFINE e == Entry(r, job[r].target, "none")
      <4>1. e.by = r /\ Recorded(r, e) /\ End(r, "ok") /\ ~ Decides(job[r].op)
        BY <1>2, <3>5, TransitionRecords DEF Transition, Entry, Decides
      <4> QED BY <2>3, <4>1
    <3>6. CASE CommitNew(r)
      <4>1. /\ stored' = stored \cup {r} /\ UNCHANGED trail
            /\ job'[i].op = job[i].op /\ job[r].op # "process"
        BY <2>2, <3>6 DEF CommitNew
      <4> QED BY <1>2, <4>1 DEF ProcessedOrAbsent
    <3>7. CASE Delete(r)
      <4>1. /\ stored' = stored \ {txn[r].inv} /\ job'[i].op = job[i].op
            /\ i # txn[r].inv => trail'[i] = trail[i]
        BY <1>2, <2>2, <3>7 DEF Delete, IInv, TypeOK
      <4> QED BY <1>2, <4>1 DEF ProcessedOrAbsent
    <3> QED BY <2>4, <3>1, <3>2, <3>3, <3>4, <3>5, <3>6, <3>7
            DEF Handle, Submit, Process, Review
  <2>5. ASSUME NEW r \in Requests, Begin(r), NEW i \in Requests PROVE Safe(i)'
    <3>1. PICK j \in Jobs : BeginWith(r, j)
      BY <1>2, <2>5, BeginTypes DEF IInv
    <3>2. r \notin stored
      BY <1>2, <3>1 DEF BeginWith, IInv, Placed, Ended
    <3> QED BY <1>2, <2>1, <3>1, <3>2 DEF BeginWith, IInv, TypeOK
  <2>6. ASSUME NEW i \in Requests, UNCHANGED <<ledger, job>> PROVE Safe(i)'
    BY <2>1, <2>6
  <2>7. \A i \in Requests : Safe(i)'
    <3>1. CASE UNCHANGED vars
      BY <2>6, <3>1 DEF vars, ledger
    <3>2. ASSUME NEW r \in Requests, Abort(r), NEW i \in Requests PROVE Safe(i)'
      BY <2>1, <2>2, <3>2 DEF Abort, Fail
    <3>3. ASSUME NEW v \in Vendors, Administer(v) PROVE UNCHANGED <<ledger, job>>
      BY <3>3 DEF Administer, CreateVendor, UpdateVendor, UploadPolicy, RemovePolicy
    <3> QED BY <1>2, <2>4, <2>5, <2>6, <3>1, <3>2, <3>3 DEF Next
  <2>8. stored' \subseteq Requests
    BY <1>2, StepHolds DEF IInv, TypeOK
  <2> QED BY <2>7, <2>8 DEF ProcessedOrAbsent
<1> QED BY <1>1, <1>2, Invariance, PTL DEF Spec
-----------------------------------------------------------------------------
(* The handlers implement the ledger *)

\* Every step of every handler adds an invoice, records one entry of its trail with
\* what the entry tells, removes an invoice with its trail, or changes no table.
THEOREM Refinement == Spec => ImplementsLedger
<1>0. Ledger!Rows = Rows /\ Ledger!Entries = Entries /\ Ledger!Initial = Initial
  BY DEF Ledger!Rows, Rows, Ledger!Entries, Entries, Ledger!Statuses, Statuses,
         Ledger!Initial, Initial, Ledger!Reviewed, Reviewed,
         Ledger!Actions, Actions, Ledger!Decisions, Decisions
<1>1. Init => Ledger!Init
  <2> SUFFICES ASSUME Init PROVE Ledger!Init
    OBVIOUS
  <2>1. row \in [Requests -> Rows]
    BY BlankTypes DEF Init
  <2> QED BY <1>0, <2>1 DEF Init, Ledger!Init
<1>2. ASSUME IInv, [Next]_vars PROVE [Ledger!Next]_(Ledger!ledger)
  <2> USE <1>2
  <2>1. ASSUME NEW r \in Requests, NEW e, Recorded(r, e), pc[r] = "write"
        PROVE  \E i \in Requests : Ledger!Add(i) \/ Ledger!Record(i)
    <3>1. PICK i \in Requests : i = txn[r].inv
      BY DEF IInv, TypeOK, Txns
    <3>2. /\ e \in Entries /\ e \in Ledger!Entries
          /\ stored' = stored \cup {i}
          /\ row' = [row EXCEPT ![i] = row'[i]] /\ row'[i] \in Rows
          /\ trail' = [trail EXCEPT ![i] = Append(trail[i], e)]
          /\ trail[i] \in Seq(Entries)
          /\ trail'[i] = Append(trail[i], e)
      BY <1>0, <2>1, <3>1 DEF Recorded, IInv, TypeOK
    <3>3. CASE txn[r].new
      <4>1. /\ i = r /\ i \in Inserted /\ i \notin stored /\ trail[i] = <<>>
            /\ e.from \in Initial /\ row'[i].status = e.to
            /\ row'[i].key = KeyOf(i)
        BY <2>1, <3>1, <3>3 DEF Recorded, Old, KeyOf
      <4>2. Ledger!FreeKey(row'[i].key)
        BY <4>1 DEF IInv, OneInvoicePerKey, KeyOf, Ledger!FreeKey
      <4>3. trail'[i] = <<e>> /\ trail'[i][1] = e /\ Len(trail'[i]) = 1
        BY <3>2, <4>1
      <4>4. trail' = [trail EXCEPT ![i] = <<e>>]
        BY <3>2, <4>1, <4>3
      <4>5. /\ i \notin stored /\ stored' = stored \cup {i}
            /\ row' = [row EXCEPT ![i] = row'[i]] /\ row'[i] \in Ledger!Rows
            /\ e \in Ledger!Entries /\ e.from \in Ledger!Initial
        BY <1>0, <3>2, <4>1
      <4>6. Ledger!Add(i)
        BY <4>1, <4>2, <4>3, <4>4, <4>5 DEF Ledger!Add
      <4> QED BY <4>6
    <3>4. CASE ~ txn[r].new
      <4>1. /\ i \in stored
            /\ row'[i].doc = row[i].doc /\ row'[i].key = row[i].key
            /\ row'[i].status \in {e.to, row[i].status}
            /\ row'[i].action \in {e.decision, row[i].action}
            /\ Announced(trail[i], e.from, Len(trail[i]))
        BY <2>1, <3>1, <3>4 DEF Recorded, Old
      <4>2. Ledger!Explained(e.from, trail[i])
        BY <1>0, <3>2, <4>1 DEF Announced, Ledger!Explained
      <4>3. /\ Len(trail'[i]) = Len(trail[i]) + 1
            /\ trail'[i][Len(trail[i]) + 1] = e
        BY <3>2
      <4>4. stored' = stored
        BY <3>2, <4>1
      <4>5. trail' = [trail EXCEPT ![i] = Append(@, e)]
        BY <3>2 DEF IInv, TypeOK
      <4> QED BY <3>2, <4>1, <4>2, <4>3, <4>4, <4>5 DEF Ledger!Record
    <3> QED BY <3>3, <3>4
  <2>2. ASSUME NEW r \in Requests, CommitNew(r) PROVE Ledger!Add(r)
    <3>1. Ledger!FreeKey(row'[r].key)
      BY <2>2, CommitNewEffect DEF IInv, OneInvoicePerKey, KeyOf, Ledger!FreeKey
    <3>2. row' = [row EXCEPT ![r] = row'[r]]
      BY <2>2, CommitNewEffect
    <3> QED BY <1>0, <2>2, <3>1, <3>2, CommitNewEffect DEF Ledger!Add
  <2>3. ASSUME NEW r \in Requests, Delete(r)
        PROVE  UNCHANGED ledger \/ \E i \in Requests : Ledger!Remove(i)
    <3>1. PICK i \in Requests : i = txn[r].inv
      BY DEF IInv, TypeOK, Txns
    <3>2. /\ stored' = stored \ {i}
          /\ row' = [row EXCEPT ![i] = NoRow]
          /\ trail' = [trail EXCEPT ![i] = <<>>]
      BY <2>3, <3>1 DEF Delete
    <3>3. CASE i \in stored
      <4>1. row'[i] = NoRow /\ NoRow \in Ledger!Rows
        BY <1>0, <3>2, BlankTypes DEF IInv, TypeOK
      <4>2. row' = [row EXCEPT ![i] = row'[i]]
        BY <3>2, <4>1
      <4>3. Ledger!Remove(i)
        BY <3>2, <3>3, <4>1, <4>2 DEF Ledger!Remove
      <4> QED BY <4>3
    <3>4. CASE i \notin stored
      <4>1. trail[i] = <<>> /\ row[i] = NoRow
        BY <3>4 DEF IInv, Vacant
      <4> QED BY <3>2, <3>4, <4>1 DEF IInv, TypeOK, ledger
    <3> QED BY <3>3, <3>4
  <2>4. ASSUME NEW r \in Requests, Handle(r)
        PROVE  UNCHANGED ledger \/ Ledger!Next
    <3>1. CASE FindByKey(r) \/ Insert(r) \/ Load(r)
      BY <3>1 DEF FindByKey, Insert, Load, Fail, ledger
    <3>2. CASE MatchVendor(r) \/ Onboard(r) \/ CheckDuplicates(r) \/ Decide(r)
      BY <3>2 DEF MatchVendor, Onboard, CheckDuplicates, Decide, Fail, ledger
    <3>3. CASE Fail(r)
      BY <3>3 DEF Fail
    <3>4. CASE ~ Fail(r) /\ (Persist(r) \/ Transition(r))
      <4>1. pc[r] = "write"
        BY <3>4 DEF Persist, Transition
      <4> QED BY <2>1, <3>4, <4>1, PersistRecords, TransitionRecords DEF Ledger!Next
    <3>5. CASE CommitNew(r) \/ Delete(r)
      BY <2>2, <2>3, <3>5 DEF Ledger!Next
    <3> QED BY <2>4, <3>1, <3>2, <3>3, <3>4, <3>5 DEF Handle, Submit, Process, Review
  <2>5. ASSUME NEW r \in Requests, Begin(r) \/ Abort(r) PROVE UNCHANGED ledger
    BY <2>5, BeginTypes DEF BeginWith, Abort, Fail, IInv
  <2>6. ASSUME NEW v \in Vendors, Administer(v) PROVE UNCHANGED ledger
    BY <2>6 DEF Administer, CreateVendor, UpdateVendor, UploadPolicy, RemovePolicy
  <2>7. CASE UNCHANGED vars
    BY <2>7 DEF vars, Ledger!ledger
  <2> QED BY <2>4, <2>5, <2>6, <2>7 DEF Next, ledger, Ledger!ledger
<1> QED BY <1>1, <1>2, Invariance, PTL DEF Spec, ImplementsLedger, Ledger!Spec
=============================================================================
