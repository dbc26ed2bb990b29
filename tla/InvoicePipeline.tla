-------------------------- MODULE InvoicePipeline --------------------------
(***************************************************************************)
(* The invoice pipeline: the REST routes and MCP tools that create,        *)
(* ingest, process, review and delete the invoices of one organization.    *)
(*                                                                         *)
(* Every call is one database transaction on PostgreSQL at READ COMMITTED, *)
(* opened before the handler and committed before the reply (rolled back   *)
(* when the handler fails).  A handler waits at every "await": the         *)
(* extraction and decision models take seconds, so calls interleave        *)
(* between its statements.  Each action below is one statement of a        *)
(* handler together with the code that runs until the next wait.           *)
(*                                                                         *)
(* A request r is used once; the invoice it inserts, if any, has id r (the *)
(* code draws a fresh uuid4).  Sessions are created with autoflush off, so *)
(* the changes process_invoice makes to an invoice reach the database only *)
(* with its last flush.  From that flush to the commit other transactions  *)
(* can only read the old row or wait for its lock, so the two are one      *)
(* step.  An INSERT, which other transactions wait for long before the     *)
(* commit, is a step of its own.                                           *)
(***************************************************************************)
EXTENDS InvoiceData

CONSTANTS
  Requests,          \* the calls of a behaviour
  VendorOf,          \* the vendor a document's raw vendor name is matched to
  ExactDuplicate,    \* ExactDuplicate[d, e]: checking d finds e an exact duplicate
  CandidateLimit,    \* how many of the most recent invoices are compared
  Calls,             \* bound: the kinds of call that are made
  Targets,           \* bound: the statuses that reviewers set
  Autos              \* bound: the values of auto_onboard that are sent

ASSUME PipelineAssumption ==
  /\ VendorOf \in [Docs -> Vendors \cup {NoVendor}]
  /\ ExactDuplicate \in [Docs \X Docs -> BOOLEAN]
  /\ CandidateLimit \in Nat \ {0}
  /\ IsFiniteSet(Requests)
  /\ Targets \subseteq Reviewed
  /\ Autos \subseteq BOOLEAN

VARIABLES
  stored,     \* ids of the committed invoices
  row,        \* their columns
  trail,      \* their committed audit entries, in commit order
  vendors,    \* the committed vendor master: the status of each name
  onFile,     \* vendors with policy chunks in the vector store
  pc,         \* where each request's handler is
  job,        \* what each request asks for
  txn,        \* what each open transaction has read and decided
  begun,      \* when each request began: created_at of what it writes
  after       \* the requests that had ended by then

ledger == <<stored, row, trail>>
master == <<vendors, onFile>>
past   == <<begun, after>>
vars   == <<stored, row, trail, vendors, onFile, pc, job, txn, begun, after>>

Submissions == {"create", "ingest", "process"}
Reviews     == {"reprocess", "transition", "delete"}

\* One entry stands for the rows a transaction adds to processing_events: they
\* are written by one flush and carry the same created_at.
Entries == [by : Requests, from : Statuses, to : Reviewed, decision : Actions]

Jobs == [op : Submissions \cup Reviews, doc : Docs, key : Keys \cup {NoKey},
         inv : Requests,          \* the invoice a review names; r for a submission
         auto : BOOLEAN,          \* auto_onboard
         target : Reviewed]       \* the status a transition asks for

Txns == [inv : Requests,          \* the invoice the transaction works on
         new : BOOLEAN,           \* it is inserted and not yet committed
         copy : Rows,             \* its columns as they were inserted or loaded
         vendor : Vendors \cup {NoVendor},  \* the vendor it is given
         opened : BOOLEAN,        \* that vendor is inserted and not yet committed
         duplicate : BOOLEAN,
         decision : Actions]

Open  == {"begun", "insert", "match", "onboard", "compare", "decide", "write"}
Ended == {"ok", "failed"}

-----------------------------------------------------------------------------
(* Transactions *)

Active(r) == pc[r] \in Open

AnyDoc == CHOOSE d \in Docs : TRUE

\* What a call asks for; the fields it has no use for hold a fixed value.
Submission(r, op, d, k, a) ==
  [op |-> op, doc |-> d, key |-> k, inv |-> r, auto |-> a, target |-> "held"]

ReviewOf(i, op, a, s) ==
  [op |-> op, doc |-> AnyDoc, key |-> NoKey, inv |-> i, auto |-> a, target |-> s]

\* What row holds of an id that is not stored.
NoRow == [doc |-> AnyDoc, key |-> NoKey, vendor |-> NoVendor,
          status |-> "received", action |-> "none"]

\* A transaction that has just inserted or loaded the invoice i.
Holding(i, new, copy) ==
  [inv |-> i, new |-> new, copy |-> copy, vendor |-> copy.vendor,
   opened |-> FALSE, duplicate |-> FALSE, decision |-> "none"]

Blank(r) == Holding(r, FALSE, NoRow)

Goto(r, where) == pc' = [pc EXCEPT ![r] = where]

\* The session is closed.
End(r, outcome) ==
  /\ Goto(r, outcome)
  /\ txn' = [txn EXCEPT ![r] = Blank(r)]
  /\ job' = [job EXCEPT ![r] = Submission(r, @.op, AnyDoc, NoKey, FALSE)]

\* Rolled back and answered with an error, or not answered at all.
Fail(r) == End(r, "failed") /\ UNCHANGED <<ledger, master>>

\* Rows inserted by open transactions: invisible, but unique constraints count them.
Inserted == {r \in Requests : Active(r) /\ txn[r].new}

\* Mutant: a reviewed status is never overwritten.
ColumnFirstWins(loaded, new, current) == IF current \in Reviewed THEN current ELSE new

\* A column is in the UPDATE only when its value differs from the loaded one.
Column(loaded, new, current) == IF new = loaded THEN current ELSE new

-----------------------------------------------------------------------------
(* Submitting: POST /invoices, /invoices/ingest, /invoices/process *)

BeginWith(r, j) ==
  /\ pc[r] = "idle" /\ j.op \in Calls
  /\ Goto(r, "begun")
  /\ job' = [job EXCEPT ![r] = j]
  /\ begun' = [begun EXCEPT ![r] = 1 + Cardinality({q \in Requests : pc[q] # "idle"})]
  /\ after' = [after EXCEPT ![r] = {q \in Requests : pc[q] \in Ended}]
  /\ UNCHANGED <<ledger, master, txn>>

Begin(r) ==
  \/ \E op \in Submissions, d \in Docs, k \in Keys \cup {NoKey} :
       \/ op # "process" /\ BeginWith(r, Submission(r, op, d, k, FALSE))
       \/ op = "process" /\ \E a \in Autos : BeginWith(r, Submission(r, op, d, k, a))
  \/ \E i \in stored :
       \/ \E a \in Autos : BeginWith(r, ReviewOf(i, "reprocess", a, "held"))
       \/ \E s \in Targets : BeginWith(r, ReviewOf(i, "transition", FALSE, s))
       \/ BeginWith(r, ReviewOf(i, "delete", FALSE, "held"))

\* find_by_idempotency: a falsy key is never looked up.
Holders(k) == IF k \in {NoKey, BlankKey} THEN {} ELSE {i \in stored : row[i].key = k}

\* A known key: create and ingest answer with the invoice they find, process
\* runs the pipeline on it.
FindByKey(r) ==
  /\ pc[r] = "begun" /\ job[r].op \in Submissions
  /\ \/ /\ Holders(job[r].key) = {}
        /\ Goto(r, "insert")
        /\ UNCHANGED <<txn, job>>
     \/ \E i \in Holders(job[r].key) :
          IF job[r].op = "process"
          THEN Goto(r, "match") /\ txn' = [txn EXCEPT ![r] = Holding(i, FALSE, row[i])] /\ UNCHANGED job
          ELSE End(r, "ok")
  /\ UNCHANGED <<ledger, master>>

\* Mutant: the unique constraint is missing.
ConflictNever(k) == FALSE

\* The unique constraint on (organization_id, idempotency_key).
Conflict(k) == k # NoKey /\ \E i \in stored : row[i].key = k

\* Mutant: a key that is taken for good is waited for too.
LockedForGood(k) == k # NoKey /\ (Conflict(k) \/ \E q \in Inserted : txn[q].copy.key = k)

\* INSERT waits while an open transaction has inserted the same key.
Locked(k) == k # NoKey /\ \E q \in Inserted : txn[q].copy.key = k

\* create_invoice takes the vendor_id its caller sends.
GivenVendors(r) ==
  {NoVendor} \cup (IF job[r].op = "create" THEN {v \in Vendors : vendors[v] # "absent"}
                                           ELSE {})

Inserting(r, v) ==
  [doc |-> job[r].doc, key |-> job[r].key, vendor |-> v,
   status |-> IF job[r].op = "create" THEN "received" ELSE "extracted",
   action |-> "none"]

\* After the extraction model's answer, the INSERT and its flush. On a conflict
\* create_invoice rolls back and looks the key up again; whether it then answers
\* or fails (the rollback has expired the organization it needs), nothing is
\* written.
Insert(r) ==
  /\ pc[r] = "insert"
  /\ ~ Locked(job[r].key)
  /\ IF Conflict(job[r].key)
     THEN \E outcome \in {"failed"} \cup (IF job[r].op = "create" THEN {"ok"} ELSE {}) :
            End(r, outcome)
     ELSE \E v \in GivenVendors(r) :
            /\ txn' = [txn EXCEPT ![r] = Holding(r, TRUE, Inserting(r, v))]
            /\ Goto(r, IF job[r].op = "process" THEN "match" ELSE "write")
            /\ UNCHANGED job
  /\ UNCHANGED <<ledger, master>>

\* The commit that ends create_invoice and ingest_invoice.
CommitNew(r) ==
  /\ pc[r] = "write" /\ job[r].op \in {"create", "ingest"}
  /\ stored' = stored \cup {r}
  /\ row' = [row EXCEPT ![r] = txn[r].copy]
  /\ End(r, "ok")
  /\ UNCHANGED <<trail, master>>

-----------------------------------------------------------------------------
(* Processing: process_invoice, on a new or an existing invoice *)

Load(r) ==
  /\ pc[r] = "begun" /\ job[r].op \in Reviews
  /\ IF job[r].inv \in stored
     THEN /\ txn' = [txn EXCEPT ![r] = Holding(job[r].inv, FALSE, row[job[r].inv])]
          /\ Goto(r, IF job[r].op = "reprocess" THEN "match" ELSE "write")
          /\ UNCHANGED <<job, ledger, master>>
     ELSE Fail(r)

\* Step 1, the vendor master is read; 1b is next for a name it does not know.
MatchVendor(r) ==
  LET v == VendorOf[txn[r].copy.doc]
  IN  /\ pc[r] = "match"
      /\ \/ /\ v # NoVendor /\ vendors[v] # "absent"
            /\ txn' = [txn EXCEPT ![r].vendor = v]
            /\ Goto(r, "compare")
         \/ /\ v # NoVendor /\ vendors[v] = "absent" /\ job[r].auto
            /\ Goto(r, "onboard")
            /\ UNCHANGED txn
         \/ /\ v # NoVendor => vendors[v] = "absent" /\ ~ job[r].auto
            /\ Goto(r, "compare")
            /\ UNCHANGED txn
      /\ UNCHANGED <<job, ledger, master>>

\* An open transaction has inserted the vendor v: another INSERT of v waits.
Onboarding(v) == \E q \in Requests : Active(q) /\ txn[q].opened /\ txn[q].vendor = v

\* Mutant: the constraint is missing and the INSERT replaces the vendor.
KnownVendorNever(v) == FALSE

\* The unique constraint on (organization_id, canonical_name).
KnownVendor(v) == vendors[v] # "absent"

\* Step 1b: the vendor and its first policy are inserted and flushed.
Onboard(r) ==
  LET v == VendorOf[txn[r].copy.doc]
  IN  /\ pc[r] = "onboard"
      /\ ~ Onboarding(v)
      /\ IF KnownVendor(v)
         THEN Fail(r)
         ELSE /\ txn' = [txn EXCEPT ![r].vendor = v, ![r].opened = TRUE]
              /\ Goto(r, "compare")
              /\ UNCHANGED <<job, ledger, master>>

\* Step 4 reads the committed invoices other than this one, the newest first and
\* CandidateLimit at most, whatever their status.
Others(r) == stored \ {txn[r].inv}

\* Mutant: the oldest invoices are compared, not the newest.
CandidatesOldest(r) ==
  {c \in Others(r) :
     Cardinality({d \in Others(r) : begun[d] < begun[c]}) < CandidateLimit}

Candidates(r) ==
  {c \in Others(r) :
     Cardinality({d \in Others(r) : begun[d] > begun[c]}) < CandidateLimit}

CheckDuplicates(r) ==
  /\ pc[r] = "compare"
  /\ txn' = [txn EXCEPT ![r].duplicate =
               \E c \in Candidates(r) : ExactDuplicate[txn[r].copy.doc, row[c].doc]]
  /\ Goto(r, "decide")
  /\ UNCHANGED <<job, ledger, master>>

\* Step 6, "decide": the guardrails, then the decision model, whose answer may be
\* anything (an answer that does not parse counts as "hold"; no answer is Abort).
Verdicts(r) ==
  IF txn[r].duplicate THEN {"reject"}
  ELSE IF txn[r].vendor \in onFile THEN Decisions
  ELSE {"hold"}

Decide(r) ==
  /\ pc[r] = "decide"
  /\ \E d \in Verdicts(r) : txn' = [txn EXCEPT ![r].decision = d]
  /\ Goto(r, "write")
  /\ UNCHANGED <<job, ledger, master>>

\* Mutant: the old and the new status change places.
EntrySwapped(r, to, decision) ==
  [by |-> r, from |-> to, to |-> txn[r].copy.status, decision |-> decision]

\* The audit entry of the transaction, with the status it had loaded as the old one.
Entry(r, to, decision) ==
  [by |-> r, from |-> txn[r].copy.status, to |-> to, decision |-> decision]

\* Step 7, its flush and the commit. The UPDATE of an invoice that is gone
\* matches no row, and its events have no invoice to refer to.
Persist(r) ==
  LET i  == txn[r].inv
      d  == txn[r].decision
      to == DecisionStatus[d]
      base == IF txn[r].new THEN txn[r].copy ELSE row[i]
  IN  /\ pc[r] = "write" /\ job[r].op \in {"process", "reprocess"}
      /\ IF txn[r].new \/ i \in stored
         THEN /\ stored' = stored \cup {i}
              /\ row' = [row EXCEPT ![i] =
                           [base EXCEPT !.status = Column(txn[r].copy.status, to, @),
                                        !.action = Column(txn[r].copy.action, d, @),
                                        !.vendor = Column(txn[r].copy.vendor, txn[r].vendor, @)]]
              /\ trail' = [trail EXCEPT ![i] = Append(@, Entry(r, to, d))]
              /\ vendors' = IF txn[r].opened
                            THEN [vendors EXCEPT ![txn[r].vendor] = "onboarding"]
                            ELSE vendors
              /\ End(r, "ok")
              /\ UNCHANGED onFile
         ELSE Fail(r)

-----------------------------------------------------------------------------
(* Reviewing: POST /invoices/{id}/status, DELETE /invoices/{id} *)

\* transition_status: any status may become any reviewed one.
Transition(r) ==
  LET i == txn[r].inv
      to == job[r].target
  IN  /\ pc[r] = "write" /\ job[r].op = "transition"
      /\ IF i \in stored
         THEN /\ row' = [row EXCEPT ![i].status = Column(txn[r].copy.status, to, @)]
              /\ trail' = [trail EXCEPT ![i] = Append(@, Entry(r, to, "none"))]
              /\ End(r, "ok")
              /\ UNCHANGED <<stored, master>>
         ELSE Fail(r)

\* Mutant: the foreign key of the events does not cascade.
DeleteKeepsTrail(r) ==
  /\ pc[r] = "write" /\ job[r].op = "delete"
  /\ stored' = stored \ {txn[r].inv}
  /\ End(r, "ok")
  /\ UNCHANGED <<row, trail, master>>

\* The events go with the invoice; a row already gone is only warned about.
Delete(r) ==
  LET i == txn[r].inv
  IN  /\ pc[r] = "write" /\ job[r].op = "delete"
      /\ stored' = stored \ {i}
      /\ row' = [row EXCEPT ![i] = NoRow]
      /\ trail' = [trail EXCEPT ![i] = <<>>]
      /\ End(r, "ok")
      /\ UNCHANGED master

\* Mutant: the middleware commits what a failed call had flushed.
AbortCommits(r) ==
  /\ Active(r)
  /\ End(r, "failed")
  /\ IF txn[r].new
     THEN stored' = stored \cup {r} /\ row' = [row EXCEPT ![r] = txn[r].copy]
     ELSE UNCHANGED <<stored, row>>
  /\ UNCHANGED <<trail, master, past>>

\* The model service is down, the connection is lost, the client is gone, the
\* server stops: PostgreSQL rolls the transaction back.
Abort(r) == Active(r) /\ Fail(r) /\ UNCHANGED past

-----------------------------------------------------------------------------
(* The vendor master and the policy documents, seen from the pipeline *)

\* create_vendor, with the status its caller asks for.
CreateVendor(v) ==
  /\ "create_vendor" \in Calls
  /\ ~ KnownVendor(v) /\ ~ Onboarding(v)
  /\ \E s \in VendorStatuses \ {"absent"} : vendors' = [vendors EXCEPT ![v] = s]
  /\ UNCHANGED <<ledger, onFile, pc, job, txn, past>>

\* update_vendor: a reviewer changes the vendor's status.
UpdateVendor(v) ==
  /\ "update_vendor" \in Calls
  /\ KnownVendor(v)
  /\ \E s \in VendorStatuses \ {"absent"} : vendors' = [vendors EXCEPT ![v] = s]
  /\ UNCHANGED <<ledger, onFile, pc, job, txn, past>>

\* upload_document and delete_document: the vendor has, or has no more, chunks.
UploadPolicy(v) ==
  /\ "upload_document" \in Calls
  /\ KnownVendor(v)
  /\ onFile' = onFile \cup {v}
  /\ UNCHANGED <<ledger, vendors, pc, job, txn, past>>

RemovePolicy(v) ==
  /\ "delete_document" \in Calls
  /\ onFile' = onFile \ {v}
  /\ UNCHANGED <<ledger, vendors, pc, job, txn, past>>

-----------------------------------------------------------------------------

\* An organization with vendors and policies, and no invoice yet.
Init ==
  /\ stored = {}
  /\ trail = [r \in Requests |-> <<>>]
  /\ vendors \in [Vendors -> VendorStatuses]
  /\ onFile \in SUBSET {v \in Vendors : vendors[v] # "absent"}
  /\ pc = [r \in Requests |-> "idle"]
  /\ job = [r \in Requests |-> Submission(r, "create", AnyDoc, NoKey, FALSE)]
  /\ txn = [r \in Requests |-> Blank(r)]
  /\ row = [r \in Requests |-> NoRow]
  /\ begun = [r \in Requests |-> 0]
  /\ after = [r \in Requests |-> {}]

Process(r) == MatchVendor(r) \/ Onboard(r) \/ CheckDuplicates(r) \/ Decide(r) \/ Persist(r)
Review(r)  == Load(r) \/ Transition(r) \/ Delete(r)
Submit(r)  == FindByKey(r) \/ Insert(r) \/ CommitNew(r)

\* The steps a handler takes once it has begun.
Handle(r) == (Submit(r) \/ Process(r) \/ Review(r)) /\ UNCHANGED past

Administer(v) == CreateVendor(v) \/ UpdateVendor(v) \/ UploadPolicy(v) \/ RemovePolicy(v)

Next ==
  \/ \E r \in Requests : Begin(r) \/ Handle(r) \/ Abort(r)
  \/ \E v \in Vendors : Administer(v)

Spec == Init /\ [][Next]_vars

\* The event loop runs every handler that is not waiting, and a wait ends: the
\* model calls time out and PostgreSQL grants a lock when its holder commits.
FairSpec == Spec /\ \A r \in Requests : WF_vars(Handle(r))

-----------------------------------------------------------------------------
(* Properties *)

TypeOK ==
  /\ stored \subseteq Requests
  /\ row \in [Requests -> Rows]
  /\ trail \in [Requests -> Seq(Entries)]
  /\ vendors \in [Vendors -> VendorStatuses]
  /\ onFile \in SUBSET Vendors
  /\ pc \in [Requests -> {"idle"} \cup Open \cup Ended]
  /\ job \in [Requests -> Jobs]
  /\ txn \in [Requests -> Txns]
  /\ begun \in [Requests -> Nat]
  /\ after \in [Requests -> SUBSET Requests]

\* An idempotency key belongs to one invoice at most, counting the invoices whose
\* transactions are still open: a key two clients send at once is not taken twice.
KeyOf(i) == IF i \in stored THEN row[i].key ELSE txn[i].copy.key
OneInvoicePerKey ==
  \A i, j \in stored \cup Inserted : i # j /\ KeyOf(i) # NoKey => KeyOf(i) # KeyOf(j)

\* The trail accounts for the row: a reviewed status, and a recommendation, was
\* announced by an entry, and every entry started from a status that the invoice
\* had been created with or that an earlier entry had announced.
Announced(tr, s, n) == s \in Initial \/ \E m \in 1 .. n : tr[m].to = s
Advised(tr, a) == a = "none" \/ \E n \in DOMAIN tr : tr[n].decision = a
Tells(tr, rw) ==
  /\ Announced(tr, rw.status, Len(tr))
  /\ Advised(tr, rw.action)
  /\ \A n \in DOMAIN tr : Announced(tr, tr[n].from, n - 1)
TrailExplainsInvoice == \A i \in stored : Tells(trail[i], row[i])

\* POST /invoices/process is all or nothing: an invoice it inserted is seen only
\* with the decision of that same call, first in its trail.
ProcessedOrAbsent ==
  \A i \in stored :
    job[i].op = "process" => /\ trail[i] # <<>>
                             /\ trail[i][1].by = i
                             /\ trail[i][1].decision # "none"

\* Two invoices that are exact duplicates of each other are both auto-approved only
\* by transactions that were open at the same time: once one has been approved and
\* committed, no later call approves the other, by whichever route it came, unless
\* CandidateLimit other submissions or more have come since the first.
Approvers(i) == {trail[i][n].by : n \in {m \in DOMAIN trail[i] :
                                           trail[i][m].decision = "auto_approve"}}
Twins(i, j) == /\ i # j
               /\ ExactDuplicate[row[i].doc, row[j].doc]
               /\ ExactDuplicate[row[j].doc, row[i].doc]
\* The submissions between that of i and the end of the call b, which approves j.
Since(i, j, b) == {r \in Requests \ {j, b} : /\ job[r].op \in Submissions
                                            /\ begun[r] > begun[i] /\ b \notin after[r]}
SerialDuplicatesRejected ==
  \A i, j \in stored : Twins(i, j) =>
    \A a \in Approvers(i), b \in Approvers(j) :
      a \in after[b] => Cardinality(Since(i, j, b)) >= CandidateLimit

\* The last word stands: when every other call that wrote to an invoice had ended
\* before the author of its last entry began, the status is the one that entry tells.
\* Only calls that overlap can leave a trail that ends on another status.
LastWordStands ==
  \A i \in stored : trail[i] # <<>> =>
    LET last == trail[i][Len(trail[i])]
    IN  (\A n \in 1 .. Len(trail[i]) - 1 : trail[i][n].by \in after[last.by])
          => row[i].status = last.to

\* A vendor that a reviewer made active is never thrown back to onboarding by a
\* call that had found it unknown when it started.
OnboardingKeepsTrust ==
  [][\A v \in Vendors : vendors[v] = "active" /\ vendors'[v] = "onboarding"
                          => \A r \in Requests : pc[r] = pc'[r]]_vars

\* The tables keep what InvoiceLedger promises.
Ledger == INSTANCE InvoiceLedger WITH Ids <- Requests, Actors <- Requests
ImplementsLedger == Ledger!Spec

\* Every call that has begun is answered: the locks taken by INSERTs never leave
\* two calls waiting for each other.
RequestsEnd == \A r \in Requests : Active(r) ~> pc[r] \in Ended

=============================================================================
