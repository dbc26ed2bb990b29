--------------------------- MODULE PolicyDocuments ---------------------------
(***************************************************************************)
(* The policy shelf of one vendor: its documents, the chunks decisions     *)
(* read, and the rules compiled from the documents, under overlapping      *)
(* requests.  Every request is a READ COMMITTED transaction of PostgreSQL: *)
(* its writes are private until it commits, every STATEMENT sees what was  *)
(* committed when that statement began, and a statement that reaches a row *)
(* another open transaction has written waits for that transaction.  A     *)
(* DELETE is therefore two steps here: it finds its rows, then deletes     *)
(* those of them that still match its WHERE once nobody else holds them.   *)
(*                                                                         *)
(* A document is named after the request that uploads it; its text makes   *)
(* one chunk (none when the text is blank) and at most one rule.           *)
(***************************************************************************)
EXTENDS Naturals, FiniteSets

CONSTANTS
    Requests,   \* calls of the API, each made once
    Uploaders,  \* those of them that may be uploads (a bound)
    Keyed,      \* those that use the organization's API key, not a session token
    OnFile,     \* the documents on file at the start, compiled, rule proposed
    TopK        \* how many chunks a decision reads (rag_top_k)

ASSUME DocumentsAssumption ==
    /\ IsFiniteSet(Requests) /\ IsFiniteSet(OnFile)
    /\ Requests \cap OnFile = {} /\ Uploaders \subseteq Requests /\ Keyed \subseteq Requests
    /\ TopK \in Nat \ {0}

VARIABLES
    docs,      \* committed vendor_documents: their status, or Absent
    chunks,    \* committed policy_chunks, by document
    rules,     \* committed policy_rules: their status, or Absent
    orphans,   \* the committed rules whose document_id is NULL
    txn,       \* the transaction of each request
    past,      \* history: what was on file when a replacing upload was made
    met        \* history: the requests that were open together with that upload

vars == <<docs, chunks, rules, orphans, txn, past, met>>

Ids == Requests \cup OnFile
Absent == "absent"
DocumentStatuses == {"uploaded", "compiled"}
RuleStatuses == {"proposed", "approved", "rejected"}

Kinds == {"upload", "delete", "judge", "decide"}
Places == {"idle", "rules", "deleting rules", "documents", "deleting documents",
           "insert", "compile", "update", "model", "commit", "done", "failed"}

\* What a transaction holds before it starts; a request fills in its own part.
NoTxn == [at |-> "idle", kind |-> "decide", replace |-> FALSE, compile |-> FALSE,
          blank |-> FALSE, target |-> {}, verdict |-> "proposed", seen |-> {},
          goneRules |-> {}, goneDocs |-> {}, nulled |-> {}, judged |-> {},
          doc |-> Absent, chunk |-> {}, rule |-> Absent, cited |-> {}, key |-> FALSE]

TypeOK ==
    /\ docs \in [Ids -> DocumentStatuses \cup {Absent}]
    /\ chunks \subseteq Ids
    /\ rules \in [Ids -> RuleStatuses \cup {Absent}]
    /\ orphans \subseteq Ids
    /\ txn \in [Requests ->
         [at : Places, kind : Kinds, replace : BOOLEAN, compile : BOOLEAN,
          blank : BOOLEAN, target : SUBSET Ids, verdict : RuleStatuses,
          seen : SUBSET Ids, goneRules : SUBSET Ids, goneDocs : SUBSET Ids,
          nulled : SUBSET Ids, judged : SUBSET Ids,
          doc : DocumentStatuses \cup {Absent}, chunk : SUBSET Requests,
          rule : {"proposed", Absent}, cited : SUBSET Ids, key : BOOLEAN]]
    /\ past \in [Requests -> SUBSET Ids]
    /\ met \in [Requests -> SUBSET Requests]

Init ==
    /\ docs = [d \in Ids |-> IF d \in OnFile THEN "compiled" ELSE Absent]
    /\ chunks = OnFile
    /\ rules = [d \in Ids |-> IF d \in OnFile THEN "proposed" ELSE Absent]
    /\ orphans = {}
    /\ txn = [r \in Requests |-> NoTxn]
    /\ past = [r \in Requests |-> {}]
    /\ met = [r \in Requests |-> {}]

-----------------------------------------------------------------------------
(* What transactions see and hold                                          *)

Documents == {d \in Ids : docs[d] # Absent}
Rules == {d \in Ids : rules[d] # Absent}
Open == {r \in Requests : txn[r].at \notin {"idle", "done", "failed"}}

\* The rows an open transaction has written: other writers wait for it.
RulesOf(o) == txn[o].goneRules \cup txn[o].nulled \cup txn[o].judged
HeldRules(r) == UNION {RulesOf(o) : o \in Open \ {r}}
HeldDocs(r) == UNION {txn[o].goneDocs : o \in Open \ {r}}

\* The transaction is over: what the call asked and read is kept as history.
Finish(r) ==
    txn' = [txn EXCEPT ![r] = [NoTxn EXCEPT !.at = "done", !.kind = txn[r].kind,
        !.replace = txn[r].replace, !.blank = txn[r].blank, !.cited = txn[r].cited]]
Tables == <<docs, chunks, rules, orphans>>

\* A request arrives: its first SELECT has found what it needs.
Arrive(r, request) ==
    /\ txn[r].at = "idle"
    /\ txn' = [txn EXCEPT ![r] = request]
    /\ past' = [past EXCEPT ![r] = IF request.replace THEN Documents \cup Rules ELSE {}]
    /\ met' = [o \in Requests |->
                 IF o = r THEN (IF request.replace THEN Open ELSE {})
                 ELSE IF o \in Open /\ txn[o].replace THEN met[o] \cup {r} ELSE met[o]]
    /\ UNCHANGED Tables

-----------------------------------------------------------------------------
(* The requests                                                            *)

\* Text that reads like instructions to the model is refused before anything
\* is stored (422): such a call has no effect and is not an action.
CallUpload(r) ==
    /\ r \in Uploaders
    /\ \E replace, compile, blank \in BOOLEAN :
        Arrive(r, [NoTxn EXCEPT !.at = IF replace THEN "rules" ELSE "insert",
                                !.kind = "upload", !.replace = replace,
                                !.compile = compile, !.blank = blank])

CallDelete(r) ==
    \E d \in Documents :
        Arrive(r, [NoTxn EXCEPT !.at = "rules", !.kind = "delete", !.target = {d}])

\* db.get reads the rule; a status it already has is no UPDATE at flush.
CallJudge(r) ==
    \E d \in Rules, verdict \in {"approved", "rejected"} :
        Arrive(r, [NoTxn EXCEPT !.at = IF rules[d] = verdict THEN "commit" ELSE "update",
                                !.kind = "judge", !.target = {d}, !.verdict = verdict])

\* Mutant: approved rules survive a replacement.
UnapprovedRules(r) ==
    IF txn[r].kind = "upload" THEN {d \in Rules : rules[d] # "approved"}
    ELSE (Rules \ orphans) \cap txn[r].target

\* Mutant: deleting a document forgets its rules.
RulesOfVendor(r) == IF txn[r].kind = "upload" THEN Rules ELSE {}

\* DELETE FROM policy_rules WHERE vendor_id = ... / WHERE document_id = ...
MatchingRules(r) ==
    IF txn[r].kind = "upload" THEN Rules ELSE (Rules \ orphans) \cap txn[r].target

FindRules(r) ==
    /\ txn[r].at = "rules"
    /\ txn' = [txn EXCEPT ![r].at = "deleting rules",
                          ![r].seen = MatchingRules(r)]
    /\ UNCHANGED <<Tables, past, met>>

DeleteRules(r) ==
    /\ txn[r].at = "deleting rules"
    /\ txn[r].seen \cap HeldRules(r) = {}
    /\ txn' = [txn EXCEPT ![r].at = "documents", ![r].seen = {},
                          ![r].goneRules = txn[r].seen \cap MatchingRules(r)]
    /\ UNCHANGED <<Tables, past, met>>

\* DELETE FROM vendor_documents WHERE vendor_id = ... / the one document.
FindDocuments(r) ==
    /\ txn[r].at = "documents"
    /\ txn' = [txn EXCEPT ![r].at = "deleting documents",
                          ![r].seen = IF txn[r].kind = "upload" THEN Documents
                                      ELSE Documents \cap txn[r].target]
    /\ UNCHANGED <<Tables, past, met>>

\* The foreign keys act on what is committed by now: chunks go with their
\* document, a rule that still refers to it is kept with document_id NULL.
Referring(r) == ((txn[r].seen \cap Documents \cap Rules) \ orphans) \ txn[r].goneRules

DeleteDocuments(r) ==
    /\ txn[r].at = "deleting documents"
    /\ txn[r].seen \cap HeldDocs(r) = {}
    /\ Referring(r) \cap HeldRules(r) = {}
    /\ txn' = [txn EXCEPT ![r].at = IF txn[r].kind = "upload" THEN "insert" ELSE "commit",
                          ![r].seen = {},
                          ![r].goneDocs = txn[r].seen \cap Documents,
                          ![r].nulled = Referring(r)]
    /\ UNCHANGED <<Tables, past, met>>

\* Authentication set last_used_at of the API key; the first flush or the commit
\* writes it, in either order with the other rows of that flush, and its row
\* stays locked to the end of the call: over the model's answer too.
Flushing(r) ==
    \/ txn[r].at \in {"insert", "update", "model", "commit"}
    \/ txn[r].at = "deleting documents" /\ txn[r].kind = "delete"

NeedsKey(r) == r \in Keyed /\ ~txn[r].key /\ Flushing(r)

WriteKey(r) ==
    /\ NeedsKey(r)
    /\ \A o \in Open : ~txn[o].key
    /\ txn' = [txn EXCEPT ![r].key = TRUE]
    /\ UNCHANGED <<Tables, past, met>>

\* Mutant: only a document that is not compiled is embedded.
EmbeddedIfPlain(r) == IF txn[r].blank \/ txn[r].compile THEN {} ELSE {r}

\* embed_document: chunk_text makes no chunk of a blank text.
Embedded(r) == IF txn[r].blank THEN {} ELSE {r}

\* INSERT the document, then its chunks.
InsertDocument(r) ==
    /\ txn[r].at = "insert" /\ ~NeedsKey(r)
    /\ txn' = [txn EXCEPT ![r].at = IF txn[r].compile THEN "compile" ELSE "commit",
                          ![r].doc = "uploaded",
                          ![r].chunk = Embedded(r)]
    /\ UNCHANGED <<Tables, past, met>>

\* Mutant: the status of the document is left alone.
CompileQuietly(r) ==
    /\ txn[r].at = "compile"
    /\ \E rule \in {"proposed", Absent} :
         txn' = [txn EXCEPT ![r].at = "commit", ![r].rule = rule]
    /\ UNCHANGED <<Tables, past, met>>

\* Mutant: what the model is sure of needs no approval.
CompileApproved(r) ==
    /\ txn[r].at = "compile"
    /\ txn' = [txn EXCEPT ![r].at = "commit", ![r].doc = "compiled", ![r].rule = "approved"]
    /\ UNCHANGED <<Tables, past, met>>

\* The model, or the patterns it falls back to, find a rule or none.
CompileDocument(r) ==
    /\ txn[r].at = "compile"
    /\ \E rule \in {"proposed", Absent} :
         txn' = [txn EXCEPT ![r].at = "commit", ![r].doc = "compiled", ![r].rule = rule]
    /\ UNCHANGED <<Tables, past, met>>

\* UPDATE of a rule that was deleted meanwhile matches no row and fails.
JudgeRule(r) ==
    /\ txn[r].at = "update"
    /\ txn[r].target \cap HeldRules(r) = {}
    /\ IF txn[r].target \subseteq Rules
       THEN txn' = [txn EXCEPT ![r].at = "commit", ![r].judged = txn[r].target]
       ELSE txn' = [txn EXCEPT ![r] = [NoTxn EXCEPT !.at = "failed"]]
    /\ UNCHANGED <<Tables, past, met>>

\* Mutant: embeddings are committed as they are computed.
VisibleAtOnce == chunks \cup UNION {txn[o].chunk : o \in Open}

\* What a SELECT of policy_chunks sees.
VisibleChunks == chunks

\* A decision reads the nearest chunks; with none it holds without a model.
RetrieveChunks(r) ==
    \E cited \in SUBSET VisibleChunks :
        /\ Cardinality(cited) = IF Cardinality(VisibleChunks) < TopK
                                THEN Cardinality(VisibleChunks) ELSE TopK
        /\ Arrive(r, [NoTxn EXCEPT !.at = IF cited = {} THEN "commit" ELSE "model",
                                   !.cited = cited])

ModelAnswers(r) ==
    /\ txn[r].at = "model"
    /\ txn' = [txn EXCEPT ![r].at = "commit"]
    /\ UNCHANGED <<Tables, past, met>>

\* Mutant: a session of its own writes last_used_at at the end of the call.
WritableKey(r) == \A o \in Open : ~txn[o].key

\* The commit writes last_used_at unless a flush has.
Writable(r) == ~NeedsKey(r)

Commit(r) ==
    LET t == txn[r] IN
    /\ t.at = "commit" /\ Writable(r)
    /\ docs' = [d \in Ids |-> IF d \in t.goneDocs THEN Absent
                              ELSE IF d = r THEN t.doc ELSE docs[d]]
    /\ chunks' = (chunks \ t.goneDocs) \cup t.chunk
    /\ rules' = [d \in Ids |-> IF d \in t.goneRules THEN Absent
                               ELSE IF d \in t.judged THEN t.verdict
                               ELSE IF d = r THEN t.rule ELSE rules[d]]
    /\ orphans' = (orphans \cup t.nulled) \ t.goneRules
    /\ Finish(r)
    /\ UNCHANGED <<past, met>>

\* A database error, the model's (for a decision) or a cancelled call: rolled back.
Fail(r) ==
    /\ r \in Open
    /\ txn' = [txn EXCEPT ![r] = [NoTxn EXCEPT !.at = "failed"]]
    /\ UNCHANGED <<Tables, past, met>>

\* Transactions that wait for each other in a circle: PostgreSQL fails one.
WaitsFor(r) ==
    {o \in Open \ {r} :
       \/ txn[r].at = "deleting rules" /\ txn[r].seen \cap RulesOf(o) # {}
       \/ /\ txn[r].at = "deleting documents"
          /\ txn[r].seen \cap txn[o].goneDocs # {} \/ Referring(r) \cap RulesOf(o) # {}
       \/ txn[r].at = "update" /\ txn[r].target \cap RulesOf(o) # {}
       \/ NeedsKey(r) /\ txn[o].key}

Victim(r) ==
    /\ \E C \in SUBSET Open : r \in C /\ \A c \in C : WaitsFor(c) \cap C # {}
    /\ Fail(r)

Call(r) == CallUpload(r) \/ CallDelete(r) \/ CallJudge(r) \/ RetrieveChunks(r)
Step(r) ==
    \/ FindRules(r) \/ DeleteRules(r) \/ FindDocuments(r) \/ DeleteDocuments(r)
    \/ WriteKey(r) \/ InsertDocument(r) \/ CompileDocument(r) \/ JudgeRule(r)
    \/ ModelAnswers(r) \/ Commit(r)

Next == \E r \in Requests : Call(r) \/ Step(r) \/ Fail(r)
Spec == Init /\ [][Next]_vars

\* The database answers every statement and breaks circles; the model's client
\* has a timeout.
FairSpec ==
    /\ Spec
    /\ \A r \in Requests : WF_vars(Step(r))
    /\ WF_vars(\E r \in Requests : Victim(r))

-----------------------------------------------------------------------------
(* Properties                                                              *)

Committed(r, kind) == txn[r].at = "done" /\ txn[r].kind = kind

\* A stored policy is whole: chunks belong to stored documents, every document
\* of an upload that was not blank has its chunk, and a rule that names a
\* document names a stored and compiled one.  upload_document stores the three
\* in one transaction although a model call lies in between.
PolicyIsWhole ==
    /\ chunks \subseteq Documents
    /\ \A r \in Documents \cap Requests : r \in chunks <=> ~txn[r].blank
    /\ \A d \in Rules \ orphans : docs[d] = "compiled"

\* What was on file when a replacing upload was made is gone once it is
\* answered: documents, chunks and rules, also a rule somebody was approving
\* meanwhile (upload_document with replace, _clear_vendor_policy).
ReplacedIsGone ==
    \A r \in Requests :
        Committed(r, "upload") /\ txn[r].replace =>
            past[r] \cap (Documents \cup chunks \cup Rules) = {}

\* Only an upload that overlaps a replacing upload leaves a rule without a
\* document: _clear_vendor_policy deletes rules before documents, so a document
\* committed between its two statements is deleted and its rule is not.
OrphansOnlyFromOverlap ==
    \A d \in orphans \cap Rules :
        \E r \in Requests : /\ Committed(r, "upload") /\ txn[r].replace
                            /\ d \in Requests /\ d \in met[r]

\* No decision weighs a policy together with the one that replaced it, however
\* long the model takes: retrieve_chunks reads once, and the replacement
\* becomes visible at once.
NeverOldAndNew ==
    \A r, u \in Requests :
        u \in txn[r].cited /\ txn[u].replace => past[u] \cap txn[r].cited = {}

\* A vendor that has a policy is left without one only by a deletion or by a
\* blank replacement, never for the moment between the old and the new one:
\* decide() holds every invoice of a vendor without chunks.
PolicyNeverVanishes ==
    [][chunks # {} /\ chunks' = {} =>
         \E r \in Requests : /\ txn[r].at = "commit" /\ txn'[r].at = "done"
                             /\ txn[r].kind = "delete" \/ txn[r].blank]_vars

\* Every request is answered (each is made once, so in the end none is open).
\* Two calls with one API key can wait in a circle, one for the key's row with
\* rules deleted, one for such a rule with the key's row: the database ends it.
RequestsEnd == <>[](Open = {})
=============================================================================
