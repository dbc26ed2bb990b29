------------------------ MODULE PolicyDocumentsProofs ------------------------
(***************************************************************************)
(* For any number of requests and of documents on file: a stored policy is *)
(* whole, a replaced one is gone, a rule loses its document only to an     *)
(* overlapping replacement, and no decision reads old and new together.    *)
(*                                                                         *)
(* What makes this inductive is what a transaction knows of rows others    *)
(* may still commit: a row it has deleted or judged is there and is held   *)
(* by nobody else; a name that is on file is spent, so that what a         *)
(* statement has not found and was there before is gone for good; and a    *)
(* document a replacing upload did not find when it was made belongs to a  *)
(* request it has met.                                                     *)
(***************************************************************************)
EXTENDS PolicyDocuments, TLAPS

Running == Places \ {"idle", "done", "failed"}
Deleted == {"documents", "deleting documents", "insert", "compile", "commit"}
Cleared == {"insert", "compile", "commit"}

\* A document that was uploaded: its name is not used again.
Spent(d) == d \in OnFile \/ (d \in Requests /\ txn[d].at = "done" /\ txn[d].kind = "upload")

\* The committed tables.
Filed ==
  /\ \A d \in Documents \cup Rules : Spent(d)
  /\ orphans \subseteq Rules
  /\ PolicyIsWhole
  /\ OrphansOnlyFromOverlap

\* What a transaction is about, and what it will write.
Writes(r) ==
  /\ txn[r].at = "idle" => txn[r] = NoTxn
  /\ txn[r].replace => txn[r].kind = "upload"
  /\ txn[r].kind = "upload" /\ ~txn[r].replace => txn[r].goneRules = {} /\ txn[r].goneDocs = {}
  /\ txn[r].at \in {"rules", "deleting rules", "documents", "deleting documents"}
       => txn[r].kind \in {"upload", "delete"} /\ (txn[r].kind = "upload" => txn[r].replace)
  /\ txn[r].at \in {"insert", "compile"} => txn[r].kind = "upload"
  /\ txn[r].at = "update" => txn[r].kind = "judge"
  /\ txn[r].at = "model" => txn[r].kind = "decide"
  /\ IF txn[r].kind = "upload" /\ txn[r].at \in {"compile", "commit"}
     THEN txn[r].doc # Absent /\ txn[r].chunk = Embedded(r)
     ELSE txn[r].doc = Absent /\ txn[r].chunk = {}
  /\ txn[r].rule # Absent => txn[r].doc = "compiled"
  /\ \A d \in txn[r].cited : Spent(d)

\* What a transaction has written to rows that were there: they still are.
Holds(r) ==
  /\ txn[r].kind \notin {"upload", "delete"} \/ txn[r].at \notin Deleted => txn[r].goneRules = {}
  /\ txn[r].kind \notin {"upload", "delete"} \/ txn[r].at \notin Cleared => txn[r].goneDocs = {}
  /\ txn[r].kind # "judge" \/ txn[r].at # "commit" => txn[r].judged = {}
  /\ txn[r].goneRules \subseteq Rules
  /\ txn[r].goneDocs \subseteq Documents
  /\ txn[r].nulled \subseteq txn[r].goneDocs \cap (Rules \ orphans)
  /\ txn[r].judged \subseteq Rules
  /\ txn[r].goneDocs \cap (Rules \ orphans) \subseteq txn[r].goneRules \cup txn[r].nulled
  /\ \A d \in txn[r].nulled : txn[r].replace /\ d \in Requests /\ d \in met[r]

\* What a replacing upload has found of the policy it replaces.
Replaces(r) ==
  txn[r].replace =>
    /\ \A d \in past[r] : Spent(d)
    /\ txn[r].at \in Running => Documents \subseteq past[r] \cup met[r] /\ Open \ {r} \subseteq met[r]
    /\ txn[r].at = "deleting rules" => past[r] \cap Rules \subseteq txn[r].seen
    /\ txn[r].at \in Deleted => past[r] \cap Rules \subseteq txn[r].goneRules
    /\ txn[r].at = "deleting documents" => past[r] \cap Documents \subseteq txn[r].seen
    /\ txn[r].at \in Cleared => past[r] \cap Documents \subseteq txn[r].goneDocs
    /\ txn[r].at = "done" => past[r] \cap (Documents \cup Rules) = {}

\* What a deletion has found of the document it deletes.
Deletes(r) ==
  txn[r].kind = "delete" =>
    /\ \A d \in txn[r].target : Spent(d)
    /\ txn[r].at = "deleting rules" =>
         txn[r].target \cap (Rules \ orphans) \subseteq txn[r].seen
    /\ txn[r].at \in Deleted => txn[r].target \cap (Rules \ orphans) \subseteq txn[r].goneRules
    /\ txn[r].at = "deleting documents" => txn[r].seen \subseteq txn[r].target

Own(r) == Writes(r) /\ Holds(r) /\ Replaces(r) /\ Deletes(r)

\* No row is written by two transactions that are open.
Apart(r, o) ==
  /\ RulesOf(r) \cap RulesOf(o) = {}
  /\ txn[r].goneDocs \cap txn[o].goneDocs = {}

IInv ==
  /\ TypeOK
  /\ Filed
  /\ \A r \in Requests : Own(r)
  /\ \A r, o \in Requests : r # o => Apart(r, o)
  /\ NeverOldAndNew

-----------------------------------------------------------------------------
(* The pieces                                                              *)

Transactions ==
  [at : Places, kind : Kinds, replace : BOOLEAN, compile : BOOLEAN,
   blank : BOOLEAN, target : SUBSET Ids, verdict : RuleStatuses,
   seen : SUBSET Ids, goneRules : SUBSET Ids, goneDocs : SUBSET Ids,
   nulled : SUBSET Ids, judged : SUBSET Ids,
   doc : DocumentStatuses \cup {Absent}, chunk : SUBSET Requests,
   rule : {"proposed", Absent}, cited : SUBSET Ids, key : BOOLEAN]

LEMMA NoTxnTyped == NoTxn \in Transactions
BY DEF NoTxn, Transactions, Places, Kinds, RuleStatuses, DocumentStatuses, Absent

LEMMA TxnTyped ==
  ASSUME TypeOK
  PROVE  txn \in [Requests -> Transactions]
BY DEF TypeOK, Transactions

\* A request whose transaction is not over has nothing on file under its name.
LEMMA Unspent ==
  ASSUME IInv, NEW r \in Requests, txn[r].at # "done"
  PROVE  /\ ~Spent(r)
         /\ r \notin Documents /\ r \notin Rules /\ r \notin chunks /\ r \notin orphans
<1>1. ~Spent(r)
  BY DocumentsAssumption DEF Spent
<1>2. r \notin Documents /\ r \notin Rules
  BY <1>1 DEF IInv, Filed
<1> QED BY <1>1, <1>2 DEF IInv, Filed, PolicyIsWhole

\* What a step of one open transaction that touches no table leaves alone.
LEMMA Around ==
  ASSUME IInv, NEW r \in Requests, txn[r].at \in Running,
         UNCHANGED <<Tables, past, met>>,
         NEW t \in Transactions, txn' = [txn EXCEPT ![r] = t],
         t.at \notin {"idle", "done"}
  PROVE  /\ txn' \in [Requests -> Transactions]
         /\ txn'[r] = t
         /\ \A o \in Requests \ {r} : txn'[o] = txn[o]
         /\ UNCHANGED <<docs, chunks, rules, orphans, past, met, Documents, Rules>>
         /\ Open' \subseteq Open
         /\ \A d : Spent(d)' <=> Spent(d)
<1>1. /\ txn' \in [Requests -> Transactions]
      /\ txn'[r] = t
      /\ \A o \in Requests \ {r} : txn'[o] = txn[o]
  BY TxnTyped DEF IInv
<1>2. UNCHANGED <<docs, chunks, rules, orphans, past, met>>
  BY DEF Tables
<1>3. UNCHANGED <<Documents, Rules>>
  BY <1>2 DEF Documents, Rules
<1>4. Open' \subseteq Open
  BY <1>1 DEF Open, Running
<1>5. txn[r].at # "done"
  BY DEF Running
<1>6. \A d : Spent(d)' <=> Spent(d)
  BY <1>1, <1>5 DEF Spent
<1> QED BY <1>1, <1>2, <1>3, <1>4, <1>6

\* A step of one open transaction that touches no table: what the others know
\* is as it was.
LEMMA LocalStep ==
  ASSUME IInv, NEW r \in Requests, txn[r].at \in Running,
         UNCHANGED <<Tables, past, met>>,
         NEW t \in Transactions, txn' = [txn EXCEPT ![r] = t],
         t.at \notin {"idle", "done"},
         t.cited \subseteq txn[r].cited,
         Own(r)',
         \A o \in Requests \ {r} : Apart(r, o)'
  PROVE  IInv'
<1>1. /\ txn' \in [Requests -> Transactions]
      /\ txn'[r] = t
      /\ \A o \in Requests \ {r} : txn'[o] = txn[o]
      /\ UNCHANGED <<docs, chunks, rules, orphans, past, met, Documents, Rules>>
      /\ Open' \subseteq Open
      /\ \A d : Spent(d)' <=> Spent(d)
  BY Around
<1>2. ~Spent(r) /\ r \notin Documents /\ txn[r].at # "done"
  BY Unspent DEF Running
<1>3. TypeOK'
  BY <1>1 DEF IInv, TypeOK, Transactions
<1>4. Filed'
  <2>1. \A d \in Documents' \cup Rules' : Spent(d)'
    BY <1>1 DEF IInv, Filed
  <2>2. PolicyIsWhole'
    <3>1. \A o \in (Documents \cap Requests)' : o \in chunks' <=> ~txn'[o].blank
      BY <1>1, <1>2 DEF IInv, Filed, PolicyIsWhole
    <3> QED BY <1>1, <3>1 DEF IInv, Filed, PolicyIsWhole
  <2>3. OrphansOnlyFromOverlap'
    <3> SUFFICES ASSUME NEW d \in orphans \cap Rules
                 PROVE  \E o \in Requests : /\ Committed(o, "upload")' /\ txn'[o].replace
                                            /\ d \in Requests /\ d \in met'[o]
      BY <1>1 DEF OrphansOnlyFromOverlap
    <3>1. PICK o \in Requests : /\ Committed(o, "upload") /\ txn[o].replace
                                /\ d \in Requests /\ d \in met[o]
      BY DEF IInv, Filed, OrphansOnlyFromOverlap
    <3>2. o # r
      BY <1>2, <3>1 DEF Committed
    <3> QED BY <1>1, <3>1, <3>2 DEF Committed
  <2> QED BY <1>1, <2>1, <2>2, <2>3 DEF IInv, Filed
<1>5. \A o \in Requests \ {r} : Own(o)'
  <2> SUFFICES ASSUME NEW o \in Requests \ {r} PROVE Own(o)'
    OBVIOUS
  <2>1. Own(o) /\ txn'[o] = txn[o]
    BY <1>1 DEF IInv
  <2>2. Writes(o)'
    BY <1>1, <2>1 DEF Own, Writes, Embedded
  <2>3. Holds(o)'
    BY <1>1, <2>1 DEF Own, Holds
  <2>4. Replaces(o)'
    BY <1>1, <2>1 DEF Own, Replaces
  <2>5. Deletes(o)'
    BY <1>1, <2>1 DEF Own, Deletes
  <2> QED BY <2>2, <2>3, <2>4, <2>5 DEF Own
<1>6. \A p, o \in Requests : p # o => Apart(p, o)'
  <2> SUFFICES ASSUME NEW p \in Requests, NEW o \in Requests, p # o PROVE Apart(p, o)'
    OBVIOUS
  <2>1. CASE p = r
    BY <2>1
  <2>2. CASE o = r
    <3>1. Apart(o, p)'
      BY <2>2
    <3> QED BY <3>1 DEF Apart
  <2>3. CASE p # r /\ o # r
    BY <1>1, <2>3 DEF IInv, Apart, RulesOf
  <2> QED BY <2>1, <2>2, <2>3
<1>7. NeverOldAndNew'
  <2> SUFFICES ASSUME NEW o \in Requests, NEW u \in Requests,
                      u \in txn'[o].cited, txn'[u].replace
               PROVE  past'[u] \cap txn'[o].cited = {}
    BY DEF NeverOldAndNew
  <2>1. txn'[o].cited \subseteq txn[o].cited
    BY <1>1
  <2>2. Spent(u)
    BY <2>1 DEF IInv, Own, Writes
  <2>3. u # r
    BY <1>2, <2>2
  <2> QED BY <1>1, <2>1, <2>3 DEF IInv, NeverOldAndNew
<1> QED BY <1>3, <1>4, <1>5, <1>6, <1>7 DEF IInv

\* A transaction that writes no further row stays apart from the others.
LEMMA StillApart ==
  ASSUME IInv, NEW r \in Requests, NEW o \in Requests \ {r},
         txn'[o] = txn[o],
         txn'[r].goneRules \subseteq txn[r].goneRules, txn'[r].goneDocs \subseteq txn[r].goneDocs,
         txn'[r].nulled \subseteq txn[r].nulled, txn'[r].judged \subseteq txn[r].judged
  PROVE  Apart(r, o)'
<1>1. Apart(r, o)
  BY DEF IInv
<1> QED BY <1>1 DEF Apart, RulesOf

\* Rows that no open transaction holds are held by nobody.
LEMMA Unheld ==
  ASSUME IInv, NEW r \in Requests, NEW o \in Requests \ {r}
  PROVE  RulesOf(o) \subseteq HeldRules(r) /\ txn[o].goneDocs \subseteq HeldDocs(r)
<1>1. CASE o \in Open
  BY <1>1 DEF HeldRules, HeldDocs
<1>2. CASE o \notin Open
  <2>1. txn[o].at \notin Deleted /\ txn[o].at \notin Cleared /\ txn[o].at # "commit"
    BY <1>2 DEF Open, Deleted, Cleared
  <2>2. txn[o].goneRules = {} /\ txn[o].goneDocs = {} /\ txn[o].judged = {} /\ txn[o].nulled = {}
    BY <2>1 DEF IInv, Own, Holds
  <2> QED BY <2>2 DEF RulesOf
<1> QED BY <1>1, <1>2

-----------------------------------------------------------------------------
(* The statements of a transaction                                         *)

LEMMA FindRulesStep ==
  ASSUME IInv, NEW r \in Requests, FindRules(r)
  PROVE  IInv'
<1> DEFINE t == [txn[r] EXCEPT !.at = "deleting rules", !.seen = MatchingRules(r)]
<1>1. /\ txn[r] \in Transactions /\ txn[r].at = "rules" /\ txn[r].at \in Running
      /\ UNCHANGED <<Tables, past, met>>
      /\ txn' = [txn EXCEPT ![r] = t]
  BY TxnTyped DEF IInv, FindRules, Running, Places
<1>2. MatchingRules(r) \subseteq Ids
  BY DEF MatchingRules, Rules
<1>3. t \in Transactions
  BY <1>1, <1>2 DEF Transactions, Places
<1>4. /\ t.at = "deleting rules" /\ t.seen = MatchingRules(r)
      /\ t.kind = txn[r].kind /\ t.replace = txn[r].replace /\ t.blank = txn[r].blank
      /\ t.target = txn[r].target /\ t.cited = txn[r].cited
      /\ t.goneRules = txn[r].goneRules /\ t.goneDocs = txn[r].goneDocs
      /\ t.nulled = txn[r].nulled /\ t.judged = txn[r].judged
      /\ t.doc = txn[r].doc /\ t.chunk = txn[r].chunk /\ t.rule = txn[r].rule
  BY <1>1 DEF Transactions
<1> HIDE DEF t
<1>5. /\ txn'[r] = t
      /\ \A o \in Requests \ {r} : txn'[o] = txn[o]
      /\ UNCHANGED <<orphans, past, met, Documents, Rules>>
      /\ Open' \subseteq Open
      /\ \A d : Spent(d)' <=> Spent(d)
  BY <1>1, <1>3, <1>4, Around
<1>6. Own(r)
  BY DEF IInv
<1>7. Writes(r)'
  BY <1>1, <1>4, <1>5, <1>6 DEF Own, Writes
<1>8. Holds(r)'
  BY <1>1, <1>4, <1>5, <1>6 DEF Own, Holds, Deleted, Cleared
<1>9. Replaces(r)'
  BY <1>1, <1>4, <1>5, <1>6 DEF Own, Writes, Replaces, MatchingRules, Running, Deleted, Cleared
<1>10. Deletes(r)'
  BY <1>1, <1>4, <1>5, <1>6 DEF Own, Writes, Deletes, MatchingRules, Deleted
<1>11. \A o \in Requests \ {r} : Apart(r, o)'
  BY <1>4, <1>5, StillApart
<1> QED BY <1>1, <1>3, <1>4, <1>7, <1>8, <1>9, <1>10, <1>11, LocalStep DEF Own

LEMMA DeleteRulesStep ==
  ASSUME IInv, NEW r \in Requests, DeleteRules(r)
  PROVE  IInv'
<1> DEFINE t == [txn[r] EXCEPT !.at = "documents", !.seen = {},
                               !.goneRules = txn[r].seen \cap MatchingRules(r)]
<1>1. /\ txn[r] \in Transactions /\ txn[r].at = "deleting rules" /\ txn[r].at \in Running
      /\ UNCHANGED <<Tables, past, met>>
      /\ txn' = [txn EXCEPT ![r] = t]
  BY TxnTyped DEF IInv, DeleteRules, Running, Places
<1>2. /\ Rules \subseteq Ids /\ MatchingRules(r) \subseteq Rules
      /\ txn[r].kind = "upload" => MatchingRules(r) = Rules
      /\ txn[r].kind = "delete" => MatchingRules(r) = (Rules \ orphans) \cap txn[r].target
      /\ txn[r].seen \cap HeldRules(r) = {}
  BY DEF Rules, MatchingRules, DeleteRules
<1>3. t \in Transactions
  BY <1>1, <1>2 DEF Transactions, Places
<1>4. /\ t.at = "documents" /\ t.seen = {}
      /\ t.goneRules = txn[r].seen \cap MatchingRules(r)
      /\ t.kind = txn[r].kind /\ t.replace = txn[r].replace /\ t.blank = txn[r].blank
      /\ t.target = txn[r].target /\ t.goneDocs = txn[r].goneDocs /\ t.nulled = txn[r].nulled
      /\ t.judged = txn[r].judged /\ t.doc = txn[r].doc /\ t.chunk = txn[r].chunk
      /\ t.rule = txn[r].rule /\ t.cited = txn[r].cited
  BY <1>1 DEF Transactions
<1> HIDE DEF t
<1>5. /\ txn'[r] = t
      /\ \A o \in Requests \ {r} : txn'[o] = txn[o]
      /\ UNCHANGED <<orphans, past, met, Documents, Rules>>
      /\ Open' \subseteq Open
      /\ \A d : Spent(d)' <=> Spent(d)
  BY <1>1, <1>3, <1>4, Around
<1>6. Own(r)
  BY DEF IInv
<1>7. Writes(r)'
  BY <1>1, <1>2, <1>4, <1>5, <1>6 DEF Own, Writes
<1>8. Holds(r)'
  BY <1>1, <1>2, <1>4, <1>5, <1>6 DEF Own, Writes, Holds, Deleted, Cleared
<1>9. Replaces(r)'
  BY <1>1, <1>2, <1>4, <1>5, <1>6 DEF Own, Writes, Replaces, Running, Deleted, Cleared
<1>10. Deletes(r)'
  BY <1>1, <1>2, <1>4, <1>5, <1>6 DEF Own, Writes, Deletes, Deleted
<1>11. \A o \in Requests \ {r} : Apart(r, o)'
  <2> SUFFICES ASSUME NEW o \in Requests \ {r} PROVE Apart(r, o)'
    OBVIOUS
  <2>1. Apart(r, o) /\ RulesOf(o) \subseteq HeldRules(r)
    BY Unheld DEF IInv
  <2>2. txn[r].nulled = {} /\ txn[r].judged = {} /\ txn[r].goneDocs = {}
    BY <1>1, <1>6 DEF Own, Holds, Cleared
  <2> QED BY <1>2, <1>4, <1>5, <2>1, <2>2 DEF Apart, RulesOf
<1> QED BY <1>1, <1>3, <1>4, <1>7, <1>8, <1>9, <1>10, <1>11, LocalStep DEF Own

LEMMA FindDocumentsStep ==
  ASSUME IInv, NEW r \in Requests, FindDocuments(r)
  PROVE  IInv'
<1> DEFINE found == IF txn[r].kind = "upload" THEN Documents ELSE Documents \cap txn[r].target
<1> DEFINE t == [txn[r] EXCEPT !.at = "deleting documents", !.seen = found]
<1>1. /\ txn[r] \in Transactions /\ txn[r].at = "documents" /\ txn[r].at \in Running
      /\ UNCHANGED <<Tables, past, met>>
      /\ txn' = [txn EXCEPT ![r] = t]
  BY TxnTyped DEF IInv, FindDocuments, Running, Places
<1>2. found \subseteq Ids
  BY DEF Documents
<1>3. t \in Transactions
  BY <1>1, <1>2 DEF Transactions, Places
<1>4. /\ t.at = "deleting documents" /\ t.seen = found
      /\ t.kind = txn[r].kind /\ t.replace = txn[r].replace /\ t.blank = txn[r].blank
      /\ t.target = txn[r].target /\ t.goneRules = txn[r].goneRules /\ t.goneDocs = txn[r].goneDocs
      /\ t.nulled = txn[r].nulled /\ t.judged = txn[r].judged /\ t.doc = txn[r].doc
      /\ t.chunk = txn[r].chunk /\ t.rule = txn[r].rule /\ t.cited = txn[r].cited
  BY <1>1 DEF Transactions
<1> HIDE DEF t
<1>5. /\ txn'[r] = t
      /\ \A o \in Requests \ {r} : txn'[o] = txn[o]
      /\ UNCHANGED <<orphans, past, met, Documents, Rules>>
      /\ Open' \subseteq Open
      /\ \A d : Spent(d)' <=> Spent(d)
  BY <1>1, <1>3, <1>4, Around
<1>6. Own(r)
  BY DEF IInv
<1>7. Writes(r)'
  BY <1>1, <1>4, <1>5, <1>6 DEF Own, Writes
<1>8. Holds(r)'
  BY <1>1, <1>4, <1>5, <1>6 DEF Own, Holds, Deleted, Cleared
<1>9. Replaces(r)'
  BY <1>1, <1>4, <1>5, <1>6 DEF Own, Writes, Replaces, Running, Deleted, Cleared
<1>10. Deletes(r)'
  BY <1>1, <1>4, <1>5, <1>6 DEF Own, Writes, Deletes, Deleted
<1>11. \A o \in Requests \ {r} : Apart(r, o)'
  BY <1>4, <1>5, StillApart
<1> QED BY <1>1, <1>3, <1>4, <1>7, <1>8, <1>9, <1>10, <1>11, LocalStep DEF Own

\* A rule whose document is deleted under it belongs to a request the
\* replacing upload has met: the rules of what it replaces are deleted already.
LEMMA DeleteDocumentsStep ==
  ASSUME IInv, NEW r \in Requests, DeleteDocuments(r)
  PROVE  IInv'
<1> DEFINE next == IF txn[r].kind = "upload" THEN "insert" ELSE "commit"
<1> DEFINE t == [txn[r] EXCEPT !.at = next, !.seen = {},
                               !.goneDocs = txn[r].seen \cap Documents, !.nulled = Referring(r)]
<1>1. /\ txn[r] \in Transactions /\ txn[r].at = "deleting documents" /\ txn[r].at \in Running
      /\ UNCHANGED <<Tables, past, met>>
      /\ txn' = [txn EXCEPT ![r] = t]
  BY TxnTyped DEF IInv, DeleteDocuments, Running, Places
<1>2. /\ Documents \subseteq Ids
      /\ txn[r].seen \cap HeldDocs(r) = {} /\ Referring(r) \cap HeldRules(r) = {}
      /\ Referring(r) = ((txn[r].seen \cap Documents \cap Rules) \ orphans) \ txn[r].goneRules
  BY DEF Documents, DeleteDocuments, Referring
<1>3. t \in Transactions
  BY <1>1, <1>2 DEF Transactions, Places
<1>4. /\ t.at = next /\ t.seen = {}
      /\ t.goneDocs = txn[r].seen \cap Documents /\ t.nulled = Referring(r)
      /\ t.kind = txn[r].kind /\ t.replace = txn[r].replace /\ t.blank = txn[r].blank
      /\ t.target = txn[r].target /\ t.goneRules = txn[r].goneRules /\ t.judged = txn[r].judged
      /\ t.doc = txn[r].doc /\ t.chunk = txn[r].chunk /\ t.rule = txn[r].rule
      /\ t.cited = txn[r].cited
  BY <1>1 DEF Transactions
<1> HIDE DEF t
<1>5. /\ txn'[r] = t
      /\ \A o \in Requests \ {r} : txn'[o] = txn[o]
      /\ UNCHANGED <<orphans, past, met, Documents, Rules>>
      /\ Open' \subseteq Open
      /\ \A d : Spent(d)' <=> Spent(d)
  BY <1>1, <1>3, <1>4, Around
<1>6. Own(r)
  BY DEF IInv
<1>7. Writes(r)'
  BY <1>1, <1>4, <1>5, <1>6 DEF Own, Writes
<1>8. Holds(r)'
  <2>1. txn[r].goneRules \subseteq Rules /\ txn[r].judged = {}
    BY <1>1, <1>6 DEF Own, Holds
  <2>2. txn[r].kind \in {"upload", "delete"}
    BY <1>1, <1>6 DEF Own, Writes
  <2>3. \A d \in Referring(r) : txn[r].replace /\ d \in Requests /\ d \in met[r]
    <3>1. CASE txn[r].kind = "upload"
      <4>1. /\ txn[r].replace
            /\ Documents \subseteq past[r] \cup met[r]
            /\ past[r] \cap Rules \subseteq txn[r].goneRules
        BY <1>1, <1>6, <3>1 DEF Own, Writes, Replaces, Running, Deleted
      <4>2. met[r] \subseteq Requests
        BY DEF IInv, TypeOK
      <4> QED BY <1>2, <4>1, <4>2
    <3>2. CASE txn[r].kind = "delete"
      <4>1. /\ txn[r].target \cap (Rules \ orphans) \subseteq txn[r].goneRules
            /\ txn[r].seen \subseteq txn[r].target
        BY <1>1, <1>6, <3>2 DEF Own, Deletes, Deleted
      <4> QED BY <1>2, <4>1
    <3> QED BY <2>2, <3>1, <3>2
  <2>4. t.at \in Cleared /\ t.at \in Deleted
    BY <1>4 DEF Deleted, Cleared
  <2>5. /\ t.goneDocs \subseteq Documents
        /\ t.nulled \subseteq t.goneDocs \cap (Rules \ orphans)
        /\ t.goneDocs \cap (Rules \ orphans) \subseteq t.goneRules \cup t.nulled
    BY <1>2, <1>4
  <2>6. /\ t.goneRules \subseteq Rules /\ t.judged = {} /\ t.kind \in {"upload", "delete"}
        /\ \A d \in t.nulled : t.replace /\ d \in Requests /\ d \in met[r]
    BY <1>4, <2>1, <2>2, <2>3
  <2> QED BY <1>5, <2>4, <2>5, <2>6 DEF Holds
<1>9. Replaces(r)'
  BY <1>1, <1>4, <1>5, <1>6 DEF Own, Writes, Replaces, Running, Deleted, Cleared
<1>10. Deletes(r)'
  BY <1>1, <1>4, <1>5, <1>6 DEF Own, Writes, Deletes, Deleted
<1>11. \A o \in Requests \ {r} : Apart(r, o)'
  <2> SUFFICES ASSUME NEW o \in Requests \ {r} PROVE Apart(r, o)'
    OBVIOUS
  <2>1. /\ Apart(r, o) /\ RulesOf(o) \subseteq HeldRules(r)
        /\ txn[o].goneDocs \subseteq HeldDocs(r)
    BY Unheld DEF IInv
  <2> QED BY <1>2, <1>4, <1>5, <2>1 DEF Apart, RulesOf
<1> QED BY <1>1, <1>3, <1>4, <1>7, <1>8, <1>9, <1>10, <1>11, LocalStep DEF Own

LEMMA WriteKeyStep ==
  ASSUME IInv, NEW r \in Requests, WriteKey(r)
  PROVE  IInv'
<1> DEFINE t == [txn[r] EXCEPT !.key = TRUE]
<1>1. /\ txn[r] \in Transactions /\ txn[r].at \in Running
      /\ UNCHANGED <<Tables, past, met>>
      /\ txn' = [txn EXCEPT ![r] = t]
  BY TxnTyped DEF IInv, WriteKey, Running, Places, NeedsKey, Flushing
<1>2. txn[r].at \notin {"idle", "done"}
  BY <1>1 DEF Running
<1>3. t \in Transactions
  BY <1>1, <1>2 DEF Transactions, Places, DocumentStatuses
<1>4. /\ t.at = txn[r].at /\ t.kind = txn[r].kind /\ t.replace = txn[r].replace
      /\ t.blank = txn[r].blank /\ t.target = txn[r].target /\ t.seen = txn[r].seen
      /\ t.goneRules = txn[r].goneRules /\ t.goneDocs = txn[r].goneDocs /\ t.nulled = txn[r].nulled
      /\ t.judged = txn[r].judged /\ t.doc = txn[r].doc /\ t.chunk = txn[r].chunk
      /\ t.rule = txn[r].rule /\ t.cited = txn[r].cited
  BY <1>1 DEF Transactions
<1> HIDE DEF t
<1>5. /\ txn'[r] = t
      /\ \A o \in Requests \ {r} : txn'[o] = txn[o]
      /\ UNCHANGED <<orphans, past, met, Documents, Rules>>
      /\ Open' \subseteq Open
      /\ \A d : Spent(d)' <=> Spent(d)
  BY <1>1, <1>2, <1>3, <1>4, Around
<1>6. Own(r)
  BY DEF IInv
<1>7. Writes(r)'
  <2>1. Embedded(r)' = Embedded(r)
    BY <1>4, <1>5 DEF Embedded
  <2> QED BY <1>2, <1>4, <1>5, <1>6, <2>1 DEF Own, Writes
<1>8. Holds(r)'
  BY <1>1, <1>4, <1>5, <1>6 DEF Own, Holds
<1>9. Replaces(r)'
  BY <1>1, <1>4, <1>5, <1>6 DEF Own, Replaces
<1>10. Deletes(r)'
  BY <1>1, <1>4, <1>5, <1>6 DEF Own, Deletes
<1>11. \A o \in Requests \ {r} : Apart(r, o)'
  BY <1>4, <1>5, StillApart
<1> QED BY <1>1, <1>2, <1>3, <1>4, <1>7, <1>8, <1>9, <1>10, <1>11, LocalStep DEF Own

LEMMA InsertDocumentStep ==
  ASSUME IInv, NEW r \in Requests, InsertDocument(r)
  PROVE  IInv'
<1> DEFINE next == IF txn[r].compile THEN "compile" ELSE "commit"
<1> DEFINE t == [txn[r] EXCEPT !.at = next, !.doc = "uploaded", !.chunk = Embedded(r)]
<1>1. /\ txn[r] \in Transactions /\ txn[r].at = "insert" /\ txn[r].at \in Running
      /\ UNCHANGED <<Tables, past, met>>
      /\ txn' = [txn EXCEPT ![r] = t]
  BY TxnTyped DEF IInv, InsertDocument, Running, Places
<1>2. Embedded(r) \subseteq Requests
  BY DEF Embedded
<1>3. t \in Transactions
  BY <1>1, <1>2 DEF Transactions, Places, DocumentStatuses
<1>4. /\ t.at = next /\ t.doc = "uploaded"
      /\ t.chunk = Embedded(r)
      /\ t.kind = txn[r].kind /\ t.replace = txn[r].replace /\ t.blank = txn[r].blank
      /\ t.target = txn[r].target /\ t.seen = txn[r].seen /\ t.goneRules = txn[r].goneRules
      /\ t.goneDocs = txn[r].goneDocs /\ t.nulled = txn[r].nulled /\ t.judged = txn[r].judged
      /\ t.rule = txn[r].rule /\ t.cited = txn[r].cited
  BY <1>1 DEF Transactions
<1> HIDE DEF t
<1>5. /\ txn'[r] = t
      /\ \A o \in Requests \ {r} : txn'[o] = txn[o]
      /\ UNCHANGED <<orphans, past, met, Documents, Rules>>
      /\ Open' \subseteq Open
      /\ \A d : Spent(d)' <=> Spent(d)
  BY <1>1, <1>3, <1>4, Around
<1>6. Own(r)
  BY DEF IInv
<1>7. Writes(r)'
  <2>1. Embedded(r)' = Embedded(r)
    BY <1>4, <1>5 DEF Embedded
  <2>2. /\ txn[r].kind = "upload" /\ txn[r].doc = Absent /\ txn[r].rule = Absent
    BY <1>1, <1>6 DEF Own, Writes, Absent
  <2> QED BY <1>1, <1>4, <1>5, <1>6, <2>1, <2>2 DEF Own, Writes, Absent
<1>8. Holds(r)'
  BY <1>1, <1>4, <1>5, <1>6 DEF Own, Writes, Holds, Deleted, Cleared
<1>9. Replaces(r)'
  BY <1>1, <1>4, <1>5, <1>6 DEF Own, Writes, Replaces, Running, Deleted, Cleared
<1>10. Deletes(r)'
  BY <1>1, <1>4, <1>5, <1>6 DEF Own, Writes, Deletes, Deleted
<1>11. \A o \in Requests \ {r} : Apart(r, o)'
  BY <1>4, <1>5, StillApart
<1> QED BY <1>1, <1>3, <1>4, <1>7, <1>8, <1>9, <1>10, <1>11, LocalStep DEF Own

LEMMA CompileDocumentStep ==
  ASSUME IInv, NEW r \in Requests, CompileDocument(r)
  PROVE  IInv'
<1> PICK found \in {"proposed", Absent} :
      txn' = [txn EXCEPT ![r].at = "commit", ![r].doc = "compiled", ![r].rule = found]
  BY DEF CompileDocument
<1> DEFINE t == [txn[r] EXCEPT !.at = "commit", !.doc = "compiled", !.rule = found]
<1>1. /\ txn[r] \in Transactions /\ txn[r].at = "compile" /\ txn[r].at \in Running
      /\ UNCHANGED <<Tables, past, met>>
      /\ txn' = [txn EXCEPT ![r] = t]
  BY TxnTyped DEF IInv, CompileDocument, Running, Places
<1>3. t \in Transactions
  BY <1>1 DEF Transactions, Places, DocumentStatuses
<1>4. /\ t.at = "commit" /\ t.doc = "compiled"
      /\ t.rule = found
      /\ t.kind = txn[r].kind /\ t.replace = txn[r].replace /\ t.blank = txn[r].blank
      /\ t.target = txn[r].target /\ t.seen = txn[r].seen /\ t.goneRules = txn[r].goneRules
      /\ t.goneDocs = txn[r].goneDocs /\ t.nulled = txn[r].nulled /\ t.judged = txn[r].judged
      /\ t.chunk = txn[r].chunk /\ t.cited = txn[r].cited
  BY <1>1 DEF Transactions
<1> HIDE DEF t
<1>5. /\ txn'[r] = t
      /\ \A o \in Requests \ {r} : txn'[o] = txn[o]
      /\ UNCHANGED <<orphans, past, met, Documents, Rules>>
      /\ Open' \subseteq Open
      /\ \A d : Spent(d)' <=> Spent(d)
  BY <1>1, <1>3, <1>4, Around
<1>6. Own(r)
  BY DEF IInv
<1>7. Writes(r)'
  <2>1. Embedded(r)' = Embedded(r)
    BY <1>4, <1>5 DEF Embedded
  <2>2. /\ txn[r].kind = "upload" /\ txn[r].chunk = Embedded(r)
    BY <1>1, <1>6 DEF Own, Writes
  <2> QED BY <1>1, <1>4, <1>5, <1>6, <2>1, <2>2 DEF Own, Writes, Absent
<1>8. Holds(r)'
  BY <1>1, <1>4, <1>5, <1>6 DEF Own, Writes, Holds, Deleted, Cleared
<1>9. Replaces(r)'
  BY <1>1, <1>4, <1>5, <1>6 DEF Own, Writes, Replaces, Running, Deleted, Cleared
<1>10. Deletes(r)'
  BY <1>1, <1>4, <1>5, <1>6 DEF Own, Writes, Deletes, Deleted
<1>11. \A o \in Requests \ {r} : Apart(r, o)'
  BY <1>4, <1>5, StillApart
<1> QED BY <1>1, <1>3, <1>4, <1>7, <1>8, <1>9, <1>10, <1>11, LocalStep DEF Own

LEMMA ModelAnswersStep ==
  ASSUME IInv, NEW r \in Requests, ModelAnswers(r)
  PROVE  IInv'
<1> DEFINE t == [txn[r] EXCEPT !.at = "commit"]
<1>1. /\ txn[r] \in Transactions /\ txn[r].at = "model" /\ txn[r].at \in Running
      /\ UNCHANGED <<Tables, past, met>>
      /\ txn' = [txn EXCEPT ![r] = t]
  BY TxnTyped DEF IInv, ModelAnswers, Running, Places
<1>3. t \in Transactions
  BY <1>1 DEF Transactions, Places
<1>4. /\ t.at = "commit"
      /\ t.kind = txn[r].kind /\ t.replace = txn[r].replace /\ t.blank = txn[r].blank
      /\ t.target = txn[r].target /\ t.seen = txn[r].seen /\ t.goneRules = txn[r].goneRules
      /\ t.goneDocs = txn[r].goneDocs /\ t.nulled = txn[r].nulled /\ t.judged = txn[r].judged
      /\ t.doc = txn[r].doc /\ t.chunk = txn[r].chunk /\ t.rule = txn[r].rule
      /\ t.cited = txn[r].cited
  BY <1>1 DEF Transactions
<1> HIDE DEF t
<1>5. /\ txn'[r] = t
      /\ \A o \in Requests \ {r} : txn'[o] = txn[o]
      /\ UNCHANGED <<orphans, past, met, Documents, Rules>>
      /\ Open' \subseteq Open
      /\ \A d : Spent(d)' <=> Spent(d)
  BY <1>1, <1>3, <1>4, Around
<1>6. Own(r)
  BY DEF IInv
<1>7. Writes(r)'
  BY <1>1, <1>4, <1>5, <1>6 DEF Own, Writes, Embedded
<1>8. Holds(r)'
  BY <1>1, <1>4, <1>5, <1>6 DEF Own, Writes, Holds, Deleted, Cleared
<1>9. Replaces(r)'
  BY <1>1, <1>4, <1>5, <1>6 DEF Own, Writes, Replaces, Running, Deleted, Cleared
<1>10. Deletes(r)'
  BY <1>1, <1>4, <1>5, <1>6 DEF Own, Writes, Deletes, Deleted
<1>11. \A o \in Requests \ {r} : Apart(r, o)'
  BY <1>4, <1>5, StillApart
<1> QED BY <1>1, <1>3, <1>4, <1>7, <1>8, <1>9, <1>10, <1>11, LocalStep DEF Own

LEMMA FailStep ==
  ASSUME IInv, NEW r \in Requests, txn[r].at \in Running, UNCHANGED <<Tables, past, met>>,
         txn' = [txn EXCEPT ![r] = [NoTxn EXCEPT !.at = "failed"]]
  PROVE  IInv'
<1> DEFINE t == [NoTxn EXCEPT !.at = "failed"]
<1>1. txn' = [txn EXCEPT ![r] = t]
  OBVIOUS
<1>3. t \in Transactions
  BY NoTxnTyped DEF Transactions, Places
<1>4. /\ t.at = "failed" /\ t.kind = "decide" /\ ~t.replace /\ t.cited = {}
      /\ t.goneRules = {} /\ t.goneDocs = {} /\ t.nulled = {} /\ t.judged = {}
      /\ t.doc = Absent /\ t.chunk = {} /\ t.rule = Absent
  BY DEF NoTxn
<1> HIDE DEF t
<1>5. /\ txn'[r] = t
      /\ \A o \in Requests \ {r} : txn'[o] = txn[o]
  BY <1>1, <1>3, <1>4, Around
<1>7. Writes(r)'
  BY <1>4, <1>5 DEF Writes
<1>8. Holds(r)'
  BY <1>4, <1>5 DEF Holds
<1>9. Replaces(r)'
  BY <1>4, <1>5 DEF Replaces
<1>10. Deletes(r)'
  BY <1>4, <1>5 DEF Deletes
<1>11. \A o \in Requests \ {r} : Apart(r, o)'
  BY <1>4, <1>5, StillApart
<1> QED BY <1>1, <1>3, <1>4, <1>7, <1>8, <1>9, <1>10, <1>11, LocalStep DEF Own

LEMMA JudgeRuleStep ==
  ASSUME IInv, NEW r \in Requests, JudgeRule(r)
  PROVE  IInv'
<1> DEFINE t == [txn[r] EXCEPT !.at = "commit", !.judged = txn[r].target]
<1>1. /\ txn[r] \in Transactions /\ txn[r].at = "update" /\ txn[r].at \in Running
      /\ UNCHANGED <<Tables, past, met>>
  BY TxnTyped DEF IInv, JudgeRule, Running, Places
<1>2. CASE txn[r].target \subseteq Rules
  <2>1. txn' = [txn EXCEPT ![r] = t] /\ txn[r].target \cap HeldRules(r) = {}
    BY <1>2 DEF JudgeRule
  <2>2. t \in Transactions
    BY <1>1 DEF Transactions, Places
  <2>3. /\ t.at = "commit" /\ t.judged = txn[r].target
        /\ t.kind = txn[r].kind /\ t.replace = txn[r].replace /\ t.blank = txn[r].blank
        /\ t.target = txn[r].target /\ t.seen = txn[r].seen /\ t.goneRules = txn[r].goneRules
        /\ t.goneDocs = txn[r].goneDocs /\ t.nulled = txn[r].nulled /\ t.doc = txn[r].doc
        /\ t.chunk = txn[r].chunk /\ t.rule = txn[r].rule /\ t.cited = txn[r].cited
    BY <1>1 DEF Transactions
  <2> HIDE DEF t
  <2>4. /\ txn'[r] = t
        /\ \A o \in Requests \ {r} : txn'[o] = txn[o]
        /\ UNCHANGED <<orphans, past, met, Documents, Rules>>
        /\ Open' \subseteq Open
        /\ \A d : Spent(d)' <=> Spent(d)
    BY <1>1, <2>1, <2>2, <2>3, Around
  <2>5. Own(r)
    BY DEF IInv
  <2>6. txn[r].kind = "judge" /\ ~txn[r].replace
    BY <1>1, <2>5 DEF Own, Writes
  <2>7. Writes(r)'
    BY <1>1, <2>3, <2>4, <2>5, <2>6 DEF Own, Writes
  <2>8. Holds(r)'
    BY <1>1, <1>2, <2>3, <2>4, <2>5, <2>6 DEF Own, Holds
  <2>9. Replaces(r)' /\ Deletes(r)'
    BY <2>3, <2>4, <2>6 DEF Replaces, Deletes
  <2>10. \A o \in Requests \ {r} : Apart(r, o)'
    <3> SUFFICES ASSUME NEW o \in Requests \ {r} PROVE Apart(r, o)'
      OBVIOUS
    <3>1. Apart(r, o) /\ RulesOf(o) \subseteq HeldRules(r)
      BY Unheld DEF IInv
    <3> QED BY <2>1, <2>3, <2>4, <3>1 DEF Apart, RulesOf
  <2> QED BY <1>1, <2>1, <2>2, <2>3, <2>7, <2>8, <2>9, <2>10, LocalStep DEF Own
<1>3. CASE ~(txn[r].target \subseteq Rules)
  BY <1>1, <1>3, FailStep DEF JudgeRule
<1> QED BY <1>2, <1>3
-----------------------------------------------------------------------------
(* The arrival of a request                                                *)

\* A request that finds its way in writes nothing yet, and its arrival is no
\* news to the others but for the replacing uploads, which meet it.
LEMMA ArriveStep ==
  ASSUME IInv, NEW r \in Requests, NEW t \in Transactions, Arrive(r, t),
         t.at \in {"rules", "insert", "update", "model", "commit"},
         t.at = "rules" => t.kind = "delete" \/ (t.kind = "upload" /\ t.replace),
         t.at = "insert" => t.kind = "upload" /\ ~t.replace,
         t.at = "update" => t.kind = "judge",
         t.at = "model" => t.kind = "decide",
         t.at = "commit" => t.kind \in {"judge", "decide"},
         t.replace => t.kind = "upload" /\ t.at = "rules",
         t.kind = "delete" => t.at = "rules" /\ t.target \subseteq Documents,
         t.cited \subseteq chunks,
         t.goneRules = {}, t.goneDocs = {}, t.nulled = {}, t.judged = {},
         t.doc = Absent, t.chunk = {}, t.rule = Absent
  PROVE  IInv'
<1>1. /\ txn[r].at = "idle"
      /\ txn' = [txn EXCEPT ![r] = t]
      /\ past' = [past EXCEPT ![r] = IF t.replace THEN Documents \cup Rules ELSE {}]
      /\ met' = [o \in Requests |->
                   IF o = r THEN (IF t.replace THEN Open ELSE {})
                   ELSE IF o \in Open /\ txn[o].replace THEN met[o] \cup {r} ELSE met[o]]
      /\ UNCHANGED <<docs, chunks, rules, orphans>>
  BY DEF Arrive, Tables
<1>2. /\ txn' \in [Requests -> Transactions]
      /\ txn'[r] = t
      /\ \A o \in Requests \ {r} : txn'[o] = txn[o]
  BY <1>1, TxnTyped DEF IInv
<1>3. /\ UNCHANGED <<Documents, Rules>>
      /\ Documents \subseteq Ids /\ Rules \subseteq Ids
  BY <1>1 DEF Documents, Rules
<1>4. /\ past' \in [Requests -> SUBSET Ids]
      /\ \A o \in Requests \ {r} : past'[o] = past[o]
      /\ past'[r] = IF t.replace THEN Documents \cup Rules ELSE {}
  BY <1>1, <1>3 DEF IInv, TypeOK
<1>5. /\ met' \in [Requests -> SUBSET Requests]
      /\ \A o \in Requests \ {r} :
           met'[o] = IF o \in Open /\ txn[o].replace THEN met[o] \cup {r} ELSE met[o]
      /\ t.replace => met'[r] = Open
  BY <1>1 DEF IInv, TypeOK, Open
<1>6. Open' = Open \cup {r} /\ r \notin Open
  BY <1>1, <1>2 DEF Open
<1>7. ~Spent(r) /\ r \notin Documents
  BY <1>1, Unspent
<1>8. \A d : Spent(d)' <=> Spent(d)
  BY <1>1, <1>2 DEF Spent
<1>9. TypeOK'
  BY <1>1, <1>2, <1>4, <1>5 DEF IInv, TypeOK, Transactions
<1>10. Filed'
  <2>1. \A d \in Documents' \cup Rules' : Spent(d)'
    BY <1>3, <1>8 DEF IInv, Filed
  <2>2. PolicyIsWhole'
    <3>1. \A o \in (Documents \cap Requests)' : o \in chunks' <=> ~txn'[o].blank
      BY <1>1, <1>2, <1>3, <1>7 DEF IInv, Filed, PolicyIsWhole
    <3> QED BY <1>1, <1>3, <3>1 DEF IInv, Filed, PolicyIsWhole
  <2>3. OrphansOnlyFromOverlap'
    <3> SUFFICES ASSUME NEW d \in orphans \cap Rules
                 PROVE  \E o \in Requests : /\ Committed(o, "upload")' /\ txn'[o].replace
                                            /\ d \in Requests /\ d \in met'[o]
      BY <1>1, <1>3 DEF OrphansOnlyFromOverlap
    <3>1. PICK o \in Requests : /\ Committed(o, "upload") /\ txn[o].replace
                                /\ d \in Requests /\ d \in met[o]
      BY DEF IInv, Filed, OrphansOnlyFromOverlap
    <3>2. o # r
      BY <1>1, <3>1 DEF Committed
    <3> QED BY <1>2, <1>5, <3>1, <3>2 DEF Committed
  <2> QED BY <1>1, <1>3, <2>1, <2>2, <2>3 DEF IInv, Filed
<1>11. \A o \in Requests \ {r} : Own(o)'
  <2> SUFFICES ASSUME NEW o \in Requests \ {r} PROVE Own(o)'
    OBVIOUS
  <2>1. Own(o) /\ txn'[o] = txn[o] /\ past'[o] = past[o] /\ met[o] \subseteq met'[o]
    BY <1>2, <1>4, <1>5 DEF IInv
  <2>2. Writes(o)'
    BY <1>8, <2>1 DEF Own, Writes, Embedded
  <2>3. Holds(o)'
    BY <1>1, <1>3, <2>1 DEF Own, Holds
  <2>4. Replaces(o)'
    <3>1. txn[o].replace /\ txn[o].at \in Running => met'[o] = met[o] \cup {r}
      BY <1>5 DEF Open, Running
    <3> QED BY <1>3, <1>6, <1>8, <2>1, <3>1 DEF Own, Replaces
  <2>5. Deletes(o)'
    BY <1>1, <1>3, <1>8, <2>1 DEF Own, Deletes
  <2> QED BY <2>2, <2>3, <2>4, <2>5 DEF Own
<1>12. Own(r)'
  <2>1. Writes(r)'
    <3>1. \A d \in t.cited : Spent(d)
      BY DEF IInv, Filed, PolicyIsWhole
    <3> QED BY <1>2, <1>8, <3>1 DEF Writes
  <2>2. Holds(r)'
    BY <1>2 DEF Holds
  <2>3. Replaces(r)'
    <3>1. CASE t.replace
      <4>1. \A d \in past'[r] : Spent(d)'
        BY <1>4, <1>8, <3>1 DEF IInv, Filed
      <4>2. Documents' \subseteq past'[r] \cup met'[r] /\ Open' \ {r} \subseteq met'[r]
        BY <1>3, <1>4, <1>5, <1>6, <3>1
      <4>3. t.at = "rules" /\ t.at \notin Deleted /\ t.at \notin Cleared
        BY <3>1 DEF Deleted, Cleared
      <4> QED BY <1>2, <4>1, <4>2, <4>3 DEF Replaces
    <3>2. CASE ~t.replace
      BY <1>2, <3>2 DEF Replaces
    <3> QED BY <3>1, <3>2
  <2>4. Deletes(r)'
    <3>1. CASE t.kind = "delete"
      <4>1. t.at = "rules" /\ t.at \notin Deleted
        BY <3>1 DEF Deleted
      <4>2. \A d \in t.target : Spent(d)'
        BY <1>8, <3>1 DEF IInv, Filed
      <4> QED BY <1>2, <4>1, <4>2 DEF Deletes
    <3>2. CASE t.kind # "delete"
      BY <1>2, <3>2 DEF Deletes
    <3> QED BY <3>1, <3>2
  <2> QED BY <2>1, <2>2, <2>3, <2>4 DEF Own
<1>13. \A p, o \in Requests : p # o => Apart(p, o)'
  <2>1. RulesOf(r)' = {} /\ txn'[r].goneDocs = {}
    BY <1>2 DEF RulesOf
  <2>2. \A o \in Requests \ {r} : RulesOf(o)' = RulesOf(o) /\ txn'[o].goneDocs = txn[o].goneDocs
    BY <1>2 DEF RulesOf
  <2> QED BY <2>1, <2>2 DEF IInv, Apart
<1>14. NeverOldAndNew'
  <2> SUFFICES ASSUME NEW o \in Requests, NEW u \in Requests,
                      u \in txn'[o].cited, txn'[u].replace
               PROVE  past'[u] \cap txn'[o].cited = {}
    BY DEF NeverOldAndNew
  <2>1. CASE o # r
    <3>1. u \in txn[o].cited /\ Spent(u)
      BY <1>2, <2>1 DEF IInv, Own, Writes
    <3> QED BY <1>2, <1>4, <1>7, <2>1, <3>1 DEF IInv, NeverOldAndNew
  <2>2. CASE o = r
    <3>1. t.cited \subseteq Documents
      BY DEF IInv, Filed, PolicyIsWhole
    <3>2. Spent(u) /\ u # r
      BY <1>2, <1>7, <2>2, <3>1 DEF IInv, Filed
    <3>3. txn[u].replace /\ txn[u].at = "done"
      BY <1>2, <3>2, DocumentsAssumption DEF Spent
    <3>4. past[u] \cap Documents = {}
      BY <3>3 DEF IInv, Own, Replaces
    <3> QED BY <1>2, <1>4, <2>2, <3>1, <3>2, <3>4
  <2> QED BY <2>1, <2>2
<1> QED BY <1>9, <1>10, <1>11, <1>12, <1>13, <1>14 DEF IInv

LEMMA CallUploadStep ==
  ASSUME IInv, NEW r \in Requests, CallUpload(r)
  PROVE  IInv'
<1>1. PICK replace, compile, blank \in BOOLEAN :
        Arrive(r, [NoTxn EXCEPT !.at = IF replace THEN "rules" ELSE "insert",
                                !.kind = "upload", !.replace = replace,
                                !.compile = compile, !.blank = blank])
  BY DEF CallUpload
<1> DEFINE t == [NoTxn EXCEPT !.at = IF replace THEN "rules" ELSE "insert",
                              !.kind = "upload", !.replace = replace,
                              !.compile = compile, !.blank = blank]
<1>2. t \in Transactions
  BY NoTxnTyped DEF Transactions, Places, Kinds
<1>3. /\ t.at = (IF replace THEN "rules" ELSE "insert")
      /\ t.kind = "upload" /\ t.replace = replace /\ t.cited = {}
      /\ t.goneRules = {} /\ t.goneDocs = {} /\ t.nulled = {} /\ t.judged = {}
      /\ t.doc = Absent /\ t.chunk = {} /\ t.rule = Absent
  BY DEF NoTxn
<1>4. Arrive(r, t)
  BY <1>1
<1> HIDE DEF t
<1> QED BY <1>2, <1>3, <1>4, ArriveStep

LEMMA CallDeleteStep ==
  ASSUME IInv, NEW r \in Requests, CallDelete(r)
  PROVE  IInv'
<1>1. PICK d \in Documents :
        Arrive(r, [NoTxn EXCEPT !.at = "rules", !.kind = "delete", !.target = {d}])
  BY DEF CallDelete
<1> DEFINE t == [NoTxn EXCEPT !.at = "rules", !.kind = "delete", !.target = {d}]
<1>2. t \in Transactions
  BY NoTxnTyped DEF Transactions, Places, Kinds, Documents
<1>3. /\ t.at = "rules" /\ t.kind = "delete" /\ ~t.replace /\ t.target = {d} /\ t.cited = {}
      /\ t.goneRules = {} /\ t.goneDocs = {} /\ t.nulled = {} /\ t.judged = {}
      /\ t.doc = Absent /\ t.chunk = {} /\ t.rule = Absent
  BY DEF NoTxn
<1>4. Arrive(r, t)
  BY <1>1
<1> HIDE DEF t
<1> QED BY <1>2, <1>3, <1>4, ArriveStep

LEMMA CallJudgeStep ==
  ASSUME IInv, NEW r \in Requests, CallJudge(r)
  PROVE  IInv'
<1>1. PICK d \in Rules, verdict \in {"approved", "rejected"} :
        Arrive(r, [NoTxn EXCEPT !.at = IF rules[d] = verdict THEN "commit" ELSE "update",
                                !.kind = "judge", !.target = {d}, !.verdict = verdict])
  BY DEF CallJudge
<1> DEFINE t == [NoTxn EXCEPT !.at = IF rules[d] = verdict THEN "commit" ELSE "update",
                              !.kind = "judge", !.target = {d}, !.verdict = verdict]
<1>2. t \in Transactions
  BY NoTxnTyped DEF Transactions, Places, Kinds, Rules, RuleStatuses
<1>3. /\ t.at \in {"commit", "update"} /\ t.kind = "judge" /\ ~t.replace /\ t.cited = {}
      /\ t.goneRules = {} /\ t.goneDocs = {} /\ t.nulled = {} /\ t.judged = {}
      /\ t.doc = Absent /\ t.chunk = {} /\ t.rule = Absent
  BY DEF NoTxn
<1>4. Arrive(r, t)
  BY <1>1
<1> HIDE DEF t
<1> QED BY <1>2, <1>3, <1>4, ArriveStep

\* A decision reads what is on file, all of it at one moment.
LEMMA RetrieveChunksStep ==
  ASSUME IInv, NEW r \in Requests, RetrieveChunks(r)
  PROVE  IInv'
<1>1. PICK cited \in SUBSET chunks :
        Arrive(r, [NoTxn EXCEPT !.at = IF cited = {} THEN "commit" ELSE "model",
                                !.cited = cited])
  BY DEF RetrieveChunks, VisibleChunks
<1> DEFINE t == [NoTxn EXCEPT !.at = IF cited = {} THEN "commit" ELSE "model", !.cited = cited]
<1>2. t \in Transactions
  <2>1. cited \subseteq Ids
    BY DEF IInv, TypeOK
  <2> QED BY <2>1, NoTxnTyped DEF Transactions, Places
<1>3. /\ t.at \in {"commit", "model"} /\ t.kind = "decide" /\ ~t.replace /\ t.cited \subseteq chunks
      /\ t.goneRules = {} /\ t.goneDocs = {} /\ t.nulled = {} /\ t.judged = {}
      /\ t.doc = Absent /\ t.chunk = {} /\ t.rule = Absent
  BY DEF NoTxn
<1>4. Arrive(r, t)
  BY <1>1
<1> HIDE DEF t
<1> QED BY <1>2, <1>3, <1>4, ArriveStep
-----------------------------------------------------------------------------
(* The commit                                                              *)

\* What the tables and the transactions are after the commit of r.
LEMMA Committing ==
  ASSUME IInv, NEW r \in Requests, Commit(r)
  PROVE  /\ txn[r].at = "commit"
         /\ r \notin Documents /\ r \notin Rules /\ r \notin chunks /\ ~Spent(r)
         /\ UNCHANGED <<past, met>>
         /\ docs' \in [Ids -> DocumentStatuses \cup {Absent}]
         /\ rules' \in [Ids -> RuleStatuses \cup {Absent}]
         /\ Documents' = (Documents \ txn[r].goneDocs) \cup IF txn[r].doc = Absent THEN {} ELSE {r}
         /\ Rules' = (Rules \ txn[r].goneRules) \cup IF txn[r].rule = Absent THEN {} ELSE {r}
         /\ chunks' = (chunks \ txn[r].goneDocs) \cup txn[r].chunk
         /\ orphans' = (orphans \cup txn[r].nulled) \ txn[r].goneRules
         /\ docs'[r] = txn[r].doc
         /\ \A d \in Documents' \ {r} : docs'[d] = docs[d]
<1>1. /\ txn[r].at = "commit"
      /\ UNCHANGED <<past, met>>
      /\ docs' = [d \in Ids |-> IF d \in txn[r].goneDocs THEN Absent
                                ELSE IF d = r THEN txn[r].doc ELSE docs[d]]
      /\ chunks' = (chunks \ txn[r].goneDocs) \cup txn[r].chunk
      /\ rules' = [d \in Ids |-> IF d \in txn[r].goneRules THEN Absent
                                 ELSE IF d \in txn[r].judged THEN txn[r].verdict
                                 ELSE IF d = r THEN txn[r].rule ELSE rules[d]]
      /\ orphans' = (orphans \cup txn[r].nulled) \ txn[r].goneRules
  BY DEF Commit
<1>2. r \notin Documents /\ r \notin Rules /\ r \notin chunks /\ ~Spent(r)
  BY <1>1, Unspent
<1>3. /\ txn[r].goneRules \subseteq Rules /\ txn[r].goneDocs \subseteq Documents
      /\ txn[r].judged \subseteq Rules
  BY DEF IInv, Own, Holds
<1>4. /\ txn[r].doc \in DocumentStatuses \cup {Absent} /\ txn[r].rule \in {"proposed", Absent}
      /\ txn[r].verdict \in RuleStatuses /\ Absent \notin RuleStatuses
      /\ docs \in [Ids -> DocumentStatuses \cup {Absent}]
      /\ rules \in [Ids -> RuleStatuses \cup {Absent}]
  <2>1. txn[r] \in Transactions
    BY TxnTyped DEF IInv
  <2> QED BY <2>1 DEF Transactions, RuleStatuses, Absent, IInv, TypeOK
<1>5. r \in Ids /\ "proposed" \in RuleStatuses
  BY DEF Ids, RuleStatuses
<1>6. docs' \in [Ids -> DocumentStatuses \cup {Absent}]
  BY <1>1, <1>4
<1>7. rules' \in [Ids -> RuleStatuses \cup {Absent}]
  BY <1>1, <1>4, <1>5
<1>8. /\ docs'[r] = txn[r].doc
      /\ \A d \in Ids \ {r} : docs'[d] = IF d \in txn[r].goneDocs THEN Absent ELSE docs[d]
  BY <1>1, <1>2, <1>3, <1>5
<1>9. Documents' = (Documents \ txn[r].goneDocs) \cup IF txn[r].doc = Absent THEN {} ELSE {r}
  BY <1>2, <1>5, <1>8 DEF Documents
<1>10. \A d \in Documents' \ {r} : docs'[d] = docs[d]
  BY <1>8 DEF Documents
<1>11. /\ rules'[r] = txn[r].rule
       /\ \A d \in Ids \ {r} : rules'[d] = Absent <=> (d \in txn[r].goneRules \/ rules[d] = Absent)
  BY <1>1, <1>2, <1>3, <1>4, <1>5 DEF Rules
<1>12. Rules' = (Rules \ txn[r].goneRules) \cup IF txn[r].rule = Absent THEN {} ELSE {r}
  BY <1>2, <1>5, <1>11 DEF Rules
<1> QED BY <1>1, <1>2, <1>6, <1>7, <1>8, <1>9, <1>10, <1>12

LEMMA Finished ==
  ASSUME IInv, NEW r \in Requests, Commit(r)
  PROVE  /\ txn' \in [Requests -> Transactions]
         /\ \A o \in Requests \ {r} : txn'[o] = txn[o]
         /\ txn'[r].at = "done" /\ txn'[r].kind = txn[r].kind
         /\ txn'[r].replace = txn[r].replace /\ txn'[r].blank = txn[r].blank
         /\ txn'[r].cited = txn[r].cited /\ txn'[r].target = {}
         /\ txn'[r].goneRules = {} /\ txn'[r].goneDocs = {}
         /\ txn'[r].nulled = {} /\ txn'[r].judged = {}
         /\ txn'[r].doc = Absent /\ txn'[r].chunk = {} /\ txn'[r].rule = Absent
         /\ Open' = Open \ {r}
         /\ \A d : Spent(d)' <=> Spent(d) \/ (d = r /\ txn[r].kind = "upload")
<1> DEFINE t == [NoTxn EXCEPT !.at = "done", !.kind = txn[r].kind, !.replace = txn[r].replace,
                              !.blank = txn[r].blank, !.cited = txn[r].cited]
<1>1. txn[r] \in Transactions /\ txn \in [Requests -> Transactions]
  BY TxnTyped DEF IInv
<1>2. t \in Transactions
  BY <1>1, NoTxnTyped DEF Transactions, Places
<1>3. /\ t.at = "done" /\ t.kind = txn[r].kind
      /\ t.replace = txn[r].replace /\ t.blank = txn[r].blank
      /\ t.cited = txn[r].cited /\ t.target = {}
      /\ t.goneRules = {} /\ t.goneDocs = {} /\ t.nulled = {} /\ t.judged = {}
      /\ t.doc = Absent /\ t.chunk = {} /\ t.rule = Absent
  BY DEF NoTxn
<1>4. txn' = [txn EXCEPT ![r] = t] /\ txn[r].at = "commit"
  BY DEF Commit, Finish
<1> HIDE DEF t
<1>5. /\ txn' \in [Requests -> Transactions] /\ txn'[r] = t
      /\ \A o \in Requests \ {r} : txn'[o] = txn[o]
  BY <1>1, <1>2, <1>4
<1>6. Open' = Open \ {r}
  BY <1>3, <1>5 DEF Open
<1>7. \A d : Spent(d)' <=> Spent(d) \/ (d = r /\ txn[r].kind = "upload")
  <2> SUFFICES ASSUME NEW d
               PROVE  Spent(d)' <=> Spent(d) \/ (d = r /\ txn[r].kind = "upload")
    OBVIOUS
  <2>1. CASE d = r
    BY <1>3, <1>5, <2>1 DEF Spent
  <2>2. CASE d # r
    BY <1>5, <2>2 DEF Spent
  <2> QED BY <2>1, <2>2
<1> QED BY <1>3, <1>5, <1>6, <1>7

LEMMA CommitFiled ==
  ASSUME IInv, NEW r \in Requests, Commit(r)
  PROVE  Filed'
<1>1. Own(r) /\ Writes(r) /\ Holds(r)
  BY DEF IInv, Own
<1>2. txn[r].doc # Absent => txn[r].kind = "upload" /\ txn[r].chunk = Embedded(r)
  BY <1>1 DEF Writes
<1>3. \A d \in Documents' \cup Rules' : Spent(d)'
  <2>1. r \in Documents' \cup Rules' => txn[r].kind = "upload"
    BY <1>1, <1>2, Committing DEF Writes, Absent
  <2> QED BY <2>1, Committing, Finished DEF IInv, Filed
<1>4. orphans' \subseteq Rules'
  BY <1>1, Committing DEF IInv, Filed, Holds
<1>5. PolicyIsWhole'
  <2>1. txn[r].chunk \subseteq IF txn[r].doc = Absent THEN {} ELSE {r}
    BY <1>1, <1>2 DEF Writes, Embedded
  <2>2. chunks' \subseteq Documents'
    BY <2>1, Committing DEF IInv, Filed, PolicyIsWhole
  <2>3. \A o \in Documents' \cap Requests : o \in chunks' <=> ~txn'[o].blank
    <3> SUFFICES ASSUME NEW o \in Documents' \cap Requests
                 PROVE  o \in chunks' <=> ~txn'[o].blank
      OBVIOUS
    <3>1. CASE o = r
      <4>1. r \in Documents'
        BY <3>1
      <4>2. txn[r].doc # Absent
        BY <4>1, Committing
      <4>3. r \in chunks' <=> r \in Embedded(r)
        BY <1>2, <4>2, Committing
      <4> QED BY <3>1, <4>3, Finished DEF Embedded
    <3>2. CASE o # r
      <4>1. o \in Documents \ txn[r].goneDocs
        BY <3>2, Committing
      <4>2. o \in chunks' <=> o \in chunks
        BY <2>1, <3>2, <4>1, Committing
      <4> QED BY <3>2, <4>1, <4>2, Finished DEF IInv, Filed, PolicyIsWhole
    <3> QED BY <3>1, <3>2
  <2>4. \A d \in Rules' \ orphans' : docs'[d] = "compiled"
    <3> SUFFICES ASSUME NEW d \in Rules' \ orphans'
                 PROVE  docs'[d] = "compiled"
      OBVIOUS
    <3>1. CASE d = r
      <4>1. txn[r].rule # Absent
        BY <3>1, Committing
      <4> QED BY <1>1, <3>1, <4>1, Committing DEF Writes
    <3>2. CASE d # r
      <4>1. d \in Rules \ orphans /\ d \notin txn[r].goneRules /\ d \notin txn[r].nulled
        BY <3>2, Committing
      <4>2. docs[d] = "compiled" /\ d \notin txn[r].goneDocs
        BY <1>1, <4>1 DEF IInv, Filed, PolicyIsWhole, Holds
      <4>3. d \in Documents
        BY <4>1, <4>2 DEF Documents, Rules, Absent
      <4>4. d \in Documents'
        BY <4>2, <4>3, Committing
      <4> QED BY <3>2, <4>2, <4>4, Committing
    <3> QED BY <3>1, <3>2
  <2> QED BY <2>2, <2>3, <2>4 DEF PolicyIsWhole
<1>6. OrphansOnlyFromOverlap'
  <2> SUFFICES ASSUME NEW d \in orphans' \cap Rules'
               PROVE  \E o \in Requests : /\ Committed(o, "upload")' /\ txn'[o].replace
                                          /\ d \in Requests /\ d \in met'[o]
    BY DEF OrphansOnlyFromOverlap
  <2>1. CASE d \in txn[r].nulled
    <3>1. txn[r].replace /\ d \in Requests /\ d \in met[r] /\ txn[r].kind = "upload"
      BY <1>1, <2>1 DEF Holds, Writes
    <3>2. Committed(r, "upload")' /\ txn'[r].replace /\ d \in met'[r]
      BY <3>1, Committing, Finished DEF Committed
    <3> QED BY <3>1, <3>2
  <2>2. CASE d \notin txn[r].nulled
    <3>1. d \in orphans \cap Rules
      BY <2>2, Committing DEF IInv, Filed
    <3>2. PICK o \in Requests : /\ Committed(o, "upload") /\ txn[o].replace
                                /\ d \in Requests /\ d \in met[o]
      BY <3>1 DEF IInv, Filed, OrphansOnlyFromOverlap
    <3>3. o # r
      BY <3>2, Committing DEF Committed
    <3> QED BY <3>2, <3>3, Committing, Finished DEF Committed
  <2> QED BY <2>1, <2>2
<1> QED BY <1>3, <1>4, <1>5, <1>6 DEF Filed

LEMMA CommitOthers ==
  ASSUME IInv, NEW r \in Requests, Commit(r), NEW o \in Requests \ {r}
  PROVE  Own(o)'
<1>1. /\ Own(o) /\ txn'[o] = txn[o] /\ past'[o] = past[o] /\ met'[o] = met[o]
      /\ Open' \subseteq Open /\ \A d : Spent(d) => Spent(d)'
  BY Committing, Finished DEF IInv
<1>2. /\ RulesOf(r) \cap RulesOf(o) = {} /\ txn[r].goneDocs \cap txn[o].goneDocs = {}
  BY DEF IInv, Apart
<1>3. /\ r \notin Documents /\ r \notin Rules /\ ~Spent(r)
      /\ Documents' \subseteq Documents \cup {r} /\ Rules' \subseteq Rules \cup {r}
      /\ Rules \ txn[r].goneRules \subseteq Rules'
      /\ Documents \ txn[r].goneDocs \subseteq Documents'
      /\ Rules' \ orphans' \subseteq (Rules \ orphans) \cup {r}
      /\ (Rules \ orphans) \ (txn[r].goneRules \cup txn[r].nulled) \subseteq Rules' \ orphans'
  <2>1. orphans \subseteq Rules
    BY DEF IInv, Filed
  <2> QED BY <2>1, Committing
<1>4. Writes(o)'
  BY <1>1 DEF Own, Writes, Embedded
<1>5. Holds(o)'
  <2>1. /\ txn[o].goneRules \subseteq Rules' /\ txn[o].goneDocs \subseteq Documents'
        /\ txn[o].judged \subseteq Rules'
    BY <1>1, <1>2, <1>3 DEF Own, Holds, RulesOf
  <2>2. txn[o].nulled \subseteq txn[o].goneDocs \cap (Rules' \ orphans')
    BY <1>1, <1>2, <1>3 DEF Own, Holds, RulesOf
  <2>3. txn[o].goneDocs \cap (Rules' \ orphans') \subseteq txn[o].goneRules \cup txn[o].nulled
    BY <1>1, <1>3 DEF Own, Holds
  <2> QED BY <1>1, <2>1, <2>2, <2>3 DEF Own, Holds
<1>6. Replaces(o)'
  <2> SUFFICES ASSUME txn[o].replace PROVE Replaces(o)'
    BY <1>1 DEF Replaces
  <2>1. \A d \in past[o] : Spent(d)
    BY <1>1 DEF Own, Replaces
  <2>2. past[o] \cap Documents' \subseteq past[o] \cap Documents
    BY <1>3, <2>1
  <2>3. past[o] \cap Rules' \subseteq past[o] \cap Rules
    BY <1>3, <2>1
  <2>4. txn[o].at \in Running => r \in met[o]
    <3>1. r \in Open
      BY Committing DEF Open
    <3> QED BY <1>1, <3>1 DEF Own, Replaces
  <2> QED BY <1>1, <1>3, <2>1, <2>2, <2>3, <2>4 DEF Own, Replaces
<1>7. Deletes(o)'
  <2> SUFFICES ASSUME txn[o].kind = "delete" PROVE Deletes(o)'
    BY <1>1 DEF Deletes
  <2>1. \A d \in txn[o].target : Spent(d)
    BY <1>1 DEF Own, Deletes
  <2>2. txn[o].target \cap (Rules' \ orphans') \subseteq txn[o].target \cap (Rules \ orphans)
    BY <1>3, <2>1
  <2> QED BY <1>1, <2>1, <2>2 DEF Own, Deletes
<1> QED BY <1>4, <1>5, <1>6, <1>7 DEF Own

LEMMA CommitOwn ==
  ASSUME IInv, NEW r \in Requests, Commit(r)
  PROVE  Own(r)'
<1>1. Own(r)
  BY DEF IInv
<1>2. Writes(r)'
  <2>1. \A d \in txn[r].cited : Spent(d)'
    BY <1>1, Finished DEF Own, Writes
  <2> QED BY <1>1, <2>1, Finished DEF Own, Writes
<1>3. Holds(r)'
  BY Finished DEF Holds
<1>4. Replaces(r)'
  <2> SUFFICES ASSUME txn[r].replace PROVE Replaces(r)'
    BY Finished DEF Replaces
  <2>1. txn[r].at \in Deleted /\ txn[r].at \in Cleared
    BY Committing DEF Deleted, Cleared
  <2>2. /\ \A d \in past[r] : Spent(d)
        /\ past[r] \cap Rules \subseteq txn[r].goneRules
        /\ past[r] \cap Documents \subseteq txn[r].goneDocs
    BY <1>1, <2>1 DEF Own, Replaces
  <2>3. past'[r] \cap (Documents' \cup Rules') = {}
    BY <2>2, Committing
  <2>4. \A d \in past'[r] : Spent(d)'
    BY <2>2, Committing, Finished
  <2> QED BY <2>3, <2>4, Finished DEF Replaces, Running, Deleted, Cleared
<1>5. Deletes(r)'
  BY Finished DEF Deletes, Deleted
<1> QED BY <1>2, <1>3, <1>4, <1>5 DEF Own

LEMMA CommitStep ==
  ASSUME IInv, NEW r \in Requests, Commit(r)
  PROVE  IInv'
<1>1. TypeOK'
  <2>1. chunks' \subseteq Ids /\ orphans' \subseteq Ids
    <3>1. txn[r] \in Transactions
      BY TxnTyped DEF IInv
    <3>2. txn[r].chunk \subseteq Requests /\ txn[r].nulled \subseteq Ids
      BY <3>1 DEF Transactions
    <3> QED BY <3>2, Committing DEF IInv, TypeOK, Ids
  <2> QED BY <2>1, Committing, Finished DEF IInv, TypeOK, Transactions
<1>2. \A o \in Requests : Own(o)'
  BY CommitOwn, CommitOthers
<1>3. \A p, o \in Requests : p # o => Apart(p, o)'
  <2>1. RulesOf(r)' = {} /\ txn'[r].goneDocs = {}
    BY Finished DEF RulesOf
  <2>2. \A o \in Requests \ {r} : RulesOf(o)' = RulesOf(o) /\ txn'[o].goneDocs = txn[o].goneDocs
    BY Finished DEF RulesOf
  <2> QED BY <2>1, <2>2 DEF IInv, Apart
<1>4. NeverOldAndNew'
  <2>1. \A o \in Requests : txn'[o].cited = txn[o].cited /\ txn'[o].replace = txn[o].replace
    BY Finished
  <2> QED BY <2>1, Committing DEF IInv, NeverOldAndNew
<1> QED BY <1>1, <1>2, <1>3, <1>4, CommitFiled DEF IInv

-----------------------------------------------------------------------------

LEMMA InitHolds == Init => IInv
<1> SUFFICES ASSUME Init PROVE IInv
  OBVIOUS
<1>1. /\ \A r \in Requests : txn[r] = NoTxn
      /\ \A d \in Ids : docs[d] = IF d \in OnFile THEN "compiled" ELSE Absent
      /\ \A d \in Ids : rules[d] = IF d \in OnFile THEN "proposed" ELSE Absent
      /\ chunks = OnFile /\ orphans = {}
  BY DEF Init
<1>2. TypeOK
  BY NoTxnTyped DEF Init, TypeOK, Transactions, Ids, DocumentStatuses, RuleStatuses
<1>3. Documents = OnFile /\ Rules = OnFile
  BY <1>1 DEF Documents, Rules, Absent, Ids
<1>4. Filed
  BY <1>1, <1>3, DocumentsAssumption
     DEF Filed, Spent, PolicyIsWhole, OrphansOnlyFromOverlap, Ids
<1>5. \A r \in Requests : Own(r)
  <2> SUFFICES ASSUME NEW r \in Requests PROVE Own(r)
    OBVIOUS
  <2>1. /\ NoTxn.at = "idle" /\ NoTxn.kind = "decide" /\ ~NoTxn.replace /\ NoTxn.cited = {}
        /\ NoTxn.goneRules = {} /\ NoTxn.goneDocs = {} /\ NoTxn.nulled = {} /\ NoTxn.judged = {}
        /\ NoTxn.doc = Absent /\ NoTxn.chunk = {} /\ NoTxn.rule = Absent
    BY DEF NoTxn
  <2> QED BY <1>1, <2>1 DEF Own, Writes, Holds, Replaces, Deletes
<1>6. \A r, o \in Requests : r # o => Apart(r, o)
  BY <1>1 DEF Apart, RulesOf, NoTxn
<1>7. NeverOldAndNew
  BY <1>1 DEF NeverOldAndNew, NoTxn
<1> QED BY <1>2, <1>4, <1>5, <1>6, <1>7 DEF IInv

LEMMA NextHolds == IInv /\ [Next]_vars => IInv'
<1> SUFFICES ASSUME IInv, [Next]_vars PROVE IInv'
  OBVIOUS
<1>1. CASE UNCHANGED vars
  <2>1. UNCHANGED <<docs, chunks, rules, orphans, txn, past, met>>
    BY <1>1 DEF vars
  <2>2. UNCHANGED <<Documents, Rules, Open>> /\ \A d : Spent(d)' <=> Spent(d)
    BY <2>1 DEF Documents, Rules, Open, Spent
  <2>3. TypeOK' /\ NeverOldAndNew'
    BY <2>1 DEF IInv, TypeOK, NeverOldAndNew
  <2>4. Filed'
    BY <2>1, <2>2 DEF IInv, Filed, PolicyIsWhole, OrphansOnlyFromOverlap, Committed
  <2>5. \A r \in Requests : Own(r)'
    <3> SUFFICES ASSUME NEW r \in Requests PROVE Own(r)'
      OBVIOUS
    <3>1. Own(r)
      BY DEF IInv
    <3>2. Writes(r)'
      BY <2>1, <2>2, <3>1 DEF Own, Writes, Embedded
    <3>3. Holds(r)' /\ Replaces(r)' /\ Deletes(r)'
      BY <2>1, <2>2, <3>1 DEF Own, Holds, Replaces, Deletes
    <3> QED BY <3>2, <3>3 DEF Own
  <2>6. \A p, o \in Requests : p # o => Apart(p, o)'
    BY <2>1 DEF IInv, Apart, RulesOf
  <2> QED BY <2>3, <2>4, <2>5, <2>6 DEF IInv
<1>2. CASE \E r \in Requests : Call(r) \/ Step(r) \/ Fail(r)
  <2>1. PICK r \in Requests : Call(r) \/ Step(r) \/ Fail(r)
    BY <1>2
  <2>2. CASE Call(r)
    BY <2>2, CallUploadStep, CallDeleteStep, CallJudgeStep, RetrieveChunksStep DEF Call
  <2>3. CASE Step(r)
    BY <2>3, FindRulesStep, DeleteRulesStep, FindDocumentsStep, DeleteDocumentsStep,
       WriteKeyStep, InsertDocumentStep, CompileDocumentStep, JudgeRuleStep,
       ModelAnswersStep, CommitStep DEF Step
  <2>4. CASE Fail(r)
    <3>1. txn[r].at \in Running
      <4>1. txn[r] \in Transactions /\ r \in Open
        BY <2>4, TxnTyped DEF IInv, Fail
      <4> QED BY <4>1 DEF Transactions, Open, Running
    <3> QED BY <2>4, <3>1, FailStep DEF Fail
  <2> QED BY <2>1, <2>2, <2>3, <2>4
<1> QED BY <1>1, <1>2 DEF Next

THEOREM Invariance == Spec => []IInv
BY InitHolds, NextHolds, PTL DEF Spec

\* Every variable keeps its type.
THEOREM TypeCorrect == Spec => []TypeOK
<1>1. IInv => TypeOK
  BY DEF IInv
<1> QED BY <1>1, Invariance, PTL

\* Document, chunks and rule of a policy are stored together, and together they
\* stay (upload_document, delete_document).
THEOREM Whole == Spec => []PolicyIsWhole
<1>1. IInv => PolicyIsWhole
  BY DEF IInv, Filed
<1> QED BY <1>1, Invariance, PTL

\* Nothing of a policy outlives the upload that replaces it (_clear_vendor_policy).
THEOREM Replaced == Spec => []ReplacedIsGone
<1>1. IInv => ReplacedIsGone
  BY DEF IInv, Filed, PolicyIsWhole, Own, Replaces, ReplacedIsGone, Committed
<1> QED BY <1>1, Invariance, PTL

\* A rule loses its document to nothing but an overlapping replacement.
THEOREM Orphaned == Spec => []OrphansOnlyFromOverlap
<1>1. IInv => OrphansOnlyFromOverlap
  BY DEF IInv, Filed
<1> QED BY <1>1, Invariance, PTL

\* No decision weighs a policy together with the one that replaced it
\* (retrieve_chunks).
THEOREM OneAtATime == Spec => []NeverOldAndNew
<1>1. IInv => NeverOldAndNew
  BY DEF IInv
<1> QED BY <1>1, Invariance, PTL

\* A vendor's last chunk goes by a deletion or a blank replacement, not for the
\* moment between the old policy and the new one.
THEOREM NeverBetween == Spec => PolicyNeverVanishes
<1>1. IInv /\ [Next]_vars =>
        (chunks # {} /\ chunks' = {} =>
           \E r \in Requests : /\ txn[r].at = "commit" /\ txn'[r].at = "done"
                               /\ txn[r].kind = "delete" \/ txn[r].blank)
  <2> SUFFICES ASSUME IInv, [Next]_vars, chunks # {}, chunks' = {}
               PROVE  \E r \in Requests : /\ txn[r].at = "commit" /\ txn'[r].at = "done"
                                          /\ txn[r].kind = "delete" \/ txn[r].blank
    OBVIOUS
  <2>1. PICK r \in Requests : Call(r) \/ Step(r) \/ Fail(r)
    BY DEF Next, vars
  <2>2. Commit(r)
    <3>1. ~(\E t : Arrive(r, t))
      BY DEF Arrive, Tables
    <3>2. ~Call(r)
      BY <3>1 DEF Call, CallUpload, CallDelete, CallJudge, RetrieveChunks
    <3>3. ~(FindRules(r) \/ DeleteRules(r) \/ FindDocuments(r) \/ DeleteDocuments(r) \/ WriteKey(r))
      BY DEF FindRules, DeleteRules, FindDocuments, DeleteDocuments, WriteKey, Tables
    <3>4. ~(InsertDocument(r) \/ CompileDocument(r) \/ JudgeRule(r) \/ ModelAnswers(r) \/ Fail(r))
      BY DEF InsertDocument, CompileDocument, JudgeRule, ModelAnswers, Fail, Tables
    <3> QED BY <2>1, <3>2, <3>3, <3>4 DEF Step
  <2>3. /\ txn[r].at = "commit" /\ txn'[r].at = "done"
        /\ txn[r].chunk = {} /\ txn[r].goneDocs # {}
    BY <2>2, Committing, Finished
  <2>4. CASE txn[r].kind = "delete"
    BY <2>3, <2>4
  <2>5. CASE txn[r].kind # "delete"
    <3>1. txn[r].kind = "upload"
      BY <2>3, <2>5 DEF IInv, Own, Holds
    <3>2. Embedded(r) = {}
      BY <2>3, <3>1 DEF IInv, Own, Writes
    <3>3. txn[r].blank
      BY <3>2 DEF Embedded
    <3> QED BY <2>3, <3>3
  <2> QED BY <2>4, <2>5
<1> QED BY <1>1, Invariance, PTL DEF Spec, PolicyNeverVanishes
=============================================================================
