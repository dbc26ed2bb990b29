--------------------------- MODULE AccountsProofs ---------------------------
(***************************************************************************)
(* For any number of calls, addresses, passwords and attempts: a code that *)
(* was replaced is not accepted, guesses are capped, the last registration *)
(* stands, and a verified user stays verified.                             *)
(*                                                                         *)
(* None of these is inductive: each is about what a call did long ago with *)
(* what it read then.  The invariant says what an open transaction knows   *)
(* of the calls that had ended when it began, and who is to blame for a    *)
(* code that is consumed: the user is verified, or a call that had not     *)
(* ended when the code's own call began has issued another.                *)
(***************************************************************************)
EXTENDS Accounts, FiniteSetTheorems, TLAPS

\* A call that is not open holds nothing; only an answered call has a code on
\* file, and only a refused one a guess.
Settled(t) ==
    /\ ~Active(t) => txn[t] = Nothing
    /\ codes[t] # "none" => pc[t] = "ok"
    /\ tried[t] # NoCode => pc[t] = "failed"
    /\ \A u \in after[t] : pc[u] \in Ended

\* The user's row has one writer, and is inserted by nobody while there is one.
Alone(t) ==
    txn[t].user # "read" =>
        /\ \A u \in Requests \ {t} : Email(u) = Email(t) => txn[u].user = "read"
        /\ txn[t].user = "inserted" => users[Email(t)].state = "absent"

\* Where a transaction stands: what it has written, and on which codes it works.
Placed(t) ==
    /\ pc[t] \in {"revoke", "lock", "issue"} /\ job[t].op = "register" => txn[t].user # "read"
    /\ pc[t] = "consume" => txn[t].user # "read"
    /\ pc[t] \in {"count", "confirm", "consume"} => txn[t].pick # NoCode
    /\ txn[t].pick # NoCode => codes[txn[t].pick] # "none" /\ Email(txn[t].pick) = Email(t)
    /\ \A c \in txn[t].held : codes[c] # "none" /\ Email(c) = Email(t)

\* A call that issues a code consumes the codes of the calls that had ended.
Earlier(t) == {c \in after[t] : codes[c] = "pending" /\ Email(c) = Email(t)}

Replaces(t) ==
    /\ pc[t] = "lock" => Earlier(t) \subseteq txn[t].seen
    /\ pc[t] = "issue" => Earlier(t) \subseteq txn[t].held
    /\ codes[t] # "none" => Earlier(t) = {}

\* Another call that was not over when t began has issued a code for the user.
Overtaken(t) == \E u \in Issuers(Email(t)) \ {t} : u \notin after[t]

\* Whose doing it is when a code or a password no longer stands.
Stands(t) ==
    /\ codes[t] = "consumed" => users[Email(t)].state = "verified" \/ Overtaken(t)
    /\ codes[t] # "none" /\ job[t].op = "register" =>
         users[Email(t)].password = job[t].password \/ Overtaken(t)

Guesses(c) == {u \in Requests : tried[u] = c}

\* What a verify knew when it accepted its code.
Judged(t) ==
    Accepted(t) =>
        /\ \A d \in Issuers(Email(t)) \cap after[t] : txn[t].pick \notin after[d]
        /\ Cardinality({u \in after[t] : tried[u] = txn[t].pick}) < MaxAttempts

Own(t) == Alone(t) /\ Placed(t) /\ Replaces(t) /\ Judged(t)

IInv ==
    /\ TypeOK
    /\ \A t \in Requests : Settled(t) /\ Own(t) /\ Stands(t)
    /\ \A c \in Requests : attempts[c] = Cardinality(Guesses(c))
-----------------------------------------------------------------------------

\* Of an open call nothing is on file yet, and nobody counts it as ended.
LEMMA OpenCall ==
  ASSUME IInv, NEW t \in Requests, pc[t] \in Open \cup {"idle"}
  PROVE  /\ codes[t] = "none" /\ tried[t] = NoCode
         /\ \A u \in Requests : t \notin after[u]
<1>1. pc[t] \notin Ended /\ pc[t] # "ok" /\ pc[t] # "failed"
  BY DEF Open, Ended
<1> QED BY <1>1 DEF IInv, Settled

\* A row that a call has read and not written is as it was.
LEMMA TxnFields ==
  ASSUME TypeOK, NEW t \in Requests
  PROVE  /\ txn[t] \in Txns
         /\ txn[t].user \in {"read", "inserted", "updated"} /\ txn[t].seen \in SUBSET Requests
         /\ txn[t].held \in SUBSET Requests /\ txn[t].pick \in Requests \cup {NoCode}
         /\ job[t] \in Jobs /\ Email(t) \in Emails /\ job[t].password \in Passwords
         /\ after[t] \in SUBSET Requests
         /\ pc[t] \in {"idle"} \cup Open \cup Ended
<1>1. txn[t] \in Txns /\ job[t] \in Jobs /\ after[t] \in SUBSET Requests
      /\ pc[t] \in {"idle"} \cup Open \cup Ended
  BY DEF TypeOK
<1> QED BY <1>1 DEF Txns, Jobs, Email

LEMMA InitHolds == Init => IInv
<1> SUFFICES ASSUME Init PROVE IInv
  OBVIOUS
<1> DEFINE p == CHOOSE q \in Passwords : TRUE
<1> DEFINE e == CHOOSE f \in Emails : TRUE
<1>1. p \in Passwords /\ e \in Emails
  BY AccountsAssumption
<1>2. /\ users = [f \in Emails |-> [state |-> "absent", password |-> p]]
      /\ job = [t \in Requests |-> [op |-> "resend", email |-> e, password |-> p, code |-> t]]
  BY DEF Init
<1> HIDE DEF p, e
<1>3. Nothing \in Txns
  BY DEF Nothing, Txns
<1>4. users \in [Emails -> Users]
  BY <1>1, <1>2 DEF Users
<1>5. job \in [Requests -> Jobs]
  BY <1>1, <1>2 DEF Jobs
<1>6. TypeOK
  BY <1>3, <1>4, <1>5 DEF TypeOK, Init
<1>7. \A t \in Requests : Settled(t) /\ Own(t) /\ Stands(t)
  BY DEF Init, Settled, Own, Stands, Alone, Placed, Replaces, Judged, Active, Open, Nothing,
         Accepted, Earlier
<1>8. \A c \in Requests : Guesses(c) = {}
  BY AccountsAssumption DEF Init, Guesses
<1>9. \A c \in Requests : attempts[c] = Cardinality(Guesses(c))
  BY <1>8, FS_EmptySet DEF Init
<1> QED BY <1>6, <1>7, <1>9 DEF IInv

-----------------------------------------------------------------------------

\* A step that changes only the call's own transaction.
LEMMA QuietStep ==
  ASSUME IInv, NEW t \in Requests, Active(t),
         NEW where \in Open \cup Ended, NEW x \in Txns,
         pc' = [pc EXCEPT ![t] = where], txn' = [txn EXCEPT ![t] = x],
         UNCHANGED <<tables, expired, job, past, tried>>,
         where \in Ended => x = Nothing,
         Own(t)'
  PROVE  IInv'
<1>1. UNCHANGED <<users, codes, attempts, expired, job, begun, after, tried>>
  BY DEF tables, past
<1>2. /\ pc'[t] = where /\ txn'[t] = x
      /\ \A u \in Requests \ {t} : pc'[u] = pc[u] /\ txn'[u] = txn[u]
  BY DEF IInv, TypeOK
<1>3. TypeOK'
  BY <1>1 DEF IInv, TypeOK
<1>4. /\ codes[t] = "none" /\ tried[t] = NoCode
      /\ \A u \in Requests : t \notin after[u]
  BY OpenCall DEF Active
<1>5. \A u \in Requests : Settled(u)'
  <2> SUFFICES ASSUME NEW u \in Requests PROVE Settled(u)'
    OBVIOUS
  <2>1. Settled(u) /\ after[u] \in SUBSET Requests
    BY TxnFields DEF IInv
  <2>2. \A v \in after[u] : pc'[v] \in Ended
    BY <1>2, <1>4, <2>1 DEF Settled
  <2>3. CASE u = t
    BY <1>1, <1>2, <1>4, <2>2, <2>3 DEF Settled, Active
  <2>4. CASE u # t
    BY <1>1, <1>2, <2>1, <2>2, <2>4 DEF Settled, Active
  <2> QED BY <2>3, <2>4
<1>6. \A u \in Requests : Own(u)'
  <2> SUFFICES ASSUME NEW u \in Requests, u # t PROVE Own(u)'
    OBVIOUS
  <2>1. Own(u)
    BY DEF IInv
  <2>2. Alone(u)'
    BY <1>1, <1>2, <2>1 DEF Own, Alone, Email
  <2>3. Placed(u)'
    BY <1>1, <1>2, <2>1 DEF Own, Placed, Email
  <2>4. Replaces(u)'
    BY <1>1, <1>2, <2>1 DEF Own, Replaces, Earlier, Email
  <2>5. Judged(u)'
    BY <1>1, <1>2, <2>1 DEF Own, Judged, Accepted, Issuers, Email
  <2> QED BY <2>2, <2>3, <2>4, <2>5 DEF Own
<1>7. \A u \in Requests : Stands(u)'
  BY <1>1 DEF IInv, Stands, Overtaken, Issuers, Email
<1>8. \A c \in Requests : attempts'[c] = Cardinality(Guesses(c)')
  BY <1>1 DEF IInv, Guesses
<1> QED BY <1>3, <1>5, <1>6, <1>7, <1>8 DEF IInv

\* A call is answered without having written anything.
LEMMA EndStep ==
  ASSUME IInv, NEW t \in Requests, Active(t), NEW outcome \in Ended, End(t, outcome),
         UNCHANGED <<tables, expired, past, tried>>
  PROVE  IInv'
<1>1. /\ pc' = [pc EXCEPT ![t] = outcome] /\ txn' = [txn EXCEPT ![t] = Nothing]
      /\ job' = job
  BY DEF End, Goto
<1>2. pc'[t] = outcome /\ txn'[t] = Nothing
  BY <1>1 DEF IInv, TypeOK
<1>3. Nothing \in Txns
  BY DEF Nothing, Txns
<1>4. codes'[t] = "none"
  BY OpenCall DEF Active, tables
<1>5. Alone(t)' /\ Placed(t)'
  BY <1>2 DEF Alone, Placed, Nothing, Ended
<1>6. Replaces(t)' /\ Judged(t)'
  BY <1>2, <1>4 DEF Replaces, Judged, Accepted, Ended
<1>7. Own(t)'
  BY <1>5, <1>6 DEF Own
<1> QED BY <1>1, <1>3, <1>7, QuietStep

LEMMA FailStep ==
  ASSUME IInv, NEW t \in Requests, Active(t), Fail(t), UNCHANGED <<expired, past>>
  PROVE  IInv'
<1>1. End(t, "failed") /\ "failed" \in Ended
  BY DEF Fail, Ended
<1>2. UNCHANGED <<tables, expired, past, tried>>
  BY DEF Fail
<1> QED BY <1>1, <1>2, EndStep

-----------------------------------------------------------------------------

LEMMA BeginStep ==
  ASSUME IInv, NEW t \in Requests, Begin(t)
  PROVE  IInv'
<1>1. pc[t] = "idle" /\ pc' = [pc EXCEPT ![t] = "begun"]
      /\ UNCHANGED <<users, codes, attempts, expired, txn, tried>>
  BY DEF Begin, Goto, tables
<1>2. PICK op \in {"register", "resend", "verify"}, e \in Emails, p \in Passwords, c \in Requests :
        /\ op = "register" \/ p = job[t].password
        /\ c = t \/ (op = "verify" /\ (codes[c] # "none" \/ pc[c] = "issue"))
        /\ job' = [job EXCEPT ![t] = [op |-> op, email |-> e, password |-> p, code |-> c]]
  BY Zenon DEF Begin
<1>3. after' = [after EXCEPT ![t] = {u \in Requests : pc[u] \in Ended}]
  BY DEF Begin
<1>4. begun' \in [Requests -> Nat]
  <2> DEFINE earlier == {u \in Requests : pc[u] # "idle"}
  <2>1. Cardinality(earlier) \in Nat
    BY FS_Subset, FS_CardinalityType, AccountsAssumption
  <2>2. begun' = [begun EXCEPT ![t] = 1 + Cardinality(earlier)]
    BY DEF Begin
  <2> HIDE DEF earlier
  <2> QED BY <2>1, <2>2 DEF IInv, TypeOK
<1>5. TypeOK'
  <2>1. [op |-> op, email |-> e, password |-> p, code |-> c] \in Jobs
    BY DEF Jobs
  <2>2. job' \in [Requests -> Jobs]
    BY <1>2, <2>1 DEF IInv, TypeOK
  <2>3. after' \in [Requests -> SUBSET Requests]
    BY <1>3 DEF IInv, TypeOK
  <2>4. pc' \in [Requests -> {"idle"} \cup Open \cup Ended]
    BY <1>1 DEF IInv, TypeOK, Open
  <2> QED BY <1>1, <1>4, <2>2, <2>3, <2>4 DEF IInv, TypeOK
<1>6. /\ codes[t] = "none" /\ tried[t] = NoCode /\ txn[t] = Nothing
      /\ \A u \in Requests : t \notin after[u]
  <2>1. pc[t] \notin Open /\ pc[t] \in Open \cup {"idle"}
    BY <1>1 DEF Open
  <2>2. txn[t] = Nothing
    BY <2>1 DEF IInv, Settled, Active
  <2> QED BY <2>1, <2>2, OpenCall
<1>7. /\ pc'[t] = "begun" /\ pc'[t] \in Open
      /\ after'[t] = {u \in Requests : pc[u] \in Ended}
      /\ \A u \in Requests \ {t} : pc'[u] = pc[u] /\ job'[u] = job[u] /\ after'[u] = after[u]
  BY <1>1, <1>2, <1>3 DEF IInv, TypeOK, Open
<1>8. t \notin after'[t]
  BY <1>1, <1>7 DEF Ended
<1>9. \A u \in Requests : Settled(u)'
  <2> SUFFICES ASSUME NEW u \in Requests PROVE Settled(u)'
    OBVIOUS
  <2>1. Settled(u) /\ after[u] \in SUBSET Requests
    BY TxnFields DEF IInv
  <2>2. CASE u = t
    BY <1>1, <1>6, <1>7, <1>8, <2>2 DEF Settled, Active
  <2>3. CASE u # t
    BY <1>1, <1>6, <1>7, <2>1, <2>3 DEF Settled, Active
  <2> QED BY <2>2, <2>3
<1>10. \A u \in Requests : Own(u)'
  <2> SUFFICES ASSUME NEW u \in Requests PROVE Own(u)'
    OBVIOUS
  <2>1. CASE u = t
    <3>1. Alone(t)' /\ Placed(t)'
      BY <1>1, <1>6, <1>7 DEF Alone, Placed, Nothing
    <3>2. Replaces(t)' /\ Judged(t)'
      BY <1>1, <1>6, <1>7 DEF Replaces, Judged, Accepted
    <3> QED BY <2>1, <3>1, <3>2 DEF Own
  <2>2. CASE u # t
    <3>1. Own(u) /\ txn[u].held \in SUBSET Requests /\ txn[u].pick \in Requests \cup {NoCode}
          /\ after[u] \in SUBSET Requests
      BY TxnFields DEF IInv
    <3>2. Alone(u)'
      BY <1>1, <1>6, <1>7, <2>2, <3>1 DEF Own, Alone, Email, Nothing
    <3>3. Placed(u)'
      BY <1>1, <1>6, <1>7, <2>2, <3>1 DEF Own, Placed, Email
    <3>4. Earlier(u)' = Earlier(u)
      BY <1>1, <1>6, <1>7, <2>2, <3>1 DEF Earlier, Email
    <3>5. Replaces(u)'
      BY <1>1, <1>6, <1>7, <2>2, <3>1, <3>4 DEF Own, Replaces
    <3>6. Judged(u)'
      BY <1>1, <1>6, <1>7, <2>2, <3>1 DEF Own, Judged, Accepted, Issuers, Email
    <3> QED BY <3>2, <3>3, <3>5, <3>6 DEF Own
  <2> QED BY <2>1, <2>2
<1>11. \A u \in Requests : Stands(u)'
  <2> SUFFICES ASSUME NEW u \in Requests PROVE Stands(u)'
    OBVIOUS
  <2>1. Stands(u)
    BY DEF IInv
  <2>2. CASE u = t
    BY <1>1, <1>6, <2>2 DEF Stands
  <2>3. CASE u # t
    BY <1>1, <1>6, <1>7, <2>1, <2>3 DEF Stands, Overtaken, Issuers, Email
  <2> QED BY <2>2, <2>3
<1>12. \A d \in Requests : attempts'[d] = Cardinality(Guesses(d)')
  BY <1>1 DEF IInv, Guesses
<1> QED BY <1>5, <1>9, <1>10, <1>11, <1>12 DEF IInv

\* A handler goes on without touching anything.
LEMMA ProceedStep ==
  ASSUME IInv, NEW t \in Requests, pc[t] = "begun",
         NEW where \in {"create", "update", "revoke", "pick"}, Proceed(t, where),
         where = "revoke" => job[t].op # "register",
         UNCHANGED <<tables, expired, past, tried>>
  PROVE  IInv'
<1>1. pc' = [pc EXCEPT ![t] = where] /\ job' = job /\ txn' = txn
  BY DEF Proceed, Goto
<1>2. txn' = [txn EXCEPT ![t] = txn[t]] /\ txn[t] \in Txns
  BY <1>1 DEF IInv, TypeOK
<1>3. Active(t) /\ where \in Open /\ where \notin Ended
  BY DEF Active, Open, Ended
<1>4. pc'[t] = where
  BY <1>1 DEF IInv, TypeOK
<1>5. Own(t) /\ codes[t] = "none"
  BY <1>3, OpenCall DEF IInv, Active
<1>6. UNCHANGED <<users, codes, job, after>>
  BY <1>1 DEF tables, past
<1>7. Alone(t)'
  BY <1>1, <1>5, <1>6 DEF Own, Alone, Email
<1>8. Placed(t)'
  BY <1>1, <1>4, <1>5, <1>6 DEF Own, Placed, Email
<1>9. Replaces(t)' /\ Judged(t)'
  BY <1>4, <1>5, <1>6 DEF Replaces, Judged, Accepted
<1>10. Own(t)'
  BY <1>7, <1>8, <1>9 DEF Own
<1> QED BY <1>1, <1>2, <1>3, <1>10, QuietStep

LEMMA ReadUserStep ==
  ASSUME IInv, NEW t \in Requests, ReadUser(t), UNCHANGED <<expired, past>>
  PROVE  IInv'
<1>1. pc[t] = "begun" /\ Active(t) /\ UNCHANGED <<tables, expired, past, tried>>
  BY DEF ReadUser, Active, Open
<1>2. "ok" \in Ended /\ "failed" \in Ended
  BY DEF Ended
<1>3. CASE Unknown(t)
  BY <1>1, <1>2, <1>3, EndStep, ProceedStep DEF Unknown
<1>4. CASE Unverified(t)
  BY <1>1, <1>4, ProceedStep DEF Unverified
<1>5. CASE Verified(t)
  BY <1>1, <1>2, <1>5, EndStep DEF Verified
<1> QED BY <1>3, <1>4, <1>5 DEF ReadUser

-----------------------------------------------------------------------------

\* Nobody else has written the user's row.
LEMMA RowFree ==
  ASSUME IInv, NEW t \in Requests, ~UserLocked(t)
  PROVE  \A u \in Requests \ {t} : Email(u) = Email(t) => txn[u].user = "read"
<1> SUFFICES ASSUME NEW u \in Requests \ {t}, Email(u) = Email(t), ~Active(u)
             PROVE  txn[u].user = "read"
  BY DEF UserLocked
<1>1. txn[u] = Nothing
  BY DEF IInv, Settled
<1> QED BY <1>1 DEF Nothing

\* A call writes the user's row and goes on.
LEMMA WriteUserStep ==
  ASSUME IInv, NEW t \in Requests, pc[t] \in {"create", "update", "confirm"}, ~UserLocked(t),
         NEW how \in {"inserted", "updated"}, NEW where \in {"revoke", "consume"},
         how = "inserted" => ~Taken(t),
         where = "consume" => pc[t] = "confirm",
         txn' = [txn EXCEPT ![t].user = how], Goto(t, where),
         UNCHANGED <<tables, expired, job, past, tried>>
  PROVE  IInv'
<1> DEFINE x == [txn[t] EXCEPT !.user = how]
<1>1. txn[t] \in Txns /\ users[Email(t)].state \in {"absent", "unverified", "verified"}
  BY TxnFields DEF IInv, TypeOK, Users
<1>2. /\ x \in Txns /\ x.user = how
      /\ x.seen = txn[t].seen /\ x.held = txn[t].held /\ x.pick = txn[t].pick
  BY <1>1 DEF Txns
<1> HIDE DEF x
<1>3. txn' = [txn EXCEPT ![t] = x] /\ pc' = [pc EXCEPT ![t] = where]
  BY DEF x, Goto
<1>4. Active(t) /\ where \in Open /\ where \notin Ended /\ pc[t] \in Open
  BY DEF Active, Open, Ended
<1>5. pc'[t] = where /\ txn'[t] = x /\ \A u \in Requests \ {t} : txn'[u] = txn[u]
  BY <1>3 DEF IInv, TypeOK
<1>6. Own(t) /\ codes[t] = "none"
  BY <1>4, OpenCall DEF IInv
<1>7. UNCHANGED <<users, codes, job, after>>
  BY DEF tables, past
<1>8. \A u \in Requests \ {t} : Email(u) = Email(t) => txn[u].user = "read"
  BY RowFree
<1>9. Alone(t)'
  BY <1>2, <1>5, <1>7, <1>8 DEF Alone, Email, Taken
<1>10. Placed(t)'
  <2>1. txn'[t].pick # NoCode => codes'[txn'[t].pick] # "none" /\ Email(txn[t].pick)' = Email(t)'
    BY <1>2, <1>5, <1>6, <1>7 DEF Own, Placed, Email
  <2>2. \A c \in txn'[t].held : codes'[c] # "none" /\ Email(c)' = Email(t)'
    BY <1>2, <1>5, <1>6, <1>7 DEF Own, Placed, Email
  <2>3. where = "consume" => txn'[t].pick # NoCode
    BY <1>2, <1>5, <1>6 DEF Own, Placed
  <2> QED BY <1>2, <1>5, <2>1, <2>2, <2>3 DEF Placed
<1>11. Replaces(t)'
  BY <1>5, <1>6, <1>7 DEF Replaces
<1>12. Judged(t)'
  BY <1>2, <1>5, <1>6, <1>7 DEF Own, Judged, Accepted, Issuers, Email
<1>13. Own(t)'
  BY <1>9, <1>10, <1>11, <1>12 DEF Own
<1> QED BY <1>2, <1>3, <1>4, <1>13, QuietStep

LEMMA CreateUserStep ==
  ASSUME IInv, NEW t \in Requests, CreateUser(t), UNCHANGED <<expired, past>>
  PROVE  IInv'
<1>1. pc[t] = "create" /\ ~UserLocked(t) /\ Active(t)
  BY DEF CreateUser, Active, Open
<1>2. CASE Taken(t)
  BY <1>1, <1>2, FailStep DEF CreateUser
<1>3. CASE ~Taken(t)
  BY <1>1, <1>3, WriteUserStep DEF CreateUser
<1> QED BY <1>2, <1>3

LEMMA UpdateUserStep ==
  ASSUME IInv, NEW t \in Requests, UpdateUser(t), UNCHANGED <<expired, past>>
  PROVE  IInv'
BY WriteUserStep DEF UpdateUser

LEMMA ConfirmUserStep ==
  ASSUME IInv, NEW t \in Requests, ConfirmUser(t), UNCHANGED <<expired, past>>
  PROVE  IInv'
BY WriteUserStep DEF ConfirmUser

-----------------------------------------------------------------------------

LEMMA RevokeStep ==
  ASSUME IInv, NEW t \in Requests, Revoke(t), UNCHANGED <<expired, past>>
  PROVE  IInv'
<1> DEFINE found == Pending(Email(t))
<1> DEFINE x == [txn[t] EXCEPT !.seen = found]
<1>1. /\ pc[t] = "revoke" /\ pc' = [pc EXCEPT ![t] = "lock"] /\ txn' = [txn EXCEPT ![t] = x]
      /\ UNCHANGED <<tables, expired, job, past, tried>>
  BY DEF Revoke, Goto
<1>2. txn[t] \in Txns /\ found \in SUBSET Requests
  BY TxnFields DEF IInv, Pending
<1>3. Earlier(t) \subseteq found
  <2>1. after[t] \in SUBSET Requests
    BY TxnFields DEF IInv
  <2> QED BY <2>1 DEF Earlier, Pending, Email
<1> HIDE DEF found
<1>4. /\ x \in Txns /\ x.seen = found
      /\ x.user = txn[t].user /\ x.held = txn[t].held /\ x.pick = txn[t].pick
  BY <1>2 DEF Txns
<1> HIDE DEF x
<1>5. Active(t) /\ "lock" \in Open /\ "lock" \notin Ended /\ pc[t] \in Open
  BY <1>1 DEF Active, Open, Ended
<1>6. pc'[t] = "lock" /\ txn'[t] = x /\ \A u \in Requests \ {t} : txn'[u] = txn[u]
  BY <1>1 DEF IInv, TypeOK
<1>7. Own(t) /\ codes[t] = "none" /\ UNCHANGED <<users, codes, job, after>>
  BY <1>1, <1>5, OpenCall DEF IInv, tables, past
<1>8. Alone(t)'
  BY <1>4, <1>6, <1>7 DEF Own, Alone, Email
<1>9. Placed(t)'
  BY <1>1, <1>4, <1>6, <1>7 DEF Own, Placed, Email
<1>10. Replaces(t)'
  BY <1>3, <1>4, <1>6, <1>7 DEF Replaces, Earlier, Email
<1>11. Judged(t)'
  BY <1>6 DEF Judged, Accepted
<1>12. Own(t)'
  BY <1>8, <1>9, <1>10, <1>11 DEF Own
<1> QED BY <1>1, <1>4, <1>5, <1>12, QuietStep

LEMMA LockCodesStep ==
  ASSUME IInv, NEW t \in Requests, LockCodes(t), UNCHANGED <<expired, past>>
  PROVE  IInv'
<1> DEFINE taken == txn[t].seen \cap Pending(Email(t))
<1> DEFINE x == [txn[t] EXCEPT !.held = taken]
<1>1. /\ pc[t] = "lock" /\ pc' = [pc EXCEPT ![t] = "issue"] /\ txn' = [txn EXCEPT ![t] = x]
      /\ UNCHANGED <<tables, expired, job, past, tried>>
  BY DEF LockCodes, Goto
<1>2. txn[t] \in Txns /\ taken \in SUBSET Requests
  BY TxnFields DEF IInv, Pending
<1>3. \A c \in taken : codes[c] # "none" /\ Email(c) = Email(t)
  BY DEF Pending, Email
<1>4. Earlier(t) \subseteq taken
  <2>1. after[t] \in SUBSET Requests /\ Earlier(t) \subseteq txn[t].seen
    BY <1>1, TxnFields DEF IInv, Own, Replaces
  <2> QED BY <2>1 DEF Earlier, Pending, Email
<1> HIDE DEF taken
<1>5. /\ x \in Txns /\ x.held = taken
      /\ x.user = txn[t].user /\ x.seen = txn[t].seen /\ x.pick = txn[t].pick
  BY <1>2 DEF Txns
<1> HIDE DEF x
<1>6. Active(t) /\ "issue" \in Open /\ "issue" \notin Ended /\ pc[t] \in Open
  BY <1>1 DEF Active, Open, Ended
<1>7. pc'[t] = "issue" /\ txn'[t] = x /\ \A u \in Requests \ {t} : txn'[u] = txn[u]
  BY <1>1 DEF IInv, TypeOK
<1>8. Own(t) /\ codes[t] = "none" /\ UNCHANGED <<users, codes, job, after>>
  BY <1>1, <1>6, OpenCall DEF IInv, tables, past
<1>9. Alone(t)'
  BY <1>5, <1>7, <1>8 DEF Own, Alone, Email
<1>10. Placed(t)'
  BY <1>1, <1>3, <1>5, <1>7, <1>8 DEF Own, Placed, Email
<1>11. Replaces(t)'
  BY <1>4, <1>5, <1>7, <1>8 DEF Replaces, Earlier, Email
<1>12. Judged(t)'
  BY <1>7 DEF Judged, Accepted
<1>13. Own(t)'
  BY <1>9, <1>10, <1>11, <1>12 DEF Own
<1> QED BY <1>1, <1>5, <1>6, <1>13, QuietStep

-----------------------------------------------------------------------------

LEMMA GuessesFinite ==
  ASSUME NEW c
  PROVE  /\ IsFiniteSet(Guesses(c)) /\ Cardinality(Guesses(c)) \in Nat
         /\ \A S \in SUBSET Guesses(c) : /\ Cardinality(S) \in Nat
                                         /\ Cardinality(S) <= Cardinality(Guesses(c))
<1>1. Guesses(c) \in SUBSET Requests
  BY DEF Guesses
<1>2. IsFiniteSet(Guesses(c))
  BY <1>1, FS_Subset, AccountsAssumption
<1> QED BY <1>2, FS_Subset, FS_CardinalityType

\* The code that is picked is judged: the calls that had ended and issued a code have
\* consumed every earlier one, and the counter holds every guess that was answered.
LEMMA PickCodeStep ==
  ASSUME IInv, NEW t \in Requests, PickCode(t), UNCHANGED <<expired, past>>
  PROVE  IInv'
<1>1. pc[t] = "pick" /\ Active(t) /\ pc[t] \in Open
  BY DEF PickCode, Active, Open
<1>2. CASE Fail(t)
  BY <1>1, <1>2, FailStep
<1>3. ASSUME NEW c \in Latest(Email(t)), ~Exhausted(c),
             NEW where \in {"confirm", "count"},
             txn' = [txn EXCEPT ![t].pick = c], Goto(t, where), UNCHANGED <<tables, job, tried>>
      PROVE  IInv'
  <2> DEFINE x == [txn[t] EXCEPT !.pick = c]
  <2>1. /\ pc' = [pc EXCEPT ![t] = where] /\ txn' = [txn EXCEPT ![t] = x]
        /\ UNCHANGED <<users, codes, attempts, expired, job, begun, after, tried>>
    BY <1>3 DEF Goto, tables, past
  <2>2. c \in Requests /\ codes[c] = "pending" /\ Email(c) = Email(t)
    BY DEF Latest, Pending, Email
  <2>3. txn[t] \in Txns /\ after[t] \in SUBSET Requests
    BY TxnFields DEF IInv
  <2>4. /\ x \in Txns /\ x.pick = c
        /\ x.user = txn[t].user /\ x.seen = txn[t].seen /\ x.held = txn[t].held
    BY <2>2, <2>3 DEF Txns
  <2> HIDE DEF x
  <2>5. where \in Open /\ where \notin Ended
    BY DEF Open, Ended
  <2>6. pc'[t] = where /\ txn'[t] = x /\ \A u \in Requests \ {t} : txn'[u] = txn[u]
    BY <2>1 DEF IInv, TypeOK
  <2>7. Own(t) /\ codes[t] = "none"
    BY <1>1, OpenCall DEF IInv
  <2>8. Alone(t)'
    BY <2>1, <2>4, <2>6, <2>7 DEF Own, Alone, Email
  <2>9. c # NoCode
    BY <2>2, AccountsAssumption
  <2>10. Placed(t)'
    BY <2>1, <2>2, <2>4, <2>6, <2>7, <2>9 DEF Own, Placed, Email
  <2>11. Replaces(t)'
    BY <2>1, <2>6, <2>7 DEF Replaces
  <2>12. \A d \in Issuers(Email(t)) : c \notin after[d]
    <3> SUFFICES ASSUME NEW d \in Issuers(Email(t)), c \in after[d] PROVE FALSE
      OBVIOUS
    <3>1. d \in Requests /\ codes[d] # "none" /\ Email(d) = Email(t)
      BY DEF Issuers, Email
    <3>2. Earlier(d) = {}
      BY <3>1 DEF IInv, Own, Replaces
    <3> QED BY <2>2, <3>1, <3>2 DEF Earlier
  <2>13. Cardinality({u \in after[t] : tried[u] = c}) < MaxAttempts
    <3> DEFINE answered == {u \in after[t] : tried[u] = c}
    <3>1. answered \in SUBSET Guesses(c)
      BY <2>3 DEF Guesses
    <3>2. attempts[c] = Cardinality(Guesses(c)) /\ ~(attempts[c] >= MaxAttempts)
      BY <1>3, <2>2 DEF IInv, Exhausted
    <3>3. Cardinality(answered) \in Nat /\ Cardinality(answered) <= Cardinality(Guesses(c))
          /\ Cardinality(Guesses(c)) \in Nat
      BY <3>1, GuessesFinite
    <3> HIDE DEF answered
    <3>4. Cardinality(answered) < MaxAttempts
      BY <3>2, <3>3, AccountsAssumption
    <3> QED BY <3>4 DEF answered
  <2>14. Judged(t)'
    BY <2>1, <2>4, <2>6, <2>12, <2>13 DEF Judged, Issuers, Email
  <2>15. Own(t)'
    BY <2>8, <2>10, <2>11, <2>14 DEF Own
  <2> QED BY <1>1, <1>3, <2>1, <2>4, <2>5, <2>15, QuietStep
<1>4. CASE ~Fail(t)
  <2>1. PICK c \in Latest(Email(t)) :
          /\ ~Exhausted(c)
          /\ txn' = [txn EXCEPT ![t].pick = c]
          /\ Goto(t, IF job[t].code = c THEN "confirm" ELSE "count")
          /\ UNCHANGED <<tables, job, tried>>
    BY <1>4 DEF PickCode
  <2> QED BY <2>1, <1>3
<1> QED BY <1>2, <1>4

\* A wrong guess is counted, and its call is refused.
LEMMA CountGuessStep ==
  ASSUME IInv, NEW t \in Requests, CountGuess(t), UNCHANGED <<expired, past>>
  PROVE  IInv'
<1> DEFINE c == txn[t].pick
<1>1. /\ pc[t] = "count"
      /\ attempts' = [attempts EXCEPT ![c] = @ + 1]
      /\ tried' = [tried EXCEPT ![t] = c]
      /\ pc' = [pc EXCEPT ![t] = "failed"] /\ txn' = [txn EXCEPT ![t] = Nothing]
      /\ UNCHANGED <<users, codes, expired, job, begun, after>>
  BY DEF CountGuess, Counted, End, Goto, past
<1>2. Active(t) /\ pc[t] \in Open /\ "failed" \in Ended /\ "failed" \notin Open
  BY <1>1 DEF Active, Open, Ended
<1>3. codes[t] = "none" /\ tried[t] = NoCode /\ \A u \in Requests : t \notin after[u]
  BY <1>2, OpenCall
<1>4. c \in Requests /\ c # NoCode
  BY <1>1, TxnFields DEF IInv, Own, Placed
<1> HIDE DEF c
<1>5. /\ pc'[t] = "failed" /\ txn'[t] = Nothing /\ tried'[t] = c
      /\ \A u \in Requests \ {t} : pc'[u] = pc[u] /\ txn'[u] = txn[u] /\ tried'[u] = tried[u]
  BY <1>1 DEF IInv, TypeOK
<1>6. TypeOK'
  <2>1. Nothing \in Txns
    BY DEF Nothing, Txns
  <2>2. txn' \in [Requests -> Txns] /\ pc' \in [Requests -> {"idle"} \cup Open \cup Ended]
    BY <1>1, <1>2, <2>1 DEF IInv, TypeOK
  <2>3. attempts' \in [Requests -> Nat] /\ tried' \in [Requests -> Requests \cup {NoCode}]
    BY <1>1, <1>4 DEF IInv, TypeOK
  <2> QED BY <1>1, <2>2, <2>3 DEF IInv, TypeOK
<1>7. \A u \in Requests : Settled(u)'
  <2> SUFFICES ASSUME NEW u \in Requests PROVE Settled(u)'
    OBVIOUS
  <2>1. Settled(u) /\ after[u] \in SUBSET Requests
    BY TxnFields DEF IInv
  <2>2. \A v \in after[u] : pc'[v] \in Ended
    BY <1>2, <1>5, <2>1 DEF Settled
  <2>3. CASE u = t
    BY <1>1, <1>2, <1>3, <1>5, <2>2, <2>3 DEF Settled
  <2>4. CASE u # t
    BY <1>1, <1>5, <2>1, <2>2, <2>4 DEF Settled, Active
  <2> QED BY <2>3, <2>4
<1>8. \A u \in Requests : Own(u)'
  <2> SUFFICES ASSUME NEW u \in Requests PROVE Own(u)'
    OBVIOUS
  <2>1. CASE u = t
    <3>1. Alone(t)' /\ Placed(t)'
      BY <1>5 DEF Alone, Placed, Nothing
    <3>2. Replaces(t)' /\ Judged(t)'
      BY <1>1, <1>3, <1>5 DEF Replaces, Judged, Accepted
    <3> QED BY <2>1, <3>1, <3>2 DEF Own
  <2>2. CASE u # t
    <3>1. Own(u) /\ after[u] \in SUBSET Requests
      BY TxnFields DEF IInv
    <3>2. Alone(u)'
      BY <1>1, <1>5, <2>2, <3>1 DEF Own, Alone, Email, Nothing
    <3>3. Placed(u)'
      BY <1>1, <1>5, <2>2, <3>1 DEF Own, Placed, Email
    <3>4. Replaces(u)'
      BY <1>1, <1>5, <2>2, <3>1 DEF Own, Replaces, Earlier, Email
    <3>5. txn'[u].pick = txn[u].pick /\ pc'[u] = pc[u] /\ after'[u] = after[u]
      BY <1>1, <1>5, <2>2
    <3>6. {v \in after'[u] : tried'[v] = txn'[u].pick} = {v \in after[u] : tried[v] = txn[u].pick}
      BY <1>3, <1>5, <3>1, <3>5
    <3>7. Issuers(Email(u))' \cap after'[u] = Issuers(Email(u)) \cap after[u]
      BY <1>1 DEF Issuers, Email
    <3>8. Judged(u)'
      BY <1>1, <3>1, <3>5, <3>6, <3>7 DEF Own, Judged, Accepted
    <3> QED BY <3>2, <3>3, <3>4, <3>8 DEF Own
  <2> QED BY <2>1, <2>2
<1>9. \A u \in Requests : Stands(u)'
  BY <1>1 DEF IInv, Stands, Overtaken, Issuers, Email
<1>10. \A d \in Requests : attempts'[d] = Cardinality(Guesses(d)')
  <2> SUFFICES ASSUME NEW d \in Requests PROVE attempts'[d] = Cardinality(Guesses(d)')
    OBVIOUS
  <2>1. attempts[d] = Cardinality(Guesses(d))
    BY DEF IInv
  <2>2. CASE d # c
    <3>1. Guesses(d)' = Guesses(d)
      BY <1>3, <1>5, <2>2, AccountsAssumption DEF Guesses
    <3> QED BY <1>1, <2>1, <2>2, <3>1 DEF IInv, TypeOK
  <2>3. CASE d = c
    <3>1. Guesses(d)' = Guesses(d) \cup {t} /\ t \notin Guesses(d)
      BY <1>3, <1>4, <1>5, <2>3 DEF Guesses
    <3>2. Cardinality(Guesses(d) \cup {t}) = Cardinality(Guesses(d)) + 1
      BY <3>1, GuessesFinite, FS_AddElement
    <3>3. attempts'[d] = attempts[d] + 1
      BY <1>1, <2>3 DEF IInv, TypeOK
    <3> QED BY <2>1, <3>1, <3>2, <3>3
  <2> QED BY <2>2, <2>3
<1> QED BY <1>6, <1>7, <1>8, <1>9, <1>10 DEF IInv

-----------------------------------------------------------------------------

\* A new code is stored, with the user as the transaction leaves it.
LEMMA IssueCodeStep ==
  ASSUME IInv, NEW t \in Requests, IssueCode(t), UNCHANGED <<expired, past>>
  PROVE  IInv'
<1>1. /\ pc[t] = "issue" /\ users' = UsersAfter(t)
      /\ codes' = [Revoked(t) EXCEPT ![t] = "pending"]
      /\ pc' = [pc EXCEPT ![t] = "ok"] /\ txn' = [txn EXCEPT ![t] = Nothing]
      /\ UNCHANGED <<attempts, expired, job, begun, after, tried>>
  BY DEF IssueCode, End, Goto, past
<1>2. Active(t) /\ pc[t] \in Open /\ "ok" \in Ended /\ "ok" \notin Open
  BY <1>1 DEF Active, Open, Ended
<1>3. codes[t] = "none" /\ tried[t] = NoCode /\ \A u \in Requests : t \notin after[u]
  BY <1>2, OpenCall
<1>4. /\ pc'[t] = "ok" /\ txn'[t] = Nothing
      /\ \A u \in Requests \ {t} : pc'[u] = pc[u] /\ txn'[u] = txn[u]
  BY <1>1 DEF IInv, TypeOK
<1>5. /\ codes'[t] = "pending"
      /\ \A c \in Requests \ {t} :
           codes'[c] = IF c \in txn[t].held THEN "consumed" ELSE codes[c]
  BY <1>1 DEF Revoked
<1>6. Own(t) /\ txn[t].held \in SUBSET Requests /\ Email(t) \in Emails
      /\ job[t].password \in Passwords /\ txn[t].user \in {"read", "inserted", "updated"}
      /\ after[t] \in SUBSET Requests
  BY TxnFields DEF IInv
<1>7. \A c \in txn[t].held : codes[c] # "none" /\ Email(c) = Email(t) /\ c # t
  BY <1>3, <1>6 DEF Own, Placed
<1>8. /\ \A c \in Requests : codes'[c] # "none" <=> c = t \/ codes[c] # "none"
      /\ \A c \in Requests \ {t} : codes'[c] = "pending" => codes[c] = "pending"
  BY <1>3, <1>5, <1>7
<1>9. /\ users' \in [Emails -> Users]
      /\ \A f \in Emails : f # Email(t) => users'[f] = users[f]
      /\ txn[t].user = "read" => users' = users
      /\ txn[t].user # "read" => users'[Email(t)].password = job[t].password
      /\ \A f \in Emails : users[f].state = "verified" => users'[f].state = "verified"
  <2>1. users \in [Emails -> Users] /\ users[Email(t)] \in Users
    BY <1>6 DEF IInv, TypeOK
  <2>2. CASE txn[t].user = "read"
    BY <1>1, <2>1, <2>2 DEF UsersAfter
  <2>3. CASE txn[t].user = "inserted"
    <3>1. users' = [users EXCEPT ![Email(t)] = [state |-> "unverified",
                                                password |-> job[t].password]]
      BY <1>1, <2>3 DEF UsersAfter
    <3>2. [state |-> "unverified", password |-> job[t].password] \in Users
      BY <1>6 DEF Users
    <3>3. users[Email(t)].state = "absent"
      BY <1>6, <2>3 DEF Own, Alone
    <3> QED BY <1>6, <2>1, <2>3, <3>1, <3>2, <3>3
  <2>4. CASE txn[t].user = "updated"
    <3> DEFINE new == [users[Email(t)] EXCEPT !.password = job[t].password]
    <3>1. users' = [users EXCEPT ![Email(t)] = new]
      BY <1>1, <2>4 DEF UsersAfter
    <3>2. /\ new \in Users /\ new.password = job[t].password
          /\ new.state = users[Email(t)].state
      BY <1>6, <2>1 DEF Users
    <3> HIDE DEF new
    <3> QED BY <1>6, <2>1, <2>4, <3>1, <3>2
  <2> QED BY <1>6, <2>2, <2>3, <2>4
<1>10. TypeOK'
  <2>1. Nothing \in Txns
    BY DEF Nothing, Txns
  <2>2. txn' \in [Requests -> Txns] /\ pc' \in [Requests -> {"idle"} \cup Open \cup Ended]
    BY <1>1, <1>2, <2>1 DEF IInv, TypeOK
  <2>3. codes' \in [Requests -> {"none", "pending", "consumed"}]
    BY <1>1 DEF IInv, TypeOK, Revoked
  <2> QED BY <1>1, <1>9, <2>2, <2>3 DEF IInv, TypeOK
<1>11. \A u \in Requests : Settled(u)'
  <2> SUFFICES ASSUME NEW u \in Requests PROVE Settled(u)'
    OBVIOUS
  <2>1. Settled(u) /\ after[u] \in SUBSET Requests
    BY TxnFields DEF IInv
  <2>2. \A v \in after[u] : pc'[v] \in Ended
    BY <1>2, <1>4, <2>1 DEF Settled
  <2>3. CASE u = t
    BY <1>1, <1>2, <1>3, <1>4, <2>2, <2>3 DEF Settled
  <2>4. CASE u # t
    BY <1>1, <1>4, <1>8, <2>1, <2>2, <2>4 DEF Settled, Active
  <2> QED BY <2>3, <2>4
<1>12. \A u \in Requests : Own(u)'
  <2> SUFFICES ASSUME NEW u \in Requests PROVE Own(u)'
    OBVIOUS
  <2>1. CASE u = t
    <3>1. Alone(t)' /\ Placed(t)'
      BY <1>4 DEF Alone, Placed, Nothing
    <3>2. Earlier(t)' = {}
      <4> SUFFICES ASSUME NEW c \in after[t], codes'[c] = "pending", Email(c) = Email(t)
                   PROVE  FALSE
        BY <1>1 DEF Earlier, Email
      <4>1. c \in Requests \ {t}
        BY <1>3, <1>6
      <4>2. c \in Earlier(t)
        BY <1>8, <4>1 DEF Earlier
      <4>3. c \in txn[t].held
        BY <1>1, <1>6, <4>2 DEF Own, Replaces
      <4> QED BY <1>5, <4>1, <4>3
    <3>3. Replaces(t)' /\ Judged(t)'
      BY <1>4, <3>2 DEF Replaces, Judged, Accepted
    <3> QED BY <2>1, <3>1, <3>3 DEF Own
  <2>2. CASE u # t
    <3>1. Own(u) /\ after[u] \in SUBSET Requests /\ Email(u) \in Emails
          /\ txn[u].held \in SUBSET Requests /\ txn[u].pick \in Requests \cup {NoCode}
      BY TxnFields DEF IInv
    <3>2. Alone(u)'
      <4>1. txn[u].user # "read" => users'[Email(u)] = users[Email(u)]
        BY <1>9, <2>2, <3>1 DEF Own, Alone
      <4> QED BY <1>1, <1>4, <2>2, <3>1, <4>1 DEF Own, Alone, Email, Nothing
    <3>3. Placed(u)'
      BY <1>1, <1>4, <1>8, <2>2, <3>1 DEF Own, Placed, Email
    <3>4. Earlier(u)' \subseteq Earlier(u)
      BY <1>1, <1>3, <1>8, <3>1 DEF Earlier, Email
    <3>5. Replaces(u)'
      BY <1>1, <1>4, <1>8, <2>2, <3>1, <3>4 DEF Own, Replaces
    <3>6. Issuers(Email(u))' \cap after[u] \subseteq Issuers(Email(u)) \cap after[u]
      BY <1>1, <1>3, <1>8, <3>1 DEF Issuers, Email
    <3>7. Judged(u)'
      BY <1>1, <1>4, <2>2, <3>1, <3>6 DEF Own, Judged, Accepted
    <3> QED BY <3>2, <3>3, <3>5, <3>7 DEF Own
  <2> QED BY <2>1, <2>2
<1>13. \A u \in Requests : Stands(u)'
  <2> SUFFICES ASSUME NEW u \in Requests PROVE Stands(u)'
    OBVIOUS
  <2>1. Stands(u) /\ Email(u) \in Emails
    BY TxnFields DEF IInv
  <2>2. CASE u = t
    <3>1. job[t].op = "register" => users'[Email(t)].password = job[t].password
      BY <1>1, <1>6, <1>9 DEF Own, Placed
    <3> QED BY <1>1, <1>5, <2>2, <3>1 DEF Stands, Email
  <2>3. CASE u # t
    <3>1. Email(u) = Email(t) => Overtaken(u)'
      BY <1>1, <1>3, <1>5, <2>3 DEF Overtaken, Issuers, Email
    <3>2. Overtaken(u) => Overtaken(u)'
      BY <1>1, <1>8 DEF Overtaken, Issuers, Email
    <3>3. CASE Email(u) = Email(t)
      BY <3>1, <3>3 DEF Stands
    <3>4. CASE Email(u) # Email(t)
      <4>1. codes'[u] = codes[u] /\ users'[Email(u)] = users[Email(u)]
        BY <1>5, <1>7, <1>9, <2>1, <2>3, <3>4
      <4> QED BY <1>1, <2>1, <3>2, <4>1 DEF Stands, Email
    <3> QED BY <3>3, <3>4
  <2> QED BY <2>2, <2>3
<1>14. \A c \in Requests : attempts'[c] = Cardinality(Guesses(c)')
  BY <1>1 DEF IInv, Guesses
<1> QED BY <1>10, <1>11, <1>12, <1>13, <1>14 DEF IInv

\* A verified code is consumed, and its user verified.
LEMMA ConsumeCodeStep ==
  ASSUME IInv, NEW t \in Requests, ConsumeCode(t), UNCHANGED <<expired, past>>
  PROVE  IInv'
<1> DEFINE c == txn[t].pick
<1>1. /\ pc[t] = "consume"
      /\ users' = [users EXCEPT ![Email(t)].state = "verified"]
      /\ codes' = [codes EXCEPT ![c] = "consumed"]
      /\ pc' = [pc EXCEPT ![t] = "ok"] /\ txn' = [txn EXCEPT ![t] = Nothing]
      /\ UNCHANGED <<attempts, expired, job, begun, after, tried>>
  BY DEF ConsumeCode, End, Goto, past
<1>2. Active(t) /\ pc[t] \in Open /\ "ok" \in Ended /\ "ok" \notin Open
  BY <1>1 DEF Active, Open, Ended
<1>3. codes[t] = "none" /\ tried[t] = NoCode /\ \A u \in Requests : t \notin after[u]
  BY <1>2, OpenCall
<1>4. Own(t) /\ Email(t) \in Emails /\ txn[t].user # "read"
  BY <1>1, TxnFields DEF IInv, Own, Placed
<1>5. c \in Requests /\ codes[c] # "none" /\ Email(c) = Email(t)
  BY <1>1, TxnFields DEF IInv, Own, Placed
<1> HIDE DEF c
<1>6. /\ pc'[t] = "ok" /\ txn'[t] = Nothing
      /\ \A u \in Requests \ {t} : pc'[u] = pc[u] /\ txn'[u] = txn[u]
  BY <1>1 DEF IInv, TypeOK
<1>7. /\ \A d \in Requests : codes'[d] = IF d = c THEN "consumed" ELSE codes[d]
      /\ \A d \in Requests : codes'[d] # "none" <=> codes[d] # "none"
  BY <1>1, <1>5 DEF IInv, TypeOK
<1>8. /\ users' \in [Emails -> Users] /\ users'[Email(t)].state = "verified"
      /\ \A f \in Emails : f # Email(t) => users'[f] = users[f]
      /\ \A f \in Emails : users'[f].password = users[f].password
      /\ \A f \in Emails : users[f].state = "verified" => users'[f].state = "verified"
  <2> DEFINE new == [users[Email(t)] EXCEPT !.state = "verified"]
  <2>1. users \in [Emails -> Users] /\ users[Email(t)] \in Users
    BY <1>4 DEF IInv, TypeOK
  <2>2. users' = [users EXCEPT ![Email(t)] = new]
    BY <1>1
  <2>3. new \in Users /\ new.state = "verified" /\ new.password = users[Email(t)].password
    BY <2>1 DEF Users
  <2> HIDE DEF new
  <2> QED BY <1>4, <2>1, <2>2, <2>3
<1>9. TypeOK'
  <2>1. Nothing \in Txns
    BY DEF Nothing, Txns
  <2>2. txn' \in [Requests -> Txns] /\ pc' \in [Requests -> {"idle"} \cup Open \cup Ended]
    BY <1>1, <1>2, <2>1 DEF IInv, TypeOK
  <2>3. codes' \in [Requests -> {"none", "pending", "consumed"}]
    BY <1>1 DEF IInv, TypeOK
  <2> QED BY <1>1, <1>8, <2>2, <2>3 DEF IInv, TypeOK
<1>10. \A u \in Requests : Settled(u)'
  <2> SUFFICES ASSUME NEW u \in Requests PROVE Settled(u)'
    OBVIOUS
  <2>1. Settled(u) /\ after[u] \in SUBSET Requests
    BY TxnFields DEF IInv
  <2>2. \A v \in after[u] : pc'[v] \in Ended
    BY <1>2, <1>6, <2>1 DEF Settled
  <2>3. CASE u = t
    BY <1>1, <1>2, <1>3, <1>6, <2>2, <2>3 DEF Settled
  <2>4. CASE u # t
    BY <1>1, <1>6, <1>7, <2>1, <2>2, <2>4 DEF Settled, Active
  <2> QED BY <2>3, <2>4
<1>11. \A u \in Requests : Own(u)'
  <2> SUFFICES ASSUME NEW u \in Requests PROVE Own(u)'
    OBVIOUS
  <2>1. CASE u = t
    <3>1. Alone(t)' /\ Placed(t)'
      BY <1>6 DEF Alone, Placed, Nothing
    <3>2. Replaces(t)' /\ Judged(t)'
      BY <1>3, <1>6, <1>7 DEF Replaces, Judged, Accepted
    <3> QED BY <2>1, <3>1, <3>2 DEF Own
  <2>2. CASE u # t
    <3>1. Own(u) /\ after[u] \in SUBSET Requests /\ Email(u) \in Emails
          /\ txn[u].held \in SUBSET Requests /\ txn[u].pick \in Requests \cup {NoCode}
      BY TxnFields DEF IInv
    <3>2. Alone(u)'
      <4>1. txn[u].user # "read" => users'[Email(u)] = users[Email(u)]
        BY <1>4, <1>8, <2>2, <3>1 DEF Own, Alone
      <4>2. job' = job
        BY <1>1
      <4> QED BY <1>6, <2>2, <3>1, <4>1, <4>2 DEF Own, Alone, Email, Nothing
    <3>3. Placed(u)'
      BY <1>1, <1>6, <1>7, <2>2, <3>1 DEF Own, Placed, Email
    <3>4. Earlier(u)' \subseteq Earlier(u)
      BY <1>1, <1>7, <3>1 DEF Earlier, Email
    <3>5. Replaces(u)'
      BY <1>1, <1>6, <1>7, <2>2, <3>1, <3>4 DEF Own, Replaces
    <3>6. Issuers(Email(u))' = Issuers(Email(u))
      BY <1>1, <1>7 DEF Issuers, Email
    <3>7. Judged(u)'
      BY <1>1, <1>6, <2>2, <3>1, <3>6 DEF Own, Judged, Accepted
    <3> QED BY <3>2, <3>3, <3>5, <3>7 DEF Own
  <2> QED BY <2>1, <2>2
<1>12. \A u \in Requests : Stands(u)'
  <2> SUFFICES ASSUME NEW u \in Requests PROVE Stands(u)'
    OBVIOUS
  <2>1. Stands(u) /\ Email(u) \in Emails
    BY TxnFields DEF IInv
  <2>2. Overtaken(u) => Overtaken(u)'
    BY <1>1, <1>7 DEF Overtaken, Issuers, Email
  <2>3. CASE u = c
    BY <1>1, <1>5, <1>7, <1>8, <2>1, <2>2, <2>3 DEF Stands, Email
  <2>4. CASE u # c
    BY <1>1, <1>7, <1>8, <2>1, <2>2, <2>4 DEF Stands, Email
  <2> QED BY <2>3, <2>4
<1>13. \A d \in Requests : attempts'[d] = Cardinality(Guesses(d)')
  BY <1>1 DEF IInv, Guesses
<1> QED BY <1>9, <1>10, <1>11, <1>12, <1>13 DEF IInv

LEMMA ExpireStep ==
  ASSUME IInv, NEW c \in Requests, Expire(c)
  PROVE  IInv'
<1>1. /\ UNCHANGED <<users, codes, attempts, pc, job, txn, begun, after, tried>>
      /\ expired' = expired \cup {c}
  BY DEF Expire, tables, past
<1>2. TypeOK'
  BY <1>1 DEF IInv, TypeOK
<1>3. \A t \in Requests : Settled(t)' /\ Stands(t)'
  BY <1>1 DEF IInv, Settled, Stands, Active, Overtaken, Issuers, Email
<1>4. \A t \in Requests : Own(t)'
  BY <1>1 DEF IInv, Own, Alone, Placed, Replaces, Earlier, Judged, Accepted, Issuers, Email
<1>5. \A d \in Requests : attempts'[d] = Cardinality(Guesses(d)')
  BY <1>1 DEF IInv, Guesses
<1> QED BY <1>2, <1>3, <1>4, <1>5 DEF IInv

-----------------------------------------------------------------------------

LEMMA NextHolds == IInv /\ [Next]_vars => IInv'
<1> SUFFICES ASSUME IInv, [Next]_vars PROVE IInv'
  OBVIOUS
<1>1. CASE UNCHANGED vars
  <2>1. UNCHANGED <<users, codes, attempts, expired, pc, job, txn, begun, after, tried>>
    BY <1>1 DEF vars
  <2>2. TypeOK'
    BY <2>1 DEF IInv, TypeOK
  <2>3. \A t \in Requests : Settled(t)' /\ Stands(t)'
    BY <2>1 DEF IInv, Settled, Stands, Active, Overtaken, Issuers, Email
  <2>4. \A t \in Requests : Own(t)'
    <3>1. \A t \in Requests : Alone(t)' /\ Placed(t)'
      BY <2>1 DEF IInv, Own, Alone, Placed, Email
    <3>2. \A t \in Requests : Replaces(t)' /\ Judged(t)'
      BY <2>1 DEF IInv, Own, Replaces, Earlier, Judged, Accepted, Issuers, Email
    <3> QED BY <3>1, <3>2 DEF Own
  <2>5. \A d \in Requests : attempts'[d] = Cardinality(Guesses(d)')
    BY <2>1 DEF IInv, Guesses
  <2> QED BY <2>2, <2>3, <2>4, <2>5 DEF IInv
<1>2. CASE Next
  <2>1. PICK t \in Requests : Begin(t) \/ Handle(t) \/ Abort(t) \/ Expire(t)
    BY <1>2 DEF Next
  <2>2. CASE Begin(t)
    BY <2>2, BeginStep
  <2>3. CASE Handle(t)
    <3>1. UNCHANGED <<expired, past>>
      BY <2>3 DEF Handle
    <3>2. CASE ReadUser(t)
      BY <3>1, <3>2, ReadUserStep
    <3>3. CASE Register(t)
      BY <3>1, <3>3, CreateUserStep, UpdateUserStep DEF Register
    <3>4. CASE Issue(t)
      BY <3>1, <3>4, RevokeStep, LockCodesStep, IssueCodeStep DEF Issue
    <3>5. CASE Verify(t)
      BY <3>1, <3>5, PickCodeStep, CountGuessStep, ConfirmUserStep, ConsumeCodeStep DEF Verify
    <3> QED BY <2>3, <3>2, <3>3, <3>4, <3>5 DEF Handle
  <2>4. CASE Abort(t)
    BY <2>4, FailStep DEF Abort
  <2>5. CASE Expire(t)
    BY <2>5, ExpireStep
  <2> QED BY <2>1, <2>2, <2>3, <2>4, <2>5
<1> QED BY <1>1, <1>2

THEOREM Invariance == Spec => []IInv
BY InitHolds, NextHolds, PTL DEF Spec

\* Every variable keeps its type.
THEOREM TypeCorrect == Spec => []TypeOK
<1>1. IInv => TypeOK
  BY DEF IInv
<1> QED BY <1>1, Invariance, PTL

\* No verify that began after the answer to a later register or resend goes through
\* with the code which that call replaced (issue_otp, _latest_pending_verification).
THEOREM Superseded == Spec => []SupersededCodesFail
<1>1. IInv => SupersededCodesFail
  BY DEF IInv, Own, Judged, SupersededCodesFail
<1> QED BY <1>1, Invariance, PTL

\* A verify that began when otp_max_attempts wrong guesses at a code had been answered
\* does not accept it, in whatever sessions they were counted (verify_email_otp).
THEOREM Capped == Spec => []GuessesCapped
<1>1. IInv => GuessesCapped
  BY DEF IInv, Own, Judged, GuessesCapped
<1> QED BY <1>1, Invariance, PTL

\* Unless another call overlapped it, the last call to issue a code for an unverified
\* user has its code honoured, and its password if it was a registration.
THEOREM LastStands == Spec => []LastRegistrationStands
<1>1. IInv => LastRegistrationStands
  <2> SUFFICES ASSUME IInv, NEW t \in Requests,
                      pc[t] = "ok", t \in Issuers(Email(t)),
                      users[Email(t)].state = "unverified",
                      Issuers(Email(t)) \ {t} \subseteq after[t]
               PROVE  /\ Latest(Email(t)) = {t}
                      /\ job[t].op = "register" => users[Email(t)].password = job[t].password
    BY DEF LastRegistrationStands
  <2>1. Stands(t) /\ Replaces(t) /\ codes[t] # "none" /\ ~Overtaken(t)
    BY DEF IInv, Own, Issuers, Overtaken
  <2>2. codes[t] = "pending" /\ Earlier(t) = {}
    BY <2>1 DEF IInv, TypeOK, Stands, Replaces
  <2>3. Pending(Email(t)) = {t}
    <3>1. t \in Pending(Email(t))
      BY <2>2 DEF Pending, Email
    <3>2. ASSUME NEW c \in Pending(Email(t)), c # t
          PROVE  FALSE
      <4>1. c \in Requests /\ codes[c] = "pending" /\ Email(c) = Email(t)
        BY DEF Pending, Email
      <4>2. c \in Issuers(Email(t)) \ {t}
        BY <3>2, <4>1 DEF Issuers, Email
      <4> QED BY <2>2, <4>1, <4>2 DEF Earlier
    <3> QED BY <3>1, <3>2
  <2>4. begun[t] \in Nat
    BY DEF IInv, TypeOK
  <2>5. Latest(Email(t)) = {t}
    BY <2>3, <2>4 DEF Latest
  <2> QED BY <2>1, <2>5 DEF Stands
<1> QED BY <1>1, Invariance, PTL

\* No step takes a verified user back, whatever a call had read before: an INSERT of the
\* address fails, and an UPDATE of the password leaves is_email_verified alone.
THEOREM StaysVerified == Spec => VerifiedForGood
<1>1. IInv /\ [Next]_vars =>
        [\A e \in Emails : users[e].state = "verified" => users'[e].state = "verified"]_vars
  <2> SUFFICES ASSUME IInv, Next,
                      NEW e \in Emails, users[e].state = "verified"
               PROVE  users'[e].state = "verified"
    OBVIOUS
  <2>1. CASE users' = users
    BY <2>1
  <2>2. ASSUME NEW t \in Requests, IssueCode(t)
        PROVE  users'[e].state = "verified"
    <3>1. txn[t].user \in {"read", "inserted", "updated"} /\ Email(t) \in Emails
      BY TxnFields DEF IInv
    <3>2. CASE txn[t].user = "read"
      BY <2>2, <3>2 DEF IssueCode, UsersAfter
    <3>3. CASE txn[t].user = "inserted"
      <4>1. e # Email(t)
        BY <3>3 DEF IInv, Own, Alone
      <4> QED BY <2>2, <3>3, <4>1 DEF IssueCode, UsersAfter
    <3>4. CASE txn[t].user = "updated"
      <4>1. users' = [users EXCEPT ![Email(t)].password = job[t].password]
        BY <2>2, <3>4 DEF IssueCode, UsersAfter
      <4>2. users[Email(t)] \in Users
        BY <3>1 DEF IInv, TypeOK
      <4>3. users \in [Emails -> Users]
        BY DEF IInv, TypeOK
      <4> QED BY <3>1, <4>1, <4>2, <4>3 DEF Users
    <3> QED BY <3>1, <3>2, <3>3, <3>4
  <2>3. ASSUME NEW t \in Requests, ConsumeCode(t)
        PROVE  users'[e].state = "verified"
    <3>1. users \in [Emails -> Users] /\ Email(t) \in Emails
          /\ users' = [users EXCEPT ![Email(t)].state = "verified"]
      BY <2>3, TxnFields DEF IInv, TypeOK, ConsumeCode
    <3> QED BY <3>1 DEF Users
  <2>4. PICK t \in Requests : Begin(t) \/ Handle(t) \/ Abort(t) \/ Expire(t)
    BY DEF Next
  <2>5. CASE Begin(t) \/ Abort(t) \/ Expire(t)
    BY <2>1, <2>5 DEF Begin, Abort, Fail, Expire, tables
  <2>6. CASE Handle(t)
    <3>1. CASE ReadUser(t)
      BY <2>1, <3>1 DEF ReadUser, tables
    <3>2. CASE Register(t)
      BY <2>1, <3>2 DEF Register, CreateUser, UpdateUser, Fail, tables
    <3>3. CASE Issue(t)
      BY <2>1, <2>2, <3>3 DEF Issue, Revoke, LockCodes, tables
    <3>4. CASE Verify(t)
      BY <2>1, <2>3, <3>4 DEF Verify, PickCode, CountGuess, ConfirmUser, Fail, tables
    <3> QED BY <2>6, <3>1, <3>2, <3>3, <3>4 DEF Handle
  <2> QED BY <2>4, <2>5, <2>6
<1> QED BY <1>1, Invariance, PTL DEF Spec, VerifiedForGood

-----------------------------------------------------------------------------
(* Locks. The user's row is written before any code, on every path, and the one *)
(* statement that comes after codes are locked is an INSERT nobody else blocks. *)

\* The UPDATE or INSERT of t needs a row that u has written and not committed.
Waits(t, u) ==
    /\ u # t
    /\ \/ /\ pc[t] \in {"create", "update", "confirm"}
          /\ Active(u) /\ Email(u) = Email(t) /\ txn[u].user # "read"
       \/ pc[t] = "lock" /\ txn[t].seen \cap txn[u].held # {}
       \/ pc[t] \in {"count", "consume"} /\ txn[t].pick \in txn[u].held

Stage(t) ==
    IF pc[t] = "issue" THEN 2
    ELSE IF pc[t] \in {"revoke", "lock", "count", "consume"} THEN 1 ELSE 0

LocksOrdered == \A t, u \in Requests : Waits(t, u) => Active(u) /\ Stage(t) < Stage(u)

SomebodyGoesOn ==
    \A t \in Requests : Active(t) => \E u \in Requests : Active(u) /\ \A w \in Requests : ~Waits(u, w)

\* Where a call may be when it keeps the user's row locked, or codes.
Held(t) ==
    /\ txn[t].user # "read" => pc[t] \in {"revoke", "lock", "issue", "consume"}
    /\ txn[t].held # {} => pc[t] = "issue"

LInv == TypeOK /\ \A t \in Requests : Held(t)

\* Waits is what the guards of the five statements say.
LEMMA WaitsAtGuards ==
  ASSUME NEW t \in Requests
  PROVE  (\E u \in Requests : Waits(t, u))
           <=> \/ pc[t] \in {"create", "update", "confirm"} /\ UserLocked(t)
               \/ pc[t] = "lock" /\ CodesLocked(t, txn[t].seen)
               \/ pc[t] \in {"count", "consume"} /\ CodesLocked(t, {txn[t].pick})
BY DEF Waits, UserLocked, CodesLocked

\* A step of a call leaves what other calls hold, and puts it where it holds its own.
LEMMA HeldStep ==
  ASSUME TypeOK, NEW t \in Requests, Held(t), Begin(t) \/ Handle(t) \/ Abort(t)
  PROVE  /\ Held(t)'
         /\ \A u \in Requests \ {t} : pc'[u] = pc[u] /\ txn'[u] = txn[u]
<1>1. pc \in [Requests -> {"idle"} \cup Open \cup Ended] /\ txn \in [Requests -> Txns]
  BY DEF TypeOK
<1>2. /\ txn[t].user \in {"read", "inserted", "updated"}
      /\ txn[t] = [user |-> txn[t].user, seen |-> txn[t].seen,
                   held |-> txn[t].held, pick |-> txn[t].pick]
  BY <1>1 DEF Txns
<1>3. ASSUME NEW o, End(t, o)
      PROVE  Held(t)' /\ \A u \in Requests \ {t} : pc'[u] = pc[u] /\ txn'[u] = txn[u]
  BY <1>1, <1>3 DEF End, Goto, Nothing, Held
<1>4. ASSUME NEW where, Goto(t, where), UNCHANGED txn,
             txn[t].held # {} => where = "issue",
             txn[t].user # "read" => where \in {"revoke", "lock", "issue", "consume"}
      PROVE  Held(t)' /\ \A u \in Requests \ {t} : pc'[u] = pc[u] /\ txn'[u] = txn[u]
  BY <1>1, <1>4 DEF Goto, Held
<1>5. CASE Begin(t)
  <2>1. txn[t].held = {} /\ txn[t].user = "read"
    BY <1>5 DEF Begin, Held
  <2> QED BY <1>4, <1>5, <2>1 DEF Begin
<1>6. CASE ReadUser(t)
  <2>1. txn[t].held = {} /\ txn[t].user = "read"
    BY <1>6 DEF ReadUser, Held
  <2>2. (\E o : End(t, o)) \/ (\E where : Goto(t, where) /\ UNCHANGED txn)
    BY <1>6 DEF ReadUser, Unknown, Unverified, Verified, Proceed
  <2> QED BY <1>3, <1>4, <2>1, <2>2
<1>7. CASE Register(t)
  <2>1. (\E o : End(t, o))
        \/ (Goto(t, "revoke") /\ \E x : txn' = [txn EXCEPT ![t].user = x])
    BY <1>7 DEF Register, CreateUser, UpdateUser, Fail
  <2>2. txn[t].held = {}
    BY <1>7 DEF Register, CreateUser, UpdateUser, Held
  <2>3. ASSUME NEW x, Goto(t, "revoke"), txn' = [txn EXCEPT ![t].user = x]
        PROVE  Held(t)' /\ \A u \in Requests \ {t} : pc'[u] = pc[u] /\ txn'[u] = txn[u]
    BY <1>1, <1>2, <2>2, <2>3 DEF Goto, Held, Txns
  <2> QED BY <1>3, <2>1, <2>3
<1>8. CASE Issue(t)
  <2>1. CASE Revoke(t)
    BY <1>1, <1>2, <2>1 DEF Revoke, Goto, Held, Txns
  <2>2. CASE LockCodes(t)
    BY <1>1, <1>2, <2>2 DEF LockCodes, Goto, Held, Txns
  <2>3. CASE IssueCode(t)
    BY <1>3, <2>3 DEF IssueCode
  <2> QED BY <1>8, <2>1, <2>2, <2>3 DEF Issue
<1>9. CASE Verify(t)
  <2>1. CASE PickCode(t)
    <3>1. txn[t].held = {} /\ txn[t].user = "read"
      BY <2>1 DEF PickCode, Held
    <3>2. (\E o : End(t, o))
          \/ \E c, where : txn' = [txn EXCEPT ![t].pick = c] /\ Goto(t, where)
      BY <2>1 DEF PickCode, Fail
    <3>3. ASSUME NEW c, NEW where, txn' = [txn EXCEPT ![t].pick = c], Goto(t, where)
          PROVE  Held(t)' /\ \A u \in Requests \ {t} : pc'[u] = pc[u] /\ txn'[u] = txn[u]
      BY <1>1, <1>2, <3>1, <3>3 DEF Goto, Held, Txns
    <3> QED BY <1>3, <3>2, <3>3
  <2>2. CASE ConfirmUser(t)
    BY <1>1, <1>2, <2>2 DEF ConfirmUser, Goto, Held, Txns
  <2>3. CASE CountGuess(t) \/ ConsumeCode(t)
    BY <1>3, <2>3 DEF CountGuess, ConsumeCode
  <2> QED BY <1>9, <2>1, <2>2, <2>3 DEF Verify
<1>10. CASE Abort(t)
  BY <1>3, <1>10 DEF Abort, Fail
<1> QED BY <1>5, <1>6, <1>7, <1>8, <1>9, <1>10 DEF Handle

LEMMA LocksAreHeld == Spec => []LInv
<1>1. Init => LInv
  BY InitHolds DEF IInv, LInv, Held, Init, Nothing
<1>2. LInv /\ IInv' /\ [Next]_vars => LInv'
  <2> SUFFICES ASSUME LInv, IInv', [Next]_vars, NEW u \in Requests PROVE Held(u)'
    BY DEF LInv, IInv
  <2>1. ASSUME NEW t \in Requests, Begin(t) \/ Handle(t) \/ Abort(t) PROVE Held(u)'
    BY <2>1, HeldStep DEF LInv, Held
  <2>2. ASSUME NEW c \in Requests, Expire(c) PROVE Held(u)'
    BY <2>2 DEF LInv, Expire, Held
  <2>3. CASE UNCHANGED vars
    BY <2>3 DEF LInv, vars, Held
  <2> QED BY <2>1, <2>2, <2>3 DEF Next
<1> QED BY <1>1, <1>2, Invariance, PTL DEF Spec

\* register, resend and verify never wait for each other in a circle, with any number of
\* calls and addresses: they lock the user, then the codes, and a call that keeps codes
\* locked waits for nobody. So as long as a call is open, one is that can go on.
THEOREM NoCircle == Spec => [](LocksOrdered /\ SomebodyGoesOn)
<1>1. LInv => LocksOrdered /\ SomebodyGoesOn
  <2> SUFFICES ASSUME LInv PROVE LocksOrdered /\ SomebodyGoesOn
    OBVIOUS
  <2>1. ASSUME NEW t \in Requests, NEW u \in Requests, Waits(t, u)
        PROVE  Active(u) /\ Stage(t) < Stage(u)
    BY <2>1 DEF LInv, Held, Waits, Active, Open, Stage
  <2>2. ASSUME NEW t \in Requests, Active(t)
        PROVE  \E u \in Requests : Active(u) /\ \A w \in Requests : ~Waits(u, w)
    <3>1. \A u, w \in Requests : Waits(u, w) => Active(w) /\ Stage(u) < Stage(w)
      BY <2>1
    <3>2. \A u \in Requests : Stage(u) \in {0, 1, 2}
      BY DEF Stage
    <3> QED BY <2>2, <3>1, <3>2
  <2> QED BY <2>1, <2>2 DEF LocksOrdered, SomebodyGoesOn
<1> QED BY <1>1, LocksAreHeld, PTL
=============================================================================
