------------------------------ MODULE Accounts -----------------------------
(***************************************************************************)
(* Registration and e-mail verification: POST /auth/register, /auth/resend *)
(* and /auth/verify, called by transactions that run at the same time on   *)
(* PostgreSQL at READ COMMITTED.                                           *)
(*                                                                         *)
(* Each action is one statement of a handler and the code that runs until  *)
(* the next one. The last write of a call and its commit are one step. The *)
(* exception to "one call, one transaction" is a wrong guess: verify       *)
(* counts it in a second session, which commits on its own.                *)
(*                                                                         *)
(* A code is named by the request that issues it; a guess is the name of   *)
(* the code it repeats, known once it is mailed, which can be before it is *)
(* committed (see Sessions); a verify that names itself guesses wrong.     *)
(***************************************************************************)
EXTENDS Naturals, FiniteSets

CONSTANTS
  Requests,      \* the calls of a behaviour
  Emails,        \* normalized addresses; an address has one user at most
  Passwords,
  NoCode,
  MaxAttempts    \* otp_max_attempts

ASSUME AccountsAssumption ==
  /\ NoCode \notin Requests
  /\ MaxAttempts \in Nat \ {0}
  /\ IsFiniteSet(Requests)
  /\ Passwords # {} /\ Emails # {}

VARIABLES
  users,      \* the committed user of each address
  codes,      \* the committed verification row of each issuing request
  attempts,   \* wrong guesses counted on it
  expired,    \* codes older than otp_ttl_minutes
  pc,         \* where each request's handler is
  job,        \* what it asks for
  txn,        \* what its open transaction has read, locked and changed
  begun,      \* when it began: created_at of the code it issues
  after,      \* the requests that had ended by then
  tried       \* the code that it guessed wrong

tables == <<users, codes, attempts>>
past   == <<begun, after>>
vars   == <<users, codes, attempts, expired, pc, job, txn, begun, after, tried>>

Users == [state : {"absent", "unverified", "verified"}, password : Passwords]

Jobs == [op : {"register", "resend", "verify"}, email : Emails,
         password : Passwords, code : Requests]

\* user: what it did to the user's row; seen: the codes in the snapshot of its UPDATE;
\* held: those it consumes, and keeps locked; pick: the code that a verify works on.
Txns == [user : {"read", "inserted", "updated"}, seen : SUBSET Requests,
         held : SUBSET Requests, pick : Requests \cup {NoCode}]

Open  == {"begun", "create", "update", "revoke", "lock", "issue", "pick", "count", "confirm",
          "consume"}
Ended == {"ok", "failed"}

Active(t) == pc[t] \in Open

Email(t) == job[t].email

Nothing == [user |-> "read", seen |-> {}, held |-> {}, pick |-> NoCode]

Goto(t, where) == pc' = [pc EXCEPT ![t] = where]

End(t, outcome) == Goto(t, outcome) /\ txn' = [txn EXCEPT ![t] = Nothing] /\ UNCHANGED job

Fail(t) == End(t, "failed") /\ UNCHANGED <<tables, tried>>

-----------------------------------------------------------------------------
(* Rows and locks *)

\* Codes of e that are not consumed, among those committed.
Pending(e) == {c \in Requests : codes[c] = "pending" /\ job[c].email = e}

\* Mutant: any code of the user will do.
LatestAny(e) == {c \in Requests : codes[c] # "none" /\ job[c].email = e}

\* _latest_pending_verification: the pending code with the last created_at.
Latest(e) == {c \in Pending(e) : \A d \in Pending(e) : begun[d] <= begun[c]}

\* The user's row is locked from its UPDATE or INSERT to the end of the transaction.
UserLocked(t) ==
  \E u \in Requests \ {t} : Active(u) /\ Email(u) = Email(t) /\ txn[u].user # "read"

CodesLocked(t, cs) == \E u \in Requests \ {t} : cs \cap txn[u].held # {}

-----------------------------------------------------------------------------
(* A call begins and reads the user *)

Begin(t) ==
  /\ pc[t] = "idle"
  /\ \E op \in {"register", "resend", "verify"}, e \in Emails, p \in Passwords, c \in Requests :
       /\ op = "register" \/ p = job[t].password
       /\ c = t \/ (op = "verify" /\ (codes[c] # "none" \/ pc[c] = "issue"))
       /\ job' = [job EXCEPT ![t] = [op |-> op, email |-> e, password |-> p, code |-> c]]
  /\ begun' = [begun EXCEPT ![t] = 1 + Cardinality({u \in Requests : pc[u] # "idle"})]
  /\ after' = [after EXCEPT ![t] = {u \in Requests : pc[u] \in Ended}]
  /\ Goto(t, "begun")
  /\ UNCHANGED <<tables, expired, txn, tried>>

Proceed(t, where) == Goto(t, where) /\ UNCHANGED <<job, txn>>

\* An address with no user.
Unknown(t) ==
  /\ users[Email(t)].state = "absent"
  /\ \/ job[t].op = "register" /\ Proceed(t, "create")
     \/ job[t].op = "resend"   /\ End(t, "ok")
     \/ job[t].op = "verify"   /\ End(t, "failed")

Unverified(t) ==
  /\ users[Email(t)].state = "unverified"
  /\ \/ job[t].op = "register" /\ Proceed(t, "update")
     \/ job[t].op = "resend"   /\ Proceed(t, "revoke")
     \/ job[t].op = "verify"   /\ Proceed(t, "pick")

Verified(t) ==
  /\ users[Email(t)].state = "verified"
  /\ End(t, IF job[t].op = "register" THEN "failed" ELSE "ok")

ReadUser(t) ==
  /\ pc[t] = "begun"
  /\ Unknown(t) \/ Unverified(t) \/ Verified(t)
  /\ UNCHANGED <<tables, tried>>

-----------------------------------------------------------------------------
(* register_user *)

\* Mutant: no unique constraint on the address.
TakenNever(t) == FALSE

\* The unique constraint on users.email.
Taken(t) == users[Email(t)].state # "absent"

\* The organization and the user are inserted: INSERT waits for an open transaction
\* that has inserted the same address, and fails if it commits.
CreateUser(t) ==
  /\ pc[t] = "create"
  /\ ~ UserLocked(t)
  /\ IF Taken(t)
     THEN Fail(t)
     ELSE /\ txn' = [txn EXCEPT ![t].user = "inserted"]
          /\ Goto(t, "revoke")
          /\ UNCHANGED <<tables, job, tried>>

\* Re-registering: the password is replaced.
UpdateUser(t) ==
  /\ pc[t] = "update"
  /\ ~ UserLocked(t)
  /\ txn' = [txn EXCEPT ![t].user = "updated"]
  /\ Goto(t, "revoke")
  /\ UNCHANGED <<tables, job, tried>>

-----------------------------------------------------------------------------
(* issue_otp, for register_user and resend_otp *)

\* The UPDATE that consumes earlier codes starts: its snapshot.
Revoke(t) ==
  /\ pc[t] = "revoke"
  /\ txn' = [txn EXCEPT ![t].seen = Pending(Email(t))]
  /\ Goto(t, "lock")
  /\ UNCHANGED <<tables, job, tried>>

\* It has the locks; the rows that are still pending are consumed.
LockCodes(t) ==
  /\ pc[t] = "lock"
  /\ ~ CodesLocked(t, txn[t].seen)
  /\ txn' = [txn EXCEPT ![t].held = txn[t].seen \cap Pending(Email(t))]
  /\ Goto(t, "issue")
  /\ UNCHANGED <<tables, job, tried>>

\* The codes as the transaction leaves them.
Revoked(t) == [c \in Requests |-> IF c \in txn[t].held THEN "consumed" ELSE codes[c]]

\* Mutant: a password that was set once stays.
PasswordKept(t) ==
  IF txn[t].user = "inserted"
  THEN [users EXCEPT ![Email(t)] = [state |-> "unverified", password |-> job[t].password]]
  ELSE users

\* The users as the transaction leaves them.
UsersAfter(t) ==
  CASE txn[t].user = "inserted" ->
         [users EXCEPT ![Email(t)] = [state |-> "unverified", password |-> job[t].password]]
    [] txn[t].user = "updated"  -> [users EXCEPT ![Email(t)].password = job[t].password]
    [] txn[t].user = "read"     -> users

\* The new code is inserted, and the middleware commits.
IssueCode(t) ==
  /\ pc[t] = "issue"
  /\ users' = UsersAfter(t)
  /\ codes' = [Revoked(t) EXCEPT ![t] = "pending"]
  /\ End(t, "ok")
  /\ UNCHANGED <<attempts, tried>>

-----------------------------------------------------------------------------
(* verify_email_otp *)

\* Mutant: one guess more.
ExhaustedLate(c) == attempts[c] > MaxAttempts

\* Mutant: attempts are counted down, from the 0 that a row starts with.
CountedDown(n) == n - 1

Counted(n) == n + 1

Exhausted(c) == attempts[c] >= MaxAttempts

\* The latest pending code is judged: none, expired, exhausted, wrong or right.
PickCode(t) ==
  /\ pc[t] = "pick"
  /\ IF Latest(Email(t)) = {}
     THEN Fail(t)
     ELSE \E c \in Latest(Email(t)) :
            IF c \in expired \/ Exhausted(c)
            THEN Fail(t)
            ELSE /\ txn' = [txn EXCEPT ![t].pick = c]
                 /\ Goto(t, IF job[t].code = c THEN "confirm" ELSE "count")
                 /\ UNCHANGED <<tables, job, tried>>

\* A second session counts the wrong guess, in SQL, and commits; the call is refused.
CountGuess(t) ==
  LET c == txn[t].pick
  IN  /\ pc[t] = "count"
      /\ ~ CodesLocked(t, {c})
      /\ attempts' = [attempts EXCEPT ![c] = Counted(@)]
      /\ tried' = [tried EXCEPT ![t] = c]
      /\ End(t, "failed")
      /\ UNCHANGED <<users, codes>>

\* Mutant: the code's row is updated, and locked, before the user's.
ConfirmCodeFirst(t) ==
  /\ pc[t] = "confirm"
  /\ IF txn[t].held = {}
     THEN /\ ~ CodesLocked(t, {txn[t].pick})
          /\ txn' = [txn EXCEPT ![t].held = {txn[t].pick}]
          /\ UNCHANGED pc
     ELSE /\ ~ UserLocked(t)
          /\ txn' = [txn EXCEPT ![t].user = "updated"]
          /\ Goto(t, "consume")
  /\ UNCHANGED <<tables, job, tried>>

\* The flush updates the user's row first,
ConfirmUser(t) ==
  /\ pc[t] = "confirm"
  /\ ~ UserLocked(t)
  /\ txn' = [txn EXCEPT ![t].user = "updated"]
  /\ Goto(t, "consume")
  /\ UNCHANGED <<tables, job, tried>>

\* then the code's, whether it is still pending or not; and the middleware commits.
ConsumeCode(t) ==
  /\ pc[t] = "consume"
  /\ ~ CodesLocked(t, {txn[t].pick})
  /\ users' = [users EXCEPT ![Email(t)].state = "verified"]
  /\ codes' = [codes EXCEPT ![txn[t].pick] = "consumed"]
  /\ End(t, "ok")
  /\ UNCHANGED <<attempts, tried>>

-----------------------------------------------------------------------------

\* The handler fails, the client is gone, the server stops: PostgreSQL rolls back.
Abort(t) == Active(t) /\ Fail(t) /\ UNCHANGED <<expired, past>>

\* Time passes.
Expire(c) ==
  /\ codes[c] = "pending"
  /\ expired' = expired \cup {c}
  /\ UNCHANGED <<tables, pc, job, txn, past, tried>>

Init ==
  /\ LET p == CHOOSE q \in Passwords : TRUE
         e == CHOOSE f \in Emails : TRUE
     IN  /\ users = [f \in Emails |-> [state |-> "absent", password |-> p]]
         /\ job = [t \in Requests |-> [op |-> "resend", email |-> e, password |-> p, code |-> t]]
  /\ codes = [t \in Requests |-> "none"]
  /\ attempts = [t \in Requests |-> 0]
  /\ expired = {}
  /\ pc = [t \in Requests |-> "idle"]
  /\ txn = [t \in Requests |-> Nothing]
  /\ begun = [t \in Requests |-> 0]
  /\ after = [t \in Requests |-> {}]
  /\ tried = [t \in Requests |-> NoCode]

Register(t) == CreateUser(t) \/ UpdateUser(t)
Issue(t)    == Revoke(t) \/ LockCodes(t) \/ IssueCode(t)
Verify(t)   == PickCode(t) \/ CountGuess(t) \/ ConfirmUser(t) \/ ConsumeCode(t)

\* The steps a handler takes once it has begun.
Handle(t) ==
  (ReadUser(t) \/ Register(t) \/ Issue(t) \/ Verify(t)) /\ UNCHANGED <<expired, past>>

Next == \E t \in Requests : Begin(t) \/ Handle(t) \/ Abort(t) \/ Expire(t)

Spec == Init /\ [][Next]_vars

\* A handler that is not waiting for a lock goes on.
FairSpec == Spec /\ \A t \in Requests : WF_vars(Handle(t))

-----------------------------------------------------------------------------
(* Properties *)

TypeOK ==
  /\ users \in [Emails -> Users]
  /\ codes \in [Requests -> {"none", "pending", "consumed"}]
  /\ attempts \in [Requests -> Nat]
  /\ expired \subseteq Requests
  /\ pc \in [Requests -> {"idle"} \cup Open \cup Ended]
  /\ job \in [Requests -> Jobs]
  /\ txn \in [Requests -> Txns]
  /\ begun \in [Requests -> Nat]
  /\ after \in [Requests -> SUBSET Requests]
  /\ tried \in [Requests -> Requests \cup {NoCode}]

Issuers(e) == {t \in Requests : codes[t] # "none" /\ job[t].email = e}
Accepted(t) == pc[t] \in {"confirm", "consume"}

\* A code is not accepted once another call has replaced it: no verify that began
\* after the answer to a later register or resend goes through with the old code.
SupersededCodesFail ==
  \A t \in Requests : Accepted(t) =>
    \A d \in Issuers(Email(t)) \cap after[t] : txn[t].pick \notin after[d]

\* The cap on attempts holds whatever is sent at once: a verify that began when
\* otp_max_attempts wrong guesses at a code had been answered does not accept it.
GuessesCapped ==
  \A t \in Requests : Accepted(t) =>
    Cardinality({u \in after[t] : tried[u] = txn[t].pick}) < MaxAttempts

\* The code in the last mail works: when all other codes of an unverified user come
\* from calls that had ended before the last one began, its code is the one honoured,
\* and the password is the one its caller chose, if it was a registration.
LastRegistrationStands ==
  \A t \in Requests :
    LET e == Email(t)
    IN  /\ pc[t] = "ok" /\ t \in Issuers(e) /\ users[e].state = "unverified"
        /\ Issuers(e) \ {t} \subseteq after[t]
        => /\ Latest(e) = {t}
           /\ job[t].op = "register" => users[e].password = job[t].password

\* A verified user is never replaced by one who has to verify again, not even by a
\* registration that had found the address free.
VerifiedForGood ==
  [][\A e \in Emails : users[e].state = "verified" => users'[e].state = "verified"]_vars

\* Every call that has begun is answered: register locks the user and then the codes,
\* verify too, so no two calls wait for each other.
RequestsEnd == \A t \in Requests : Active(t) ~> pc[t] \in Ended
=============================================================================
