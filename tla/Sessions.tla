------------------------------ MODULE Sessions ------------------------------
(***************************************************************************)
(* The database sessions of the calls: one connection of a bounded pool    *)
(* for each call, taken at its first statement and kept until the          *)
(* transaction ends, a second one for the call that counts a wrong guess;  *)
(* the API key the calls authenticate with, while it is used, revoked and  *)
(* expires; the commit before the answer, the mail from the moment the     *)
(* response is made; and the process stopping at any point.                *)
(***************************************************************************)
EXTENDS Naturals, FiniteSets

CONSTANTS
    Calls,          \* the calls, each made once
    Mixes,          \* what the calls are, a function from Calls to Kinds for each mix
    PoolSize,       \* db_pool_size + db_max_overflow
    MaxAttempts,    \* otp_max_attempts
    MaxCrashes      \* how often the process stops (a bound)

\* use: any call with the API key; revoke: the key is revoked, by a user with
\* a session token or by a call that authenticates with the key itself; guess:
\* a verification with a right or a wrong code.
Kinds == {"use", "revoke", "guess", "register"}

ASSUME SessionsAssumption ==
    /\ IsFiniteSet(Calls) /\ Mixes \subseteq [Calls -> Kinds]
    /\ PoolSize \in Nat \ {0} /\ MaxAttempts \in Nat \ {0} /\ MaxCrashes \in Nat

VARIABLES
    key,        \* the committed row of the API key
    code,       \* the committed row of the code that was mailed
    registered, \* the registrations that are committed
    calls,      \* the calls under way
    mail,       \* the mail of each registration
    crashes     \* how often the process has stopped

vars == <<key, code, registered, calls, mail, crashes>>

Waiting == {"connecting", "side"}
Running == Waiting \cup {"connected", "working", "flushed", "answered", "counting", "counted",
                        "committed"}
\* undone: the handler was through, but its transaction is rolled back.
Ended == {"ok", "wrong", "refused", "failed", "undone"}

\* loaded: revoked_at as the call has read it; late: the call came after a
\* revocation was answered or the key had expired.
NotMade(kind) == [at |-> "idle", kind |-> kind, loaded |-> FALSE, late |-> FALSE]

Init ==
    /\ key = [revoked |-> FALSE, expired |-> FALSE]
    /\ code = [attempts |-> 0, verified |-> FALSE]
    /\ registered = {}
    /\ \E mix \in Mixes : calls = [c \in Calls |-> NotMade(mix[c])]
    /\ mail = [c \in Calls |-> "none"]
    /\ crashes = 0

-----------------------------------------------------------------------------
(* The pool                                                                *)

Goto(c, place) == calls' = [calls EXCEPT ![c].at = place]
Committed == <<key, code, registered>>

Connections(c) ==
    CASE calls[c].at \in {"connected", "working", "flushed", "answered", "side", "counted"} -> 1
      [] calls[c].at = "counting" -> 2
      [] OTHER -> 0
InUse == Cardinality({c \in Calls : Connections(c) >= 1})
           + Cardinality({c \in Calls : Connections(c) = 2})

Start(c) ==
    /\ calls[c].at = "idle"
    /\ calls' = [calls EXCEPT ![c].at = "connecting",
         ![c].late = /\ calls[c].kind = "use"
                     /\ \/ key.expired
                        \/ \E d \in Calls : calls[d].kind = "revoke" /\ calls[d].at = "ok"]
    /\ UNCHANGED <<Committed, mail, crashes>>

Connect(c) ==
    /\ InUse < PoolSize
    /\ \/ calls[c].at = "connecting" /\ Goto(c, "connected")
       \/ calls[c].at = "side" /\ Goto(c, "counting")
    /\ UNCHANGED <<Committed, mail, crashes>>

\* Mutant: a call waits for a connection for as long as it takes.
WaitForEver(c) == FALSE /\ UNCHANGED vars

\* A call that has waited for pool_timeout fails, and gives up what it holds.
PoolTimeout(c) ==
    /\ calls[c].at \in Waiting /\ InUse >= PoolSize
    /\ Goto(c, "failed")
    /\ UNCHANGED <<Committed, mail, crashes>>

-----------------------------------------------------------------------------
(* The handlers                                                            *)

\* An API key is valid until it is revoked, and through the instant at which
\* it expires.
Live == ~key.revoked /\ ~key.expired

\* The first statements: who calls, and what the call is about.
Read(c) ==
    /\ calls[c].at = "connected"
    /\ \/ /\ calls[c].kind = "use"
          /\ Goto(c, IF Live THEN "working" ELSE "refused")
       \/ /\ calls[c].kind = "revoke"
          /\ \/ calls' = [calls EXCEPT ![c].at = "working", ![c].loaded = key.revoked]
             \/ ~Live /\ Goto(c, "refused")
       \/ /\ calls[c].kind = "guess" /\ ~code.verified
          /\ \/ code.attempts >= MaxAttempts /\ Goto(c, "refused")
             \/ code.attempts < MaxAttempts /\ \E place \in {"working", "side"} : Goto(c, place)
       \/ /\ calls[c].kind = "register" \/ (calls[c].kind = "guess" /\ code.verified)
          /\ Goto(c, "working")
    /\ UNCHANGED <<Committed, mail, crashes>>

\* The wrong guess is counted by a transaction of its own, which commits.
CountGuess(c) ==
    /\ calls[c].at = "counting"
    /\ code' = [code EXCEPT !.attempts = @ + 1]
    /\ Goto(c, "counted")
    /\ UNCHANGED <<key, registered, mail, crashes>>

AnswerWrong(c) ==
    /\ calls[c].at = "counted"
    /\ Goto(c, "wrong")
    /\ UNCHANGED <<Committed, mail, crashes>>

\* The row of the key is written by the call that uses it (last_used_at) and
\* by the one that revokes it (revoked_at): each waits for the other's end.
WritesKey(c) == calls[c].kind \in {"use", "revoke"}
HoldsKey(c) == WritesKey(c) /\ calls[c].at \in {"flushed", "answered"}
Flush(c) ==
    /\ calls[c].at = "working"
    /\ WritesKey(c) => \A d \in Calls \ {c} : ~HoldsKey(d)
    /\ Goto(c, "flushed")
    /\ UNCHANGED <<Committed, mail, crashes>>

\* The handler has made its response. The middleware that commits (db_session)
\* is the outermost of three layers: it gets the status first and waits with
\* the rest, but the layers inside it take the whole response at once.
MakeResponse(c) ==
    /\ calls[c].at = "flushed"
    /\ Goto(c, "answered")
    /\ UNCHANGED <<Committed, mail, crashes>>

\* Mutant: a flush writes every column as it was read.
WholeRow(c) ==
    IF calls[c].kind = "revoke" THEN [key EXCEPT !.revoked = TRUE]
    ELSE IF calls[c].kind = "use" THEN [key EXCEPT !.revoked = calls[c].loaded]
    ELSE key

\* A flush writes the columns the call has changed, and no other.
KeyAfter(c) ==
    IF calls[c].kind = "revoke" /\ ~calls[c].loaded THEN [key EXCEPT !.revoked = TRUE] ELSE key

Commit(c) ==
    /\ calls[c].at = "answered"
    /\ key' = KeyAfter(c)
    /\ code' = IF calls[c].kind = "guess" THEN [code EXCEPT !.verified = TRUE] ELSE code
    /\ registered' = IF calls[c].kind = "register" THEN registered \cup {c} ELSE registered
    /\ Goto(c, "committed")
    /\ UNCHANGED <<mail, crashes>>

\* A handler refuses the request (4xx) or fails (5xx), or the commit fails:
\* everything the call wrote is rolled back.
Abort(c) ==
    /\ \/ calls[c].at \in {"connected", "working", "flushed"} /\ Goto(c, "failed")
       \/ calls[c].at = "answered" /\ Goto(c, "undone")
    /\ UNCHANGED <<Committed, mail, crashes>>

Respond(c) ==
    /\ calls[c].at = "committed"
    /\ Goto(c, "ok")
    /\ UNCHANGED <<Committed, mail, crashes>>

\* Mutant: the mail goes out while the handler runs.
MailAtOnce(c) == calls[c].at \in {"flushed", "answered", "undone", "committed", "ok"}

\* The mail is a background task of the response, run once that has been sent: to
\* the layer around the route, which does not wait for db_session to commit. A
\* thread that sends it is not stopped when the commit fails.
MailDue(c) == calls[c].at \in {"answered", "undone", "committed", "ok"}

SendMail(c) ==
    /\ calls[c].kind = "register" /\ MailDue(c) /\ mail[c] = "none"
    /\ mail' = [mail EXCEPT ![c] = "sent"]
    /\ UNCHANGED <<Committed, calls, crashes>>

-----------------------------------------------------------------------------
(* The environment                                                         *)

Expire ==
    /\ ~key.expired
    /\ key' = [key EXCEPT !.expired = TRUE]
    /\ UNCHANGED <<code, registered, calls, mail, crashes>>

\* The process stops and starts again: the calls under way are cut off, the
\* database rolls their transactions back, and mail not yet sent is lost.
Crash ==
    /\ crashes < MaxCrashes
    /\ crashes' = crashes + 1
    /\ calls' = [c \in Calls |->
         IF calls[c].at = "answered" THEN [calls[c] EXCEPT !.at = "undone"]
         ELSE IF calls[c].at \in Running THEN [calls[c] EXCEPT !.at = "failed"]
         ELSE calls[c]]
    /\ mail' = [c \in Calls |-> IF calls[c].kind = "register" /\ MailDue(c) /\ mail[c] = "none"
                                 THEN "lost" ELSE mail[c]]
    /\ UNCHANGED Committed

Step(c) ==
    \/ Connect(c) \/ PoolTimeout(c) \/ Read(c) \/ CountGuess(c) \/ AnswerWrong(c)
    \/ Flush(c) \/ MakeResponse(c) \/ Commit(c) \/ Respond(c)

Next ==
    \/ \E c \in Calls : Start(c) \/ Step(c) \/ Abort(c) \/ SendMail(c)
    \/ Expire \/ Crash

Spec == Init /\ [][Next]_vars

\* The event loop runs every call that can go on, the pool gives up on a call
\* that waits too long, the model and the database answer or time out.
FairSpec == Spec /\ \A c \in Calls : WF_vars(Step(c))

-----------------------------------------------------------------------------
(* Properties                                                              *)

\* Once a revocation has been answered the key stays revoked, whatever calls
\* that were authenticated before are still to commit; and after that, or after
\* the key has expired, no call that comes gets past its authentication
\* (auth.py:36-50, api_keys.py:64-72).
RevokedForGood ==
    \A c \in Calls :
        /\ calls[c].kind = "revoke" /\ calls[c].at = "ok" => key.revoked
        /\ calls[c].late => calls[c].at \in {"connecting", "connected", "refused", "failed"}

\* What a caller has been told is so, across crashes and failing commits: a
\* wrong guess has been counted, a verified address is verified, and a
\* registration that is answered is in the database. A mail is sent of no
\* registration that a handler refused: one that is not in the database is of
\* a call whose commit is still to come, or has failed; auth.py:73-74 says that there
\* is no such mail, which the code does not keep
\* (main.py:65-112, accounts.py:161-172, auth.py:61-75).
AnswersStand ==
    /\ \A c \in Calls : calls[c].at = "ok" =>
         /\ calls[c].kind = "guess" => code.verified
         /\ calls[c].kind = "register" => c \in registered
    /\ Cardinality({c \in Calls : calls[c].at = "wrong"}) <= code.attempts
    /\ \A c \in Calls : mail[c] = "sent" =>
         c \in registered \/ calls[c].at \in {"answered", "undone"}

\* Every call is answered: wrong guesses, which hold one connection while they
\* wait for a second, do not wait for each other for ever
\* (session.py:22-39, accounts.py:166).
CallsEnd == \A c \in Calls : calls[c].at = "connecting" ~> calls[c].at \in Ended
=============================================================================
