--------------------------- MODULE SessionsProofs ---------------------------
(***************************************************************************)
(* For any number of calls, any pool and any number of crashes: a revoked  *)
(* or expired key stays out, what a caller has been told is in the         *)
(* database, and a mail about what is not is of a call whose commit is to  *)
(* come or has failed.                                                     *)
(*                                                                         *)
(* What makes this inductive is what a call knows before it is answered: a *)
(* call that has read the key as revoked, or came after it was, cannot     *)
(* find it live again; a call that has committed may say so; and a guess   *)
(* that is counted but not answered yet is in the counter too.             *)
(***************************************************************************)
EXTENDS Sessions, FiniteSetTheorems, TLAPS

Typed ==
    /\ key \in [revoked : BOOLEAN, expired : BOOLEAN]
    /\ code \in [attempts : Nat, verified : BOOLEAN]
    /\ registered \subseteq Calls
    /\ calls \in [Calls -> [at : {"idle"} \cup Running \cup Ended, kind : Kinds,
                            loaded : BOOLEAN, late : BOOLEAN]]
    /\ mail \in [Calls -> {"none", "sent", "lost"}]

\* The key is dead for the calls that came too late, and has been since.
Barred(c) ==
    /\ calls[c].loaded => key.revoked
    /\ calls[c].late => /\ ~Live
                        /\ calls[c].kind = "use"
                        /\ calls[c].at \in {"connecting", "connected", "refused", "failed"}

\* What a committed call may say, and what a mail says.
Told(c) ==
    /\ calls[c].at \in {"committed", "ok"} =>
         /\ calls[c].kind = "revoke" => key.revoked
         /\ calls[c].kind = "guess" => code.verified
         /\ calls[c].kind = "register" => c \in registered
    /\ mail[c] = "sent" => /\ calls[c].kind = "register"
                           /\ c \in registered \/ calls[c].at \in {"answered", "undone"}

Guessed == {c \in Calls : calls[c].at \in {"counted", "wrong"}}

IInv ==
    /\ Typed
    /\ \A c \in Calls : Barred(c) /\ Told(c)
    /\ Cardinality(Guessed) <= code.attempts

-----------------------------------------------------------------------------

\* The calls under a name each, for the steps that change one of them.
LEMMA Fields ==
  ASSUME Typed, NEW d \in Calls
  PROVE  /\ calls[d].at \in {"idle"} \cup Running \cup Ended
         /\ calls[d].kind \in Kinds
         /\ calls[d].loaded \in BOOLEAN
         /\ calls[d].late \in BOOLEAN
         /\ calls[d] \in [at : {"idle"} \cup Running \cup Ended, kind : Kinds,
                          loaded : BOOLEAN, late : BOOLEAN]
<1>1. calls[d] \in [at : {"idle"} \cup Running \cup Ended, kind : Kinds,
                    loaded : BOOLEAN, late : BOOLEAN]
  BY DEF Typed
<1> QED BY <1>1

\* A call changes its place and nothing else.
LEMMA Moved ==
  ASSUME Typed, NEW c \in Calls, NEW place \in {"idle"} \cup Running \cup Ended, Goto(c, place)
  PROVE  /\ calls' \in [Calls -> [at : {"idle"} \cup Running \cup Ended, kind : Kinds,
                                  loaded : BOOLEAN, late : BOOLEAN]]
         /\ \A d \in Calls : /\ calls'[d].kind = calls[d].kind
                             /\ calls'[d].loaded = calls[d].loaded
                             /\ calls'[d].late = calls[d].late
                             /\ calls'[d].at = IF d = c THEN place ELSE calls[d].at
<1>1. calls' = [calls EXCEPT ![c] = [calls[c] EXCEPT !.at = place]]
  BY DEF Goto
<1>2. calls[c] \in [at : {"idle"} \cup Running \cup Ended, kind : Kinds,
                    loaded : BOOLEAN, late : BOOLEAN]
  BY Fields
<1>3. /\ [calls[c] EXCEPT !.at = place] \in [at : {"idle"} \cup Running \cup Ended, kind : Kinds,
                                             loaded : BOOLEAN, late : BOOLEAN]
      /\ [calls[c] EXCEPT !.at = place].kind = calls[c].kind
      /\ [calls[c] EXCEPT !.at = place].loaded = calls[c].loaded
      /\ [calls[c] EXCEPT !.at = place].late = calls[c].late
      /\ [calls[c] EXCEPT !.at = place].at = place
  BY <1>2
<1> QED BY <1>1, <1>3 DEF Typed

\* Fewer guesses are fewer to account for.
LEMMA FewerGuesses ==
  ASSUME NEW S \in SUBSET Calls, NEW T \in SUBSET S
  PROVE  /\ Cardinality(S) \in Nat /\ Cardinality(T) \in Nat
         /\ Cardinality(T) <= Cardinality(S)
<1>1. IsFiniteSet(S)
  BY FS_Subset, SessionsAssumption
<1> QED BY <1>1, FS_Subset, FS_CardinalityType

LEMMA GuessesKept ==
  ASSUME IInv, code' = code, Guessed' \subseteq Guessed
  PROVE  Cardinality(Guessed') <= code'.attempts
<1>1. Guessed \in SUBSET Calls
  BY DEF Guessed
<1>2. /\ Cardinality(Guessed) \in Nat /\ Cardinality(Guessed') \in Nat
      /\ Cardinality(Guessed') <= Cardinality(Guessed)
  BY <1>1, FewerGuesses
<1>3. code.attempts \in Nat /\ Cardinality(Guessed) <= code.attempts
  BY DEF IInv, Typed
<1> QED BY <1>2, <1>3

LEMMA InitHolds == Init => IInv
<1> SUFFICES ASSUME Init PROVE IInv
  OBVIOUS
<1>1. PICK mix \in Mixes : calls = [c \in Calls |-> NotMade(mix[c])]
  BY DEF Init
<1>2. \A c \in Calls : mix[c] \in Kinds
  BY SessionsAssumption
<1>3. \A c \in Calls : calls[c] = NotMade(mix[c])
  BY <1>1
<1>4. Typed
  <2>1. \A c \in Calls : NotMade(mix[c]) \in [at : {"idle"} \cup Running \cup Ended, kind : Kinds,
                                           loaded : BOOLEAN, late : BOOLEAN]
    BY <1>2 DEF NotMade
  <2>2. calls \in [Calls -> [at : {"idle"} \cup Running \cup Ended, kind : Kinds,
                            loaded : BOOLEAN, late : BOOLEAN]]
    BY <1>1, <2>1
  <2> QED BY <2>2 DEF Typed, Init
<1>5. \A c \in Calls : Barred(c) /\ Told(c)
  BY <1>3 DEF Barred, Told, NotMade, Init
<1>6. Guessed = {}
  <2>1. \A c \in Calls : NotMade(mix[c]).at = "idle"
    BY DEF NotMade
  <2> QED BY <1>3, <2>1 DEF Guessed
<1>7. Cardinality(Guessed) <= code.attempts
  BY <1>6, FS_EmptySet DEF Init
<1> QED BY <1>4, <1>5, <1>7 DEF IInv

-----------------------------------------------------------------------------

\* A step of one call that commits, counts and promises nothing new.
LEMMA QuietMove ==
  ASSUME IInv, NEW c \in Calls, NEW place \in {"idle"} \cup Running \cup Ended,
         Goto(c, place), UNCHANGED <<Committed, mail>>,
         calls[c].at # "ok",
         calls[c].at = "answered" => place = "undone",
         calls[c].at # "undone",
         place # "committed",
         place = "ok" => calls[c].at = "committed",
         place \in {"counted", "wrong"} => calls[c].at = "counted",
         calls[c].late => place \in {"connecting", "connected", "refused", "failed"}
  PROVE  IInv'
<1>1. /\ calls' \in [Calls -> [at : {"idle"} \cup Running \cup Ended, kind : Kinds,
                               loaded : BOOLEAN, late : BOOLEAN]]
      /\ \A d \in Calls : /\ calls'[d].kind = calls[d].kind
                          /\ calls'[d].loaded = calls[d].loaded
                          /\ calls'[d].late = calls[d].late
                          /\ calls'[d].at = IF d = c THEN place ELSE calls[d].at
  BY Moved DEF IInv
<1>2. Typed'
  BY <1>1 DEF IInv, Typed, Committed
<1>3. \A d \in Calls : Barred(d)'
  BY <1>1 DEF IInv, Barred, Live, Committed
<1>4. \A d \in Calls : Told(d)'
  BY <1>1 DEF IInv, Told, Committed
<1>5. Guessed' \subseteq Guessed
  BY <1>1 DEF Guessed
<1>6. Cardinality(Guessed') <= code'.attempts
  BY <1>5, GuessesKept DEF Committed
<1> QED BY <1>2, <1>3, <1>4, <1>6 DEF IInv

LEMMA StartStep ==
  ASSUME IInv, NEW c \in Calls, Start(c)
  PROVE  IInv'
<1> DEFINE late == /\ calls[c].kind = "use"
                   /\ \/ key.expired
                      \/ \E d \in Calls : calls[d].kind = "revoke" /\ calls[d].at = "ok"
<1>1. calls' = [calls EXCEPT ![c] = [calls[c] EXCEPT !.at = "connecting", !.late = late]]
  BY DEF Start
<1>2. late => ~Live /\ calls[c].kind = "use"
  BY DEF IInv, Told, Live
<1>3. late \in BOOLEAN
  OBVIOUS
<1> HIDE DEF late
<1>4. /\ [calls[c] EXCEPT !.at = "connecting", !.late = late]
           \in [at : {"idle"} \cup Running \cup Ended, kind : Kinds,
               loaded : BOOLEAN, late : BOOLEAN]
      /\ [calls[c] EXCEPT !.at = "connecting", !.late = late].at = "connecting"
      /\ [calls[c] EXCEPT !.at = "connecting", !.late = late].kind = calls[c].kind
      /\ [calls[c] EXCEPT !.at = "connecting", !.late = late].loaded = calls[c].loaded
      /\ [calls[c] EXCEPT !.at = "connecting", !.late = late].late = late
  BY <1>3, Fields DEF IInv, Running, Waiting
<1>5. /\ calls' \in [Calls -> [at : {"idle"} \cup Running \cup Ended, kind : Kinds,
                               loaded : BOOLEAN, late : BOOLEAN]]
      /\ \A d \in Calls : d # c => calls'[d] = calls[d]
      /\ calls'[c].at = "connecting" /\ calls'[c].kind = calls[c].kind
      /\ calls'[c].loaded = calls[c].loaded /\ calls'[c].late = late
  BY <1>1, <1>4 DEF IInv, Typed
<1>6. UNCHANGED <<key, code, registered, mail>> /\ calls[c].at = "idle"
  BY DEF Start, Committed
<1>7. Typed'
  BY <1>5, <1>6 DEF IInv, Typed
<1>8. \A d \in Calls : Barred(d)'
  <2> SUFFICES ASSUME NEW d \in Calls PROVE Barred(d)'
    OBVIOUS
  <2>1. Barred(d)
    BY DEF IInv
  <2>2. CASE d = c
    BY <1>2, <1>5, <1>6, <2>1, <2>2 DEF Barred, Live
  <2>3. CASE d # c
    BY <1>5, <1>6, <2>1, <2>3 DEF Barred, Live
  <2> QED BY <2>2, <2>3
<1>9. \A d \in Calls : Told(d)'
  BY <1>5, <1>6 DEF IInv, Told
<1>10. Guessed' \subseteq Guessed
  BY <1>5 DEF Guessed
<1>11. Cardinality(Guessed') <= code'.attempts
  BY <1>6, <1>10, GuessesKept
<1> QED BY <1>7, <1>8, <1>9, <1>11 DEF IInv

LEMMA ConnectStep ==
  ASSUME IInv, NEW c \in Calls, Connect(c)
  PROVE  IInv'
<1>1. CASE calls[c].at = "connecting" /\ Goto(c, "connected")
  BY <1>1, QuietMove DEF Connect, Running
<1>2. CASE calls[c].at = "side" /\ Goto(c, "counting")
  <2>1. ~calls[c].late
    BY <1>2 DEF IInv, Barred
  <2> QED BY <1>2, <2>1, QuietMove DEF Connect, Running
<1> QED BY <1>1, <1>2 DEF Connect

LEMMA PoolTimeoutStep ==
  ASSUME IInv, NEW c \in Calls, PoolTimeout(c)
  PROVE  IInv'
BY QuietMove DEF PoolTimeout, Waiting, Ended

\* A call that came too late finds the key dead; one that reads the key as
\* revoked has it from the committed row.
LEMMA ReadStep ==
  ASSUME IInv, NEW c \in Calls, Read(c)
  PROVE  IInv'
<1>1. calls[c].at = "connected" /\ UNCHANGED <<Committed, mail>>
  BY DEF Read
<1>2. calls[c].late => ~Live /\ calls[c].kind = "use"
  BY DEF IInv, Barred
<1>3. CASE calls[c].kind = "use" /\ Goto(c, IF Live THEN "working" ELSE "refused")
  <2>1. CASE Live
    BY <1>1, <1>2, <1>3, <2>1, QuietMove DEF Running
  <2>2. CASE ~Live
    BY <1>1, <1>3, <2>2, QuietMove DEF Ended
  <2> QED BY <2>1, <2>2
<1>4. CASE /\ calls[c].kind = "revoke"
           /\ calls' = [calls EXCEPT ![c].at = "working", ![c].loaded = key.revoked]
  <2> DEFINE after == [calls[c] EXCEPT !.at = "working", !.loaded = key.revoked]
  <2>1. calls' = [calls EXCEPT ![c] = after]
    BY <1>4
  <2>2. key.revoked \in BOOLEAN
    BY DEF IInv, Typed
  <2>3. /\ after \in [at : {"idle"} \cup Running \cup Ended, kind : Kinds,
                      loaded : BOOLEAN, late : BOOLEAN]
        /\ after.at = "working" /\ after.loaded = key.revoked
        /\ after.kind = calls[c].kind /\ after.late = calls[c].late
    BY <2>2, Fields DEF IInv, Running
  <2> HIDE DEF after
  <2>4. /\ calls' \in [Calls -> [at : {"idle"} \cup Running \cup Ended, kind : Kinds,
                                 loaded : BOOLEAN, late : BOOLEAN]]
        /\ \A d \in Calls : d # c => calls'[d] = calls[d]
        /\ calls'[c] = after
    BY <2>1, <2>3 DEF IInv, Typed
  <2>5. UNCHANGED <<key, code, registered, mail>>
    BY <1>1 DEF Committed
  <2>6. Typed'
    BY <2>4, <2>5 DEF IInv, Typed
  <2>7. \A d \in Calls : Barred(d)'
    <3> SUFFICES ASSUME NEW d \in Calls PROVE Barred(d)'
      OBVIOUS
    <3>1. Barred(d)
      BY DEF IInv
    <3>2. CASE d = c
      BY <1>2, <1>4, <2>3, <2>4, <2>5, <3>2 DEF Barred
    <3>3. CASE d # c
      BY <2>4, <2>5, <3>1, <3>3 DEF Barred, Live
    <3> QED BY <3>2, <3>3
  <2>8. \A d \in Calls : Told(d)'
    BY <1>1, <2>3, <2>4, <2>5 DEF IInv, Told
  <2>9. Guessed' \subseteq Guessed
    BY <2>3, <2>4 DEF Guessed
  <2>10. Cardinality(Guessed') <= code'.attempts
    BY <2>5, <2>9, GuessesKept
  <2> QED BY <2>6, <2>7, <2>8, <2>10 DEF IInv
<1>5. CASE Goto(c, "refused")
  BY <1>1, <1>5, QuietMove DEF Ended
<1>6. CASE calls[c].kind = "guess" /\ \E place \in {"working", "side"} : Goto(c, place)
  <2>1. PICK place \in {"working", "side"} : Goto(c, place)
    BY <1>6
  <2> QED BY <1>1, <1>2, <1>6, <2>1, QuietMove DEF Running, Waiting
<1>7. CASE calls[c].kind \in {"register", "guess"} /\ Goto(c, "working")
  BY <1>1, <1>2, <1>7, QuietMove DEF Running
<1> QED BY <1>3, <1>4, <1>5, <1>6, <1>7 DEF Read

LEMMA CountGuessStep ==
  ASSUME IInv, NEW c \in Calls, CountGuess(c)
  PROVE  IInv'
<1>1. /\ calls' \in [Calls -> [at : {"idle"} \cup Running \cup Ended, kind : Kinds,
                               loaded : BOOLEAN, late : BOOLEAN]]
      /\ \A d \in Calls : /\ calls'[d].kind = calls[d].kind
                          /\ calls'[d].loaded = calls[d].loaded
                          /\ calls'[d].late = calls[d].late
                          /\ calls'[d].at = IF d = c THEN "counted" ELSE calls[d].at
  <2>1. "counted" \in {"idle"} \cup Running \cup Ended
    BY DEF Running
  <2> QED BY <2>1, Moved DEF IInv, CountGuess
<1>2. code.attempts \in Nat /\ code'.attempts = code.attempts + 1 /\ code'.verified = code.verified
  BY DEF IInv, Typed, CountGuess
<1>3. Typed'
  BY <1>1 DEF IInv, Typed, CountGuess
<1>4. \A d \in Calls : Barred(d)'
  BY <1>1 DEF IInv, Barred, Live, CountGuess
<1>5. \A d \in Calls : Told(d)'
  BY <1>1, <1>2 DEF IInv, Told, CountGuess
<1>6. Cardinality(Guessed') <= code'.attempts
  <2>1. Guessed \in SUBSET Calls /\ Guessed' = Guessed \cup {c} /\ c \notin Guessed
    BY <1>1 DEF Guessed, CountGuess
  <2>2. IsFiniteSet(Guessed)
    BY <2>1, FS_Subset, SessionsAssumption
  <2>3. Cardinality(Guessed') = Cardinality(Guessed) + 1 /\ Cardinality(Guessed) \in Nat
    BY <2>1, <2>2, FS_AddElement, FS_CardinalityType
  <2> QED BY <1>2, <2>3 DEF IInv
<1> QED BY <1>3, <1>4, <1>5, <1>6 DEF IInv

LEMMA AnswerWrongStep ==
  ASSUME IInv, NEW c \in Calls, AnswerWrong(c)
  PROVE  IInv'
<1>1. ~calls[c].late
  BY DEF IInv, Barred, AnswerWrong
<1> QED BY <1>1, QuietMove DEF AnswerWrong, Ended

LEMMA FlushStep ==
  ASSUME IInv, NEW c \in Calls, Flush(c)
  PROVE  IInv'
<1>1. ~calls[c].late
  BY DEF IInv, Barred, Flush
<1> QED BY <1>1, QuietMove DEF Flush, Running

LEMMA MakeResponseStep ==
  ASSUME IInv, NEW c \in Calls, MakeResponse(c)
  PROVE  IInv'
<1>1. ~calls[c].late
  BY DEF IInv, Barred, MakeResponse
<1> QED BY <1>1, QuietMove DEF MakeResponse, Running

\* No commit brings a revoked key back, and what the call says is written with it.
LEMMA CommitStep ==
  ASSUME IInv, NEW c \in Calls, Commit(c)
  PROVE  IInv'
<1>1. /\ calls' \in [Calls -> [at : {"idle"} \cup Running \cup Ended, kind : Kinds,
                               loaded : BOOLEAN, late : BOOLEAN]]
      /\ \A d \in Calls : /\ calls'[d].kind = calls[d].kind
                          /\ calls'[d].loaded = calls[d].loaded
                          /\ calls'[d].late = calls[d].late
                          /\ calls'[d].at = IF d = c THEN "committed" ELSE calls[d].at
  <2>1. "committed" \in {"idle"} \cup Running \cup Ended
    BY DEF Running
  <2> QED BY <2>1, Moved DEF IInv, Commit
<1>2. calls[c].at = "answered" /\ mail' = mail
  BY DEF Commit
<1>3. /\ key' \in [revoked : BOOLEAN, expired : BOOLEAN]
      /\ key.revoked => key'.revoked
      /\ key'.expired = key.expired
      /\ calls[c].kind = "revoke" => key'.revoked
  <2>1. key \in [revoked : BOOLEAN, expired : BOOLEAN] /\ (calls[c].loaded => key.revoked)
    BY DEF IInv, Typed, Barred
  <2>2. key' = KeyAfter(c)
    BY DEF Commit
  <2>3. CASE calls[c].kind = "revoke" /\ ~calls[c].loaded
    <3>1. key' = [key EXCEPT !.revoked = TRUE]
      BY <2>2, <2>3 DEF KeyAfter
    <3> QED BY <2>1, <3>1
  <2>4. CASE ~(calls[c].kind = "revoke" /\ ~calls[c].loaded)
    <3>1. key' = key
      BY <2>2, <2>4 DEF KeyAfter
    <3> QED BY <2>1, <2>4, <3>1
  <2> QED BY <2>3, <2>4
<1>4. /\ code' \in [attempts : Nat, verified : BOOLEAN]
      /\ code'.attempts = code.attempts
      /\ code.verified => code'.verified
      /\ calls[c].kind = "guess" => code'.verified
  <2>1. code \in [attempts : Nat, verified : BOOLEAN]
    BY DEF IInv, Typed
  <2>2. CASE calls[c].kind = "guess"
    <3>1. code' = [code EXCEPT !.verified = TRUE]
      BY <2>2 DEF Commit
    <3> QED BY <2>1, <3>1
  <2>3. CASE calls[c].kind # "guess"
    BY <2>1, <2>3 DEF Commit
  <2> QED BY <2>2, <2>3
<1>5. /\ registered' \subseteq Calls /\ registered \subseteq registered'
      /\ calls[c].kind = "register" => c \in registered'
  BY DEF IInv, Typed, Commit
<1>6. Typed'
  BY <1>1, <1>2, <1>3, <1>4, <1>5 DEF IInv, Typed
<1>7. \A d \in Calls : Barred(d)'
  <2> SUFFICES ASSUME NEW d \in Calls PROVE Barred(d)'
    OBVIOUS
  <2>1. Barred(d)
    BY DEF IInv
  <2>2. (~Live) => ~Live'
    BY <1>3 DEF Live
  <2> QED BY <1>1, <1>2, <1>3, <2>1, <2>2 DEF Barred
<1>8. \A d \in Calls : Told(d)'
  <2> SUFFICES ASSUME NEW d \in Calls PROVE Told(d)'
    OBVIOUS
  <2>1. Told(d)
    BY DEF IInv
  <2>2. CASE d = c
    BY <1>1, <1>2, <1>3, <1>4, <1>5, <2>1, <2>2 DEF Told
  <2>3. CASE d # c
    BY <1>1, <1>2, <1>3, <1>4, <1>5, <2>1, <2>3 DEF Told
  <2> QED BY <2>2, <2>3
<1>9. Guessed' = Guessed
  BY <1>1, <1>2 DEF Guessed
<1>10. Cardinality(Guessed') <= code'.attempts
  BY <1>4, <1>9 DEF IInv
<1> QED BY <1>6, <1>7, <1>8, <1>10 DEF IInv

LEMMA AbortStep ==
  ASSUME IInv, NEW c \in Calls, Abort(c)
  PROVE  IInv'
<1>1. CASE calls[c].at \in {"connected", "working", "flushed"} /\ Goto(c, "failed")
  BY <1>1, QuietMove DEF Abort, Ended
<1>2. CASE calls[c].at = "answered" /\ Goto(c, "undone")
  <2>1. ~calls[c].late
    BY <1>2 DEF IInv, Barred
  <2> QED BY <1>2, <2>1, QuietMove DEF Abort, Ended
<1> QED BY <1>1, <1>2 DEF Abort

LEMMA RespondStep ==
  ASSUME IInv, NEW c \in Calls, Respond(c)
  PROVE  IInv'
<1>1. ~calls[c].late
  BY DEF IInv, Barred, Respond
<1> QED BY <1>1, QuietMove DEF Respond, Ended

\* The mail goes out once the response is made: before the commit, after it, or
\* after it has failed.
LEMMA SendMailStep ==
  ASSUME IInv, NEW c \in Calls, SendMail(c)
  PROVE  IInv'
<1>1. UNCHANGED <<key, code, registered, calls>> /\ calls[c].kind = "register"
  BY DEF SendMail, Committed
<1>2. mail \in [Calls -> {"none", "sent", "lost"}] /\ mail' = [mail EXCEPT ![c] = "sent"]
  BY DEF IInv, Typed, SendMail
<1>3. Typed'
  BY <1>1, <1>2 DEF IInv, Typed
<1>4. \A d \in Calls : Barred(d)'
  BY <1>1 DEF IInv, Barred, Live
<1>5. c \in registered \/ calls[c].at \in {"answered", "undone"}
  BY DEF IInv, Told, SendMail, MailDue
<1>6. \A d \in Calls : Told(d)'
  BY <1>1, <1>2, <1>5 DEF IInv, Told
<1>7. Cardinality(Guessed') <= code'.attempts
  BY <1>1 DEF IInv, Guessed
<1> QED BY <1>3, <1>4, <1>6, <1>7 DEF IInv

LEMMA ExpireStep == IInv /\ Expire => IInv'
<1> SUFFICES ASSUME IInv, Expire PROVE IInv'
  OBVIOUS
<1>1. /\ key' \in [revoked : BOOLEAN, expired : BOOLEAN]
      /\ key'.revoked = key.revoked /\ key'.expired
      /\ UNCHANGED <<code, registered, calls, mail>>
  BY DEF IInv, Typed, Expire
<1>2. Typed'
  BY <1>1 DEF IInv, Typed
<1>3. \A d \in Calls : Barred(d)' /\ Told(d)'
  BY <1>1 DEF IInv, Barred, Told, Live
<1>4. Cardinality(Guessed') <= code'.attempts
  BY <1>1 DEF IInv, Guessed
<1> QED BY <1>2, <1>3, <1>4 DEF IInv

\* A crash ends calls before they are answered and loses mail: it takes back
\* nothing that is committed.
CutOff(d) ==
    IF calls[d].at = "answered" THEN "undone"
    ELSE IF calls[d].at \in Running THEN "failed" ELSE calls[d].at

LEMMA CrashStep == IInv /\ Crash => IInv'
<1> SUFFICES ASSUME IInv, Crash PROVE IInv'
  OBVIOUS
<1>1. UNCHANGED <<key, code, registered>>
  BY DEF Crash, Committed
<1>2. \A d \in Calls :
        /\ calls'[d] \in [at : {"idle"} \cup Running \cup Ended, kind : Kinds,
                          loaded : BOOLEAN, late : BOOLEAN]
        /\ calls'[d].kind = calls[d].kind
        /\ calls'[d].loaded = calls[d].loaded
        /\ calls'[d].late = calls[d].late
        /\ calls'[d].at = CutOff(d)
  <2> SUFFICES ASSUME NEW d \in Calls
               PROVE  /\ calls'[d] \in [at : {"idle"} \cup Running \cup Ended, kind : Kinds,
                                        loaded : BOOLEAN, late : BOOLEAN]
                      /\ calls'[d].kind = calls[d].kind
                      /\ calls'[d].loaded = calls[d].loaded
                      /\ calls'[d].late = calls[d].late
                      /\ calls'[d].at = CutOff(d)
    OBVIOUS
  <2>1. calls'[d] = IF calls[d].at = "answered" THEN [calls[d] EXCEPT !.at = "undone"]
                    ELSE IF calls[d].at \in Running THEN [calls[d] EXCEPT !.at = "failed"]
                    ELSE calls[d]
    BY DEF Crash
  <2>2. calls[d] \in [at : {"idle"} \cup Running \cup Ended, kind : Kinds,
                     loaded : BOOLEAN, late : BOOLEAN]
    BY Fields DEF IInv
  <2> QED BY <2>1, <2>2 DEF CutOff, Ended, Running
<1>3. calls' \in [Calls -> [at : {"idle"} \cup Running \cup Ended, kind : Kinds,
                           loaded : BOOLEAN, late : BOOLEAN]]
  <2>1. calls' = [d \in Calls |-> calls'[d]]
    BY DEF Crash
  <2> QED BY <1>2, <2>1
<1>4. /\ mail' \in [Calls -> {"none", "sent", "lost"}]
      /\ \A d \in Calls : mail'[d] = "sent" => mail[d] = "sent"
  BY DEF IInv, Typed, Crash
<1>5. Typed'
  BY <1>1, <1>3, <1>4 DEF IInv, Typed
<1>6. \A d \in Calls : Barred(d)'
  <2> SUFFICES ASSUME NEW d \in Calls PROVE Barred(d)'
    OBVIOUS
  <2>1. Barred(d)
    BY DEF IInv
  <2> QED BY <1>1, <1>2, <2>1 DEF Barred, Live, CutOff, Running, Waiting
<1>7. \A d \in Calls : Told(d)'
  <2> SUFFICES ASSUME NEW d \in Calls PROVE Told(d)'
    OBVIOUS
  <2>1. Told(d)
    BY DEF IInv
  <2>2. calls'[d].at \in {"committed", "ok"} => calls'[d].at = "ok" /\ calls[d].at = "ok"
    BY <1>2 DEF CutOff, Running
  <2>3. calls[d].at \in {"answered", "undone"} => calls'[d].at = "undone"
    BY <1>2 DEF CutOff, Running, Waiting
  <2> QED BY <1>1, <1>2, <1>4, <2>1, <2>2, <2>3 DEF Told
<1>8. Guessed' \subseteq Guessed
  BY <1>2 DEF Guessed, CutOff
<1>9. Cardinality(Guessed') <= code'.attempts
  BY <1>1, <1>8, GuessesKept
<1> QED BY <1>5, <1>6, <1>7, <1>9 DEF IInv

-----------------------------------------------------------------------------

LEMMA NextHolds == IInv /\ [Next]_vars => IInv'
<1> SUFFICES ASSUME IInv, [Next]_vars PROVE IInv'
  OBVIOUS
<1>1. CASE UNCHANGED vars
  BY <1>1 DEF vars, IInv, Typed, Barred, Told, Guessed, Live
<1>2. CASE Expire \/ Crash
  BY <1>2, ExpireStep, CrashStep
<1>3. CASE \E c \in Calls : Start(c) \/ Step(c) \/ Abort(c) \/ SendMail(c)
  <2>1. PICK c \in Calls : Start(c) \/ Step(c) \/ Abort(c) \/ SendMail(c)
    BY <1>3
  <2>2. CASE Step(c)
    BY <2>2, ConnectStep, PoolTimeoutStep, ReadStep, CountGuessStep, AnswerWrongStep,
       FlushStep, MakeResponseStep, CommitStep, RespondStep DEF Step
  <2>3. CASE Start(c) \/ Abort(c) \/ SendMail(c)
    BY <2>3, StartStep, AbortStep, SendMailStep
  <2> QED BY <2>1, <2>2, <2>3
<1> QED BY <1>1, <1>2, <1>3 DEF Next

THEOREM Invariance == Spec => []IInv
BY InitHolds, NextHolds, PTL DEF Spec

\* Once a revocation has been answered the key is revoked for good, and no call
\* that comes later, or after the key has expired, gets past its authentication.
THEOREM RevokedStands == Spec => []RevokedForGood
<1>1. IInv => RevokedForGood
  BY DEF IInv, Barred, Told, RevokedForGood
<1> QED BY <1>1, Invariance, PTL

\* No answer speaks of what is not in the database, and no mail of a registration
\* that a handler refused: one that is not in the database is of a call that has
\* made its response, whose commit is to come or has failed.
THEOREM AnswersHold == Spec => []AnswersStand
<1>1. IInv => AnswersStand
  <2> SUFFICES ASSUME IInv PROVE AnswersStand
    OBVIOUS
  <2> DEFINE wrong == {c \in Calls : calls[c].at = "wrong"}
  <2>1. Guessed \in SUBSET Calls /\ wrong \in SUBSET Guessed
    BY DEF Guessed
  <2>2. /\ Cardinality(Guessed) \in Nat /\ Cardinality(wrong) \in Nat
        /\ Cardinality(wrong) <= Cardinality(Guessed)
    BY <2>1, FewerGuesses
  <2>3. Cardinality(Guessed) <= code.attempts /\ code.attempts \in Nat
    BY DEF IInv, Typed
  <2>4. Cardinality(wrong) <= code.attempts
    BY <2>2, <2>3
  <2>5. \A c \in Calls : Told(c)
    BY DEF IInv
  <2> QED BY <2>4, <2>5 DEF AnswersStand, Told
<1> QED BY <1>1, Invariance, PTL

-----------------------------------------------------------------------------
(* The pool: how many connections are out, and when nobody can go on. *)

Holders == {c \in Calls : calls[c].at \in {"connected", "working", "flushed", "answered", "side",
                                    "counting", "counted"}}
Doubles == {c \in Calls : calls[c].at = "counting"}

Bounded == InUse <= PoolSize

LEMMA InUseCounts ==
  /\ InUse = Cardinality(Holders) + Cardinality(Doubles)
  /\ IsFiniteSet(Holders) /\ IsFiniteSet(Doubles)
  /\ Cardinality(Holders) \in Nat /\ Cardinality(Doubles) \in Nat
<1>1. Holders = {c \in Calls : Connections(c) >= 1} /\ Doubles = {c \in Calls : Connections(c) = 2}
  BY DEF Holders, Doubles, Connections
<1>2. IsFiniteSet(Holders) /\ IsFiniteSet(Doubles)
  BY FS_Subset, SessionsAssumption DEF Holders, Doubles
<1> QED BY <1>1, <1>2, FS_CardinalityType DEF InUse

LEMMA InUseCountsNext == InUse' = Cardinality(Holders') + Cardinality(Doubles')
<1>1. /\ Holders' = {c \in Calls : Connections(c)' >= 1}
      /\ Doubles' = {c \in Calls : Connections(c)' = 2}
  BY DEF Holders, Doubles, Connections
<1> QED BY <1>1 DEF InUse

\* Connections that are given back, or kept, leave the pool within its bound.
LEMMA NobodyConnects ==
  ASSUME Bounded, Holders' \subseteq Holders, Doubles' \subseteq Doubles
  PROVE  Bounded'
<1>1. InUse = Cardinality(Holders) + Cardinality(Doubles)
  BY InUseCounts
<1>2. InUse' = Cardinality(Holders') + Cardinality(Doubles')
  BY InUseCountsNext
<1>3. /\ Cardinality(Holders') <= Cardinality(Holders)
      /\ Cardinality(Doubles') <= Cardinality(Doubles)
      /\ IsFiniteSet(Holders') /\ IsFiniteSet(Doubles')
  BY InUseCounts, FS_Subset
<1>4. Cardinality(Holders') \in Nat /\ Cardinality(Doubles') \in Nat
  BY <1>3, FS_CardinalityType
<1> QED BY <1>1, <1>2, <1>3, <1>4, InUseCounts, SessionsAssumption DEF Bounded

LEMMA OneConnects ==
  ASSUME Typed, NEW c \in Calls, Connect(c)
  PROVE  Bounded'
<1>1. InUse = Cardinality(Holders) + Cardinality(Doubles) /\ InUse < PoolSize
  BY InUseCounts DEF Connect
<1>2. InUse' = Cardinality(Holders') + Cardinality(Doubles')
  BY InUseCountsNext
<1>3. CASE calls[c].at = "connecting" /\ Goto(c, "connected")
  <2>1. \A d \in Calls : calls'[d].at = IF d = c THEN "connected" ELSE calls[d].at
    BY <1>3, Moved DEF Running
  <2>2. Holders' = Holders \cup {c} /\ Doubles' = Doubles
    BY <1>3, <2>1 DEF Holders, Doubles
  <2>3. c \notin Holders
    BY <1>3 DEF Holders
  <2>4. Cardinality(Holders') = Cardinality(Holders) + 1
    BY <2>2, <2>3, FS_AddElement, InUseCounts
  <2> QED BY <1>1, <1>2, <2>2, <2>4, InUseCounts, SessionsAssumption DEF Bounded
<1>4. CASE calls[c].at = "side" /\ Goto(c, "counting")
  <2>1. \A d \in Calls : calls'[d].at = IF d = c THEN "counting" ELSE calls[d].at
    BY <1>4, Moved DEF Running
  <2>2. Holders' = Holders /\ Doubles' = Doubles \cup {c}
    BY <1>4, <2>1 DEF Holders, Doubles
  <2>3. c \notin Doubles
    BY <1>4 DEF Doubles
  <2>4. Cardinality(Doubles') = Cardinality(Doubles) + 1
    BY <2>2, <2>3, FS_AddElement, InUseCounts
  <2> QED BY <1>1, <1>2, <2>2, <2>4, InUseCounts, SessionsAssumption DEF Bounded
<1> QED BY <1>3, <1>4 DEF Connect

\* Every other step of a call ends it, or takes it from a place to one where it holds
\* no more connections.
LEMMA OthersConnect ==
  ASSUME Typed, Bounded, NEW c \in Calls,
         Start(c) \/ (Step(c) /\ ~Connect(c)) \/ Abort(c) \/ SendMail(c)
  PROVE  Bounded'
<1> DEFINE Once == {"connected", "working", "flushed", "answered", "side", "counted"}
<1> DEFINE Free == {"committed", "refused", "failed", "undone", "wrong", "ok"}
<1>1. ASSUME NEW place \in Free \cup Once, Goto(c, place),
             place \in Free \/ calls[c].at \in Once \cup {"counting"}
      PROVE  Bounded'
  <2>1. \A d \in Calls : calls'[d].at = IF d = c THEN place ELSE calls[d].at
    BY <1>1, Moved DEF Running, Waiting, Ended
  <2>2. Holders' \subseteq Holders /\ Doubles' \subseteq Doubles
    BY <1>1, <2>1 DEF Holders, Doubles
  <2> QED BY <2>2, NobodyConnects
<1>2. CASE Start(c)
  <2>1. \A d \in Calls : d # c => calls'[d] = calls[d]
    BY <1>2 DEF Typed, Start
  <2>2. calls'[c].at = "connecting"
    <3>1. PICK b : calls' = [calls EXCEPT ![c].at = "connecting", ![c].late = b]
      BY <1>2, Zenon DEF Start
    <3> QED BY <3>1, Fields DEF Typed
  <2>3. Holders' \subseteq Holders /\ Doubles' \subseteq Doubles
    BY <2>1, <2>2 DEF Holders, Doubles
  <2> QED BY <2>3, NobodyConnects
<1>3. CASE SendMail(c)
  BY <1>3, NobodyConnects DEF SendMail, Holders, Doubles
<1>4. CASE PoolTimeout(c) \/ AnswerWrong(c) \/ Respond(c) \/ Abort(c) \/ Commit(c)
  BY <1>1, <1>4 DEF PoolTimeout, AnswerWrong, Respond, Abort, Commit
<1>5. CASE CountGuess(c) \/ Flush(c) \/ MakeResponse(c)
  BY <1>1, <1>5 DEF CountGuess, Flush, MakeResponse
<1>6. CASE Read(c)
  <2>1. CASE \E place \in {"working", "refused", "side"} : Goto(c, place)
    BY <1>1, <1>6, <2>1 DEF Read
  <2>2. CASE calls' = [calls EXCEPT ![c].at = "working", ![c].loaded = key.revoked]
    <3>1. calls[c].at = "connected" /\ calls'[c].at = "working"
          /\ \A d \in Calls : d # c => calls'[d] = calls[d]
      BY <1>6, <2>2, Fields DEF Typed, Read
    <3>2. Holders' \subseteq Holders /\ Doubles' \subseteq Doubles
      BY <3>1 DEF Holders, Doubles
    <3> QED BY <3>2, NobodyConnects
  <2> QED BY <1>6, <2>1, <2>2 DEF Read
<1> QED BY <1>2, <1>3, <1>4, <1>5, <1>6 DEF Step

\* However many calls come at once, and however many of them open a second session to
\* count a wrong guess, no more than pool_size + max_overflow connections are out
\* (session.py:22-39).
THEOREM PoolKept == Spec => []Bounded
<1>1. Init => Bounded
  <2> SUFFICES ASSUME Init PROVE Bounded
    OBVIOUS
  <2>1. \A c \in Calls : calls[c].at = "idle"
    BY DEF Init, NotMade
  <2>2. Holders = {} /\ Doubles = {}
    BY <2>1 DEF Holders, Doubles
  <2> QED BY <2>2, InUseCounts, FS_EmptySet, SessionsAssumption DEF Bounded
<1>2. IInv /\ Bounded /\ [Next]_vars => Bounded'
  <2> SUFFICES ASSUME IInv, Bounded, [Next]_vars PROVE Bounded'
    OBVIOUS
  <2>1. CASE UNCHANGED vars \/ Expire
    BY <2>1, NobodyConnects DEF vars, Expire, Holders, Doubles
  <2>2. CASE Crash
    <3>1. \A d \in Calls : calls'[d].at = CutOff(d)
      BY <2>2, Fields DEF IInv, Crash, CutOff
    <3>2. Holders' \subseteq Holders /\ Doubles' \subseteq Doubles
      BY <3>1 DEF Holders, Doubles, CutOff
    <3> QED BY <3>2, NobodyConnects
  <2>3. ASSUME NEW c \in Calls, Start(c) \/ Step(c) \/ Abort(c) \/ SendMail(c) PROVE Bounded'
    BY <2>3, OneConnects, OthersConnect DEF IInv
  <2> QED BY <2>1, <2>2, <2>3 DEF Next
<1> QED BY <1>1, <1>2, Invariance, PTL DEF Spec

\* A call waits for a connection, or for the call that has written the key's row.
Waits(c) ==
    \/ calls[c].at \in Waiting /\ InUse >= PoolSize
    \/ /\ calls[c].at = "working" /\ WritesKey(c)
       /\ \E d \in Calls \ {c} : HoldsKey(d)

\* There are calls, and each of them waits.
Stalled ==
    /\ \E c \in Calls : calls[c].at \in Running
    /\ \A c \in Calls : calls[c].at \in Running => Waits(c)

StalledByGuesses ==
    Stalled => /\ InUse = PoolSize
               /\ \A c \in Holders : calls[c].kind = "guess" /\ calls[c].at = "side"

\* Only a guess opens a second session.
Sided == \A c \in Calls : calls[c].at = "side" => calls[c].kind = "guess"

\* All calls wait at once in one case only: every connection of the pool is held by a
\* wrong guess that waits for a second one. It is what the pool's timeout is needed
\* for, and a mix of calls with no wrong guess never needs it (accounts.py:161-172).
THEOREM OnlyGuessesStall == Spec => []StalledByGuesses
<1>1. Init => Sided
  BY DEF Init, Sided, NotMade
<1>2. IInv /\ Sided /\ [Next]_vars => Sided'
  <2> SUFFICES ASSUME IInv, Sided, [Next]_vars, NEW d \in Calls PROVE (calls[d].at = "side" => calls[d].kind = "guess")'
    BY DEF Sided
  <2>0. Typed
    BY DEF IInv
  <2>1. ASSUME NEW c \in Calls, NEW place \in Running \cup Ended, Goto(c, place),
               place = "side" => calls[c].kind = "guess"
        PROVE  (calls[d].at = "side" => calls[d].kind = "guess")'
    <3>1. /\ calls'[d].kind = calls[d].kind
          /\ calls'[d].at = IF d = c THEN place ELSE calls[d].at
      BY <2>0, <2>1, Moved
    <3> QED BY <2>1, <3>1 DEF Sided
  <2>2. ASSUME NEW c \in Calls, Start(c)
        PROVE  (calls[d].at = "side" => calls[d].kind = "guess")'
    <3>1. PICK b : calls' = [calls EXCEPT ![c].at = "connecting", ![c].late = b]
      BY <2>2, Zenon DEF Start
    <3> QED BY <2>0, <3>1, Fields DEF Typed, Sided
  <2>3. ASSUME NEW c \in Calls, Read(c)
        PROVE  (calls[d].at = "side" => calls[d].kind = "guess")'
    <3>1. CASE calls' = [calls EXCEPT ![c].at = "working", ![c].loaded = key.revoked]
      BY <2>0, <3>1, Fields DEF Typed, Sided
    <3> QED BY <2>1, <2>3, <3>1 DEF Read, Running, Waiting, Ended
  <2>4. ASSUME NEW c \in Calls, Connect(c) \/ PoolTimeout(c) \/ CountGuess(c) \/ AnswerWrong(c)
                                \/ Flush(c) \/ MakeResponse(c) \/ Commit(c) \/ Respond(c) \/ Abort(c)
        PROVE  (calls[d].at = "side" => calls[d].kind = "guess")'
    BY <2>1, <2>4 DEF Connect, PoolTimeout, CountGuess, AnswerWrong, Flush, MakeResponse, Commit,
                      Respond, Abort, Running, Waiting, Ended
  <2>5. CASE Expire \/ UNCHANGED vars \/ \E c \in Calls : SendMail(c)
    BY <2>5 DEF Expire, vars, SendMail, Sided
  <2>6. CASE Crash
    BY <2>0, <2>6, Fields DEF Crash, Sided
  <2> QED BY <2>2, <2>3, <2>4, <2>5, <2>6 DEF Next, Step
<1>3. IInv /\ Sided /\ Bounded => StalledByGuesses
  <2> SUFFICES ASSUME IInv, Sided, Bounded, Stalled
               PROVE  /\ InUse = PoolSize
                      /\ \A c \in Holders : calls[c].kind = "guess" /\ calls[c].at = "side"
    BY DEF StalledByGuesses
  <2>1. \A c \in Calls : ~HoldsKey(c)
    BY DEF Stalled, Waits, HoldsKey, Running, Waiting
  <2>2. \A c \in Calls : calls[c].at \in Running => calls[c].at \in Waiting /\ InUse >= PoolSize
    BY <2>1 DEF Stalled, Waits
  <2>3. InUse \in Nat
    BY InUseCounts
  <2> QED BY <2>2, <2>3, SessionsAssumption DEF Stalled, Bounded, Holders, Running, Waiting, Sided
<1> QED BY <1>1, <1>2, <1>3, Invariance, PoolKept, PTL DEF Spec
=============================================================================
