# Verification of the AP invoice service

TLA+ specifications of the accounts-payable service in `src/ap_invoice`: a FastAPI
application (with an MCP server over the same services) that takes in invoices, checks
them for duplicates, has a language model decide them against the vendor's policy
documents, and keeps an audit trail. TLC checks the specifications on small instances;
TLAPS proves the main safety results for every value of the constants.

Paths below are relative to `src/ap_invoice` unless they start with `docs/`.

## 1. Inventory

| Part | State | Operations | What is hard | What makes it correct |
|---|---|---|---|---|
| Invoice pipeline (`services/orchestrator.py`, `llm_decision.py`, `ingestion.py`, `workflow.py`, `api/routes/invoices.py`, MCP tools) | `invoices`, `processing_events` | create, ingest, process, reprocess, set status, delete | calls wait seconds for a model in mid-transaction; retries; idempotency keys; work on rows others change or delete | one invoice per key; trail explains the row; no half-processed invoice; duplicates rejected; every call ends |
| Vendor master, policy versions (`api/routes/vendors.py`, `models/vendor.py`) | `vendors`, `vendor_policies` | create, update, delete vendor; create policy version; auto-onboarding | read-max-then-insert without a lock | one active policy, the latest; versions without gaps |
| Accounts (`services/accounts.py`, `api/routes/auth.py`) | `users`, `organizations`, `email_verifications` | register, resend, verify, login | concurrent codes; count of wrong guesses in a second session; lock order | superseded codes fail; guesses capped; verified for good |
| Policy documents, rules, retrieval (`api/routes/policies.py`, `services/rag.py`, `policy_compiler.py`) | `vendor_documents`, `policy_chunks`, `policy_rules` | upload (replace, embed, compile), delete, approve, reject, search | concurrent replaces; a decision that runs while the policy is replaced; failure of the compiling model; circles of locks | a stored policy is whole; what is replaced is gone; a decision never mixes old and new |
| Algorithms (`duplicate_detector.py`, `payment_terms.py`, `completeness.py`, `vendor_normaliser.py`, `_parsing.py`) | none | pure functions | boundaries, rounding, ends of months, ambiguous numbers | a copy is found whichever came first; dates and amounts add up; more fields are never worse |
| API keys, sessions (`services/auth.py`, `core/security.py`, `core/jwt.py`, `api/deps.py`) | `api_keys` | issue, revoke, authenticate (stamps `last_used_at`) | a row lock held over the model call | revoked and expired keys are refused |
| Database sessions (`db/session.py`, `api/main.py`) | the pool | open, commit before the reply, roll back | a call that needs a second connection while it keeps one | no call waits for ever |
| Reporting, listings (`services/reporting.py`, list routes and tools) | none | counts, aging, spend, discounts, pages | two statements, two snapshots; pages shift while rows come and go | each invoice in one group; a client that walks through the pages misses nothing |
| Extraction (`services/extraction/`) | none | collect, decode, show pages, extract | page and image limits over several files | the model sees the beginning of the invoice |
| Model providers (`services/llm/providers.py`) | none | resolve, clean the schema, call | three switches over the provider; recursive rewriting of schemas | they agree; Gemini gets a plain schema |
| E-mail, REST shell, schemas, migrations | none | mail once the response is made | the mail may go out before the commit, a stop may lose it | no mail for what a handler refused |

How they interact: every REST call and every MCP tool opens one database session. The
middleware commits it before the reply is sent when the status is below 400 and rolls
it back otherwise (`api/main.py:89-112`); MCP tools use `session_scope`
(`db/session.py:62-77`). There is no other shared state, no queue and no worker: all
interaction goes through the rows of PostgreSQL at READ COMMITTED. That is why every
module with state here is a set of open transactions over a few tables, and the others are pure operators.

## 2. Modules

| Module | What it is |
|---|---|
| `InvoiceData` | the values of the invoice columns, the statuses and what each decision makes of them |
| `InvoiceLedger` | abstract: what the tables of invoices and events promise to a reader, without requests |
| `InvoicePipeline` | the calls on invoices as overlapping transactions |
| `InvoiceClaims` | three statements of the documentation that the code does not keep |
| `InvoicePipelineProofs` | theorems about `InvoicePipeline`: types, keys, trails, refinement |
| `InvoiceHistoryProofs` | theorems about what its overlapping calls mean to each other, and in which order they lock |
| `PolicyHistory` | abstract: versions 1, 2, 3, ... of a vendor's policy, the last one active |
| `PolicyVersions` | the statements of `_create_policy_version` run by overlapping calls, creation and deletion of vendors |
| `PolicyVersionsProofs` | theorems about `PolicyVersions` and its locks |
| `Accounts` | register, resend and verify as overlapping transactions with row locks |
| `AccountClaims` | two statements of the docstrings that the code does not keep when calls overlap |
| `AccountsProofs` | theorems about `Accounts` and its locks |
| `PolicyDocuments` | upload, replacement and deletion of policy documents, judgement of rules, retrieval, as overlapping transactions |
| `PolicyDocumentsProofs` | theorems about `PolicyDocuments` |
| `VendorMatching`, `Duplicates`, `PaymentTerms`, `Completeness` | the four algorithms as operators |
| `Tools` | the routes, tools and pipeline steps that use them |
| `Providers`, `Extraction` | the switches over the provider; from uploaded files to its request and the outcome |
| `GeminiSchemas` | the recursive rewriting of a tool's schema for Gemini, a parameter (`Cleaned`) of `Providers` |
| `ToolsProofs` | lemmas about the algorithms, and theorems about `Tools` and `Extraction` |
| `Reports` | reports and paged lists while other calls write |
| `ReportsProofs` | theorems about `Reports` |
| `Sessions` | the connection pool, the life of an API key, commit, answer and mail, and crashes |
| `SessionsProofs` | theorems about `Sessions` and its pool |
| `MC*` | instances for TLC |

`InvoicePipeline!Ledger` and `PolicyVersions!History` instantiate the abstract modules;
`ImplementsLedger` and `ImplementsHistory` are checked by TLC and proved.

### The granularity

An action is one SQL statement with the code that runs until the next wait; a handler
cannot be interrupted between awaits, and what it computes in between is private.

* Sessions have `autoflush=False` (`db/session.py:50-59`), so the changes
  `process_invoice` makes to the invoice and its events reach the database only with the
  last flush (`orchestrator.py:374`). From that flush to the commit others can read the
  old row or wait for its lock, and either is a behaviour of one step: `Persist`.
  `Transition`, `Delete` and the commits of new invoices are likewise one step.
* An `INSERT` that a unique constraint makes others wait for long before the commit is
  a step of its own: the invoice of `POST /process` and the onboarded vendor, which stay
  uncommitted over the model call.
* SQLAlchemy leaves a column out of the `UPDATE` when its new value equals the loaded one:
  `Column`. This is what makes an overtaken review lose (see `LastWordStands`).
* A falsy idempotency key is never looked up (`ingestion.py:41`), but stored and unique:
  `BlankKey`.
* `create_invoice` recovers from the unique violation by a rollback and a second look-up.
  The rollback expires the organization it needs, so it may answer or fail;
  nothing is written either way.
* The model may answer anything: `Verdicts`. An unusable answer becomes `hold`; no
  answer, a lost connection and a stopped server are `Abort`, possible at every wait.
* An `UPDATE` with a `WHERE` (`PolicyVersions`, `Accounts`) is two actions: it takes its
  snapshot, and, once the rows are free, changes those that still match.
* A wrong guess in `verify_email_otp` is counted by a second session that commits on its
  own (`accounts.py:166-171`): `CountGuess`.

* In `PolicyDocuments` a `DELETE ... WHERE` is two steps as well: it finds its rows, waits
  for those another transaction has written, and deletes what still matches its `WHERE` then.
  Rules are deleted before documents (`policies.py:37-42`); chunks go with their
  document by foreign key, a rule that still refers to it keeps a `document_id` of NULL.
* `last_used_at` of the API key is written by the first flush of a call, or its commit
  (`auth.py:50`), and locks the key's row to the end of the call: `WriteKey`. When
  calls wait in a circle the database fails one: `Victim`.
* The tools and the extraction have no state: one step asks a question and answers it.
  `MCTools` checks them together with `Reports`; the three share no state, and a behaviour
  is about one of them.
* A report is the statements it runs; writers commit in between. `created_at` is the
  time the inserting transaction began, so an invoice may appear behind newer ones.
* In `Sessions` a call holds a connection from its first statement to the end of its
  transaction, and the call that counts a wrong guess takes a second one meanwhile
  (`accounts.py:166`). The commit comes before the answer that the client gets, but
  not before the mail. `db_session`, which commits, is the outermost of three nested
  `BaseHTTPMiddleware` layers (`main.py:65`, `76`, `89`): it gets the status of the response and
  then awaits the commit, while the layers inside it take the rest of the response from the
  route. To the route the response is sent by then, and it runs its background task, the mail
  (`auth.py:75`). So from `MakeResponse` on a mail is due (`MailDue`), whether the commit
  is still to come, goes through or fails (`undone`).

The identity of an invoice is the request that creates it, that of a code the request
that issues it. One trail entry stands for the events one transaction writes: they are
written by one flush and carry one `created_at`.

### What is abstracted

Fields of an invoice other than its key, status, vendor and recommendation are its
"document" (`Docs`); whether two documents are exact duplicates (`ExactDuplicate`) and which vendor a name
matches (`VendorOf`) are constants, so the results hold for any matching.
Vendors are not deleted or renamed in `InvoicePipeline` (deletion is in
`PolicyVersions`), and "inactive" is not told from "active": nothing here reads it.
`last_used_at` of an API key locks a row for the rest of a call: the models take calls
with keys of their own; calls that share a key have fewer interleavings, and a cycle of
locks is ended by PostgreSQL with an error, that is, by `Abort`. A guess can name the
right code once it may have been mailed, which is from the flush that inserts it on, before the commit:
such a guess does not find the code yet.
`PolicyDocuments` and `Sessions` do model the lock of a shared key.

`PolicyDocuments` is about one vendor, which is not deleted; a document has one
chunk (none if it is blank) and at most one rule. A text refused by the
screening (422) has no effect and is no action. The rows of chunks are not locked there: a
circle of waits that runs through them is one more case of `Fail`. Names in `VendorMatching` are sequences
of words; the likeness of unequal names is a constant, any symmetric function, because
it is a library's. In `PaymentTerms` the input is what the patterns find in a text, in
any combination, and a date beyond year 9999 is a failure (`Failed`); amounts are exact, confidences of `Duplicates` are cut to 1/10000.
`Reports` counts invoices; an invoice has the due date and the vendor's name it was sent with
until it is processed, and those the pipeline leaves from then on (`Form`). It leaves out sums, currencies,
date windows and vendors that are deleted or renamed, and assumes
that two transactions do not begin in the same microsecond: the lists have no
tie-break. In `Sessions`
the row locks of a code (they are in `Accounts`) and the rate limiter are left out, and
`expired` means that `expires_at` has passed: at the instant itself a key is valid.

## 3. Runs

| Run | Instance | Shows |
|---|---|---|
| `pipeline` | 3 calls, 2 documents, 1 key, 1 candidate compared, all invoice operations but ingest | `TypeOK`, `OneInvoicePerKey`, `TrailExplainsInvoice`, `ProcessedOrAbsent`, `SerialDuplicatesRejected`, `LastWordStands`, `ImplementsLedger` (646 631 states) |
| `onboarding` | 2 calls that process or ingest, blank key, 1 vendor and its reviewers | `OnboardingKeepsTrust`, `RequestsEnd` (59 707 states) |
| `policy_versions` | 3 calls, 1 vendor | `TypeOK`, `OneActivePolicy`, `ActiveIsLatest`, `VersionsFollowTime`, `ImplementsHistory`, `RequestsEnd` (23 109 states) |
| `accounts` | 3 calls, 1 address, 2 passwords, 1 attempt | `TypeOK`, `SupersededCodesFail`, `GuessesCapped`, `LastRegistrationStands`, `VerifiedForGood`, `RequestsEnd` (303 460 states) |
| `documents` | 3 calls (2 may upload, 2 share an API key), 1 document on file, top 2 chunks | `TypeOK`, `PolicyIsWhole`, `ReplacedIsGone`, `OrphansOnlyFromOverlap`, `NeverOldAndNew`, `PolicyNeverVanishes`, `RequestsEnd` (205 357 states) |
| `tools` | 76 bills, 4 vendor masters, 12 terms by 5 dates, lists of up to 4 files, 5 schemas; 3 invoices, page size 1 | `DuplicateIsMutual`, `CopyIsCaught`, `TermsAddUp`, `CompletenessMonotone`, `SendsFirstImages`, `ProviderAgrees`, `SchemaIsPlain`, `ReportsAddUp`, `PagesMissNothing` (940 395 states) |
| `sessions` | 3 calls of every mix of kinds, 2 connections, 1 crash | `RevokedForGood`, `AnswersStand`, `CallsEnd` (198 721 states) |
| `duplicates` | 2 calls | violated: two copies processed at once are both approved |
| `resubmission` | 2 calls | violated: a resubmission under its key overrides a review |
| `onboarding_holds` | 2 calls | violated: an invoice of a vendor in onboarding is approved |
| `one_live_code` | 3 calls | violated: two live codes |
| `verified_password` | 3 calls | violated: a registration replaces a verified user's password |

What the less obvious properties say:

* `SerialDuplicatesRejected` is what remains of the promise that `duplicates` refutes:
  two copies are both approved only by transactions that were open at the same time, or
  when the first has left the window: the code compares the most recent
  `duplicate_candidate_limit` invoices (`core/config.py:151`, 1000 by default), so at least
  as many other submissions must have come between the first copy and the end of the
  second approval (`Since`). In the run the limit is 1, and a note between two bills is enough;
  without the exception the property fails there.
* `TrailExplainsInvoice`: a transaction writes the old status it read seconds before, and
  may leave columns out of its `UPDATE`; still every status and recommendation of a row,
  and every old status of an entry, was announced by an earlier entry.
* `LastWordStands`: the status is the one the last entry tells, unless the calls that
  wrote to the invoice overlapped. It fails without that condition.
* `VersionsFollowTime`: though no lock is taken before a version number is computed, calls
  that are answered get distinct numbers in the order in which they ran.
* `GuessesCapped` counts only guesses answered before a verify began: guesses sent at
  once are judged against the same counter, and the cap is on what is answered.
* `LastRegistrationStands`: the code in the last mail is the one honoured, with its
  password, when the other calls that issued codes had ended.

* `OrphansOnlyFromOverlap` is what remains of the promise that a replacement deletes all
  compiled rules: a rule outlives its document only if its upload overlapped the
  replacement. `ReplacedIsGone`: what was on file when the replacement was called is
  gone, also a rule somebody was approving.
* `NeverOldAndNew`: a decision that runs while the policy is replaced may cite
  excerpts that are gone by the time it is stored, but never both policies.
* `DuplicateIsMutual`: match and confidence do not depend on which of two bills comes
  first, and although the window reaches back only, one of the two finds the other.
* `CopyIsCaught` is about the pipeline's two steps together, and excepts vendors with
  aliases: see section 5. A vendor name has letters or digits: one of punctuation only
  is left to the library's likeness of empty strings (`duplicate_detector.py:29`).
* `TermsAddUp` compares the end of a month with the calendar, and the rounded discount and
  remainder with the amount, which may have three decimals.
* `CompletenessMonotone` holds for thresholds in any order.
* `ReportsAddUp`: the two statements of a report disagree by exactly the invoices that came
  and went in between. `PagesMissNothing`: arrivals repeat rows of a walk through the pages
  and hide none; only an invoice that was deleted or left the filter makes one be missed.
* `RevokedForGood`: the commit of a call that was authenticated earlier writes the same row
  and does not undo the revocation, because only changed columns are written.
* `AnswersStand`: an answer may be lost in a crash, but a false one is not given. Of a mail less is
  true: it may be lost, and it may be of a registration whose commit is still to come or has
  failed (section 5), but not of one that its handler refused.

### Bounds

`Requests` bounds the calls of a behaviour, each used once. Three are what the hazards
need: two that overlap and a third before, between or after them (a retry, a
reviewer, a deletion). Interaction is per key, per vendor and per address, so one of
each is enough for a conflict, and a second would only add independent behaviour; the
proofs do not have these bounds. `CandidateLimit` is 1 in `pipeline` and `onboarding`:
the other document, `note`, can push a copy of `bill` out of what is compared. `ingest`
differs from `create` and `process` in how the invoice comes about and is in `onboarding`. `Calls`, `Targets` and
`Autos` restrict the kinds of call of a run and are named in its `.cfg`. `pipeline`,
`duplicates` and `resubmission` begin with one active vendor that has a policy on file,
so that every verdict of the model can occur; `onboarding` begins with any vendor master.
`MaxAttempts = 1`
lets three calls issue a code, guess wrong and guess again. `pipeline` uses the symmetry
of requests, which no property there distinguishes, and has no liveness property.
`CHECK_DEADLOCK FALSE`: when all calls have ended the system rests.

In `documents`, `Uploaders` and `Keyed` keep one call free to delete, judge or decide with
a session token; two uploads and a third call are what an orphan or a mixed policy needs.
In `tools` the bills cover each field absent, equal numbers in two writings, a number
without letters or digits, amounts on both sides of the tolerance and of zero, and dates on
both sides of the window; the dates cover the ends of December, of both Februaries and of a
short month; one date is a few days before the end of the calendar; the files cover no page, fewer and more
pages than `MaxPdfPages`, a page that cannot be rendered, and lists
longer than `MaxFiles`; the schemas cover optional, nested and referenced types.
`DecidedAs` and `ReviewedAs` are one decision and one review, which are enough to enter
and leave a filter and a group; page size 1 makes every row a page border. In `sessions`
two wrong guesses are enough to fill the pool. `Mixes` are
all combinations of kinds, one order for each: calls differ in nothing else.

### Fairness

`WF_vars(Handle(r))` for every request: the event loop runs each handler that is not
waiting; calls to models time out (60 s by default); a wait for a lock ends when its
holder commits or is rolled back, which is what `RequestsEnd` checks instead of assuming:
the guards of the waiting steps are in the actions. Nothing is assumed of `Begin`, `Abort`,
`Expire` or of the reviewers' actions.

`documents`: `WF_vars(Step(r))` as above, and `WF_vars(\E r \in Requests : Victim(r))`:
PostgreSQL's deadlock detection ends every circle of waits (after 1 s by default) by
failing one of its members; `Fail` as such is not fair. `sessions`:
`WF_vars(Step(c))`, which includes `PoolTimeout`: SQLAlchemy gives up waiting for a
connection after `pool_timeout` (30 s by default). `CallsEnd` fails without it. Crashes,
expiry and mail are not fair. `tools` has no liveness property.

## 4. Proofs

Proved with TLAPS, for every value of the constants that satisfies the module's
assumption. The assumptions give the constants their types, keep markers such as
`NoVendor` apart from real values and limits positive, say that what is counted is finite,
and that the library's likeness of two names is symmetric (`LikenessAssumption`). In each module an invariant `IInv` (`RInv` and `AInv` in
`ReportsProofs`, `HInv` and those below in `InvoiceHistoryProofs`) is shown to hold initially and to be
kept by every action, one lemma per action; the properties follow from it. The
properties are seldom inductive, because calls act on what they read long ago: what the
invariant adds is, each time, what an open call knows.

| Module (assumption) | Theorems | State |
|---|---|---|
| `InvoicePipelineProofs` (`DataAssumption`, `PipelineAssumption`) | `TypeCorrect`, `KeysUnique`, `TrailComplete`, `AllOrNothing`, `Refinement` | `TypeOK`, `OneInvoicePerKey`, `TrailExplainsInvoice`, `ProcessedOrAbsent`, `ImplementsLedger` |
| `InvoiceHistoryProofs` (the same) | `LastWordKept`, `CopiesRejected`, `TrustKept`, `NoCircle` | `LastWordStands`, `SerialDuplicatesRejected`, `OnboardingKeepsTrust`, the order of locks |
| `PolicyVersionsProofs` (`FounderAssumption`) | `TypeCorrect`, `OneActive`, `ActiveLatest`, `FollowTime`, `Refinement`, `NoCircle` | `TypeOK`, `OneActivePolicy`, `ActiveIsLatest`, `VersionsFollowTime`, `ImplementsHistory`, the order of locks |
| `AccountsProofs` (`AccountsAssumption`) | `TypeCorrect`, `Superseded`, `Capped`, `LastStands`, `StaysVerified`, `NoCircle` | `TypeOK`, `SupersededCodesFail`, `GuessesCapped`, `LastRegistrationStands`, `VerifiedForGood`, the order of locks |
| `PolicyDocumentsProofs` (`DocumentsAssumption`) | `TypeCorrect`, `Whole`, `Replaced`, `Orphaned`, `OneAtATime`, `NeverBetween` | `TypeOK`, `PolicyIsWhole`, `ReplacedIsGone`, `OrphansOnlyFromOverlap`, `NeverOldAndNew`, `PolicyNeverVanishes` |
| `SessionsProofs` (`SessionsAssumption`) | `RevokedStands`, `AnswersHold`, `PoolKept`, `OnlyGuessesStall` | `RevokedForGood`, `AnswersStand`, the pool |
| `ToolsProofs` (`ToolsAssumption`, `ToleranceAssumption`, `LikenessAssumption`, `ExtractionAssumption`) | `Mutual`, `Caught`, `AddUp`, `Monotone`, `ProvidersAgree`, `FirstImagesSent` | `DuplicateIsMutual`, `CopyIsCaught`, `TermsAddUp`, `CompletenessMonotone`, `ProviderAgrees`, `SendsFirstImages` |
| `ReportsProofs` (`ReportsAssumption`) | `NothingMissed`, `GroupsAddUp` | `PagesMissNothing`, `ReportsAddUp` |

How the arguments go:

* **`InvoicePipelineProofs`.** `TrailExplainsInvoice` alone is not inductive: `Persist`
  writes an entry that begins with a status loaded long before. `IInv` adds what an open
  transaction carries: `Untouched` (a new invoice has the id of its request and is as it
  was inserted), `Grounded` (what was loaded is told by the trail, or the invoice is gone,
  for good, since its creator has ended), `Placed` (position, operation and decision
  agree), `Vacant` (an id that is not stored has no trail). The refinement maps
  `CommitNew`, `Persist`, `Transition` and `Delete` to `Add`, `Record` and `Remove`, and
  every other step to a stutter.
* **`InvoiceHistoryProofs`** builds on `IInv`. Since `after[r]`, the calls that had ended when
  r began, never gains a member, what r has loaded is what is stored unless a call outside
  `after[r]` has written (`Current`); this is why leaving an unchanged column out of the
  `UPDATE` harms only when calls overlap. For `SerialDuplicatesRejected` it says of an
  open call that, once it has looked for duplicates, it knows of every copy on file that
  a call of `after[r]` approved (`Heeds`, `Forewarned`), if it is near: if fewer than
  `CandidateLimit` submissions have come since (`Near`). What is near has been near all along,
  because submissions are only added (`Lasting`, `NearBefore`), and a near invoice is among
  those that are compared, because whatever is newer is one of those submissions
  (`Dated`, `NearCompared`). For `OnboardingKeepsTrust`, an uncommitted onboarding excludes a
  second one and every addition of that vendor (`Opening`).
* **The order of locks** (`NoCircle` in three modules) is the safety half of `RequestsEnd`, for
  any number of calls. `Waits(t, u)` says that a statement of t waits for a row or a key that u
  has written; a lemma, `WaitsAtGuards`, shows that this is what the guards of the waiting
  actions say. Who holds something has come further than who waits for it (`LocksOrdered`, by
  a small number, `Stage`), so there is no circle, and while a call is open one of the open calls
  waits for nobody (`SomebodyGoesOn`). In the pipeline invoices are inserted before
  vendors; in `PolicyVersions` rows are locked before the number is inserted; in `Accounts` the user
  comes before the codes.
* **`PolicyVersionsProofs`.** `IInv` says (`Numbered`) that the versions are exactly
  1 .. n and version n alone is active, and (`Informed`) what a call that computed number k
  knows: k <= n + 1, and if k = n + 1 then nobody has published since, so the active policy
  is among the rows its `UPDATE` saw and holds. If k <= n, its `INSERT` is bound to fail.
  `Reserved` says that an uncommitted number is nobody else's. For `VersionsFollowTime`,
  `InTime` adds that no answered number is beyond the last version.
* **`AccountsProofs`.** `IInv` says what a call that issues a code has done to the codes of the
  calls that had ended (`Replaces`: seen, then held, then consumed), what a verify knew
  when it took its code (`Judged`), that a user's row has one writer (`Alone`), and whose
  doing it is that a code or a password no longer stands (`Stands`: the user is verified, or
  a call that had not ended has issued another). That `attempts` counts exactly the
  refused guesses is what `GuessesCapped` needs.
* **`PolicyDocumentsProofs`.** Rows a transaction has written are there and are written by nobody
  else (`Holds`, `Apart`); a name that has been on file is `Spent`, so what a statement did
  not find, and was there before, is gone for good; what a replacing upload has not found
  belongs to a call it has met (`Replaces`).
* **`SessionsProofs`.** A call that read the key as dead, or came when it was, does not pass
  (`Barred`); what a committed call may say, and that a mail without its registration is of a
  call whose response was made and whose commit is to come or has failed (`Told`); a guess that was counted and not yet
  answered is in the counter too. The pool is never exceeded (`PoolKept`), although
  a call may hold two connections. All calls wait at once only when each connection
  is held by a wrong guess that waits for a second one (`OnlyGuessesStall`): this is the one case
  that needs the pool's timeout, and it occurs in the run.
* **`ToolsProofs`.** One step computes an answer, so the invariant says only where an answer came
  from. The work is in lemmas about the algorithms for every input: `EvaluateSymmetric`,
  `OneInWindow`, `ResolvedAlike`, `MonthEnd` (through the leap years of the whole calendar),
  `DiscountAddsUp`, `ScoreGrows`. The request of an extraction is built file by file by
  recursive functions. That they are defined for every list (`RecursionExists`) and keep
  to the beginning of the pages of all the files (`AllBuilt`) are inductions over sets of numbers:
  of a set of naturals with 0 and all successors (`AllNumbers`).
* **`ReportsProofs`.** Of n rows, those with `from` to `from + size - 1` newer ones are `size`
  many (`FullPage`: the number of newer rows is a bijection of the rows and 0 .. n - 1). So
  a page that is not full is the last, and `Ahead`: what the client has not seen has at
  least as many newer rows as it has skipped. For `ReportsAddUp` the counts of the groups
  add up to the rows (`CountsAddUp`) because each row has one group, which is shown
  for each report; between two statements `Tally` counts what came and went.

Only model-checked, and why:

* liveness under fairness (`RequestsEnd`, `CallsEnd`) is out of the prover's reach;
* `SchemaIsPlain` is about `GeminiSchemas`, whose operators recur over nested schemas: the
  prover accepts no recursive operator, and its library's inductions take a predicate as
  parameter, which the installed provers cannot instantiate. The theorems about `Extraction` hold
  for any rewriting of the schemas (`Cleaned`).

`PolicyDocuments` has no `NoCircle`: there two calls with one API key can wait in a circle,
one for the key's row and one for a rule or a document, and `RequestsEnd` rests on
PostgreSQL's detection (`Victim`).

## 5. Where code and documentation differ

The five violated runs, and six more that have no run of their own:

* `api/routes/auth.py:73-74` and `services/accounts.py:84-85` say that a mail is sent after the
  commit, so that nobody gets a code for state that was rolled back. The nested middlewares of
  `api/main.py:65-112` let the background task run while the commit is under way, and a mail may
  be of a registration whose commit then fails. `AnswersStand` excepts these calls (`undone`);
  without that exception TLC finds it violated in eight states.
* `delete_invoice` deletes the audit events with the invoice (`api/routes/invoices.py:214`,
  `models/audit.py:37`), while `models/audit.py:4-5` and `docs/architecture.md:111-112`
  say that rows are never deleted. `InvoiceLedger` states what is kept.
* Only approved policy rules are said to be enforced (`models/policy_document.py:77-78`);
  the decision (`llm_decision.py:137`) reads policy text and no rule.
  `policy_compiler.py:3-8` also says that decisions never feed the document to a model.
* A replacement is said to delete all prior documents and rules
  (`schemas/policy_document.py:32-34`). Two that overlap leave both policies, and an
  upload that commits between the two `DELETE`s of another leaves a rule without
  document (`OrphansOnlyFromOverlap` states when).
* Exact duplicates are said to be rejected always (`llm_decision.py:12-13`). The search
  goes under the vendor's canonical name while the candidates carry the names they were
  written with (`orchestrator.py:249` and `:257`): under an unlike alias a copy is a near
  match of 0.6. `CopyIsCaught` does not hold without its exception for aliases.
* `discount_opportunities` fails as a whole for one outstanding credit note with terms,
  whose negative amount the terms calculator refuses (`mcp/server.py:811`,
  `schemas/tools.py:82`), or for blank terms (`schemas/tools.py:81`) or net days that lead beyond
  the calendar; processing a credit note, or an invoice with such net days, fails likewise.

## 6. Not modelled, and plan

Not modelled, and why:

* login, session tokens, hashing: no state beyond `last_login_at`, or library calls;
* the conversion of the model's answer to an invoice, line items, sums and currencies, and
  what the completeness and payment-terms results contribute to the prompt: the decision
  may be anything, so no property here can tell them apart;
* the text of policies (screening, chunk windows, embeddings, the compiler's patterns): string
  processing, of which only the outcome matters to the tables;
* plain reads (`get_invoice`, audit trail, vendors, policy), health checks, error mapping, the
  rate limiter, logging, migrations and schemas.

The modules were written in the order of section 2, the pipeline first, and each
theorem after a run had checked its property. The plan is carried out, except for what the
prover cannot reach: liveness and `SchemaIsPlain`. Of what could be added, nearest are the sums of
the reports (amounts by currency and date window) and login with its `last_login_at`.
