------------------------------ MODULE Reports -------------------------------
(***************************************************************************)
(* The reports and lists over the organization's invoices, while other     *)
(* calls write.  A report is one or two statements of a READ COMMITTED     *)
(* transaction: each sees what is committed when it begins, so writes fall *)
(* between two statements, and between the pages a client asks for.        *)
(*                                                                         *)
(* An invoice is a member of Invoices: what it was sent with and what      *)
(* processing makes of that is given by the constants, its status and      *)
(* recommended action are state.                                           *)
(* created_at is the time the inserting transaction BEGAN (now() of        *)
(* PostgreSQL), which is not the order in which invoices become visible;   *)
(* two transactions are assumed not to begin in the same microsecond.      *)
(***************************************************************************)
EXTENDS Integers, Sequences, FiniteSets, FiniteSetsExt

CONSTANTS
    Invoices,       \* the invoices that are ever created
    DaysToDue,      \* the days to the due date, or NoDate: as sent and as processed
    NoDate,         \* no due date
    Month,          \* the month of the invoice date, or NoDate
    VendorName,     \* the vendor's name: the raw one, and what processing resolves it to
    Priced,         \* the invoices that have a grand total
    Refused,        \* those with terms that make the terms calculator fail: a negative
                    \* amount (a credit note), blank terms, days beyond the calendar
    Discounted,     \* those whose terms give a discount that is still open
    DecidedAs,      \* the decisions of the pipeline that occur (a bound)
    ReviewedAs,     \* the statuses a reviewer may set (a bound)
    PageSize,       \* limit of a page, and of the vendors of spend_by_vendor
    Filters         \* the status filters in use: sets of statuses

D == INSTANCE InvoiceData WITH
        Docs <- Invoices, Vendors <- {}, Keys <- {}, BlankKey <- NoDate,
        NoKey <- NoDate, NoVendor <- NoDate

ASSUME ReportsAssumption ==
    /\ DecidedAs \subseteq D!Decisions /\ ReviewedAs \subseteq D!Reviewed
    /\ PageSize \in Nat \ {0}
    /\ Filters \subseteq SUBSET (D!Statuses \cup {"normalized", "validated", "paid"})

VARIABLES
    table,      \* the committed invoices: [status, action], or Missing
    begun,      \* the inserting transactions in the order they began
    reader      \* the report under way

Missing == [status |-> "missing", action |-> "none"]
Deleted == [status |-> "deleted", action |-> "none"]
Present == {i \in Invoices : table[i] \notin {Missing, Deleted}}

\* changed: the invoices gained, less those lost, since the first statement;
\* lost: one the list selects has been deleted or has left its filter.
NoReport == [kind |-> "none", at |-> "idle", groups |-> <<>>, total |-> 0, changed |-> 0,
             filter |-> {}, offset |-> 0, atStart |-> {}, seen |-> {}, lost |-> FALSE]

ReportsInit ==
    /\ table = [i \in Invoices |-> Missing]
    /\ begun = <<>>
    /\ reader = NoReport

-----------------------------------------------------------------------------
(* The writers: what other calls commit                                    *)

Begun == {begun[n] : n \in DOMAIN begun}
Selected(filter) == {i \in Present : table[i].status \in filter}

\* How many invoices there are more of, or fewer, when i is written.
Gain(i, row) == (IF row # Deleted THEN 1 ELSE 0) - (IF i \in Present THEN 1 ELSE 0)

\* One invoice is written; what the reader missed of it is kept as history.
Write(i, row) ==
    /\ table' = [table EXCEPT ![i] = row]
    /\ reader' =
         CASE reader.at = "second" ->
                [reader EXCEPT !.changed = @ + Gain(i, row)]
           [] reader.kind = "list" ->
                [reader EXCEPT !.lost = @ \/ (/\ i \in Selected(reader.filter)
                                              /\ row.status \notin reader.filter)]
           [] OTHER -> reader
    /\ UNCHANGED begun

BeginInvoice(i) ==
    /\ i \notin Begun
    /\ begun' = Append(begun, i)
    /\ UNCHANGED <<table, reader>>

\* An invoice appears as created, or with the decision of the call that made it.
CommitInvoice(i) ==
    /\ i \in Begun /\ table[i] = Missing
    /\ \E row \in {[status |-> "received", action |-> "none"]}
                    \cup {[status |-> D!DecisionStatus[d], action |-> d] : d \in DecidedAs} :
         Write(i, row)

Process(i) ==
    /\ i \in Present
    /\ \E d \in DecidedAs : Write(i, [status |-> D!DecisionStatus[d], action |-> d])

Review(i) ==
    /\ i \in Present
    /\ \E s \in ReviewedAs : Write(i, [table[i] EXCEPT !.status = s])

\* A deleted invoice is gone for good; its place in created_at stays taken.
DeleteInvoice(i) == i \in Present /\ Write(i, Deleted)

-----------------------------------------------------------------------------
(* The reports                                                             *)

\* GROUP BY: how many of the selected rows fall into each group.
Counts(groups, rows, key(_)) == [g \in groups |-> Cardinality({i \in rows : key(i) = g})]
\* The sum of the counts: a row numbered from 1 for each that a group counts.
Total(counts) == Cardinality(UNION {{g} \X (1..counts[g]) : g \in DOMAIN counts})

StatusCounts == Counts(D!Statuses \cup {"paid"}, Present, LAMBDA i : table[i].status)
DecisionBreakdown == Counts(D!Actions, Present, LAMBDA i : table[i].action)

\* Mutant: an invoice without an amount is not counted.
PricedTotal == Cardinality(Present \cap Priced)

InvoiceTotal == Cardinality(Present)

\* Processing, which ends in a decision, resolves the vendor and derives a due
\* date that is missing from the terms. (What deleting a vendor takes back of
\* that is left out: a report that groups by it is a single statement.)
Form(i) == IF table[i].action = "none" THEN "sent" ELSE "processed"
VendorKey(i) == VendorName[i][Form(i)]

Outstanding == {i \in Present : table[i].status \notin {"paid", "rejected"}}
AgingBuckets == {"overdue", "due_0_7", "due_8_30", "due_31_plus", "no_due_date"}
AgingKey(i) ==
    LET days == DaysToDue[i][Form(i)]
    IN  IF days = NoDate THEN "no_due_date"
        ELSE IF days < 0 THEN "overdue"
        ELSE IF days <= 7 THEN "due_0_7"
        ELSE IF days <= 30 THEN "due_8_30"
        ELSE "due_31_plus"

Begins(kind, groups, total) ==
    reader' = [NoReport EXCEPT !.kind = kind, !.at = "second", !.groups = groups, !.total = total]
Answers(kind, groups, total) ==
    reader' = [NoReport EXCEPT !.kind = kind, !.at = "done", !.groups = groups, !.total = total]

\* invoice_stats and automation_metrics: the counts by status, and then ...
CountByStatus ==
    /\ reader.at = "idle"
    /\ \E kind \in {"stats", "metrics"} : Begins(kind, StatusCounts, 0)

\* ... the totals, or the counts by decision.
CountAgain ==
    /\ reader.at = "second" /\ reader.kind \in {"stats", "metrics"}
    /\ reader' = [reader EXCEPT !.at = "done",
         !.total = IF reader.kind = "stats" THEN InvoiceTotal ELSE Total(DecisionBreakdown)]

PayablesAging ==
    /\ reader.at = "idle"
    /\ Answers("aging", Counts(AgingBuckets, Outstanding, AgingKey), Cardinality(Outstanding))

\* Invoices without a date are in no month; of the vendors the largest are kept.
SpendByMonth ==
    LET dated == {i \in Present : Month[i] # NoDate}
    IN  /\ reader.at = "idle"
        /\ Answers("months", Counts({Month[i] : i \in dated}, dated, LAMBDA i : Month[i]),
                   Cardinality(dated))

SpendByVendor ==
    LET counts == Counts({VendorKey(i) : i \in Present}, Present, VendorKey)
    IN  /\ reader.at = "idle"
        /\ \E kept \in SUBSET DOMAIN counts :
             /\ Cardinality(kept) = Min({PageSize, Cardinality(DOMAIN counts)})
             /\ Answers("vendors", [v \in kept |-> counts[v]],
                        Cardinality({i \in Present : VendorKey(i) \in kept}))

\* One outstanding invoice with terms that the calculator does not take makes the
\* whole report fail.
DiscountOpportunities ==
    /\ reader.at = "idle"
    /\ IF Outstanding \cap Refused # {}
       THEN Answers("failed", <<>>, 0)
       ELSE Answers("discounts", [i \in Outstanding \cap Discounted |-> 1],
                    Cardinality(Outstanding \cap Discounted))

-----------------------------------------------------------------------------
(* Lists: a client walks through the pages until one is not full           *)

Rank(i) == CHOOSE n \in DOMAIN begun : begun[n] = i

\* Mutant: the rows come in no particular order.
AnyPages(rows, offset) ==
    {page \in SUBSET rows : Cardinality(page) = Min({PageSize, Max({0, Cardinality(rows) - offset})})}

\* The rows of a page: newest first, skipping `offset' of them.
Pages(rows, offset) ==
    LET newer(i) == Cardinality({j \in rows : Rank(j) > Rank(i)})
    IN  {{i \in rows : offset <= newer(i) /\ newer(i) < offset + PageSize}}

ListCount ==
    /\ \/ /\ reader.at = "idle"
          /\ \E filter \in Filters :
               reader' = [NoReport EXCEPT !.kind = "list", !.at = "rows", !.filter = filter,
                            !.atStart = Selected(filter), !.total = Cardinality(Selected(filter))]
       \/ /\ reader.at = "next page"
          /\ reader' = [reader EXCEPT !.at = "rows", !.total = Cardinality(Selected(reader.filter))]

ListRows ==
    /\ reader.at = "rows"
    /\ \E page \in Pages(Selected(reader.filter), reader.offset) :
         reader' = [reader EXCEPT !.seen = @ \cup page, !.offset = @ + PageSize,
                      !.at = IF Cardinality(page) = PageSize THEN "next page" ELSE "done"]

Report ==
    \/ CountByStatus \/ CountAgain \/ PayablesAging \/ SpendByMonth \/ SpendByVendor
    \/ DiscountOpportunities \/ ListCount \/ ListRows

\* What happens after the report is answered is of no interest here.
ReportsNext ==
    /\ reader.at # "done"
    /\ \/ \E i \in Invoices :
            BeginInvoice(i) \/ CommitInvoice(i) \/ Process(i) \/ Review(i) \/ DeleteInvoice(i)
       \/ Report /\ UNCHANGED <<table, begun>>

ReportsSpec == ReportsInit /\ [][ReportsNext]_<<table, begun, reader>>

-----------------------------------------------------------------------------
(* Properties                                                              *)

\* The groups of a report add up to the total it is about, up to the invoices
\* that came and went between its two statements: no invoice is in two groups
\* or in none, and nothing else makes the two statements of a report disagree
\* (reporting.py:23-180, invoices.py:189, server.py:456-459 and 851-855).
ReportsAddUp ==
    reader.at = "done" /\ reader.kind # "list" =>
        reader.total = Total(reader.groups)
                         + (IF reader.kind \in {"stats", "metrics"} THEN reader.changed ELSE 0)

\* A client that walks through the pages until one is not full has seen every
\* invoice the list selected when it began, unless one was deleted or left the
\* filter on the way.  Invoices that arrive meanwhile, even with an earlier
\* created_at than those seen already, repeat rows and hide none
\* (invoices.py:158-183, server.py:491-499).
PagesMissNothing ==
    reader.kind = "list" /\ reader.at = "done" /\ ~reader.lost =>
        reader.atStart \subseteq reader.seen
=============================================================================
