--------------------------- MODULE InvoiceLedger ---------------------------
(***************************************************************************)
(* What the tables "invoices" and "processing_events" promise to whoever   *)
(* reads them, with no request, session or transaction in sight:           *)
(*                                                                         *)
(*   - an invoice appears once, whole, and no two invoices carry the same  *)
(*     idempotency key;                                                    *)
(*   - afterwards its status and its recommendation change only together   *)
(*     with one new entry at the end of its audit trail, which names the   *)
(*     new values and, as the old status, one that the invoice really had; *)
(*   - an invoice leaves with its whole trail (ON DELETE CASCADE).         *)
(*                                                                         *)
(* InvoicePipeline, where concurrent requests read, wait and write, is     *)
(* checked and proved to implement this module.                            *)
(***************************************************************************)
EXTENDS InvoiceData

CONSTANTS Ids,        \* invoice ids (uuid4, never used twice)
          Actors      \* the transactions that write

\* One entry stands for the rows one transaction writes to processing_events:
\* they are inserted by the same flush and carry the same created_at.
Entries == [by : Actors, from : Statuses, to : Reviewed, decision : Actions]

VARIABLES stored,   \* ids of the committed invoices
          row,      \* their columns
          trail     \* their committed audit entries, in commit order

ledger == <<stored, row, trail>>

-----------------------------------------------------------------------------

\* s is a status invoice i was created with, or one an entry of its trail says
\* it was given.
Explained(s, tr) == s \in Initial \/ \E n \in DOMAIN tr : tr[n].to = s

FreeKey(k) == k = NoKey \/ \A i \in stored : row[i].key # k

Init ==
  /\ stored = {}
  /\ row \in [Ids -> Rows]        \* columns of an id that is not stored mean nothing
  /\ trail = [i \in Ids |-> <<>>]

\* An invoice appears unprocessed, or decided once by the transaction that
\* created it.
Add(i) ==
  /\ i \notin stored
  /\ stored' = stored \cup {i}
  /\ row'[i] \in Rows
  /\ FreeKey(row'[i].key)
  /\ row' = [row EXCEPT ![i] = row'[i]]
  /\ \/ row'[i].status \in Initial /\ UNCHANGED trail
     \/ LET e == trail'[i][1]
        IN  /\ Len(trail'[i]) = 1
            /\ e \in Entries
            /\ e.from \in Initial
            /\ e.to = row'[i].status
            /\ trail' = [trail EXCEPT ![i] = <<e>>]

\* One more entry. A column whose new value equals the one the transaction had
\* read is left out of the UPDATE, so it may keep what another one wrote; the
\* entry still tells the change the transaction believed it was making.
Record(i) ==
  LET e == trail'[i][Len(trail[i]) + 1]
  IN  /\ i \in stored
      /\ Len(trail'[i]) = Len(trail[i]) + 1
      /\ trail' = [trail EXCEPT ![i] = Append(@, e)]
      /\ e \in Entries
      /\ Explained(e.from, trail[i])
      /\ row' = [row EXCEPT ![i] = row'[i]]
      /\ row'[i].doc = row[i].doc
      /\ row'[i].key = row[i].key
      /\ row'[i].status \in {e.to, row[i].status}
      /\ row'[i].action \in {e.decision, row[i].action}
      /\ UNCHANGED stored

Remove(i) ==
  /\ i \in stored
  /\ stored' = stored \ {i}
  /\ trail' = [trail EXCEPT ![i] = <<>>]
  /\ row'[i] \in Rows
  /\ row' = [row EXCEPT ![i] = row'[i]]

Next == \E i \in Ids : Add(i) \/ Record(i) \/ Remove(i)

Spec == Init /\ [][Next]_ledger
=============================================================================
