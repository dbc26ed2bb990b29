--------------------------- MODULE ReportsProofs ----------------------------
(***************************************************************************)
(* For any number of invoices and any page size: a client that walks       *)
(* through the pages of a list misses nothing of what was there when it    *)
(* began, although invoices appear between two pages, at places of their   *)
(* own.                                                                    *)
(*                                                                         *)
(* The argument counts.  Of the rows a list selects, one for each number   *)
(* below their count has exactly that many newer ones; so a page that is   *)
(* not full is the last, and an invoice that has not been seen has at      *)
(* least as many newer ones as the client has skipped.  Nothing but the    *)
(* loss of a row makes that number smaller.                                *)
(*                                                                         *)
(* That a report adds up is counting as well: the pairs of a group and a   *)
(* number up to its count are as many as the rows, if every row has a      *)
(* group, and just one.                                                    *)
(***************************************************************************)
EXTENDS Reports, FunctionTheorems, FiniteSetTheorems, TLAPS

rvars == <<table, begun, reader>>

Newer(rows, i) == Cardinality({j \in rows : Rank(j) > Rank(i)})

\* The report under way is a record of the kind its place says.
ReaderOK ==
    /\ reader = [kind |-> reader.kind, at |-> reader.at, groups |-> reader.groups,
                 total |-> reader.total, changed |-> reader.changed, filter |-> reader.filter,
                 offset |-> reader.offset, atStart |-> reader.atStart, seen |-> reader.seen,
                 lost |-> reader.lost]
    /\ reader.at \in {"idle", "second", "rows", "next page", "done"}
    /\ reader.at = "second" => reader.kind \in {"stats", "metrics"}
    /\ reader.at \in {"rows", "next page"} => reader.kind = "list"
    /\ reader.kind = "list" => reader.at \in {"rows", "next page", "done"}

\* Transactions begin once, and an invoice is there only after its transaction began.
Ordered ==
    /\ begun \in Seq(Invoices)
    /\ \A m, n \in DOMAIN begun : begun[m] = begun[n] => m = n
    /\ DOMAIN table = Invoices
    /\ Present \subseteq Begun

\* What the client has not seen yet is still ahead of it.
Ahead ==
    reader.kind = "list" =>
        /\ reader.offset \in Nat /\ reader.filter \in Filters
        /\ ~ reader.lost =>
             \A i \in reader.atStart \ reader.seen :
                 /\ reader.at # "done"
                 /\ i \in Selected(reader.filter)
                 /\ Newer(Selected(reader.filter), i) >= reader.offset

RInv == ReaderOK /\ Ordered /\ Ahead

-----------------------------------------------------------------------------
(* Counting rows                                                           *)

\* Of finitely many rows of different ranks, those that have from `from' to
\* `from + size - 1' newer ones are `size' many, if there are that many rows.
LEMMA FullPage ==
    ASSUME NEW rows, IsFiniteSet(rows), NEW rank \in [rows -> Nat],
           \A i, j \in rows : rank[i] = rank[j] => i = j,
           NEW from \in Nat, NEW size \in Nat \ {0}, from + size <= Cardinality(rows)
    PROVE  LET newer(i) == Cardinality({j \in rows : rank[j] > rank[i]})
           IN  Cardinality({i \in rows : from <= newer(i) /\ newer(i) < from + size}) = size
<1> DEFINE above(i) == {j \in rows : rank[j] > rank[i]}
           newer(i) == Cardinality(above(i))
           count    == Cardinality(rows)
           counted  == [i \in rows |-> newer(i)]
           page     == {i \in rows : from <= newer(i) /\ newer(i) < from + size}
<1>1. count \in Nat
  BY FS_CardinalityType
<1>2. ASSUME NEW i \in rows PROVE newer(i) \in 0 .. count - 1
  <2>1. above(i) \subseteq rows \ {i}
    OBVIOUS
  <2>2. IsFiniteSet(rows \ {i}) /\ Cardinality(rows \ {i}) = count - 1
    BY FS_RemoveElement
  <2>3. IsFiniteSet(above(i)) /\ newer(i) <= count - 1
    BY <2>1, <2>2, FS_Subset
  <2>4. newer(i) \in Nat
    BY <2>3, FS_CardinalityType
  <2> HIDE DEF newer, count
  <2> QED BY <1>1, <2>3, <2>4
<1>3. ASSUME NEW i \in rows, NEW j \in rows, rank[i] > rank[j] PROVE newer(i) # newer(j)
  <2>1. above(i) \subseteq above(j) /\ j \notin above(i) /\ i \in above(j) /\ i \notin above(i)
    BY <1>3
  <2>2. IsFiniteSet(above(j))
    BY FS_Subset
  <2>3. above(i) # above(j)
    BY <2>1
  <2> QED BY <2>1, <2>2, <2>3, FS_Subset
<1>4. \A i, j \in rows : newer(i) = newer(j) => i = j
  <2> SUFFICES ASSUME NEW i \in rows, NEW j \in rows, i # j PROVE newer(i) # newer(j)
    OBVIOUS
  <2>1. rank[i] > rank[j] \/ rank[j] > rank[i]
    OBVIOUS
  <2> HIDE DEF newer
  <2> QED BY <1>3, <2>1
<1> HIDE DEF newer
<1>5. counted \in Injection(rows, 0 .. count - 1)
  BY <1>2, <1>4, Fun_IsInj
<1>6. counted \in Surjection(rows, 0 .. count - 1)
  <2> DEFINE numbers == 0 .. count - 1
  <2>1. IsFiniteSet(numbers) /\ Cardinality(numbers) = count
    <3>1. 0 \in Int /\ count - 1 \in Int
      BY <1>1
    <3>2. IsFiniteSet(numbers) /\ Cardinality(numbers) = IF 0 > count - 1 THEN 0 ELSE count - 1 - 0 + 1
      BY <3>1, FS_Interval
    <3> HIDE DEF count, numbers
    <3> QED BY <1>1, <3>2
  <2> HIDE DEF numbers, counted
  <2> QED BY <1>5, <2>1, FS_Injection DEF numbers
<1>7. [i \in page |-> newer(i)] \in Bijection(page, from .. from + size - 1)
  <2> DEFINE numbers == from .. from + size - 1
             numbered == [i \in page |-> newer(i)]
  <2>1. numbered \in [page -> numbers]
    <3>1. \A i \in page : newer(i) \in Nat
      BY <1>1, <1>2
    <3> QED BY <3>1
  <2>2. \A i, j \in page : numbered[i] = numbered[j] => i = j
    BY <1>4
  <2>3. ASSUME NEW n \in numbers PROVE \E i \in page : numbered[i] = n
    <3>1. n \in 0 .. count - 1 /\ from <= n /\ n < from + size
      BY <1>1
    <3>2. \A t \in 0 .. count - 1 : \E i \in rows : counted[i] = t
      <4> HIDE DEF counted, count
      <4> QED BY <1>6, Fun_SurjectionProperties
    <3>3. PICK i \in rows : newer(i) = n
      BY <3>1, <3>2
    <3> QED BY <3>1, <3>3
  <2> HIDE DEF numbered, numbers, page
  <2> QED BY <2>1, <2>2, <2>3, Fun_IsBij DEF numbered, numbers
<1>8. IsFiniteSet(page)
  BY FS_Subset
<1>9. Cardinality(from .. from + size - 1) = Cardinality(page)
  BY <1>7, <1>8, FS_Bijection, Fun_ExistsBij
<1>10. Cardinality(from .. from + size - 1) = size
  BY FS_Interval
<1> QED BY <1>9, <1>10 DEF newer

-----------------------------------------------------------------------------
(* Ranks                                                                   *)

LEMMA RankOf ==
    ASSUME Ordered, NEW i \in Begun
    PROVE  /\ Rank(i) \in DOMAIN begun /\ Rank(i) \in Nat
           /\ begun[Rank(i)] = i
<1>1. \E n \in DOMAIN begun : begun[n] = i
  BY DEF Begun
<1>2. Rank(i) \in DOMAIN begun /\ begun[Rank(i)] = i
  BY <1>1 DEF Rank
<1> QED BY <1>2 DEF Ordered

\* Among the present rows the rank is one to one.
LEMMA RowsRanked ==
    ASSUME Ordered, NEW rows \in SUBSET Present
    PROVE  /\ IsFiniteSet(rows)
           /\ \A i \in rows : Rank(i) \in Nat
           /\ \A i, j \in rows : Rank(i) = Rank(j) => i = j
<1>1. \A i \in rows : i \in Begun
  BY DEF Ordered
<1>2. \A i \in rows : Rank(i) \in DOMAIN begun /\ Rank(i) \in Nat /\ begun[Rank(i)] = i
  BY <1>1, RankOf
<1>3. IsFiniteSet(rows)
  <2> DEFINE ranks == [i \in rows |-> Rank(i)]
  <2>1. ranks \in Injection(rows, DOMAIN begun)
    <3>1. ranks \in [rows -> DOMAIN begun] /\ \A i, j \in rows : ranks[i] = ranks[j] => i = j
      BY <1>2
    <3> HIDE DEF ranks
    <3> QED BY <3>1, Fun_IsInj
  <2>2. IsFiniteSet(DOMAIN begun)
    <3>1. Len(begun) \in Nat /\ DOMAIN begun = 1 .. Len(begun)
      BY DEF Ordered
    <3>2. IsFiniteSet(1 .. Len(begun))
      BY <3>1, FS_Interval
    <3> QED BY <3>1, <3>2
  <2> HIDE DEF ranks
  <2> QED BY <2>1, <2>2, FS_Injection
<1> QED BY <1>2, <1>3

\* Another transaction that begins leaves the ranks of the earlier ones.
LEMMA RankStays ==
    ASSUME Ordered, NEW x \in Invoices \ Begun, begun' = Append(begun, x), NEW i \in Begun
    PROVE  Rank(i)' = Rank(i)
<1>1. /\ DOMAIN begun' = DOMAIN begun \cup {Len(begun) + 1}
      /\ begun'[Len(begun) + 1] = x
      /\ \A n \in DOMAIN begun : begun'[n] = begun[n]
  BY DEF Ordered
<1>2. Rank(i) \in DOMAIN begun' /\ begun'[Rank(i)] = i
  BY <1>1, RankOf
<1>3. \A n \in DOMAIN begun' : begun'[n] = i => n = Rank(i)
  BY <1>1, RankOf DEF Ordered
<1>4. Rank(i)' = CHOOSE n \in DOMAIN begun' : begun'[n] = i
  BY DEF Rank
<1> QED BY <1>2, <1>3, <1>4

\* A page that is not full leaves no row behind it.
LEMMA LastPage ==
    ASSUME Ordered, NEW rows \in SUBSET Present, NEW offset \in Nat,
           NEW page \in Pages(rows, offset), Cardinality(page) # PageSize,
           NEW i \in rows
    PROVE  Newer(rows, i) < offset + PageSize
<1> DEFINE rank == [j \in rows |-> Rank(j)]
           above(j) == {k \in rows : rank[k] > rank[j]}
<1>1. PageSize \in Nat \ {0}
  BY ReportsAssumption
<1>2. IsFiniteSet(rows) /\ rank \in [rows -> Nat] /\ \A j, k \in rows : rank[j] = rank[k] => j = k
  BY RowsRanked
<1>3. \A j \in rows : above(j) = {k \in rows : Rank(k) > Rank(j)}
  OBVIOUS
<1>4. page = {j \in rows : /\ offset <= Cardinality(above(j))
                          /\ Cardinality(above(j)) < offset + PageSize}
  BY <1>3 DEF Pages
<1> HIDE DEF rank
<1>5. ~ (offset + PageSize <= Cardinality(rows))
  BY <1>1, <1>2, <1>4, FullPage
<1>6. Cardinality(rows) \in Nat
  BY <1>2, FS_CardinalityType
<1>7. above(i) \subseteq rows
  OBVIOUS
<1>8. Cardinality(above(i)) <= Cardinality(rows) /\ Cardinality(above(i)) \in Nat
  <2>1. IsFiniteSet(above(i)) /\ Cardinality(above(i)) <= Cardinality(rows)
    BY <1>2, <1>7, FS_Subset
  <2> HIDE DEF above
  <2> QED BY <2>1, FS_CardinalityType
<1>9. Newer(rows, i) = Cardinality(above(i))
  BY <1>3 DEF Newer
<1> HIDE DEF above
<1> QED BY <1>1, <1>5, <1>6, <1>8, <1>9

\* More rows, more newer ones.
LEMMA NewerGrows ==
    ASSUME Ordered, NEW rows, NEW more \in SUBSET Present, rows \subseteq more, NEW i \in more
    PROVE  /\ Newer(rows, i) \in Nat /\ Newer(more, i) \in Nat
           /\ Newer(rows, i) <= Newer(more, i)
<1>1. IsFiniteSet(more)
  BY RowsRanked
<1>2. {j \in rows : Rank(j) > Rank(i)} \subseteq {j \in more : Rank(j) > Rank(i)}
      /\ {j \in more : Rank(j) > Rank(i)} \subseteq more
  OBVIOUS
<1>3. IsFiniteSet({j \in more : Rank(j) > Rank(i)})
  BY <1>1, <1>2, FS_Subset
<1> QED BY <1>2, <1>3, FS_Subset, FS_CardinalityType DEF Newer

-----------------------------------------------------------------------------
(* The steps                                                               *)

\* What is ahead of a client stays ahead of it while rows only arrive.
LEMMA AheadStays ==
    ASSUME Ordered, Ahead, reader.kind = "list",
           reader'.offset = reader.offset, reader'.filter = reader.filter,
           reader'.atStart = reader.atStart, reader'.seen = reader.seen, reader'.at = reader.at,
           \A i \in Begun : Rank(i)' = Rank(i),
           IsFiniteSet(Present'),
           ~ reader'.lost => /\ ~ reader.lost
                             /\ Selected(reader.filter) \subseteq Selected(reader.filter)'
    PROVE  Ahead'
<1>1. reader.offset \in Nat /\ reader.filter \in Filters
  BY DEF Ahead
<1>2. ASSUME ~ reader'.lost, NEW i \in reader.atStart \ reader.seen
      PROVE  /\ reader.at # "done"
             /\ i \in Selected(reader.filter)'
             /\ Cardinality({j \in Selected(reader.filter)' : Rank(j)' > Rank(i)'}) >= reader.offset
  <2> DEFINE rows == Selected(reader.filter)
             more == Selected(reader.filter)'
             old == {j \in rows : Rank(j) > Rank(i)}
             new == {j \in more : Rank(j)' > Rank(i)'}
  <2>1. /\ reader.at # "done" /\ i \in rows /\ rows \subseteq more
        /\ Cardinality(old) >= reader.offset
    BY <1>2 DEF Ahead, Newer
  <2>2. rows \subseteq Begun
    BY DEF Selected, Ordered
  <2>3. more \subseteq Present'
    BY DEF Selected
  <2>4. old \subseteq new /\ new \subseteq Present'
    BY <2>1, <2>2, <2>3
  <2> HIDE DEF old, new, rows, more
  <2>5. IsFiniteSet(new)
    BY <2>4, FS_Subset
  <2>6. IsFiniteSet(old) /\ Cardinality(old) <= Cardinality(new)
    BY <2>4, <2>5, FS_Subset
  <2>7. Cardinality(old) \in Nat /\ Cardinality(new) \in Nat
    BY <2>5, <2>6, FS_CardinalityType
  <2>8. Cardinality(new) >= reader.offset
    BY <1>1, <2>1, <2>6, <2>7
  <2> QED BY <2>1, <2>8 DEF new, more, rows
<1> QED BY <1>1, <1>2 DEF Ahead, Newer

LEMMA WriteHolds ==
    ASSUME RInv, NEW i \in Begun, NEW row, Write(i, row), i \in Present \/ table[i] = Missing,
           row = Deleted \/ row.status \in D!Statuses
    PROVE  RInv'
<1>1. /\ table' = [table EXCEPT ![i] = row] /\ begun' = begun /\ i \in Invoices
      /\ DOMAIN table = Invoices
  BY DEF Write, RInv, Ordered, Begun
<1>2. /\ row.status \in D!Statuses \cup {"deleted"}
      /\ row \in {Missing, Deleted} <=> row = Deleted
  BY DEF Missing, Deleted, D!Statuses, D!Initial, D!Reviewed
<1>3. Present' \subseteq Present \cup {i}
  BY <1>1 DEF Present
<1>4. Ordered'
  BY <1>1, <1>3 DEF RInv, Ordered, Begun
<1>5. IsFiniteSet(Present')
  <2>1. IsFiniteSet(Present)
    BY RowsRanked DEF RInv
  <2> QED BY <1>3, <2>1, FS_AddElement, FS_Subset
<1>6. \A j \in Begun : Rank(j)' = Rank(j)
  BY <1>1 DEF Rank
<1>7. CASE reader.at = "second"
  <2>1. reader' = [reader EXCEPT !.changed = reader'.changed]
    BY <1>7 DEF Write, RInv, ReaderOK
  <2>2. ReaderOK' /\ reader'.kind # "list"
    BY <1>7, <2>1 DEF RInv, ReaderOK
  <2> QED BY <1>4, <2>2 DEF RInv, Ahead
<1>8. CASE reader.at # "second" /\ reader.kind = "list"
  <2> DEFINE lost == reader.lost \/ (/\ i \in Selected(reader.filter)
                                     /\ row.status \notin reader.filter)
  <2>1. reader' = [reader EXCEPT !.lost = lost]
    BY <1>8 DEF Write
  <2>2. ReaderOK' /\ reader'.lost = lost
    BY <1>8, <2>1 DEF RInv, ReaderOK
  <2>3. /\ reader'.offset = reader.offset /\ reader'.filter = reader.filter
        /\ reader'.atStart = reader.atStart /\ reader'.seen = reader.seen /\ reader'.at = reader.at
    BY <2>1 DEF RInv, ReaderOK
  <2>4. reader.filter \subseteq D!Statuses \cup {"normalized", "validated", "paid"}
    BY <1>8, ReportsAssumption DEF RInv, Ahead
  <2>5. ASSUME ~ lost PROVE Selected(reader.filter) \subseteq Selected(reader.filter)'
    <3> SUFFICES ASSUME NEW j \in Selected(reader.filter) PROVE j \in Selected(reader.filter)'
      OBVIOUS
    <3>1. CASE j # i
      BY <1>1, <2>3, <3>1 DEF Selected, Present
    <3>2. CASE j = i
      <4>1. table'[i] = row /\ row.status \in reader.filter
        BY <1>1, <2>5, <3>2
      <4>2. row.status \notin {"missing", "deleted"}
        BY <2>4, <4>1 DEF D!Statuses, D!Initial, D!Reviewed
      <4>3. row \notin {Missing, Deleted}
        BY <4>2 DEF Missing, Deleted
      <4> QED BY <1>1, <2>3, <3>2, <4>1, <4>3 DEF Selected, Present
    <3> QED BY <3>1, <3>2
  <2> HIDE DEF lost
  <2>6. Ahead'
    BY <1>5, <1>6, <1>8, <2>2, <2>3, <2>5, AheadStays DEF RInv, lost
  <2> QED BY <1>4, <2>2, <2>6 DEF RInv
<1>9. CASE reader.at # "second" /\ reader.kind # "list"
  <2>1. reader' = reader
    BY <1>9 DEF Write
  <2> QED BY <1>4, <1>9, <2>1 DEF RInv, ReaderOK, Ahead
<1> QED BY <1>7, <1>8, <1>9

LEMMA WriterHolds ==
    ASSUME RInv, NEW i \in Invoices,
           BeginInvoice(i) \/ CommitInvoice(i) \/ Process(i) \/ Review(i) \/ DeleteInvoice(i)
    PROVE  RInv'
<1>1. CASE BeginInvoice(i)
  <2>1. /\ begun' = Append(begun, i) /\ i \in Invoices \ Begun /\ UNCHANGED <<table, reader>>
        /\ begun \in Seq(Invoices)
    BY <1>1 DEF BeginInvoice, RInv, Ordered
  <2>2. /\ begun' \in Seq(Invoices)
        /\ DOMAIN begun' = DOMAIN begun \cup {Len(begun) + 1}
        /\ begun'[Len(begun) + 1] = i
        /\ \A n \in DOMAIN begun : begun'[n] = begun[n] /\ begun[n] # i
    BY <2>1 DEF Begun
  <2>3. Begun \subseteq Begun' /\ Present' = Present
    BY <2>1, <2>2 DEF Begun, Present
  <2>4. Ordered'
    BY <2>1, <2>2, <2>3 DEF RInv, Ordered
  <2>5. \A j \in Begun : Rank(j)' = Rank(j)
    BY <2>1, RankStays DEF RInv
  <2>6. IsFiniteSet(Present')
    BY <2>3, RowsRanked DEF RInv
  <2>7. Selected(reader.filter)' = Selected(reader.filter)
    BY <2>1, <2>3 DEF Selected
  <2>8. Ahead'
    <3>1. CASE reader.kind = "list"
      BY <2>1, <2>5, <2>6, <2>7, <3>1, AheadStays DEF RInv
    <3>2. CASE reader.kind # "list"
      BY <2>1, <3>2 DEF Ahead
    <3> QED BY <3>1, <3>2
  <2> QED BY <2>1, <2>4, <2>8 DEF RInv, ReaderOK
<1>2. \A d \in DecidedAs : D!DecisionStatus[d] \in D!Statuses
  BY ReportsAssumption DEF D!DecisionStatus, D!Statuses, D!Reviewed, D!Decisions
<1>3. i \in Present => i \in Begun
  BY DEF RInv, Ordered
<1>4. CASE CommitInvoice(i)
  <2>1. PICK row : /\ Write(i, row) /\ i \in Begun /\ table[i] = Missing
                   /\ row.status = "received" \/ \E d \in DecidedAs : row.status = D!DecisionStatus[d]
    BY <1>4 DEF CommitInvoice
  <2>2. row.status \in D!Statuses
    BY <1>2, <2>1 DEF D!Statuses, D!Initial
  <2> QED BY <2>1, <2>2, WriteHolds
<1>5. CASE Process(i)
  <2>1. PICK d \in DecidedAs : Write(i, [status |-> D!DecisionStatus[d], action |-> d])
    BY <1>5 DEF Process
  <2> QED BY <1>2, <1>3, <1>5, <2>1, WriteHolds DEF Process
<1>6. CASE Review(i)
  <2>1. PICK s \in ReviewedAs : Write(i, [table[i] EXCEPT !.status = s])
    BY <1>6 DEF Review
  <2>2. s \in D!Statuses
    BY ReportsAssumption DEF D!Statuses
  <2>3. [table[i] EXCEPT !.status = s].status = s
    OBVIOUS
  <2> QED BY <1>3, <1>6, <2>1, <2>2, <2>3, WriteHolds DEF Review
<1>7. CASE DeleteInvoice(i)
  BY <1>3, <1>7, WriteHolds DEF DeleteInvoice
<1> QED BY <1>1, <1>4, <1>5, <1>6, <1>7

\* A reader that is no list.
LEMMA OtherReader ==
    ASSUME RInv, UNCHANGED <<table, begun>>, ReaderOK', reader'.kind # "list"
    PROVE  RInv'
BY DEF RInv, Ordered, Present, Begun, Ahead

LEMMA CountHolds ==
    ASSUME RInv, UNCHANGED <<table, begun>>, ListCount
    PROVE  RInv'
<1>1. Ordered'
  BY DEF RInv, Ordered, Present, Begun
<1>2. ASSUME NEW filter \in Filters,
             reader' = [NoReport EXCEPT !.kind = "list", !.at = "rows", !.filter = filter,
                            !.atStart = Selected(filter), !.total = Cardinality(Selected(filter))]
      PROVE  RInv'
  <2>1. /\ reader'.kind = "list" /\ reader'.at = "rows" /\ reader'.filter = filter
        /\ reader'.atStart = Selected(filter) /\ reader'.offset = 0 /\ ReaderOK'
    BY <1>2 DEF NoReport, ReaderOK
  <2>2. Selected(filter)' = Selected(filter) /\ Selected(filter) \in SUBSET Present
    BY DEF Selected, Present
  <2>3. \A j \in Begun : Rank(j)' = Rank(j)
    BY DEF Rank
  <2>4. \A i \in Selected(filter) : Newer(Selected(filter), i)' \in Nat
    <3> SUFFICES ASSUME NEW i \in Selected(filter)
                 PROVE  Cardinality({j \in Selected(filter)' : Rank(j)' > Rank(i)'}) \in Nat
      BY DEF Newer
    <3>1. IsFiniteSet(Selected(filter)')
      BY <2>2, RowsRanked DEF RInv
    <3>2. IsFiniteSet({j \in Selected(filter)' : Rank(j)' > Rank(i)'})
      BY <3>1, FS_Subset
    <3> QED BY <3>2, FS_CardinalityType
  <2>5. Ahead'
    BY <2>1, <2>2, <2>4 DEF Ahead
  <2> QED BY <1>1, <2>1, <2>5 DEF RInv
<1>3. ASSUME reader.at = "next page",
             reader' = [reader EXCEPT !.at = "rows", !.total = Cardinality(Selected(reader.filter))]
      PROVE  RInv'
  <2>1. /\ reader.kind = "list" /\ reader'.kind = "list" /\ reader'.at = "rows" /\ ReaderOK'
        /\ reader'.filter = reader.filter /\ reader'.offset = reader.offset
        /\ reader'.atStart = reader.atStart /\ reader'.seen = reader.seen
        /\ reader'.lost = reader.lost
    BY <1>3 DEF RInv, ReaderOK
  <2>2. \A i : Newer(Selected(reader.filter), i)' = Newer(Selected(reader.filter), i)
               /\ Selected(reader.filter)' = Selected(reader.filter)
    BY <2>1 DEF Newer, Selected, Present, Rank
  <2>3. Ahead'
    BY <2>1, <2>2 DEF RInv, Ahead
  <2> QED BY <1>1, <2>1, <2>3 DEF RInv
<1> QED BY <1>2, <1>3 DEF ListCount

LEMMA RowsHolds ==
    ASSUME RInv, UNCHANGED <<table, begun>>, ListRows
    PROVE  RInv'
<1> DEFINE rows == Selected(reader.filter)
<1>1. Ordered'
  BY DEF RInv, Ordered, Present, Begun
<1>2. PICK page \in Pages(rows, reader.offset) :
        reader' = [reader EXCEPT !.seen = @ \cup page, !.offset = @ + PageSize,
                      !.at = IF Cardinality(page) = PageSize THEN "next page" ELSE "done"]
  BY DEF ListRows
<1>3. reader.at = "rows" /\ reader.kind = "list"
  BY DEF ListRows, RInv, ReaderOK
<1>4. /\ reader'.kind = "list" /\ ReaderOK'
      /\ reader'.at = (IF Cardinality(page) = PageSize THEN "next page" ELSE "done")
      /\ reader'.filter = reader.filter /\ reader'.offset = reader.offset + PageSize
      /\ reader'.atStart = reader.atStart /\ reader'.seen = reader.seen \cup page
      /\ reader'.lost = reader.lost
  BY <1>2, <1>3 DEF RInv, ReaderOK
<1>5. reader.offset \in Nat /\ PageSize \in Nat \ {0} /\ reader.filter \in Filters
      /\ reader'.offset \in Nat
  <2>1. reader.offset \in Nat /\ reader.filter \in Filters
    BY <1>3 DEF RInv, Ahead
  <2>2. PageSize \in Nat \ {0} /\ reader'.offset = reader.offset + PageSize
    BY <1>4, ReportsAssumption
  <2> QED BY <2>1, <2>2
<1>6. rows \in SUBSET Present
  BY DEF Selected
<1>7. page = {i \in rows : reader.offset <= Newer(rows, i) /\ Newer(rows, i) < reader.offset + PageSize}
  BY <1>2 DEF Pages, Newer
<1>8. ASSUME ~ reader.lost, NEW i \in reader.atStart \ (reader.seen \cup page)
      PROVE  /\ i \in rows /\ Newer(rows, i) >= reader.offset + PageSize
             /\ Cardinality(page) = PageSize
  <2>1. i \in rows /\ Newer(rows, i) >= reader.offset
    BY <1>3, <1>8 DEF RInv, Ahead
  <2>2. Newer(rows, i) \in Nat
    <3>1. IsFiniteSet(rows) /\ {j \in rows : Rank(j) > Rank(i)} \subseteq rows
      BY <1>6, RowsRanked DEF RInv
    <3>2. IsFiniteSet({j \in rows : Rank(j) > Rank(i)})
      BY <3>1, FS_Subset
    <3> QED BY <3>2, FS_CardinalityType DEF Newer
  <2>3. ~ (Newer(rows, i) < reader.offset + PageSize)
    BY <1>7, <1>8, <2>1
  <2>4. Cardinality(page) = PageSize
    BY <1>2, <1>5, <1>6, <2>1, <2>3, LastPage DEF RInv
  <2> QED BY <1>5, <2>1, <2>2, <2>3, <2>4
<1>9. \A i : Newer(rows, i)' = Newer(rows, i) /\ rows' = rows
  <2>1. reader'.filter = reader.filter
    BY <1>4
  <2> QED BY <2>1 DEF Newer, Selected, Present, Rank
<1>10. Ahead'
  <2> HIDE DEF rows
  <2>1. ASSUME ~ reader'.lost, NEW i \in reader'.atStart \ reader'.seen
        PROVE  reader'.at # "done" /\ i \in rows' /\ Newer(rows, i)' >= reader'.offset
    BY <1>4, <1>8, <1>9, <2>1
  <2> QED BY <1>4, <1>5, <2>1 DEF Ahead, rows
<1> QED BY <1>1, <1>4, <1>10 DEF RInv

LEMMA ReportHolds ==
    ASSUME RInv, UNCHANGED <<table, begun>>, Report
    PROVE  RInv'
<1>1. ASSUME NEW kind, NEW groups, NEW total, kind # "list", Answers(kind, groups, total)
      PROVE  RInv'
  BY <1>1, OtherReader DEF Answers, NoReport, ReaderOK
<1>2. CASE CountByStatus
  BY <1>2, OtherReader DEF CountByStatus, Begins, NoReport, ReaderOK
<1>3. CASE CountAgain
  <2>1. PICK total : reader' = [reader EXCEPT !.at = "done", !.total = total]
    BY <1>3 DEF CountAgain
  <2>2. reader.kind # "list"
    BY <1>3 DEF CountAgain
  <2> QED BY <2>1, <2>2, OtherReader DEF RInv, ReaderOK
<1>4. CASE PayablesAging \/ SpendByMonth \/ SpendByVendor \/ DiscountOpportunities
  BY <1>1, <1>4 DEF PayablesAging, SpendByMonth, SpendByVendor, DiscountOpportunities
<1> QED BY <1>2, <1>3, <1>4, CountHolds, RowsHolds DEF Report

LEMMA ReportsStepHolds == RInv /\ [ReportsNext]_rvars => RInv'
<1> SUFFICES ASSUME RInv, [ReportsNext]_rvars PROVE RInv'
  OBVIOUS
<1>1. CASE UNCHANGED rvars
  <2>1. UNCHANGED <<table, begun>> /\ reader' = reader
    BY <1>1 DEF rvars
  <2>2. \A i : Newer(Selected(reader.filter), i)' = Newer(Selected(reader.filter), i)
               /\ Selected(reader.filter)' = Selected(reader.filter)
    BY <2>1 DEF Newer, Selected, Present, Rank
  <2>3. Ordered' /\ ReaderOK'
    <3>1. Ordered'
      BY <2>1 DEF RInv, Ordered, Present, Begun
    <3>2. ReaderOK'
      BY <2>1 DEF RInv, ReaderOK
    <3> QED BY <3>1, <3>2
  <2>4. Ahead'
    BY <2>1, <2>2 DEF RInv, Ahead
  <2> QED BY <2>3, <2>4 DEF RInv
<1> QED BY <1>1, WriterHolds, ReportHolds DEF ReportsNext

LEMMA ReportsInitHolds == ReportsInit => RInv
<1> SUFFICES ASSUME ReportsInit PROVE RInv
  OBVIOUS
<1>1. ReaderOK /\ reader.kind # "list"
  BY DEF ReportsInit, NoReport, ReaderOK
<1>2. Present = {}
  BY DEF ReportsInit, Present
<1>3. Ordered
  BY <1>2 DEF ReportsInit, Ordered
<1> QED BY <1>1, <1>3 DEF RInv, Ahead

\* Whatever is written between two pages, what the list selected when the client
\* began and still selects is on a page it has had or beyond its offset.
THEOREM ReportsInvariance == ReportsSpec => []RInv
BY ReportsInitHolds, ReportsStepHolds, PTL DEF ReportsSpec, rvars

\* A client that walks through the pages until one is not full has seen every invoice
\* the list selected when it began, unless one of them was lost to the list.
THEOREM NothingMissed == ReportsSpec => []PagesMissNothing
<1>1. RInv => PagesMissNothing
  BY DEF RInv, Ahead, PagesMissNothing
<1> QED BY <1>1, ReportsInvariance, PTL

-----------------------------------------------------------------------------
(* Adding up                                                               *)

\* Rows that are counted by group add up to the rows: number the rows of each
\* group from 1, and the pairs of a group and a number are as many as the rows.
LEMMA CountsAddUp ==
    ASSUME NEW rows, IsFiniteSet(rows), NEW groups, NEW key \in [rows -> groups]
    PROVE  Total([g \in groups |-> Cardinality({i \in rows : key[i] = g})]) = Cardinality(rows)
<1> DEFINE members(g) == {i \in rows : key[i] = g}
           counts == [g \in groups |-> Cardinality(members(g))]
           numbers == [g \in groups |-> CHOOSE f : f \in Bijection(1..counts[g], members(g))]
           pairs == UNION {{g} \X (1..counts[g]) : g \in groups}
           row == [p \in pairs |-> numbers[p[1]][p[2]]]
<1>1. ASSUME NEW g \in groups
      PROVE  counts[g] \in Nat /\ numbers[g] \in Bijection(1..counts[g], members(g))
  <2>1. IsFiniteSet(members(g))
    BY FS_Subset
  <2>2. counts[g] = Cardinality(members(g))
    OBVIOUS
  <2> HIDE DEF counts, members
  <2>3. counts[g] \in Nat /\ ExistsBijection(1..counts[g], members(g))
    BY <2>1, <2>2, FS_CardinalityType
  <2>4. \E f : f \in Bijection(1..counts[g], members(g))
    BY <2>3 DEF ExistsBijection
  <2>5. numbers[g] = CHOOSE f : f \in Bijection(1..counts[g], members(g))
    OBVIOUS
  <2> QED BY <2>3, <2>4, <2>5
<1>2. \A g \in groups : members(g) \subseteq rows /\ \A i \in members(g) : key[i] = g
  OBVIOUS
<1>3. \A i \in rows : key[i] \in groups /\ i \in members(key[i])
  OBVIOUS
<1> HIDE DEF members, counts, numbers
<1>4. \A p \in pairs : p = <<p[1], p[2]>> /\ p[1] \in groups /\ p[2] \in 1..counts[p[1]]
  <2> SUFFICES ASSUME NEW p \in pairs
               PROVE  p = <<p[1], p[2]>> /\ p[1] \in groups /\ p[2] \in 1..counts[p[1]]
    OBVIOUS
  <2>1. PICK g \in groups : p \in {g} \X (1..counts[g])
    OBVIOUS
  <2> QED BY <2>1
<1>5. \A g \in groups : \A n \in 1..counts[g] : <<g, n>> \in pairs
  OBVIOUS
<1> HIDE DEF pairs
<1>6. \A p \in pairs : row[p] = numbers[p[1]][p[2]]
  OBVIOUS
<1>7. row = [p \in pairs |-> row[p]]
  OBVIOUS
<1> HIDE DEF row
<1>8. \A g \in groups :
        /\ \A n \in 1..counts[g] : numbers[g][n] \in members(g)
        /\ \A m, n \in 1..counts[g] : numbers[g][m] = numbers[g][n] => m = n
        /\ \A i \in members(g) : \E n \in 1..counts[g] : numbers[g][n] = i
  BY <1>1 DEF Bijection, Injection, Surjection, IsInjective
<1>9. row \in [pairs -> rows]
  <2>1. \A p \in pairs : row[p] \in rows
    BY <1>2, <1>4, <1>6, <1>8
  <2> QED BY <1>7, <2>1
<1>10. \A p, q \in pairs : row[p] = row[q] => p = q
  <2> SUFFICES ASSUME NEW p \in pairs, NEW q \in pairs, row[p] = row[q] PROVE p = q
    OBVIOUS
  <2>1. row[p] \in members(p[1]) /\ row[q] \in members(q[1])
    BY <1>4, <1>6, <1>8
  <2>2. p[1] = q[1]
    BY <1>2, <1>4, <2>1
  <2>3. p[2] = q[2]
    BY <1>4, <1>6, <1>8, <2>2
  <2> QED BY <1>4, <2>2, <2>3
<1>11. \A i \in rows : \E p \in pairs : row[p] = i
  <2> SUFFICES ASSUME NEW i \in rows PROVE \E p \in pairs : row[p] = i
    OBVIOUS
  <2>1. PICK n \in 1..counts[key[i]] : numbers[key[i]][n] = i
    BY <1>3, <1>8
  <2>2. <<key[i], n>> \in pairs /\ row[<<key[i], n>>] = numbers[key[i]][n]
    BY <1>3, <1>5, <1>6
  <2> QED BY <2>1, <2>2
<1>12. row \in Bijection(pairs, rows)
  BY <1>9, <1>10, <1>11, Fun_IsBij
<1>13. ExistsBijection(rows, pairs)
  BY <1>12, Fun_ExistsBijSymmetric DEF ExistsBijection
<1>14. Cardinality(pairs) = Cardinality(rows)
  BY <1>13, FS_Bijection
<1>15. Total(counts) = Cardinality(pairs)
  BY DEF Total, pairs, counts
<1>16. counts = [g \in groups |-> Cardinality({i \in rows : key[i] = g})]
  BY DEF counts, members
<1> QED BY <1>14, <1>15, <1>16

\* What a report can count on: every row has a status and an action there is a group
\* for, and the groups of a first statement, with what has changed since, are the rows.
RowsOK == \A i \in Present : table[i].status \in D!Statuses /\ table[i].action \in D!Actions
Tally ==
    reader.at = "second" =>
        /\ reader.changed \in Int /\ Total(reader.groups) \in Nat
        /\ Cardinality(Present) = Total(reader.groups) + reader.changed

AInv == RInv /\ RowsOK /\ Tally /\ ReportsAddUp

\* One row that is written changes the count by the row gained, less the row lost.
LEMMA CountWritten ==
    ASSUME RInv, NEW i \in Begun, NEW row, table' = [table EXCEPT ![i] = row],
           row = Deleted \/ row.status \in D!Statuses
    PROVE  /\ Cardinality(Present) \in Nat
           /\ Gain(i, row) \in Int
           /\ Cardinality(Present') = Cardinality(Present) + Gain(i, row)
<1>1. DOMAIN table = Invoices /\ i \in Invoices
  BY DEF RInv, Ordered, Begun
<1>2. row # Deleted => row # Missing
  BY DEF Missing, Deleted, D!Statuses, D!Initial, D!Reviewed
<1>3. Missing # Deleted
  BY DEF Missing, Deleted
<1>4. Present' = IF row # Deleted THEN Present \cup {i} ELSE Present \ {i}
  BY <1>1, <1>2, <1>3 DEF Present
<1>5. IsFiniteSet(Present)
  BY RowsRanked DEF RInv
<1>6. Cardinality(Present) \in Nat
  BY <1>5, FS_CardinalityType
<1>7. /\ Cardinality(Present \cup {i}) = IF i \in Present THEN Cardinality(Present) ELSE Cardinality(Present) + 1
      /\ Cardinality(Present \ {i}) = IF i \in Present THEN Cardinality(Present) - 1 ELSE Cardinality(Present)
  BY <1>5, FS_AddElement, FS_RemoveElement
<1>8. Gain(i, row) \in Int
  BY DEF Gain
<1> QED BY <1>4, <1>6, <1>7, <1>8 DEF Gain

LEMMA WriteAddsUp ==
    ASSUME AInv, reader.at # "done", NEW i \in Begun, NEW row, Write(i, row),
           i \in Present \/ table[i] = Missing,
           row = Deleted \/ (row.status \in D!Statuses /\ row.action \in D!Actions)
    PROVE  RowsOK' /\ Tally' /\ ReportsAddUp'
<1>1. DOMAIN table = Invoices /\ table' = [table EXCEPT ![i] = row] /\ i \in Invoices
  BY DEF AInv, RInv, Ordered, Begun, Write
<1>2. RowsOK'
  BY <1>1 DEF AInv, RowsOK, Present
<1>3. reader'.at = reader.at
  BY DEF AInv, RInv, ReaderOK, Write
<1>4. Tally'
  <2> SUFFICES ASSUME reader.at = "second" PROVE Tally'
    BY <1>3 DEF Tally
  <2>1. reader' = [reader EXCEPT !.changed = reader'.changed]
    BY DEF Write, AInv, RInv, ReaderOK
  <2>2. reader'.groups = reader.groups /\ reader'.changed = reader.changed + Gain(i, row)
    <3>1. reader'.groups = reader.groups
      BY <2>1 DEF AInv, RInv, ReaderOK
    <3>2. reader'.changed = reader.changed + Gain(i, row)
      BY DEF Write, AInv, RInv, ReaderOK
    <3> QED BY <3>1, <3>2
  <2>3. /\ Cardinality(Present) \in Nat /\ Gain(i, row) \in Int
        /\ Cardinality(Present') = Cardinality(Present) + Gain(i, row)
    BY <1>1, CountWritten DEF AInv
  <2>4. /\ reader.changed \in Int /\ Total(reader.groups) \in Nat
        /\ Cardinality(Present) = Total(reader.groups) + reader.changed
    BY DEF AInv, Tally
  <2>5. Total(reader.groups)' = Total(reader.groups)
    BY <2>2 DEF Total
  <2>6. /\ reader'.changed \in Int
        /\ Cardinality(Present') = Total(reader.groups) + reader'.changed
    BY <2>2, <2>3, <2>4
  <2> QED BY <2>4, <2>5, <2>6 DEF Tally
<1>5. ReportsAddUp'
  BY <1>3 DEF ReportsAddUp
<1> QED BY <1>2, <1>4, <1>5

LEMMA WriterAddsUp ==
    ASSUME AInv, reader.at # "done", NEW i \in Invoices,
           BeginInvoice(i) \/ CommitInvoice(i) \/ Process(i) \/ Review(i) \/ DeleteInvoice(i)
    PROVE  RowsOK' /\ Tally' /\ ReportsAddUp'
<1>1. CASE BeginInvoice(i)
  <2>1. UNCHANGED <<table, reader>>
    BY <1>1 DEF BeginInvoice
  <2>2. Present' = Present /\ reader' = reader /\ table' = table
    BY <2>1 DEF Present
  <2> QED BY <2>2 DEF AInv, RowsOK, Tally, ReportsAddUp
<1>2. \A d \in DecidedAs : D!DecisionStatus[d] \in D!Statuses /\ d \in D!Actions
  BY ReportsAssumption DEF D!DecisionStatus, D!Statuses, D!Reviewed, D!Decisions, D!Actions
<1>3. i \in Present => i \in Begun
  BY DEF AInv, RInv, Ordered
<1>4. CASE CommitInvoice(i)
  <2>1. PICK row : /\ Write(i, row) /\ i \in Begun /\ table[i] = Missing
                   /\ \/ row = [status |-> "received", action |-> "none"]
                      \/ \E d \in DecidedAs : row = [status |-> D!DecisionStatus[d], action |-> d]
    BY <1>4 DEF CommitInvoice
  <2>2. row.status \in D!Statuses /\ row.action \in D!Actions
    BY <1>2, <2>1 DEF D!Statuses, D!Initial, D!Actions
  <2> QED BY <2>1, <2>2, WriteAddsUp
<1>5. CASE Process(i)
  <2>1. PICK d \in DecidedAs : Write(i, [status |-> D!DecisionStatus[d], action |-> d])
    BY <1>5 DEF Process
  <2> QED BY <1>2, <1>3, <1>5, <2>1, WriteAddsUp DEF Process
<1>6. CASE Review(i)
  <2>1. PICK s \in ReviewedAs : Write(i, [table[i] EXCEPT !.status = s])
    BY <1>6 DEF Review
  <2>2. i \in Present /\ table[i].status \in D!Statuses /\ table[i].action \in D!Actions
    BY <1>6 DEF Review, AInv, RowsOK
  <2>3. s \in D!Statuses
    BY ReportsAssumption DEF D!Statuses
  <2>4. /\ [table[i] EXCEPT !.status = s].status \in D!Statuses
        /\ [table[i] EXCEPT !.status = s].action \in D!Actions
    BY <2>2, <2>3
  <2> QED BY <1>3, <2>1, <2>2, <2>4, WriteAddsUp
<1>7. CASE DeleteInvoice(i)
  BY <1>3, <1>7, WriteAddsUp DEF DeleteInvoice
<1> QED BY <1>1, <1>4, <1>5, <1>6, <1>7

\* The counts of the statements that group every present row, and of the others.
LEMMA StatusAddsUp ==
    ASSUME AInv
    PROVE  /\ Total(StatusCounts) = Cardinality(Present)
           /\ Total(DecisionBreakdown) = Cardinality(Present)
<1> DEFINE status == [i \in Present |-> table[i].status]
           action == [i \in Present |-> table[i].action]
<1>1. IsFiniteSet(Present)
  BY RowsRanked DEF AInv, RInv
<1>2. status \in [Present -> D!Statuses \cup {"paid"}] /\ action \in [Present -> D!Actions]
  BY DEF AInv, RowsOK
<1>3. /\ \A g : {i \in Present : status[i] = g} = {i \in Present : table[i].status = g}
      /\ \A g : {i \in Present : action[i] = g} = {i \in Present : table[i].action = g}
  OBVIOUS
<1> HIDE DEF status, action
<1>4. /\ StatusCounts = [g \in D!Statuses \cup {"paid"} |-> Cardinality({i \in Present : status[i] = g})]
      /\ DecisionBreakdown = [g \in D!Actions |-> Cardinality({i \in Present : action[i] = g})]
  BY <1>3 DEF StatusCounts, DecisionBreakdown, Counts
<1>5. Total(StatusCounts) = Cardinality(Present)
  <2> DEFINE groups == D!Statuses \cup {"paid"}
  <2> HIDE DEF groups
  <2> QED BY <1>1, <1>2, <1>4, CountsAddUp DEF groups
<1>6. Total(DecisionBreakdown) = Cardinality(Present)
  BY <1>1, <1>2, <1>4, CountsAddUp
<1> QED BY <1>5, <1>6

LEMMA AnswerAddsUp ==
    ASSUME AInv, UNCHANGED <<table, begun>>,
           NEW kind, NEW groups, NEW total \in Nat, kind \notin {"list", "stats", "metrics"},
           Answers(kind, groups, total), total = Total(groups)
    PROVE  RowsOK' /\ Tally' /\ ReportsAddUp'
<1>1. RowsOK'
  BY DEF AInv, RowsOK, Present
<1>2. /\ reader'.kind = kind /\ reader'.at = "done" /\ reader'.groups = groups
      /\ reader'.total = total
  BY DEF Answers, NoReport
<1>3. Total(reader.groups)' = Total(groups)
  BY <1>2 DEF Total
<1>4. reader'.total = Total(reader.groups)' + 0
  BY <1>2, <1>3
<1> QED BY <1>1, <1>2, <1>4 DEF Tally, ReportsAddUp

LEMMA CountByStatusAddsUp ==
    ASSUME AInv, UNCHANGED <<table, begun>>, CountByStatus
    PROVE  RowsOK' /\ Tally' /\ ReportsAddUp'
<1>1. RowsOK' /\ Present' = Present
  BY DEF AInv, RowsOK, Present
<1>2. PICK kind : reader' = [NoReport EXCEPT !.kind = kind, !.at = "second",
                               !.groups = StatusCounts, !.total = 0]
  BY DEF CountByStatus, Begins
<1>3. reader'.at = "second" /\ reader'.groups = StatusCounts /\ reader'.changed = 0
  BY <1>2 DEF NoReport
<1>4. Total(reader.groups)' = Total(StatusCounts)
  BY <1>3 DEF Total
<1>5. Cardinality(Present) \in Nat
  BY RowsRanked, FS_CardinalityType DEF AInv, RInv
<1>6. /\ Total(reader.groups)' \in Nat /\ Cardinality(Present') = Cardinality(Present)
      /\ Cardinality(Present) = Total(reader.groups)' + reader'.changed
  BY <1>1, <1>3, <1>4, <1>5, StatusAddsUp
<1> QED BY <1>1, <1>3, <1>6 DEF Tally, ReportsAddUp

LEMMA CountAgainAddsUp ==
    ASSUME AInv, UNCHANGED <<table, begun>>, CountAgain
    PROVE  RowsOK' /\ Tally' /\ ReportsAddUp'
<1>1. RowsOK' /\ Present' = Present
  BY DEF AInv, RowsOK, Present
<1>2. InvoiceTotal = Cardinality(Present) /\ Total(DecisionBreakdown) = Cardinality(Present)
  BY StatusAddsUp DEF InvoiceTotal
<1>3. reader' = [reader EXCEPT !.at = "done", !.total = Cardinality(Present)]
  <2>1. PICK total : /\ reader' = [reader EXCEPT !.at = "done", !.total = total]
                     /\ total \in {InvoiceTotal, Total(DecisionBreakdown)}
    BY DEF CountAgain
  <2> QED BY <1>2, <2>1
<1>4. /\ reader'.at = "done" /\ reader'.kind \in {"stats", "metrics"}
      /\ reader'.total = Cardinality(Present)
      /\ reader'.groups = reader.groups /\ reader'.changed = reader.changed
  BY <1>3 DEF CountAgain, AInv, RInv, ReaderOK
<1>5. Cardinality(Present) = Total(reader.groups) + reader.changed
  BY DEF CountAgain, AInv, Tally
<1>6. Total(reader.groups)' = Total(reader.groups)
  BY <1>4 DEF Total
<1> QED BY <1>1, <1>4, <1>5, <1>6 DEF Tally, ReportsAddUp

LEMMA AgingAddsUp ==
    ASSUME AInv, UNCHANGED <<table, begun>>, PayablesAging
    PROVE  RowsOK' /\ Tally' /\ ReportsAddUp'
<1> DEFINE bucket == [i \in Outstanding |-> AgingKey(i)]
<1>1. IsFiniteSet(Outstanding) /\ Cardinality(Outstanding) \in Nat
  <2>1. Outstanding \in SUBSET Present
    BY DEF Outstanding
  <2> QED BY <2>1, RowsRanked, FS_CardinalityType DEF AInv, RInv
<1>2. bucket \in [Outstanding -> AgingBuckets]
  BY DEF AgingKey, AgingBuckets
<1>3. \A g : {i \in Outstanding : bucket[i] = g} = {i \in Outstanding : AgingKey(i) = g}
  OBVIOUS
<1> HIDE DEF bucket
<1>4. Counts(AgingBuckets, Outstanding, AgingKey)
        = [g \in AgingBuckets |-> Cardinality({i \in Outstanding : bucket[i] = g})]
  BY <1>3 DEF Counts
<1>5. Total(Counts(AgingBuckets, Outstanding, AgingKey)) = Cardinality(Outstanding)
  BY <1>1, <1>2, <1>4, CountsAddUp
<1> QED BY <1>1, <1>5, AnswerAddsUp DEF PayablesAging

LEMMA MonthsAddUp ==
    ASSUME AInv, UNCHANGED <<table, begun>>, SpendByMonth
    PROVE  RowsOK' /\ Tally' /\ ReportsAddUp'
<1> DEFINE dated == {i \in Present : Month[i] # NoDate}
           months == {Month[i] : i \in dated}
           month == [i \in dated |-> Month[i]]
           counts == [g \in months |-> Cardinality({i \in dated : Month[i] = g})]
<1>1. IsFiniteSet(dated) /\ Cardinality(dated) \in Nat
  BY RowsRanked, FS_CardinalityType DEF AInv, RInv
<1>2. month \in [dated -> months]
  OBVIOUS
<1>3. \A g : {i \in dated : month[i] = g} = {i \in dated : Month[i] = g}
  OBVIOUS
<1>4. Answers("months", counts, Cardinality(dated))
  BY DEF SpendByMonth, Counts
<1> HIDE DEF dated, months, month
<1>5. counts = [g \in months |-> Cardinality({i \in dated : month[i] = g})]
  BY <1>3
<1> HIDE DEF counts
<1>6. Total(counts) = Cardinality(dated)
  BY <1>1, <1>2, <1>5, CountsAddUp
<1> QED BY <1>1, <1>4, <1>6, AnswerAddsUp

LEMMA VendorsAddUp ==
    ASSUME AInv, UNCHANGED <<table, begun>>, SpendByVendor
    PROVE  RowsOK' /\ Tally' /\ ReportsAddUp'
<1> DEFINE vendors == {VendorKey(i) : i \in Present}
           all == [v \in vendors |-> Cardinality({i \in Present : VendorKey(i) = v})]
<1>1. PICK kept \in SUBSET vendors :
        Answers("vendors", [v \in kept |-> all[v]], Cardinality({i \in Present : VendorKey(i) \in kept}))
  BY DEF SpendByVendor, Counts
<1> DEFINE rows == {i \in Present : VendorKey(i) \in kept}
           vendor == [i \in rows |-> VendorKey(i)]
           counts == [v \in kept |-> all[v]]
<1>2. IsFiniteSet(rows) /\ Cardinality(rows) \in Nat
  BY RowsRanked, FS_CardinalityType DEF AInv, RInv
<1>3. vendor \in [rows -> kept]
  OBVIOUS
<1>4. \A v \in kept : {i \in Present : VendorKey(i) = v} = {i \in rows : vendor[i] = v}
  OBVIOUS
<1> HIDE DEF rows, vendor
<1>5. \A v \in kept : all[v] = Cardinality({i \in rows : vendor[i] = v})
  BY <1>4
<1> HIDE DEF all
<1>6. counts = [v \in kept |-> Cardinality({i \in rows : vendor[i] = v})]
  BY <1>5
<1>7. Total(counts) = Cardinality(rows)
  BY <1>2, <1>3, <1>6, CountsAddUp
<1>8. Answers("vendors", counts, Cardinality(rows))
  BY <1>1 DEF rows
<1> HIDE DEF counts
<1> QED BY <1>2, <1>7, <1>8, AnswerAddsUp

LEMMA DiscountsAddUp ==
    ASSUME AInv, UNCHANGED <<table, begun>>, DiscountOpportunities
    PROVE  RowsOK' /\ Tally' /\ ReportsAddUp'
<1>1. CASE Outstanding \cap Refused # {}
  <2>1. Answers("failed", <<>>, 0)
    BY <1>1 DEF DiscountOpportunities
  <2>2. Total(<<>>) = 0
    <3>1. UNION {{g} \X (1..(<<>>)[g]) : g \in DOMAIN <<>>} = {}
      OBVIOUS
    <3> QED BY <3>1, FS_EmptySet DEF Total
  <2> QED BY <2>1, <2>2, AnswerAddsUp
<1>2. CASE Outstanding \cap Refused = {}
  <2> DEFINE rows == Outstanding \cap Discounted
             row == [i \in rows |-> i]
             counts == [i \in rows |-> 1]
  <2>1. Answers("discounts", counts, Cardinality(rows))
    BY <1>2 DEF DiscountOpportunities
  <2>2. IsFiniteSet(rows) /\ Cardinality(rows) \in Nat
    <3>1. rows \in SUBSET Present
      BY DEF Outstanding
    <3> QED BY <3>1, RowsRanked, FS_CardinalityType DEF AInv, RInv
  <2>3. row \in [rows -> rows]
    OBVIOUS
  <2>4. \A g \in rows : {i \in rows : row[i] = g} = {g}
    OBVIOUS
  <2> HIDE DEF rows, row
  <2>5. \A g \in rows : Cardinality({i \in rows : row[i] = g}) = 1
    BY <2>4, FS_Singleton
  <2>6. counts = [g \in rows |-> Cardinality({i \in rows : row[i] = g})]
    BY <2>5
  <2>7. Total(counts) = Cardinality(rows)
    BY <2>2, <2>3, <2>6, CountsAddUp
  <2> HIDE DEF counts
  <2> QED BY <2>1, <2>2, <2>7, AnswerAddsUp
<1> QED BY <1>1, <1>2

LEMMA ListAddsUp ==
    ASSUME AInv, UNCHANGED <<table, begun>>, ListCount \/ ListRows
    PROVE  RowsOK' /\ Tally' /\ ReportsAddUp'
<1>1. RowsOK'
  BY DEF AInv, RowsOK, Present
<1>2. reader'.kind = "list" /\ reader'.at \in {"rows", "next page", "done"}
  <2>1. CASE ListCount
    BY <2>1 DEF ListCount, NoReport, AInv, RInv, ReaderOK
  <2>2. CASE ListRows
    BY <2>2 DEF ListRows, AInv, RInv, ReaderOK
  <2> QED BY <2>1, <2>2
<1> QED BY <1>1, <1>2 DEF Tally, ReportsAddUp

LEMMA AddsUpStepHolds == AInv /\ [ReportsNext]_rvars => AInv'
<1> SUFFICES ASSUME AInv, [ReportsNext]_rvars PROVE AInv'
  OBVIOUS
<1>1. RInv'
  BY ReportsStepHolds DEF AInv
<1>2. CASE UNCHANGED rvars
  <2>1. UNCHANGED <<table, reader>>
    BY <1>2 DEF rvars
  <2> QED BY <1>1, <2>1 DEF AInv, RowsOK, Tally, ReportsAddUp, Present
<1>3. CASE ReportsNext
  <2>1. ASSUME NEW i \in Invoices,
               BeginInvoice(i) \/ CommitInvoice(i) \/ Process(i) \/ Review(i) \/ DeleteInvoice(i)
        PROVE  RowsOK' /\ Tally' /\ ReportsAddUp'
    BY <1>3, <2>1, WriterAddsUp DEF ReportsNext
  <2>2. ASSUME Report, UNCHANGED <<table, begun>>
        PROVE  RowsOK' /\ Tally' /\ ReportsAddUp'
    BY <2>2, CountByStatusAddsUp, CountAgainAddsUp, AgingAddsUp, MonthsAddUp, VendorsAddUp,
       DiscountsAddUp, ListAddsUp DEF Report
  <2> QED BY <1>1, <1>3, <2>1, <2>2 DEF ReportsNext, AInv
<1> QED BY <1>2, <1>3

\* Every report adds up: each row it selects is in exactly one of its groups, and the
\* two statements of a report differ by the rows that came and went between them.
THEOREM GroupsAddUp == ReportsSpec => []ReportsAddUp
<1>1. ReportsInit => AInv
  <2> SUFFICES ASSUME ReportsInit PROVE AInv
    OBVIOUS
  <2>1. Present = {} /\ reader.at = "idle"
    BY DEF ReportsInit, Present, NoReport
  <2> QED BY <2>1, ReportsInitHolds DEF AInv, RowsOK, Tally, ReportsAddUp
<1>2. AInv => ReportsAddUp
  BY DEF AInv
<1> QED BY <1>1, <1>2, AddsUpStepHolds, PTL DEF ReportsSpec, rvars
=============================================================================
