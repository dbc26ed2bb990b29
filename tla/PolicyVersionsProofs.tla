----------------------- MODULE PolicyVersionsProofs ------------------------
(***************************************************************************)
(* For any number of vendors and of concurrent calls, a vendor's policies  *)
(* are numbered 1 .. n and version n alone is active.                      *)
(*                                                                         *)
(* What makes this inductive is what a call that has computed number k     *)
(* knows: k is at most n + 1, and as long as it is n + 1 nobody has        *)
(* published since, so the active policy is still the one its UPDATE saw   *)
(* (then: deactivated). When it is less, its INSERT is bound to fail.      *)
(***************************************************************************)
EXTENDS PolicyVersions, TLAPS

\* The number of versions of v.
Last(v) == NextVersion(v) - 1

\* Calls on v that have computed their number.
Counting(t, v) == of[t] = v /\ pc[t] \in {"update", "locking", "insert", "commit"}

Numbered(v) ==
  /\ Last(v) \in Nat
  /\ Numbers(v) = 1 .. Last(v)
  /\ \A p, q \in policies[v] : p.version = q.version => p = q
  /\ active[v] = {p \in policies[v] : p.version = Last(v)}
  /\ vendor[v] # "present" => policies[v] = {}

Informed(t, v) ==
  /\ of[t] = v /\ pc[t] \in Open \ {"begun"} => vendor[v] # "absent"
  /\ Counting(t, v) /\ vendor[v] = "present" =>
    /\ next[t] <= Last(v) + 1
    /\ pc[t] = "locking" /\ next[t] = Last(v) + 1 => active[v] \subseteq seen[t]
    /\ pc[t] \in {"insert", "commit"} /\ next[t] = Last(v) + 1 => active[v] \subseteq held[t]

Reserved(t) ==
  pc[t] = "commit" =>
    /\ vendor[of[t]] = "present"
    /\ next[t] \notin Numbers(of[t])
    /\ \A u \in Requests \ {t} : pc[u] = "commit" /\ of[u] = of[t] => next[u] # next[t]

IInv ==
  /\ TypeOK
  /\ \A v \in Vendors : Numbered(v)
  /\ \A t \in Requests, v \in Vendors : Informed(t, v)
  /\ \A t \in Requests : Reserved(t)

-----------------------------------------------------------------------------

\* The number the code computes when the versions are 1 .. n.
LEMMA NextOfInterval ==
  ASSUME NEW v \in Vendors, NEW n \in Nat, Numbers(v) = 1 .. n
  PROVE  NextVersion(v) = n + 1
<1>1. CASE policies[v] = {}
  <2>1. 1 \notin 1 .. n
    BY <1>1 DEF Numbers
  <2>2. n = 0
    BY <2>1
  <2> QED BY <1>1, <2>2 DEF NextVersion
<1>2. CASE policies[v] # {}
  <2>1. n \in Numbers(v) /\ \A m \in Numbers(v) : m <= n
    BY <1>2 DEF Numbers
  <2>2. \A k \in Numbers(v) : (\A m \in Numbers(v) : k >= m) => k = n
    BY <2>1
  <2>3. Max(Numbers(v)) = n
    BY <2>1, <2>2 DEF Max
  <2> QED BY <1>2, <2>3 DEF NextVersion
<1> QED BY <1>1, <1>2

\* What Numbered says, with the number of versions named.
LEMMA NumberedBy ==
  ASSUME NEW v \in Vendors, NEW n \in Nat,
         Numbers(v) = 1 .. n,
         \A p, q \in policies[v] : p.version = q.version => p = q,
         active[v] = {p \in policies[v] : p.version = n},
         vendor[v] # "present" => policies[v] = {}
  PROVE  Numbered(v) /\ Last(v) = n
<1>1. NextVersion(v) = n + 1
  BY NextOfInterval
<1> QED BY <1>1 DEF Last, Numbered

LEMMA InitHolds == Init => IInv
<1> SUFFICES ASSUME Init PROVE IInv
  OBVIOUS
<1>1. TypeOK
  BY DEF Init, TypeOK, Open, Ended
<1>2. ASSUME NEW v \in Vendors PROVE Numbered(v)
  <2>1. Numbers(v) = {} /\ 1 .. 0 = {}
    BY DEF Init, Numbers
  <2> QED BY <2>1, NumberedBy, 0 \in Nat DEF Init
<1>3. ASSUME NEW t \in Requests, NEW v \in Vendors PROVE Informed(t, v)
  BY DEF Init, Informed, Counting, Open
<1>4. ASSUME NEW t \in Requests PROVE Reserved(t)
  BY DEF Init, Reserved
<1> QED BY <1>1, <1>2, <1>3, <1>4 DEF IInv

-----------------------------------------------------------------------------

\* Steps that leave the tables alone leave what is said of the tables.
LEMMA TablesUnchanged ==
  ASSUME UNCHANGED tables, NEW v \in Vendors
  PROVE  /\ Last(v)' = Last(v)
         /\ Numbers(v)' = Numbers(v)
         /\ Numbered(v) => Numbered(v)'
<1>1. Numbers(v)' = Numbers(v)
  BY DEF tables, Numbers
<1>2. Last(v)' = Last(v)
  BY <1>1 DEF tables, Last, NextVersion
<1> QED BY <1>1, <1>2 DEF tables, Numbered

\* A step that leaves a vendor alone leaves what is said of that vendor.
LEMMA VendorUnchanged ==
  ASSUME NEW v \in Vendors,
         vendor'[v] = vendor[v], policies'[v] = policies[v], active'[v] = active[v]
  PROVE  /\ Last(v)' = Last(v)
         /\ Numbers(v)' = Numbers(v)
         /\ Numbered(v) => Numbered(v)'
<1>1. Numbers(v)' = Numbers(v)
  BY DEF Numbers
<1>2. Last(v)' = Last(v)
  BY <1>1 DEF Last, NextVersion
<1> QED BY <1>1, <1>2 DEF Numbered

\* NumberedBy, of the state a step leads to.
LEMMA NumberedNext ==
  ASSUME NEW v \in Vendors, NEW n \in Nat,
         Numbers(v)' = 1 .. n,
         \A p, q \in policies'[v] : p.version = q.version => p = q,
         active'[v] = {p \in policies'[v] : p.version = n},
         vendor'[v] # "present" => policies'[v] = {}
  PROVE  Numbered(v)' /\ Last(v)' = n
<1>1. CASE policies'[v] = {}
  <2>1. n = 0
    BY <1>1 DEF Numbers
  <2> QED BY <1>1, <2>1 DEF Last, NextVersion, Numbered
<1>2. CASE policies'[v] # {}
  <2>1. n \in Numbers(v)' /\ \A m \in Numbers(v)' : m <= n
    BY <1>2 DEF Numbers
  <2>2. Max(Numbers(v)') = n
    BY <2>1 DEF Max
  <2>3. Last(v)' = n
    BY <1>2, <2>2 DEF Last, NextVersion
  <2> QED BY <2>3 DEF Numbered
<1> QED BY <1>1, <1>2

\* A call that is rolled back, or is not counting yet, needs to know nothing.
LEMMA FailHolds ==
  ASSUME IInv, NEW t \in Requests, Fail(t)
  PROVE  IInv'
<1> USE DEF Fail, End, Goto
<1>1. TypeOK'
  BY DEF IInv, TypeOK, tables, Open, Ended
<1>2. ASSUME NEW v \in Vendors PROVE Numbered(v)'
  BY TablesUnchanged DEF IInv
<1>3. ASSUME NEW u \in Requests, NEW v \in Vendors PROVE Informed(u, v)'
  <2>1. Last(v)' = Last(v)
    BY TablesUnchanged
  <2>2. Informed(u, v)
    BY DEF IInv
  <2> QED BY <2>1, <2>2 DEF Informed, Counting, IInv, TypeOK, tables, Open
<1>4. ASSUME NEW u \in Requests PROVE Reserved(u)'
  <2>1. Reserved(u) /\ of[u] \in Vendors
    BY DEF IInv, TypeOK
  <2>2. Numbers(of[u])' = Numbers(of[u])
    BY <2>1, TablesUnchanged
  <2> QED BY <2>1, <2>2 DEF Reserved, IInv, TypeOK, tables
<1> QED BY <1>1, <1>2, <1>3, <1>4 DEF IInv

LEMMA BeginHolds ==
  ASSUME IInv, NEW t \in Requests, Begin(t)
  PROVE  IInv'
<1> USE DEF Begin, Goto
<1>1. TypeOK'
  BY DEF IInv, TypeOK, tables, Open, Ended
<1>2. ASSUME NEW v \in Vendors PROVE Numbered(v)'
  BY TablesUnchanged DEF IInv
<1>3. ASSUME NEW u \in Requests, NEW v \in Vendors PROVE Informed(u, v)'
  <2>1. Last(v)' = Last(v)
    BY TablesUnchanged
  <2>2. Informed(u, v)
    BY DEF IInv
  <2>3. CASE u = t
    BY <2>3 DEF Informed, Counting, IInv, TypeOK
  <2>4. CASE u # t
    BY <2>1, <2>2, <2>4 DEF Informed, Counting, IInv, TypeOK, tables
  <2> QED BY <2>3, <2>4
<1>4. ASSUME NEW u \in Requests PROVE Reserved(u)'
  <2>1. Reserved(u) /\ of[u] \in Vendors
    BY DEF IInv, TypeOK
  <2>2. \A v \in Vendors : Numbers(v)' = Numbers(v)
    BY TablesUnchanged
  <2>3. CASE u = t
    BY <2>3 DEF Reserved, IInv, TypeOK
  <2>4. CASE u # t
    <3>1. of'[u] = of[u] /\ next'[u] = next[u] /\ pc'[u] = pc[u]
      BY <2>4 DEF IInv, TypeOK
    <3>2. Numbers(of[u])' = Numbers(of[u])
      BY <2>1, <2>2, <3>1 DEF Numbers, tables
    <3> QED BY <2>1, <2>4, <3>1, <3>2 DEF Reserved, IInv, TypeOK, tables
  <2> QED BY <2>3, <2>4
<1> QED BY <1>1, <1>2, <1>3, <1>4 DEF IInv

\* The statements that only read: the call moves on with what it has seen.
LEMMA ReadHolds ==
  ASSUME IInv, NEW t \in Requests,
         GetVendor(t) \/ SelectMax(t) \/ UpdateStarts(t) \/ UpdateEnds(t)
  PROVE  IInv'
<1>1. CASE GetVendor(t) /\ Fail(t)
  BY <1>1, FailHolds
<1>2. CASE ~ Fail(t)
  <2>1. UNCHANGED <<tables, of, after>>
    BY <1>2 DEF GetVendor, SelectMax, UpdateStarts, UpdateEnds
  <2>2. of[t] \in Vendors /\ Last(of[t]) \in Nat /\ NextVersion(of[t]) = Last(of[t]) + 1
    <3>1. of[t] \in Vendors /\ Numbered(of[t])
      BY DEF IInv, TypeOK
    <3>2. NextVersion(of[t]) = Last(of[t]) + 1
      BY <3>1, NextOfInterval DEF Numbered
    <3> QED BY <3>1, <3>2 DEF Numbered
  <2>3. TypeOK'
    <3> USE <1>2, <2>1, <2>2 DEF IInv, TypeOK, tables, Goto, Open, Ended
    <3>1. CASE GetVendor(t)
      BY <3>1 DEF GetVendor
    <3>2. CASE SelectMax(t)
      BY <3>2 DEF SelectMax
    <3>3. CASE UpdateStarts(t)
      BY <3>3 DEF UpdateStarts
    <3>4. CASE UpdateEnds(t)
      BY <3>4 DEF UpdateEnds
    <3> QED BY <3>1, <3>2, <3>3, <3>4
  <2>4. ASSUME NEW v \in Vendors PROVE Numbered(v)'
    BY <2>1, TablesUnchanged DEF IInv
  <2>5. ASSUME NEW u \in Requests, NEW v \in Vendors PROVE Informed(u, v)'
    <3>1. Last(v)' = Last(v) /\ active'[v] = active[v]
      BY <2>1, TablesUnchanged DEF tables
    <3>2. Informed(u, v)
      BY DEF IInv
    <3>3. CASE u # t
      BY <1>2, <2>1, <3>1, <3>2, <3>3
         DEF Informed, Counting, IInv, TypeOK, tables, Goto, Open,
             GetVendor, SelectMax, UpdateStarts, UpdateEnds
    <3>4. CASE u = t
      <4> USE <1>2, <2>1, <2>2, <3>1, <3>2, <3>4
              DEF Informed, Counting, IInv, TypeOK, tables, Goto, Open
      <4>1. CASE GetVendor(t)
        BY <4>1 DEF GetVendor
      <4>2. CASE SelectMax(t)
        BY <4>2 DEF SelectMax
      <4>3. CASE UpdateStarts(t)
        BY <4>3 DEF UpdateStarts
      <4>4. CASE UpdateEnds(t)
        BY <4>4 DEF UpdateEnds
      <4> QED BY <4>1, <4>2, <4>3, <4>4
    <3> QED BY <3>3, <3>4
  <2>6. ASSUME NEW u \in Requests PROVE Reserved(u)'
    <3>1. Reserved(u) /\ of[u] \in Vendors
      BY DEF IInv, TypeOK
    <3>2. Numbers(of[u])' = Numbers(of[u])
      BY <2>1, <3>1, TablesUnchanged DEF tables
    <3>3. pc'[u] = "commit" => pc[u] = "commit" /\ u # t
      BY <1>2 DEF IInv, TypeOK, Goto, GetVendor, SelectMax, UpdateStarts, UpdateEnds
    <3>4. \A w \in Requests : pc'[w] = "commit" => pc[w] = "commit" /\ next'[w] = next[w]
      BY <1>2 DEF IInv, TypeOK, Goto, GetVendor, SelectMax, UpdateStarts, UpdateEnds
    <3> QED BY <2>1, <3>1, <3>2, <3>3, <3>4 DEF Reserved, tables
  <2> QED BY <2>3, <2>4, <2>5, <2>6 DEF IInv
<1> QED BY <1>1, <1>2, FailHolds

LEMMA InsertHolds ==
  ASSUME IInv, NEW t \in Requests, Insert(t)
  PROVE  IInv'
<1>1. CASE Fail(t)
  BY <1>1, FailHolds
<1>2. CASE ~ Fail(t)
  <2>1. /\ UNCHANGED <<tables, of, next, seen, held, after>>
        /\ pc[t] = "insert" /\ pc' = [pc EXCEPT ![t] = "commit"]
        /\ vendor[of[t]] = "present"
        /\ next[t] \notin Numbers(of[t])
        /\ \A u \in Requests \ {t} : pc[u] = "commit" /\ of[u] = of[t] => next[u] # next[t]
    BY <1>2 DEF Insert, Goto, NumberTaken, InsertedByOthers
  <2>2. TypeOK'
    BY <2>1 DEF IInv, TypeOK, tables, Open, Ended
  <2>3. ASSUME NEW v \in Vendors PROVE Numbered(v)' /\ Last(v)' = Last(v)
    BY <2>1, TablesUnchanged DEF IInv
  <2>4. ASSUME NEW u \in Requests, NEW v \in Vendors PROVE Informed(u, v)'
    <3>1. Informed(u, v)
      BY DEF IInv
    <3> QED BY <2>1, <2>3, <3>1 DEF Informed, Counting, IInv, TypeOK, tables, Open
  <2>5. ASSUME NEW u \in Requests PROVE Reserved(u)'
    <3>1. Reserved(u) /\ of[u] \in Vendors
      BY DEF IInv, TypeOK
    <3>2. Numbers(of[u])' = Numbers(of[u])
      BY <2>1 DEF Numbers, tables
    <3>3. \A w \in Requests \ {t} : pc'[w] = pc[w]
      BY <2>1 DEF IInv, TypeOK
    <3>4. pc'[t] = "commit"
      BY <2>1 DEF IInv, TypeOK
    <3>5. CASE u = t
      BY <2>1, <3>1, <3>2, <3>3, <3>5 DEF Reserved, tables
    <3>6. CASE u # t
      BY <2>1, <3>1, <3>2, <3>3, <3>4, <3>6 DEF Reserved, tables
    <3> QED BY <3>5, <3>6
  <2> QED BY <2>2, <2>3, <2>4, <2>5 DEF IInv
<1> QED BY <1>1, <1>2

\* The call that commits is the one that follows the versions there are, and it
\* has deactivated the one that was active.
LEMMA CommitFollows ==
  ASSUME IInv, NEW t \in Requests, pc[t] = "commit"
  PROVE  /\ of[t] \in Vendors
         /\ vendor[of[t]] = "present"
         /\ Last(of[t]) \in Nat
         /\ next[t] = Last(of[t]) + 1
         /\ active[of[t]] \ held[t] = {}
<1>1. /\ of[t] \in Vendors /\ next[t] \in Nat \ {0}
      /\ Numbered(of[t]) /\ Informed(t, of[t]) /\ Reserved(t)
  BY DEF IInv, TypeOK
<1>2. next[t] <= Last(of[t]) + 1 /\ next[t] \notin 1 .. Last(of[t])
  BY <1>1 DEF Informed, Counting, Reserved, Numbered
<1>3. next[t] = Last(of[t]) + 1
  BY <1>1, <1>2 DEF Numbered
<1> QED BY <1>1, <1>3 DEF Informed, Counting, Reserved, Numbered

LEMMA CommitHolds ==
  ASSUME IInv, NEW t \in Requests, Commit(t)
  PROVE  IInv'
<1>0. PICK v \in Vendors, n \in Nat : v = of[t] /\ n = Last(v)
  BY CommitFollows DEF Commit
<1>1. /\ v \in Vendors /\ n \in Nat /\ next[t] = n + 1
      /\ vendor[v] = "present" /\ active[v] \ held[t] = {}
  BY <1>0, CommitFollows DEF Commit
<1>2. /\ Numbers(v) = 1 .. n
      /\ \A p, q \in policies[v] : p.version = q.version => p = q
      /\ \A p \in policies[v] : p.version \in 1 .. n
  BY <1>0, <1>1 DEF IInv, Numbered, Numbers
<1>3. /\ policies' = [policies EXCEPT ![v] = @ \cup {New(t)}]
      /\ active' = [active EXCEPT ![v] = (@ \ held[t]) \cup {New(t)}]
      /\ UNCHANGED <<vendor, of, next, after>>
      /\ pc' = [pc EXCEPT ![t] = "ok"]
      /\ seen' = [seen EXCEPT ![t] = {}]
      /\ held' = [held EXCEPT ![t] = {}]
  BY <1>0 DEF Commit, End, Goto
<1>4. New(t) \in Policies /\ New(t).version = n + 1
  BY <1>1 DEF New, Policies, Authors
<1>5. /\ policies'[v] = policies[v] \cup {New(t)}
      /\ active'[v] = {New(t)}
      /\ \A w \in Vendors \ {v} : policies'[w] = policies[w] /\ active'[w] = active[w]
  BY <1>1, <1>3 DEF IInv, TypeOK
<1>6. TypeOK'
  <2>1. policies' \in [Vendors -> SUBSET Policies]
    BY <1>3, <1>4 DEF IInv, TypeOK
  <2>2. active' \in [Vendors -> SUBSET Policies]
    BY <1>3, <1>4 DEF IInv, TypeOK
  <2> QED BY <1>3, <2>1, <2>2 DEF IInv, TypeOK, Open, Ended
<1>7. Numbered(v)' /\ Last(v)' = n + 1
  <2>1. Numbers(v)' = 1 .. n + 1
    <3>1. Numbers(v)' = Numbers(v) \cup {n + 1}
      BY <1>4, <1>5 DEF Numbers
    <3> QED BY <1>1, <1>2, <3>1
  <2>2. \A p, q \in policies'[v] : p.version = q.version => p = q
    BY <1>1, <1>2, <1>4, <1>5
  <2>3. active'[v] = {p \in policies'[v] : p.version = n + 1}
    BY <1>1, <1>2, <1>4, <1>5
  <2>4. vendor'[v] = "present"
    BY <1>1, <1>3
  <2> QED BY <1>1, <2>1, <2>2, <2>3, <2>4, NumberedNext
<1>8. ASSUME NEW w \in Vendors \ {v}
      PROVE  Numbered(w)' /\ Last(w)' = Last(w) /\ Numbers(w)' = Numbers(w)
  BY <1>3, <1>5, VendorUnchanged DEF IInv
<1>9. ASSUME NEW u \in Requests, NEW w \in Vendors PROVE Informed(u, w)'
  <2>1. Informed(u, w) /\ next[u] \in Nat
    BY DEF IInv, TypeOK
  <2>2. CASE u = t
    BY <1>3, <2>2 DEF Informed, Counting, Open, IInv, TypeOK
  <2>3. CASE u # t /\ w = v
    <3>1. next'[u] = next[u] /\ of'[u] = of[u] /\ pc'[u] = pc[u]
      BY <1>3, <2>3 DEF IInv, TypeOK
    <3>2. Counting(u, w) => next[u] <= n + 1
      BY <1>0, <1>1, <2>1, <2>3 DEF Informed
    <3>3. vendor'[w] # "absent"
      BY <1>1, <1>3, <2>3
    <3> QED BY <1>0, <1>1, <1>7, <2>1, <2>3, <3>1, <3>2, <3>3 DEF Informed, Counting
  <2>4. CASE u # t /\ w # v
    BY <1>3, <1>5, <1>8, <2>1, <2>4 DEF Informed, Counting, IInv, TypeOK
  <2> QED BY <2>2, <2>3, <2>4
<1>10. ASSUME NEW u \in Requests PROVE Reserved(u)'
  <2>1. Reserved(u) /\ of[u] \in Vendors /\ next[u] \in Nat
    BY DEF IInv, TypeOK
  <2>2. CASE u = t
    BY <1>3, <2>2 DEF Reserved, IInv, TypeOK
  <2>3. CASE u # t
    <3>1. /\ pc'[u] = pc[u] /\ of'[u] = of[u] /\ next'[u] = next[u]
          /\ \A w \in Requests : pc'[w] = "commit" => pc[w] = "commit"
      BY <1>3, <2>3 DEF IInv, TypeOK
    <3>2. CASE of[u] = v
      <4>1. Numbers(of[u])' = Numbers(of[u]) \cup {n + 1}
        BY <1>3, <1>4, <1>5, <3>2 DEF Numbers
      <4>2. pc[u] = "commit" => next[u] # n + 1
        <5>1. pc[t] = "commit"
          BY DEF Commit
        <5> QED BY <1>0, <1>1, <2>1, <2>3, <3>2, <5>1 DEF Reserved
      <4> QED BY <1>3, <2>1, <3>1, <4>1, <4>2 DEF Reserved
    <3>3. CASE of[u] # v
      <4>1. Numbers(of[u])' = Numbers(of[u])
        BY <1>3, <1>5, <2>1, <3>3 DEF Numbers
      <4> QED BY <1>3, <2>1, <3>1, <4>1 DEF Reserved
    <3> QED BY <3>2, <3>3
  <2> QED BY <2>2, <2>3
<1> QED BY <1>6, <1>7, <1>8, <1>9, <1>10 DEF IInv

LEMMA CreateVendorHolds ==
  ASSUME IInv, NEW v \in Vendors, CreateVendor(v)
  PROVE  IInv'
<1>1. /\ vendor[v] = "absent" /\ vendor' = [vendor EXCEPT ![v] = "present"]
      /\ UNCHANGED <<pc, of, next, seen, held, after>>
      /\ \A w \in Vendors \ {v} :
           vendor'[w] = vendor[w] /\ policies'[w] = policies[w] /\ active'[w] = active[w]
      /\ \/ policies'[v] = {} /\ active'[v] = {}
         \/ policies'[v] = {First} /\ active'[v] = {First}
  BY DEF CreateVendor, IInv, TypeOK, Numbered
<1>2. TypeOK'
  <2>1. First \in Policies
    BY DEF First, Policies, Authors
  <2>2. policies' \in [Vendors -> SUBSET Policies] /\ active' \in [Vendors -> SUBSET Policies]
    BY <2>1 DEF CreateVendor, IInv, TypeOK
  <2> QED BY <1>1, <2>2 DEF IInv, TypeOK
<1>3. Numbered(v)'
  <2>1. CASE policies'[v] = {} /\ active'[v] = {}
    <3>1. Numbers(v)' = {} /\ 1 .. 0 = {}
      BY <2>1 DEF Numbers
    <3> QED BY <2>1, <3>1, NumberedNext, 0 \in Nat
  <2>2. CASE policies'[v] = {First} /\ active'[v] = {First}
    <3>1. First.version = 1
      BY DEF First
    <3>2. Numbers(v)' = {1} /\ 1 .. 1 = {1}
      BY <2>2, <3>1 DEF Numbers
    <3>3. vendor'[v] = "present"
      BY <1>1 DEF IInv, TypeOK
    <3> QED BY <2>2, <3>1, <3>2, <3>3, NumberedNext, 1 \in Nat
  <2> QED BY <1>1, <2>1, <2>2
<1>4. ASSUME NEW w \in Vendors \ {v}
      PROVE  Numbered(w)' /\ Last(w)' = Last(w) /\ Numbers(w)' = Numbers(w)
  BY <1>1, VendorUnchanged DEF IInv
<1>5. \A u \in Requests : of[u] = v => pc[u] \notin Open \ {"begun"}
  BY <1>1 DEF IInv, Informed
<1>6. ASSUME NEW u \in Requests, NEW w \in Vendors PROVE Informed(u, w)'
  <2>1. Informed(u, w)
    BY DEF IInv
  <2>2. CASE w = v
    BY <1>1, <1>5, <2>2 DEF Informed, Counting, Open
  <2>3. CASE w # v
    BY <1>1, <1>4, <2>1, <2>3 DEF Informed, Counting
  <2> QED BY <2>2, <2>3
<1>7. ASSUME NEW u \in Requests PROVE Reserved(u)'
  <2>1. Reserved(u) /\ of[u] \in Vendors
    BY DEF IInv, TypeOK
  <2>2. CASE of[u] = v
    BY <1>1, <1>5, <2>2 DEF Reserved, Open
  <2>3. CASE of[u] # v
    <3>1. Numbers(of[u])' = Numbers(of[u])
      BY <1>1, <2>1, <2>3 DEF Numbers
    <3> QED BY <1>1, <2>1, <2>3, <3>1 DEF Reserved
  <2> QED BY <2>2, <2>3
<1> QED BY <1>2, <1>3, <1>4, <1>6, <1>7 DEF IInv

LEMMA DeleteVendorHolds ==
  ASSUME IInv, NEW v \in Vendors, DeleteVendor(v)
  PROVE  IInv'
<1>1. /\ vendor' = [vendor EXCEPT ![v] = "deleted"]
      /\ UNCHANGED <<pc, of, next, seen, held, after>>
      /\ \A w \in Vendors \ {v} :
           vendor'[w] = vendor[w] /\ policies'[w] = policies[w] /\ active'[w] = active[w]
      /\ policies'[v] = {} /\ active'[v] = {}
      /\ \A u \in Requests : of[u] = v => pc[u] # "commit"
  BY DEF DeleteVendor, InUse, IInv, TypeOK
<1>2. TypeOK'
  BY <1>1 DEF DeleteVendor, IInv, TypeOK
<1>3. Numbered(v)'
  <2>1. Numbers(v)' = {} /\ 1 .. 0 = {}
    BY <1>1 DEF Numbers
  <2> QED BY <1>1, <2>1, NumberedNext, 0 \in Nat
<1>4. ASSUME NEW w \in Vendors \ {v}
      PROVE  Numbered(w)' /\ Last(w)' = Last(w) /\ Numbers(w)' = Numbers(w)
  BY <1>1, VendorUnchanged DEF IInv
<1>5. ASSUME NEW u \in Requests, NEW w \in Vendors PROVE Informed(u, w)'
  <2>1. Informed(u, w)
    BY DEF IInv
  <2>2. CASE w = v
    <3>1. vendor'[w] = "deleted"
      BY <1>1, <2>2 DEF IInv, TypeOK
    <3> QED BY <3>1 DEF Informed
  <2>3. CASE w # v
    BY <1>1, <1>4, <2>1, <2>3 DEF Informed, Counting
  <2> QED BY <2>2, <2>3
<1>6. ASSUME NEW u \in Requests PROVE Reserved(u)'
  <2>1. Reserved(u) /\ of[u] \in Vendors
    BY DEF IInv, TypeOK
  <2>2. CASE of[u] = v
    BY <1>1, <2>2 DEF Reserved
  <2>3. CASE of[u] # v
    <3>1. Numbers(of[u])' = Numbers(of[u])
      BY <1>1, <2>1, <2>3 DEF Numbers
    <3> QED BY <1>1, <2>1, <2>3, <3>1 DEF Reserved
  <2> QED BY <2>2, <2>3
<1> QED BY <1>2, <1>3, <1>4, <1>5, <1>6 DEF IInv

LEMMA StepHolds == IInv /\ [Next]_vars => IInv'
<1> SUFFICES ASSUME IInv, [Next]_vars PROVE IInv'
  OBVIOUS
<1>1. ASSUME NEW t \in Requests, Begin(t) PROVE IInv'
  BY <1>1, BeginHolds
<1>2. ASSUME NEW t \in Requests, Handle(t) PROVE IInv'
  BY <1>2, ReadHolds, InsertHolds, CommitHolds DEF Handle
<1>3. ASSUME NEW t \in Requests, Abort(t) PROVE IInv'
  BY <1>3, FailHolds DEF Abort
<1>4. ASSUME NEW v \in Vendors, CreateVendor(v) \/ DeleteVendor(v) PROVE IInv'
  BY <1>4, CreateVendorHolds, DeleteVendorHolds
<1>5. CASE UNCHANGED vars
  <2>1. TypeOK'
    BY <1>5 DEF vars, IInv, TypeOK
  <2>2. ASSUME NEW v \in Vendors
        PROVE  Numbered(v)' /\ Last(v)' = Last(v) /\ Numbers(v)' = Numbers(v)
    BY <1>5, TablesUnchanged DEF vars, tables, IInv
  <2>3. ASSUME NEW t \in Requests, NEW v \in Vendors PROVE Informed(t, v)'
    BY <1>5, <2>2 DEF vars, IInv, Informed, Counting
  <2>4. ASSUME NEW t \in Requests PROVE Reserved(t)'
    BY <1>5 DEF vars, IInv, Reserved, Numbers
  <2> QED BY <2>1, <2>2, <2>3, <2>4 DEF IInv
<1> QED BY <1>1, <1>2, <1>3, <1>4, <1>5 DEF Next

THEOREM Invariance == Spec => []IInv
BY InitHolds, StepHolds, PTL DEF Spec

-----------------------------------------------------------------------------

\* Whatever calls run at the same time, the tables, the numbers computed and the
\* rows locked have their types; that a computed number is a positive natural
\* number already needs the versions to be 1 .. n.
THEOREM TypeCorrect == Spec => []TypeOK
<1>1. IInv => TypeOK
  BY DEF IInv
<1> QED BY <1>1, Invariance, PTL

\* Readers that expect one active policy, or none (scalar_one_or_none), never
\* find two: the order of the statements of _create_policy_version and the unique
\* constraint keep it so although no lock is taken before the number is computed.
THEOREM OneActive == Spec => []OneActivePolicy
<1>1. ASSUME IInv, NEW v \in Vendors
      PROVE  /\ active[v] \subseteq policies[v]
             /\ \A p, q \in active[v] : p = q
             /\ policies[v] # {} => active[v] # {}
  <2>1. Numbered(v)
    BY <1>1 DEF IInv
  <2>2. active[v] \subseteq policies[v] /\ \A p, q \in active[v] : p = q
    BY <2>1 DEF Numbered
  <2>3. ASSUME policies[v] # {} PROVE active[v] # {}
    <3>1. Last(v) \in Numbers(v)
      BY <2>1, <2>3 DEF Numbered, Numbers
    <3>2. PICK p \in policies[v] : p.version = Last(v)
      BY <3>1 DEF Numbers
    <3> QED BY <2>1, <3>2 DEF Numbered
  <2> QED BY <2>2, <2>3
<1>2. IInv => OneActivePolicy
  BY <1>1 DEF OneActivePolicy
<1> QED BY <1>2, Invariance, PTL

\* The policy that is active is the newest one, also after calls that computed
\* the same number, waited for each other's locks or failed.
THEOREM ActiveLatest == Spec => []ActiveIsLatest
<1>1. ASSUME IInv, NEW v \in Vendors, NEW p \in active[v], NEW q \in policies[v]
      PROVE  q.version <= p.version
  <2>1. Numbered(v)
    BY <1>1 DEF IInv
  <2>2. q.version \in 1 .. Last(v) /\ p.version = Last(v)
    BY <2>1, <1>1 DEF Numbered, Numbers
  <2> QED BY <2>1, <2>2 DEF Numbered
<1>2. IInv => ActiveIsLatest
  BY <1>1 DEF ActiveIsLatest
<1> QED BY <1>2, Invariance, PTL

-----------------------------------------------------------------------------
(* The order of the numbers: IInv says nothing of calls that have ended. *)

\* A call that was answered 201 has its number among those of the vendor, so the
\* next one is greater; and what a call found ended stays ended.
Answered(t) ==
  /\ pc[t] = "ok" => vendor[of[t]] # "absent"
  /\ pc[t] = "ok" /\ vendor[of[t]] = "present" => next[t] <= Last(of[t])
  /\ \A u \in after[t] : pc[u] \in Ended

InTime ==
  /\ VersionsFollowTime
  /\ \A t \in Requests : Answered(t)

LEMMA InitInTime == Init => InTime
BY DEF Init, InTime, VersionsFollowTime, Answered

\* A step of a call that publishes nothing.
LEMMA QuietInTime ==
  ASSUME IInv, InTime, NEW t \in Requests, UNCHANGED tables,
         pc[t] \notin Ended, pc'[t] # "ok",
         \A w \in Requests \ {t} :
           pc'[w] = pc[w] /\ of'[w] = of[w] /\ next'[w] = next[w] /\ after'[w] = after[w],
         after'[t] \in SUBSET Requests, \A u \in after'[t] : pc[u] \in Ended
  PROVE  InTime'
<1>1. VersionsFollowTime'
  BY DEF InTime, VersionsFollowTime
<1>2. ASSUME NEW w \in Requests PROVE Answered(w)'
  <2>1. Answered(w) /\ of[w] \in Vendors /\ after[w] \in SUBSET Requests
    BY DEF IInv, TypeOK, InTime
  <2>2. \A u \in after'[w] : u # t /\ pc[u] \in Ended /\ u \in Requests
    BY <2>1 DEF Answered
  <2>3. \A u \in after'[w] : pc'[u] \in Ended
    BY <2>2
  <2>4. CASE w = t
    BY <2>3, <2>4 DEF Answered
  <2>5. CASE w # t
    <3>1. Last(of[w])' = Last(of[w]) /\ vendor'[of'[w]] = vendor[of[w]]
      BY <2>5 DEF Last, NextVersion, Numbers, tables
    <3> QED BY <2>1, <2>3, <2>5, <3>1 DEF Answered
  <2> QED BY <2>4, <2>5
<1> QED BY <1>1, <1>2 DEF InTime

\* The call that commits gets a number greater than all that were answered.
LEMMA CommitInTime ==
  ASSUME IInv, InTime, IInv', NEW t \in Requests, Commit(t)
  PROVE  InTime'
<1>1. PICK v \in Vendors, n \in Nat :
        /\ v = of[t] /\ n = Last(v) /\ next[t] = n + 1 /\ vendor[v] = "present"
  BY CommitFollows DEF Commit
<1>2. /\ pc[t] = "commit" /\ pc' = [pc EXCEPT ![t] = "ok"]
      /\ UNCHANGED <<vendor, of, next, after>>
      /\ policies' = [policies EXCEPT ![v] = @ \cup {New(t)}]
  BY <1>1 DEF Commit, End, Goto
<1>3. pc'[t] = "ok" /\ \A w \in Requests \ {t} : pc'[w] = pc[w]
  BY <1>2 DEF IInv, TypeOK
<1>4. \A w \in Requests : w # t /\ pc[w] = "ok" /\ of[w] = v => next[w] < next[t]
  <2> SUFFICES ASSUME NEW w \in Requests, pc[w] = "ok", of[w] = v
               PROVE  next[w] < next[t]
    OBVIOUS
  <2>1. next[w] <= n /\ next[w] \in Nat
    BY <1>1 DEF IInv, TypeOK, InTime, Answered
  <2> QED BY <1>1, <2>1
<1>5. \A w \in Requests : t \notin after[w]
  BY <1>2 DEF InTime, Answered, Ended
<1>6. \A w \in Requests : next[w] \in Nat
  BY DEF IInv, TypeOK
<1>7. VersionsFollowTime'
  <2> SUFFICES ASSUME NEW a \in Requests, NEW b \in Requests, a # b,
                      pc'[a] = "ok", pc'[b] = "ok", of[a] = of[b]
               PROVE  next[a] # next[b] /\ (a \in after[b] => next[a] < next[b])
    BY <1>2 DEF VersionsFollowTime
  <2>1. CASE a = t
    BY <1>1, <1>3, <1>4, <1>5, <1>6, <2>1
  <2>2. CASE b = t
    BY <1>1, <1>3, <1>4, <1>6, <2>2
  <2>3. CASE a # t /\ b # t
    BY <1>3, <2>3 DEF InTime, VersionsFollowTime
  <2> QED BY <2>1, <2>2, <2>3
<1>8. Last(v)' = n + 1
  <2>1. Numbered(v)' /\ Numbered(v)
    BY DEF IInv
  <2>2. Numbers(v)' = Numbers(v) \cup {n + 1}
    <3>1. policies'[v] = policies[v] \cup {New(t)}
      BY <1>2 DEF IInv, TypeOK
    <3>2. New(t).version = n + 1
      BY <1>1 DEF New
    <3> QED BY <3>1, <3>2 DEF Numbers
  <2>3. Last(v)' \in Nat /\ 1 .. Last(v)' = 1 .. n \cup {n + 1}
    BY <1>1, <2>1, <2>2 DEF Numbered
  <2>4. \A m \in Nat : m \in 1 .. Last(v)' <=> m \in 1 .. n \cup {n + 1}
    BY <2>3
  <2>5. n + 1 <= Last(v)' /\ ~(n + 2 <= Last(v)')
    BY <1>1, <2>3, <2>4
  <2> QED BY <1>1, <2>3, <2>5
<1>9. ASSUME NEW w \in Requests PROVE Answered(w)'
  <2>1. Answered(w) /\ of[w] \in Vendors /\ after[w] \in SUBSET Requests
    BY DEF IInv, TypeOK, InTime
  <2>2. \A u \in after[w] : pc'[u] \in Ended
    BY <1>3, <2>1 DEF Answered, Ended
  <2>3. CASE of[w] = v
    BY <1>1, <1>2, <1>3, <1>4, <1>6, <1>8, <2>1, <2>2, <2>3 DEF Answered
  <2>4. CASE of[w] # v
    <3>1. policies'[of[w]] = policies[of[w]]
      BY <1>2, <2>1, <2>4 DEF IInv, TypeOK
    <3>2. Last(of[w])' = Last(of[w]) /\ w # t
      BY <1>1, <1>2, <2>4, <3>1 DEF Last, NextVersion, Numbers
    <3> QED BY <1>2, <1>3, <2>1, <2>2, <3>2 DEF Answered
  <2> QED BY <2>3, <2>4
<1> QED BY <1>7, <1>9 DEF InTime

\* A vendor comes before every call that was answered for it, and goes for good.
LEMMA VendorInTime ==
  ASSUME IInv, InTime, NEW v \in Vendors, CreateVendor(v) \/ DeleteVendor(v)
  PROVE  InTime'
<1>1. /\ UNCHANGED <<pc, of, next, after>>
      /\ vendor' \in [Vendors -> {"absent", "present", "deleted"}]
      /\ \A w \in Vendors \ {v} : vendor'[w] = vendor[w] /\ policies'[w] = policies[w]
      /\ vendor'[v] # "absent"
      /\ vendor'[v] = "present" => vendor[v] = "absent"
  BY DEF CreateVendor, DeleteVendor, IInv, TypeOK
<1>2. VersionsFollowTime'
  BY <1>1 DEF InTime, VersionsFollowTime
<1>3. ASSUME NEW w \in Requests PROVE Answered(w)'
  <2>1. Answered(w) /\ of[w] \in Vendors
    BY DEF IInv, TypeOK, InTime
  <2>2. CASE of[w] = v
    BY <1>1, <2>1, <2>2 DEF Answered
  <2>3. CASE of[w] # v
    <3>1. Last(of[w])' = Last(of[w]) /\ vendor'[of[w]] = vendor[of[w]]
      BY <1>1, <2>1, <2>3 DEF Last, NextVersion, Numbers
    <3> QED BY <1>1, <2>1, <3>1 DEF Answered
  <2> QED BY <2>2, <2>3
<1> QED BY <1>2, <1>3 DEF InTime

LEMMA StepInTime == IInv /\ IInv' /\ InTime /\ [Next]_vars => InTime'
<1> SUFFICES ASSUME IInv, IInv', InTime, [Next]_vars PROVE InTime'
  OBVIOUS
<1>1. ASSUME NEW t \in Requests, Begin(t) PROVE InTime'
  <2>1. /\ UNCHANGED tables /\ pc[t] \notin Ended /\ pc'[t] # "ok"
        /\ after'[t] = {u \in Requests : pc[u] \in Ended}
        /\ \A w \in Requests \ {t} :
             pc'[w] = pc[w] /\ of'[w] = of[w] /\ next'[w] = next[w] /\ after'[w] = after[w]
    BY <1>1 DEF Begin, Goto, IInv, TypeOK, Ended
  <2> QED BY <2>1, QuietInTime
<1>2. ASSUME NEW t \in Requests, Handle(t) \/ Abort(t), ~Commit(t) PROVE InTime'
  <2>1. UNCHANGED <<vendor, policies, active, of, after>> /\ pc[t] \in Open
    BY <1>2 DEF Handle, GetVendor, SelectMax, UpdateStarts, UpdateEnds, Insert, Abort, Active,
                Fail, End, tables, Open
  <2>2. \E where \in Open \cup {"failed"} : Goto(t, where)
    BY <1>2 DEF Handle, GetVendor, SelectMax, UpdateStarts, UpdateEnds, Insert, Abort,
                Fail, End, Open
  <2>3. next' = next \/ next' = [next EXCEPT ![t] = NextVersion(of[t])]
    BY <1>2 DEF Handle, GetVendor, SelectMax, UpdateStarts, UpdateEnds, Insert, Abort, Fail, End
  <2>4. /\ pc[t] \notin Ended /\ pc'[t] # "ok"
        /\ \A w \in Requests \ {t} :
             pc'[w] = pc[w] /\ of'[w] = of[w] /\ next'[w] = next[w] /\ after'[w] = after[w]
    BY <2>1, <2>2, <2>3 DEF Goto, Open, Ended, IInv, TypeOK
  <2>5. after'[t] \in SUBSET Requests /\ \A u \in after'[t] : pc[u] \in Ended
    BY <2>1 DEF IInv, TypeOK, InTime, Answered
  <2> QED BY <2>1, <2>4, <2>5, QuietInTime DEF tables
<1>3. ASSUME NEW t \in Requests, Commit(t) PROVE InTime'
  BY <1>3, CommitInTime
<1>4. ASSUME NEW v \in Vendors, CreateVendor(v) \/ DeleteVendor(v) PROVE InTime'
  BY <1>4, VendorInTime
<1>5. CASE UNCHANGED vars
  BY <1>5 DEF vars, InTime, VersionsFollowTime, Answered, Last, NextVersion, Numbers
<1> QED BY <1>1, <1>2, <1>3, <1>4, <1>5 DEF Next

\* Calls that are answered 201 have distinct numbers, in the order in which they ran,
\* although each computes its number before it holds any lock.
THEOREM FollowTime == Spec => []VersionsFollowTime
<1>1. InTime => VersionsFollowTime
  BY DEF InTime
<1>2. Spec => []InTime
  BY InitInTime, StepInTime, Invariance, PTL DEF Spec
<1> QED BY <1>1, <1>2, PTL

-----------------------------------------------------------------------------

\* Every step of the calls is a step of PolicyHistory, or changes no table: a
\* commit publishes the version that follows, and withdraws all others at once.
THEOREM Refinement == Spec => ImplementsHistory
<1>1. Init => History!Init
  BY DEF Init, History!Init
<1>2. ASSUME IInv, [Next]_vars PROVE [History!Next]_(History!vars)
  <2>1. ASSUME NEW t \in Requests, Begin(t) PROVE UNCHANGED tables
    BY <2>1 DEF Begin, tables
  <2>2. ASSUME NEW t \in Requests, Abort(t) PROVE UNCHANGED tables
    BY <2>2 DEF Abort, Fail, tables
  <2>3. ASSUME NEW t \in Requests, Handle(t), ~ Commit(t) PROVE UNCHANGED tables
    BY <2>3 DEF Handle, GetVendor, SelectMax, UpdateStarts, UpdateEnds, Insert, Fail, tables
  <2>4. ASSUME NEW t \in Requests, Commit(t) PROVE History!Publish(of[t])
    <3>1. PICK v \in Vendors, n \in Nat : v = of[t] /\ n = Last(v)
      BY <1>2, <2>4, CommitFollows DEF Commit
    <3>2. /\ vendor[v] = "present" /\ next[t] = n + 1 /\ active[v] \ held[t] = {}
          /\ New(t) \in Policies /\ New(t).version = n + 1
      BY <1>2, <2>4, <3>1, CommitFollows DEF Commit, New, Policies, Authors
    <3>3. /\ policies' = [policies EXCEPT ![v] = @ \cup {New(t)}]
          /\ active' = [active EXCEPT ![v] = {New(t)}]
          /\ New(t) \in policies'[v]
          /\ UNCHANGED vendor
      BY <1>2, <2>4, <3>1, <3>2 DEF Commit, IInv, TypeOK
    <3>4. Numbered(v)
      BY <1>2 DEF IInv
    <3>5. \A q \in policies[v] : q.version < n + 1
      BY <3>1, <3>4 DEF Numbered, Numbers
    <3>6. n + 1 = 1 \/ \E q \in policies[v] : n + 1 = q.version + 1
      BY <3>1, <3>4 DEF Numbered, Numbers
    <3>7. History!Follows(New(t), v)
      BY <3>2, <3>5, <3>6 DEF History!Follows
    <3>8. New(t) \in History!Policies
      BY <3>2 DEF Policies, History!Policies
    <3> QED BY <3>1, <3>2, <3>3, <3>7, <3>8 DEF History!Publish
  <2>5. ASSUME NEW v \in Vendors, CreateVendor(v) PROVE History!Add(v)
    <3>1. policies[v] = {} /\ active[v] = {}
      BY <1>2, <2>5 DEF IInv, Numbered, CreateVendor
    <3>2. Founder \in Authors
      BY DEF Authors
    <3> QED BY <2>5, <3>2 DEF CreateVendor, First, History!Add
  <2>6. ASSUME NEW v \in Vendors, DeleteVendor(v) PROVE History!Remove(v)
    BY <2>6 DEF DeleteVendor, History!Remove
  <2>7. CASE UNCHANGED vars
    BY <2>7 DEF vars, History!vars
  <2>8. \A t \in Requests : of[t] \in Vendors
    BY <1>2 DEF IInv, TypeOK
  <2> QED BY <1>2, <2>1, <2>2, <2>3, <2>4, <2>5, <2>6, <2>7, <2>8
          DEF Next, tables, History!Next, History!vars
<1> QED BY <1>1, <1>2, Invariance, PTL DEF Spec, ImplementsHistory, History!Spec

-----------------------------------------------------------------------------
(* Calls wait for each other's locks. They never do so in a circle: a call that *)
(* waits has come less far than the one it waits for.                           *)

\* The UPDATE of t waits for a row that u keeps, or its INSERT for the number that u
\* has inserted.
Waits(t, u) ==
  /\ u # t
  /\ \/ pc[t] = "locking" /\ seen[t] \cap held[u] # {}
     \/ pc[t] = "insert" /\ pc[u] = "commit" /\ of[u] = of[t] /\ next[u] = next[t]

Stage(t) == IF pc[t] = "commit" THEN 2 ELSE IF pc[t] = "insert" THEN 1 ELSE 0

LocksOrdered == \A t, u \in Requests : Waits(t, u) => Active(u) /\ Stage(t) < Stage(u)

SomebodyGoesOn ==
  \A t \in Requests : Active(t) => \E u \in Requests : Active(u) /\ \A w \in Requests : ~Waits(u, w)

\* Rows are locked by calls that are past their UPDATE.
Held(t) == held[t] # {} => pc[t] \in {"insert", "commit"}

LInv == TypeOK /\ \A t \in Requests : Held(t)

\* Waits is what the guards of the two statements say.
LEMMA WaitsAtGuards ==
  ASSUME NEW t \in Requests
  PROVE  (\E u \in Requests : Waits(t, u))
           <=> (pc[t] = "locking" /\ LockedByOthers(t)) \/ (pc[t] = "insert" /\ InsertedByOthers(t))
BY DEF Waits, LockedByOthers, InsertedByOthers

LEMMA LocksAreHeld == Spec => []LInv
<1>1. Init => LInv
  BY InitHolds DEF IInv, LInv, Held, Init
<1>2. LInv /\ IInv' /\ [Next]_vars => LInv'
  <2> SUFFICES ASSUME LInv, IInv', [Next]_vars, NEW t \in Requests PROVE Held(t)'
    BY DEF LInv, IInv
  <2>1. pc \in [Requests -> {"idle"} \cup Open \cup Ended] /\ held \in [Requests -> SUBSET Policies]
        /\ Held(t)
    BY DEF LInv, TypeOK
  <2>2. ASSUME NEW u \in Requests, Begin(u) \/ Handle(u) \/ Abort(u) PROVE Held(t)'
    <3>1. CASE t # u
      <4>1. pc'[t] = pc[t] /\ held'[t] = held[t]
        BY <2>1, <2>2, <3>1 DEF Begin, Handle, GetVendor, SelectMax, UpdateStarts, UpdateEnds,
              Insert, Commit, Abort, Fail, End, Goto
      <4> QED BY <2>1, <4>1 DEF Held
    <3>2. CASE t = u
      BY <2>1, <2>2, <3>2 DEF Begin, Handle, GetVendor, SelectMax, UpdateStarts, UpdateEnds,
            Insert, Commit, Abort, Fail, End, Goto, Held
    <3> QED BY <3>1, <3>2
  <2>3. ASSUME NEW v \in Vendors, CreateVendor(v) \/ DeleteVendor(v) PROVE Held(t)'
    BY <2>1, <2>3 DEF CreateVendor, DeleteVendor, Held
  <2>4. CASE UNCHANGED vars
    BY <2>1, <2>4 DEF vars, Held
  <2> QED BY <2>2, <2>3, <2>4 DEF Next
<1> QED BY <1>1, <1>2, Invariance, PTL DEF Spec

\* The locks of _create_policy_version never close a circle, with any number of calls:
\* whoever waits, waits for a call that has come further, and one that has inserted its
\* version waits for nobody. So as long as a call is open, one is that can go on.
THEOREM NoCircle == Spec => [](LocksOrdered /\ SomebodyGoesOn)
<1>1. LInv => LocksOrdered /\ SomebodyGoesOn
  <2> SUFFICES ASSUME LInv PROVE LocksOrdered /\ SomebodyGoesOn
    OBVIOUS
  <2>1. ASSUME NEW t \in Requests, NEW u \in Requests, Waits(t, u)
        PROVE  Active(u) /\ Stage(t) < Stage(u)
    BY <2>1 DEF LInv, Held, Waits, Active, Open, Stage
  <2>2. ASSUME NEW t \in Requests, Active(t)
        PROVE  \E u \in Requests : Active(u) /\ \A w \in Requests : ~Waits(u, w)
    <3>1. \A u, w \in Requests : Waits(u, w) => Active(w) /\ Stage(u) < Stage(w)
      BY <2>1
    <3>2. \A u \in Requests : Stage(u) \in {0, 1, 2}
      BY DEF Stage
    <3> QED BY <2>2, <3>1, <3>2
  <2> QED BY <2>1, <2>2 DEF LocksOrdered, SomebodyGoesOn
<1> QED BY <1>1, LocksAreHeld, PTL
=============================================================================
