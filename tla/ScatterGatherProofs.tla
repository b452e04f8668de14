------------------------- MODULE ScatterGatherProofs -------------------------
(* Proofs about ScatterGather, for any number of leaves of either kind, any    *)
(* catalogues and any query.                                                   *)
EXTENDS ScatterGather, FiniteSetTheorems, TLAPS



-----------------------------------------------------------------------------
(* Least elements, the way to reason by induction.                             *)

\* A set of naturals that is not empty has a least element.
LEMMA LeastNatural ==
  ASSUME NEW T, T \subseteq Nat, T # {}
  PROVE  \E m \in T : \A k \in T : m <= k
<1> DEFINE R == OpToRel(<, Nat)
<1>1. IsWellFoundedOn(R, Nat)
  BY NatLessThanWellFounded, Zenon
<1>2. R = {ss \in Nat \X Nat : ss[1] < ss[2]}
  BY DEF OpToRel
<1> HIDE DEF R
<1>3. PICK m \in T : \A k \in T : <<k, m>> \notin R
  BY <1>1, WFMin
<1>4. ASSUME NEW k \in T PROVE m <= k
  <2>1. k \in Nat /\ m \in Nat /\ <<k, m>> \in Nat \X Nat
    OBVIOUS
  <2>2. <<k, m>> \notin R
    BY <1>3
  <2>3. ~(<<k, m>>[1] < <<k, m>>[2])
    BY <1>2, <2>1, <2>2
  <2>4. ~(k < m)
    BY <2>3
  <2> QED
    BY <2>1, <2>4
<1> QED
  BY <1>4

\* A finite set of naturals that is not empty has a greatest element: a smallest
\* set without one would still lack one when an element is taken away.
LEMMA GreatestNatural ==
  ASSUME NEW S \in SUBSET Nat, IsFiniteSet(S), S # {}
  PROVE  \E m \in S : \A k \in S : k <= m
<1> DEFINE Bounded(X) == \E m \in X : \A k \in X : k <= m
           Bad(X) == IsFiniteSet(X) /\ X # {} /\ ~Bounded(X)
           T == {n \in Nat : \E X \in SUBSET Nat : Cardinality(X) = n /\ Bad(X)}
<1> SUFFICES ASSUME ~Bounded(S) PROVE FALSE
  OBVIOUS
<1>1. Bad(S) /\ Cardinality(S) \in Nat
  BY FS_CardinalityType
<1>2. T # {}
  BY <1>1
<1>3. PICK n \in T : \A k \in T : n <= k
  BY <1>2, LeastNatural
<1>4. PICK X \in SUBSET Nat : Cardinality(X) = n /\ Bad(X)
  BY <1>3
<1>5. PICK x \in X : TRUE
  BY <1>4
<1> DEFINE Y == X \ {x}
<1>6. IsFiniteSet(Y) /\ Cardinality(Y) = n - 1 /\ n \in Nat
  BY <1>3, <1>4, <1>5, FS_RemoveElement
<1>7. Cardinality(Y) \in Nat
  BY <1>6, FS_CardinalityType
<1>8. Cardinality(Y) \notin T
  <2> SUFFICES ASSUME Cardinality(Y) \in T PROVE FALSE
    OBVIOUS
  <2> HIDE DEF T, Y
  <2>1. n <= Cardinality(Y)
    BY <1>3
  <2> QED
    BY <1>6, <2>1
<1>9. ~Bad(Y)
  BY <1>7, <1>8
<1>10. CASE Y = {}
  <2>1. X = {x} /\ x \in Nat
    BY <1>5, <1>10
  <2>2. Bounded(X)
    BY <2>1
  <2> QED
    BY <1>4, <2>2
<1>11. CASE Y # {}
  <2>1. PICK m \in Y : \A k \in Y : k <= m
    BY <1>6, <1>9, <1>11
  <2>2. x \in Nat /\ m \in Nat /\ m \in X /\ \A k \in X : k = x \/ k <= m
    BY <1>5, <2>1
  <2>3. CASE x <= m
    <3>1. \A k \in X : k <= m
      BY <2>2, <2>3
    <3> QED
      BY <1>4, <2>2, <3>1
  <2>4. CASE m <= x
    <3>1. \A k \in X : k <= x
      BY <2>2, <2>4
    <3> QED
      BY <1>4, <1>5, <3>1
  <2> QED
    BY <2>2, <2>3, <2>4
<1> QED
  BY <1>10, <1>11

\* Some offer comes before every other one, and Best is that offer.
LEMMA BestIsFirst ==
  ASSUME NEW c, c # {}, c \subseteq Nat \X Nat,
         \A p \in c : Offer(p).eta \in Nat /\ Offer(p).price \in Nat
  PROVE  Best(c) \in c /\ \A q \in c \ {Best(c)} : Before(Best(c), q)
<1>1. PICK e \in {Offer(p).eta : p \in c} : \A k \in {Offer(p).eta : p \in c} : e <= k
  BY LeastNatural, ZenonT(60)
<1> DEFINE c1 == {p \in c : Offer(p).eta = e}
<1>2. c1 # {} /\ \A q \in c : Offer(q).eta >= e
  BY <1>1
<1>3. PICK m \in {Offer(p).price : p \in c1} : \A k \in {Offer(p).price : p \in c1} : m <= k
  BY <1>2, LeastNatural, ZenonT(60)
<1> DEFINE c2 == {p \in c1 : Offer(p).price = m}
<1>4. c2 # {} /\ \A q \in c1 : Offer(q).price >= m
  BY <1>3
<1>5. PICK n \in {p[1] : p \in c2} : \A k \in {p[1] : p \in c2} : n <= k
  <2>1. {p[1] : p \in c2} \subseteq Nat /\ {p[1] : p \in c2} # {}
    BY <1>4
  <2> QED
    BY <2>1, LeastNatural
<1> DEFINE c3 == {p \in c2 : p[1] = n}
<1>6. c3 # {} /\ \A q \in c2 : q[1] >= n
  BY <1>5
<1>7. PICK i \in {p[2] : p \in c3} : \A k \in {p[2] : p \in c3} : i <= k
  <2>1. {p[2] : p \in c3} \subseteq Nat /\ {p[2] : p \in c3} # {}
    BY <1>6
  <2> QED
    BY <2>1, LeastNatural
<1>8. PICK b \in c3 : b[2] = i
  BY <1>7
<1>9. ASSUME NEW q \in c \ {b} PROVE Before(b, q)
  <2>1. /\ Offer(b).eta = e /\ Offer(b).price = m /\ b[1] = n /\ b[2] = i
        /\ b \in Nat \X Nat /\ q \in Nat \X Nat
        /\ Offer(b).eta \in Nat /\ Offer(b).price \in Nat
        /\ Offer(q).eta \in Nat /\ Offer(q).price \in Nat
    BY <1>8
  <2>2. CASE q \notin c1
    BY <1>2, <2>1, <2>2 DEF Before
  <2>3. CASE q \in c1 /\ q \notin c2
    BY <1>4, <2>1, <2>3 DEF Before
  <2>4. CASE q \in c2 /\ q \notin c3
    <3>1. n < q[1]
      BY <1>6, <2>1, <2>4
    <3> QED
      BY <2>1, <2>4, <3>1 DEF Before
  <2>5. CASE q \in c3
    <3>1. i <= q[2]
      BY <1>7, <2>5
    <3>2. q[2] # i
      BY <1>9, <2>1, <2>5
    <3>3. i < q[2]
      BY <2>1, <3>1, <3>2
    <3> QED
      BY <2>1, <2>5, <3>3 DEF Before
  <2> QED
    BY <2>2, <2>3, <2>4, <2>5
<1>10. \E p \in c : \A q \in c \ {p} : Before(p, q)
  BY <1>8, <1>9
<1> QED
  BY <1>10 DEF Best

-----------------------------------------------------------------------------
(* The inductive invariant.                                                    *)

\* What the root keeps of a leaf that answered is what that leaf computes.
Bodies == \A s \in Shards : leaf[s] = "ok" => body[s] = LeafLines(s)

\* A verdict is what merge_availability makes of the answers the root holds.
Replied == answer # NoAnswer => answer = Merge

IInv == TypeOK /\ Bodies /\ Replied

\* merge_availability reads the query and the partials only.
LEMMA MergeFrame ==
  ASSUME UNCHANGED <<query, leaf, body>>
  PROVE  Merge' = Merge
<1>1. Items(query)' = Items(query) /\ Partial' = Partial
  BY DEF Items, Partial
<1>2. ASSUME NEW p PROVE Offer(p)' = Offer(p)
  BY DEF Offer
<1>3. Offers' = Offers
  BY <1>1 DEF Offers
<1>4. ASSUME NEW sku PROVE Candidates(sku)' = Candidates(sku)
  BY <1>3, <1>2 DEF Candidates
<1>5. ASSUME NEW sku PROVE AvailableTotal(sku)' = AvailableTotal(sku)
  BY <1>2, <1>4 DEF AvailableTotal
<1>6. ASSUME NEW c PROVE Best(c)' = Best(c)
  BY <1>2 DEF Best, Before
<1>7. ASSUME NEW items PROVE Allocation(items)' = Allocation(items)
  BY <1>2, <1>4, <1>6 DEF Allocation
<1> QED
  BY <1>1, <1>5, <1>7 DEF Merge

\* A leaf computes its lines from its stock and the query.
LEMMA LeafFrame ==
  ASSUME UNCHANGED <<stock, query>>, NEW s
  PROVE  LeafLines(s)' = LeafLines(s)
<1>1. Items(query)' = Items(query)
  BY DEF Items
<1>2. ASSUME NEW sku PROVE Line(s, sku)' = Line(s, sku) /\ LineFor(s, sku)' = LineFor(s, sku)
  BY DEF Line, LineFor
<1>3. ASSUME NEW items
      PROVE  /\ Availability(s, items)' = Availability(s, items)
             /\ BuildLines(s, items)' = BuildLines(s, items)
  BY <1>2 DEF Availability, BuildLines, Distinct
<1> QED
  BY <1>1, <1>3 DEF LeafLines

\* Every step preserves the invariant.
LEMMA InvStep ==
  ASSUME IInv, [Next]_vars
  PROVE  IInv'
<1> USE DEF IInv
<1>1. CASE Scatter
  <2>1. TypeOK' /\ answer' = NoAnswer
    BY <1>1 DEF Scatter, TypeOK
  <2> QED
    BY <1>1, <2>1, LeafFrame DEF Scatter, Bodies, Replied
<1>2. ASSUME NEW s \in Shards, LeafAnswers(s) PROVE IInv'
  <2>1. TypeOK' /\ answer' = NoAnswer
    BY <1>2 DEF LeafAnswers, TypeOK
  <2>2. ASSUME NEW u \in Shards, leaf'[u] = "ok" PROVE body'[u] = LeafLines(u)
    <3>1. CASE u = s
      BY <1>2, <3>1 DEF LeafAnswers, TypeOK
    <3>2. CASE u # s
      <4>1. leaf'[u] = leaf[u] /\ body'[u] = body[u]
        BY <1>2, <3>2 DEF LeafAnswers, TypeOK
      <4> QED
        BY <2>2, <4>1 DEF Bodies
    <3> QED
      BY <3>1, <3>2
  <2> QED
    BY <1>2, <2>1, <2>2, LeafFrame DEF LeafAnswers, Bodies, Replied
<1>3. ASSUME NEW s \in Shards, LeafFails(s) PROVE IInv'
  <2>1. TypeOK' /\ answer' = NoAnswer
    BY <1>3 DEF LeafFails, TypeOK
  <2>2. \A u \in Shards : leaf'[u] = "ok" => leaf[u] = "ok"
    BY <1>3 DEF LeafFails, TypeOK
  <2> QED
    BY <1>3, <2>1, <2>2, LeafFrame DEF LeafFails, Bodies, Replied
<1>4. CASE Gather
  <2>1. TypeOK' /\ answer' = NoAnswer
    BY <1>4 DEF Gather, TypeOK
  <2> QED
    BY <1>4, <2>1, LeafFrame DEF Gather, Bodies, Replied
<1>5. CASE Relay
  <2>1. TypeOK'
    BY <1>5 DEF Relay, TypeOK
  <2> QED
    BY <1>5, <2>1, LeafFrame, MergeFrame DEF Relay, Bodies, Replied
<1>6. CASE MergeFails
  <2>1. TypeOK' /\ answer' = NoAnswer
    BY <1>6 DEF MergeFails, TypeOK
  <2> QED
    BY <1>6, <2>1, LeafFrame DEF MergeFails, Bodies, Replied
<1>7. CASE UNCHANGED vars
  <2>1. TypeOK'
    BY <1>7 DEF vars, TypeOK
  <2> QED
    BY <1>7, <2>1, LeafFrame, MergeFrame DEF vars, Bodies, Replied
<1> QED
  BY <1>1, <1>2, <1>3, <1>4, <1>5, <1>6, <1>7 DEF Next

\* IInv is an invariant of the request.
THEOREM Invariance == Spec => []IInv
<1>1. Init => IInv
  BY DEF Init, IInv, TypeOK, Bodies, Replied
<1>2. IInv /\ [Next]_vars => IInv'
  BY InvStep
<1> QED
  BY <1>1, <1>2, PTL DEF Spec

\* TypeOK holds of every reachable state.
THEOREM TypeCorrect == Spec => []TypeOK
BY Invariance, PTL DEF IInv

\* In whatever order leaves answer and time out, the verdict is marked partial
\* exactly when some leaf's answer is missing from it.
THEOREM PartialMeansMissing == Spec => []PartialIsExact
<1>1. IInv => PartialIsExact
  <2> SUFFICES ASSUME IInv, Verdict PROVE answer.partial <=> \E s \in Shards : leaf[s] = "failed"
    BY DEF PartialIsExact
  <2>1. answer.partial = Partial
    BY DEF IInv, Replied, Verdict, Merge
  <2>2. \A s \in Shards : leaf[s] \in {"ok", "failed"}
    BY DEF IInv, TypeOK, Verdict
  <2> QED
    BY <2>1, <2>2 DEF Partial
<1> QED
  BY <1>1, Invariance, PTL

-----------------------------------------------------------------------------
(* What the leaves offer.                                                      *)

\* Every item names a SKU, and items are numbered from 1.
LEMMA ItemsType ==
  ASSUME TypeOK
  PROVE  /\ Items(query) \in Lists
         /\ \A i \in DOMAIN Items(query) :
            i \in Nat \ {0} /\ Items(query)[i].sku \in SKUs /\ Items(query)[i].qty \in Int
         /\ \A i \in DOMAIN Items(query) : \A j \in 1 .. i - 1 : j \in DOMAIN Items(query)
<1>1. Items(query) \in Lists
  <2>1. <<>> \in Lists
    BY DEF Lists
  <2>2. query \in Lists \cup {NoItems}
    BY QueriesAssumption DEF TypeOK
  <2> QED
    BY <2>1, <2>2 DEF Items
<1>2. /\ DOMAIN Items(query) = 1 .. Len(Items(query)) /\ Len(Items(query)) \in Nat
      /\ \A i \in DOMAIN Items(query) : Items(query)[i] \in [sku : SKUs, qty : Int]
  <2> DEFINE X == [sku : SKUs, qty : Int]
  <2>1. Items(query) \in Seq(X)
    BY <1>1 DEF Lists
  <2> HIDE DEF X
  <2>2. \A q \in Seq(X) : /\ DOMAIN q = 1 .. Len(q) /\ Len(q) \in Nat
                          /\ \A i \in DOMAIN q : q[i] \in X
    OBVIOUS
  <2> QED
    BY <2>1, <2>2 DEF X
<1>3. \A i \in DOMAIN Items(query) :
            i \in Nat \ {0} /\ Items(query)[i].sku \in SKUs /\ Items(query)[i].qty \in Int
  BY <1>2
<1>4. \A i \in DOMAIN Items(query) : \A j \in 1 .. i - 1 : j \in DOMAIN Items(query)
  BY <1>2
<1> QED
  BY <1>1, <1>3, <1>4

\* A shard lists a SKU with natural numbers, or not at all.
LEMMA EntryType ==
  ASSUME TypeOK, NEW s \in Shards, NEW sku \in SKUs, stock[s][sku] # NoEntry
  PROVE  stock[s][sku] \in Entries
BY CataloguesAssumption DEF TypeOK

\* A line answers its item, and with something available it shows the stock.
LEMMA LeafLine ==
  ASSUME TypeOK, NEW s \in Shards, NEW i \in DOMAIN LeafLines(s)
  PROVE  /\ i \in DOMAIN Items(query)
         /\ LeafLines(s)[i].sku = Items(query)[i].sku
         /\ LeafLines(s)[i].qty > 0 =>
               /\ s \in Holders(Items(query)[i].sku)
               /\ LeafLines(s)[i] = Line(s, Items(query)[i].sku)
<1> DEFINE items == Items(query)
           sku == items[i].sku
<1>1. CASE s \in PyLeaves
  <2>1. i \in Distinct(items) /\ LeafLines(s)[i] = LineFor(s, sku)
    BY <1>1 DEF LeafLines, Availability
  <2>2. i \in DOMAIN items
    BY <2>1 DEF Distinct
  <2>3. CASE stock[s][sku] = NoEntry
    BY <2>1, <2>2, <2>3 DEF LineFor
  <2>4. CASE stock[s][sku] # NoEntry
    BY <2>1, <2>2, <2>4 DEF LineFor, Line, Holders
  <2> QED
    BY <2>3, <2>4
<1>2. CASE s \notin PyLeaves
  <2>1. /\ i \in DOMAIN items /\ stock[s][sku] # NoEntry
        /\ LeafLines(s)[i] = Line(s, sku)
    BY <1>2 DEF LeafLines, BuildLines
  <2> QED
    BY <2>1 DEF Line, Holders
<1> QED
  BY <1>1, <1>2

\* A leaf that holds a SKU the query names has a line that shows its stock.
LEMMA LeafShows ==
  ASSUME TypeOK, NEW sku, NEW s \in Holders(sku), sku \in Skus(query)
  PROVE  \E i \in DOMAIN LeafLines(s) :
            i \in DOMAIN Items(query) /\ LeafLines(s)[i] = Line(s, sku)
<1> DEFINE items == Items(query)
           T == {j \in DOMAIN items : items[j].sku = sku}
<1>1. s \in Shards /\ stock[s][sku] # NoEntry /\ stock[s][sku].qty > 0
  BY DEF Holders
<1>2. T # {} /\ T \subseteq Nat
  BY ItemsType DEF Skus
<1>3. PICK i \in T : \A k \in T : i <= k
  BY <1>2, LeastNatural
<1>4. CASE s \in PyLeaves
  <2>1. \A j \in 1 .. i - 1 : items[j].sku # items[i].sku
    <3> SUFFICES ASSUME NEW j \in 1 .. i - 1, items[j].sku = items[i].sku PROVE FALSE
      OBVIOUS
    <3>1. j \in T
      BY ItemsType
    <3>2. i <= j /\ i \in Nat
      BY <1>2, <1>3, <3>1
    <3> QED
      BY <3>2
  <2>2. i \in Distinct(items)
    BY <2>1 DEF Distinct
  <2>3. i \in DOMAIN LeafLines(s) /\ LeafLines(s)[i] = LineFor(s, items[i].sku)
    BY <1>4, <2>2 DEF LeafLines, Availability
  <2> QED
    BY <1>1, <2>3 DEF LineFor
<1>5. CASE s \notin PyLeaves
  <2>1. i \in DOMAIN LeafLines(s) /\ LeafLines(s)[i] = Line(s, items[i].sku)
    BY <1>1, <1>5 DEF LeafLines, BuildLines
  <2> QED
    BY <2>1
<1> QED
  BY <1>4, <1>5

\* A candidate is a line of a shard that answered, and shows what it holds.
LEMMA CandidateHolds ==
  ASSUME IInv, NEW sku \in SKUs, NEW p \in Candidates(sku)
  PROVE  /\ p \in Nat \X Nat
         /\ p[1] \in Holders(sku)
         /\ leaf[p[1]] = "ok"
         /\ p[2] \in DOMAIN Items(query)
         /\ Items(query)[p[2]].sku = sku
         /\ Offer(p) = Line(p[1], sku)
         /\ Offer(p).qty \in Nat /\ Offer(p).price \in Nat /\ Offer(p).eta \in Nat
<1>1. /\ p \in Shards \X DOMAIN Items(query)
      /\ p[2] \in DOMAIN body[p[1]]
      /\ body[p[1]][p[2]].sku = sku
      /\ body[p[1]][p[2]].qty > 0
  BY DEF Candidates, Offers, Offer
<1>2. p[1] \in Shards /\ p[2] \in DOMAIN Items(query) /\ p \in Nat \X Nat
  BY <1>1, ItemsType, LeafCountAssumption DEF IInv, Shards
<1>3. leaf[p[1]] = "ok"
  <2>1. body[p[1]] # <<>>
    BY <1>1
  <2> QED
    BY <1>2, <2>1 DEF IInv, TypeOK
<1>4. body[p[1]] = LeafLines(p[1])
  BY <1>2, <1>3 DEF IInv, Bodies
<1>5. /\ Items(query)[p[2]].sku = sku
      /\ p[1] \in Holders(sku)
      /\ Offer(p) = Line(p[1], sku)
  BY <1>1, <1>2, <1>4, LeafLine DEF IInv, Offer
<1>6. stock[p[1]][sku] \in Entries
  BY <1>2, <1>5, EntryType DEF IInv, Holders
<1> QED
  BY <1>2, <1>3, <1>5, <1>6 DEF Line, Entries

\* Every shard that holds a SKU of the query and has answered is a candidate.
LEMMA HolderIsCandidate ==
  ASSUME IInv, NEW sku, NEW s \in Holders(sku), sku \in Skus(query), leaf[s] = "ok"
  PROVE  \E p \in Candidates(sku) : p[1] = s
<1>1. PICK i \in DOMAIN LeafLines(s) :
         i \in DOMAIN Items(query) /\ LeafLines(s)[i] = Line(s, sku)
  BY LeafShows DEF IInv
<1>2. s \in Shards /\ stock[s][sku].qty > 0
  BY DEF Holders
<1>3. body[s] = LeafLines(s)
  BY <1>2 DEF IInv, Bodies
<1> DEFINE p == <<s, i>>
<1>4. p \in Offers
  BY <1>1, <1>2, <1>3 DEF Offers
<1>5. Offer(p) = Line(s, sku)
  BY <1>1, <1>3 DEF Offer
<1>6. Offer(p).sku = sku /\ Offer(p).qty > 0
  BY <1>2, <1>5 DEF Line
<1>7. p \in Candidates(sku)
  BY <1>4, <1>6 DEF Candidates
<1> QED
  BY <1>7

-----------------------------------------------------------------------------
(* The allocation.                                                             *)

\* The items are finitely many.
LEMMA ItemsFinite ==
  ASSUME TypeOK
  PROVE  IsFiniteSet(DOMAIN Items(query))
<1>1. Items(query) \in Lists
  BY ItemsType
<1>2. \A S : \A q \in Seq(S) : DOMAIN q = 1 .. Len(q) /\ Len(q) \in Nat
  OBVIOUS
<1>3. DOMAIN Items(query) = 1 .. Len(Items(query)) /\ Len(Items(query)) \in Nat
  BY <1>1, <1>2 DEF Lists
<1> QED
  BY <1>3, FS_Interval

\* An item is allocated when it has a candidate, and then to the best one.
LEMMA AllocatedLine ==
  ASSUME IInv
  PROVE  LET items == Items(query)
             A == Allocation(items)
         IN  /\ DOMAIN A = {i \in DOMAIN items : Candidates(items[i].sku) # {}}
             /\ \A i \in DOMAIN A : LET b == Best(Candidates(items[i].sku))
                                    IN  /\ A[i].sku = items[i].sku
                                        /\ A[i].warehouse = b[1]
                                        /\ A[i].price = Offer(b).price
                                        /\ A[i].eta = Offer(b).eta
                                        /\ b \in Candidates(items[i].sku)
                                        /\ items[i].sku \in SKUs
<1> DEFINE items == Items(query)
           A == Allocation(items)
           C(i) == Candidates(items[i].sku)
<1>1. DOMAIN A = {i \in DOMAIN items : C(i) # {}}
  BY DEF Allocation
<1>2. ASSUME NEW i \in DOMAIN A
      PROVE  LET b == Best(C(i))
             IN  /\ A[i].sku = items[i].sku /\ A[i].warehouse = b[1]
                 /\ A[i].price = Offer(b).price /\ A[i].eta = Offer(b).eta
                 /\ b \in C(i) /\ items[i].sku \in SKUs
  <2>1. items[i].sku \in SKUs /\ C(i) # {}
    BY <1>1, ItemsType DEF IInv
  <2>2. \A p \in C(i) : p \in Nat \X Nat /\ Offer(p).eta \in Nat /\ Offer(p).price \in Nat
    BY <2>1, CandidateHolds
  <2>3. Best(C(i)) \in C(i)
    BY <2>1, <2>2, BestIsFirst
  <2>4. A[i] = [sku |-> items[i].sku, qty |-> items[i].qty, warehouse |-> Best(C(i))[1],
                price |-> Offer(Best(C(i))).price, eta |-> Offer(Best(C(i))).eta]
    BY <1>1, <1>2 DEF Allocation
  <2> QED
    BY <2>1, <2>3, <2>4
<1> QED
  BY <1>1, <1>2

\* The promised maximum bounds the ETA of every line.
LEMMA MaxEtaBounds ==
  ASSUME IInv, NEW i \in DOMAIN Allocation(Items(query))
  PROVE  LET A == Allocation(Items(query))
         IN  A[i].eta <= Max({0} \cup {A[j].eta : j \in DOMAIN A})
<1> DEFINE A == Allocation(Items(query))
           D == DOMAIN A
           E == {A[j].eta : j \in D}
           f == [j \in D |-> A[j].eta]
<1>1. \A j \in D : A[j].eta \in Nat
  <2> SUFFICES ASSUME NEW j \in D PROVE A[j].eta \in Nat
    OBVIOUS
  <2>1. PICK b \in Candidates(Items(query)[j].sku) :
           A[j].eta = Offer(b).eta /\ Items(query)[j].sku \in SKUs
    BY AllocatedLine
  <2> QED
    BY <2>1, CandidateHolds
<1>2. IsFiniteSet(D)
  <2>1. D \subseteq DOMAIN Items(query)
    BY AllocatedLine
  <2> QED
    BY <2>1, ItemsFinite, FS_Subset DEF IInv
<1>3. f \in Surjection(D, E)
  BY DEF Surjection
<1> HIDE DEF A, D, f, E
<1>4. IsFiniteSet(E)
  BY <1>2, <1>3, FS_Surjection
<1> DEFINE S == {0} \cup E
<1>5. IsFiniteSet(S)
  <2>1. IsFiniteSet({0})
    BY FS_Singleton
  <2> QED
    BY <1>4, <2>1, FS_Union
<1>6. S \in SUBSET Nat /\ S # {}
  BY <1>1 DEF E
<1>7. \E m \in S : \A k \in S : k <= m
  BY <1>5, <1>6, GreatestNatural
<1>8. \E m \in S : \A k \in S : m >= k
  BY <1>6, <1>7
<1>9. \A k \in S : Max(S) >= k
  BY <1>8 DEF Max
<1>10. Max(S) \in S
  BY <1>8 DEF Max
<1>11. A[i].eta \in S
  BY DEF E, D, A
<1>12. A[i].eta <= Max(S)
  BY <1>6, <1>9, <1>10, <1>11
<1> QED
  BY <1>12 DEF E, D, A

\* Every line goes to a shard that really holds the SKU, at its price and ETA,
\* and no shard that answered is faster, or as fast and cheaper; an item has a
\* line exactly when some shard that answered holds it.
THEOREM AllocationIsOptimal == Spec => []AllocationIsBest
<1>1. IInv => AllocationIsBest
  <2> SUFFICES ASSUME IInv, Verdict PROVE AllocationIsBest
    BY DEF AllocationIsBest
  <2> DEFINE items == Items(query)
             A == Allocation(items)
  <2>1. /\ answer.allocation = A
        /\ answer.maxEta = Max({0} \cup {A[j].eta : j \in DOMAIN A})
    BY DEF IInv, Replied, Verdict, Merge
  <2>2. ASSUME NEW i \in DOMAIN A
        PROVE  LET l == A[i]
               IN  /\ l.warehouse \in Holders(l.sku)
                   /\ [sku |-> l.sku, qty |-> stock[l.warehouse][l.sku].qty,
                       price |-> l.price, eta |-> l.eta] = Line(l.warehouse, l.sku)
                   /\ \A s \in Holders(l.sku) : leaf[s] = "ok" =>
                        \/ l.eta < stock[s][l.sku].eta
                        \/ l.eta = stock[s][l.sku].eta /\ l.price <= stock[s][l.sku].price
    <3> DEFINE l == A[i]
               C == Candidates(l.sku)
               b == Best(C)
    <3>1. /\ l.sku = items[i].sku /\ l.sku \in SKUs /\ i \in DOMAIN items
          /\ b \in C
          /\ l.warehouse = b[1] /\ l.price = Offer(b).price /\ l.eta = Offer(b).eta
      BY AllocatedLine
    <3>2. \A p \in C : /\ p \in Nat \X Nat
                       /\ p[1] \in Holders(l.sku)
                       /\ Offer(p) = Line(p[1], l.sku)
                       /\ Offer(p).price \in Nat /\ Offer(p).eta \in Nat
      BY <3>1, CandidateHolds
    <3>3. \A q \in C \ {b} : Before(b, q)
      BY <3>1, <3>2, BestIsFirst
    <3> HIDE DEF l, C, b
    <3>4. l.warehouse \in Holders(l.sku)
      BY <3>1, <3>2
    <3>5. [sku |-> l.sku, qty |-> stock[l.warehouse][l.sku].qty,
           price |-> l.price, eta |-> l.eta] = Line(l.warehouse, l.sku)
      BY <3>1, <3>2 DEF Line
    <3>6. ASSUME NEW s \in Holders(l.sku), leaf[s] = "ok"
          PROVE  \/ l.eta < stock[s][l.sku].eta
                 \/ l.eta = stock[s][l.sku].eta /\ l.price <= stock[s][l.sku].price
      <4>1. l.sku \in Skus(query)
        BY <3>1 DEF Skus
      <4>2. PICK q \in C : q[1] = s
        BY <3>6, <4>1, HolderIsCandidate DEF C
      <4>3. /\ Offer(q).eta = stock[s][l.sku].eta /\ Offer(q).eta \in Nat
            /\ Offer(q).price = stock[s][l.sku].price /\ Offer(q).price \in Nat
        BY <3>2, <4>2 DEF Line
      <4>4. CASE q = b
        BY <3>1, <4>3, <4>4
      <4>5. CASE q # b
        <5>1. Before(b, q)
          BY <3>3, <4>5
        <5>2. Offer(b).eta \in Nat /\ Offer(b).price \in Nat
          BY <3>1, <3>2
        <5> QED
          BY <3>1, <4>3, <5>1, <5>2 DEF Before
      <4> QED
        BY <4>4, <4>5
    <3> QED
      BY <3>4, <3>5, <3>6 DEF l
  <2>3. \A i \in DOMAIN A : A[i].eta <= Max({0} \cup {A[j].eta : j \in DOMAIN A})
    BY MaxEtaBounds
  <2>4. {A[i].sku : i \in DOMAIN A} = {sku \in Skus(query) : \E s \in Holders(sku) : leaf[s] = "ok"}
    <3>1. ASSUME NEW i \in DOMAIN A
          PROVE  A[i].sku \in Skus(query) /\ \E s \in Holders(A[i].sku) : leaf[s] = "ok"
      <4>1. PICK b \in Candidates(items[i].sku) :
               A[i].sku = items[i].sku /\ items[i].sku \in SKUs /\ i \in DOMAIN items
        BY AllocatedLine
      <4>2. b[1] \in Holders(A[i].sku) /\ leaf[b[1]] = "ok"
        BY <4>1, CandidateHolds
      <4> QED
        BY <4>1, <4>2 DEF Skus
    <3>2. ASSUME NEW sku \in Skus(query), NEW s \in Holders(sku), leaf[s] = "ok"
          PROVE  \E i \in DOMAIN A : A[i].sku = sku
      <4>1. PICK i \in DOMAIN items : items[i].sku = sku
        BY DEF Skus
      <4>2. Candidates(sku) # {}
        BY <3>2, HolderIsCandidate
      <4>3. i \in DOMAIN A
        BY <4>1, <4>2, AllocatedLine
      <4> QED
        BY <4>1, <4>3, AllocatedLine
    <3> HIDE DEF A
    <3> QED
      BY <3>1, <3>2
  <2> HIDE DEF A
  <2> QED
    BY <2>1, <2>2, <2>3, <2>4 DEF AllocationIsBest
<1> QED
  BY <1>1, Invariance, PTL

-----------------------------------------------------------------------------
(* The verdict.                                                                *)

\* The units of a SKU on offer, and those in stock.
Offered(sku) == UNION {{p} \X (1 .. Offer(p).qty) : p \in Candidates(sku)}
Stocked(sku) == UNION {{s} \X (1 .. stock[s][sku].qty) : s \in Holders(sku)}

\* Finitely many places with some units each have finitely many units.
LEMMA UnitsFinite ==
  ASSUME NEW H, IsFiniteSet(H), NEW q, \A s \in H : q[s] \in Nat
  PROVE  IsFiniteSet(UNION {{s} \X (1 .. q[s]) : s \in H})
<1> DEFINE L(s) == {s} \X (1 .. q[s])
           F == {L(s) : s \in H}
           f == [s \in H |-> L(s)]
<1>1. \A s \in H : IsFiniteSet(L(s))
  <2> SUFFICES ASSUME NEW s \in H PROVE IsFiniteSet(L(s))
    OBVIOUS
  <2>1. IsFiniteSet({s})
    BY FS_Singleton
  <2>2. IsFiniteSet(1 .. q[s])
    BY FS_Interval
  <2> QED
    BY <2>1, <2>2, FS_Product
<1>2. f \in Surjection(H, F)
  BY DEF Surjection
<1>3. IsFiniteSet(F)
  <2> HIDE DEF F, f
  <2> QED
    BY <1>2, FS_Surjection
<1>4. \A T \in F : IsFiniteSet(T)
  BY <1>1
<1>5. IsFiniteSet(UNION F)
  <2> HIDE DEF F
  <2> QED
    BY <1>3, <1>4, FS_UNION
<1> QED
  BY <1>5

\* The stock of a SKU is finite, and so is what is on offer of it.
LEMMA StockFinite ==
  ASSUME IInv, NEW sku \in SKUs
  PROVE  IsFiniteSet(Stocked(sku)) /\ IsFiniteSet(Offered(sku))
<1> DEFINE H == Holders(sku)
           C == Candidates(sku)
           q == [s \in H |-> stock[s][sku].qty]
           r == [p \in C |-> Offer(p).qty]
<1>1. IsFiniteSet(Shards)
  BY LeafCountAssumption, FS_Interval DEF Shards
<1>2. \A s \in H : q[s] = stock[s][sku].qty /\ q[s] \in Nat
  BY EntryType DEF IInv, Holders, Entries
<1>3. \A p \in C : r[p] = Offer(p).qty /\ r[p] \in Nat
  BY CandidateHolds
<1>4. IsFiniteSet(H)
  BY <1>1, FS_Subset DEF Holders
<1>5. IsFiniteSet(C)
  <2>1. IsFiniteSet(Shards \X DOMAIN Items(query))
    BY <1>1, ItemsFinite, FS_Product DEF IInv
  <2>2. C \subseteq Shards \X DOMAIN Items(query)
    BY DEF Candidates, Offers
  <2> QED
    BY <2>1, <2>2, FS_Subset
<1> HIDE DEF H, C, q, r
<1>6. /\ IsFiniteSet(UNION {{s} \X (1 .. q[s]) : s \in H})
      /\ IsFiniteSet(UNION {{p} \X (1 .. r[p]) : p \in C})
  BY <1>2, <1>3, <1>4, <1>5, UnitsFinite
<1>7. /\ {{s} \X (1 .. q[s]) : s \in H} = {{s} \X (1 .. stock[s][sku].qty) : s \in H}
      /\ {{p} \X (1 .. r[p]) : p \in C} = {{p} \X (1 .. Offer(p).qty) : p \in C}
  BY <1>2, <1>3
<1> QED
  BY <1>6, <1>7 DEF Stocked, Offered, H, C

\* Of a shard's stock of a SKU nothing is on offer twice when the query names it
\* once, or only Python leaves answered; and when every leaf answered, all that
\* is in stock is on offer.
LEMMA OfferedIsStocked ==
  ASSUME IInv, NEW sku \in Skus(query)
  PROVE  /\ AvailableTotal(sku) \in Nat /\ InStock(sku) \in Nat
         /\ CountedOnce => AvailableTotal(sku) <= InStock(sku)
         /\ (\A s \in Shards : leaf[s] = "ok") => InStock(sku) <= AvailableTotal(sku)
<1> DEFINE U == Offered(sku)
           V == Stocked(sku)
           C == Candidates(sku)
           f == [u \in U |-> <<u[1][1], u[2]>>]
<1>1. sku \in SKUs
  BY ItemsType DEF IInv, Skus
<1>2. \A p \in C : /\ p \in Nat \X Nat
                   /\ p[1] \in Holders(sku) /\ Offer(p).qty = stock[p[1]][sku].qty
                   /\ p[2] \in DOMAIN Items(query) /\ Items(query)[p[2]].sku = sku
  BY <1>1, CandidateHolds DEF Line
<1>3. ASSUME CountedOnce, NEW p \in C, NEW q \in C, p[1] = q[1] PROVE p = q
  <2>1. CASE NoRepeats
    <3>1. p[2] = q[2]
      BY <1>2, <2>1 DEF NoRepeats
    <3>2. p \in Nat \X Nat /\ q \in Nat \X Nat
      BY <1>2
    <3> QED
      BY <1>3, <3>1, <3>2
  <2>2. CASE p[1] \in PyLeaves
    <3>1. p[2] \in Distinct(Items(query)) /\ q[2] \in Distinct(Items(query))
      <4>1. ASSUME NEW c \in C, c[1] \in PyLeaves PROVE c[2] \in Distinct(Items(query))
        <5>1. c[2] \in DOMAIN body[c[1]] /\ c[1] \in Shards /\ leaf[c[1]] = "ok"
          BY <1>1, CandidateHolds DEF Candidates, Offers
        <5>2. body[c[1]] = Availability(c[1], Items(query))
          BY <4>1, <5>1 DEF IInv, Bodies, LeafLines
        <5> QED
          BY <5>1, <5>2 DEF Availability
      <4> QED
        BY <1>3, <2>2, <4>1
    <3>2. \A i, j \in Distinct(Items(query)) : j < i => Items(query)[j].sku # Items(query)[i].sku
      BY ItemsType DEF IInv, Distinct
    <3>3. p[2] \in Nat /\ q[2] \in Nat /\ ~(p[2] < q[2]) /\ ~(q[2] < p[2])
      BY <1>2, <3>1, <3>2
    <3>4. p[2] = q[2]
      BY <3>3
    <3> QED
      BY <1>2, <1>3, <3>4
  <2>3. NoRepeats \/ p[1] \in PyLeaves
    BY <1>1, <1>3, CandidateHolds DEF CountedOnce, Holders
  <2> QED
    BY <2>1, <2>2, <2>3
<1>4. ASSUME NEW u \in U
      PROVE  u = <<u[1], u[2]>> /\ u[1] \in C /\ u[2] \in 1 .. Offer(u[1]).qty
  BY DEF Offered
<1>5. ASSUME NEW u \in U PROVE f[u] \in V
  <2>1. f[u] \in {u[1][1]} \X (1 .. stock[u[1][1]][sku].qty) /\ u[1][1] \in Holders(sku)
    BY <1>2, <1>4
  <2> QED
    BY <2>1 DEF Stocked
<1>6. ASSUME CountedOnce PROVE f \in Injection(U, V)
  <2>1. f \in [U -> V]
    BY <1>5
  <2>2. ASSUME NEW u \in U, NEW v \in U, f[u] = f[v] PROVE u = v
    <3>1. u[1][1] = v[1][1] /\ u[2] = v[2]
      BY <2>2
    <3>2. u[1] = v[1]
      BY <1>3, <1>4, <1>6, <3>1
    <3> QED
      BY <1>4, <3>1, <3>2
  <2> HIDE DEF U, V, f
  <2> QED
    BY <2>1, <2>2 DEF Injection, IsInjective
<1>7. IsFiniteSet(U) /\ IsFiniteSet(V)
  BY <1>1, StockFinite
<1>8. AvailableTotal(sku) = Cardinality(U) /\ InStock(sku) = Cardinality(V)
  BY DEF AvailableTotal, InStock, Offered, Stocked
<1>9. ASSUME \A s \in Shards : leaf[s] = "ok" PROVE f \in Surjection(U, V)
  <2>1. ASSUME NEW v \in V PROVE \E u \in U : f[u] = v
    <3>1. PICK s \in Holders(sku) : v \in {s} \X (1 .. stock[s][sku].qty)
      BY <2>1 DEF Stocked
    <3>2. PICK p \in C : p[1] = s
      BY <1>9, HolderIsCandidate DEF Holders
    <3> DEFINE u == <<p, v[2]>>
    <3>3. u \in {p} \X (1 .. Offer(p).qty)
      BY <1>2, <3>1, <3>2
    <3>4. u \in U
      BY <3>3 DEF Offered
    <3>5. v = <<s, v[2]>>
      BY <3>1
    <3>6. f[u] = v
      BY <3>2, <3>4, <3>5
    <3> QED
      BY <3>4, <3>6
  <2>2. f \in [U -> V]
    BY <1>5
  <2> HIDE DEF U, V, f
  <2> QED
    BY <2>1, <2>2 DEF Surjection
<1> HIDE DEF U, V, f
<1>10. CountedOnce => Cardinality(U) <= Cardinality(V)
  BY <1>6, <1>7, FS_Injection
<1>11. (\A s \in Shards : leaf[s] = "ok") => Cardinality(V) <= Cardinality(U)
  BY <1>7, <1>9, FS_Surjection
<1>12. Cardinality(U) \in Nat /\ Cardinality(V) \in Nat
  BY <1>7, FS_CardinalityType
<1> QED
  BY <1>8, <1>10, <1>11, <1>12

\* "fulfillable" is true of the stock whichever leaves failed, unless a Node leaf
\* answered a query that names a SKU twice, and a verdict not marked partial says
\* so of every query that the stock covers.
THEOREM VerdictIsSound == Spec => []VerdictMatchesStock
<1>1. IInv => VerdictMatchesStock
  <2> SUFFICES ASSUME IInv, Verdict
               PROVE  /\ CountedOnce /\ answer.fulfillable => Covered
                      /\ ~answer.partial /\ Covered => answer.fulfillable
    BY DEF VerdictMatchesStock
  <2> DEFINE items == Items(query)
  <2>1. /\ answer.fulfillable <=> \A i \in DOMAIN items : AvailableTotal(items[i].sku) >= items[i].qty
        /\ answer.partial <=> Partial
    <3>1. answer = Merge
      BY DEF IInv, Replied, Verdict
    <3> QED
      BY <3>1, Zenon DEF Merge
  <2>2. ASSUME NEW i \in DOMAIN items
        PROVE  /\ items[i].qty \in Int
               /\ AvailableTotal(items[i].sku) \in Nat /\ InStock(items[i].sku) \in Nat
               /\ CountedOnce => AvailableTotal(items[i].sku) <= InStock(items[i].sku)
               /\ ~Partial => InStock(items[i].sku) <= AvailableTotal(items[i].sku)
    <3>1. items[i].sku \in Skus(query)
      BY DEF Skus
    <3>2. items[i].qty \in Int
      BY ItemsType DEF IInv
    <3>3. ~Partial => \A s \in Shards : leaf[s] = "ok"
      BY DEF Partial
    <3> QED
      BY <3>1, <3>2, <3>3, OfferedIsStocked
  <2>3. \A i \in DOMAIN items :
           /\ CountedOnce /\ AvailableTotal(items[i].sku) >= items[i].qty
                 => InStock(items[i].sku) >= items[i].qty
           /\ ~Partial /\ InStock(items[i].sku) >= items[i].qty
                 => AvailableTotal(items[i].sku) >= items[i].qty
    BY <2>2
  <2> QED
    BY <2>1, <2>3 DEF Covered
<1> QED
  BY <1>1, Invariance, PTL
=============================================================================
