---------------------------- MODULE LogRingProofs ----------------------------
(***************************************************************************)
(* The log-sink's ring for every capacity and any number of pushes: the     *)
(* snapshot is the most recent part of what was added.                      *)
(***************************************************************************)
EXTENDS LogRing, WellFoundedInduction, TLAPS

\* The next slot: one further, or the first after the last.
LEMMA StepLemma ==
    ASSUME NEW n \in Slots
    PROVE  /\ Step(n) \in Slots
           /\ n + 1 < Cap => Step(n) = n + 1
           /\ n + 1 = Cap => Step(n) = 0
  <1>1. CASE n + 1 < Cap
    BY <1>1, CapAssumption DEF Step, Slots
  <1>2. CASE n + 1 = Cap
    BY <1>2, CapAssumption DEF Step, Slots
  <1> QED
    BY <1>1, <1>2, CapAssumption DEF Slots

\* Every action keeps the types.
LEMMA TypeStep == TypeOK /\ [Next]_vars => TypeOK'
  <1> SUFFICES ASSUME TypeOK, [Next]_vars
               PROVE  TypeOK'
    OBVIOUS
  <1>1. ASSUME NEW r \in Requests, Arrive(r)
        PROVE  TypeOK'
    BY <1>1, MaxValuesAssumption DEF Arrive, TypeOK
  <1>2. ASSUME NEW r \in Requests, Store(r)
        PROVE  TypeOK'
    <2>1. <<r, at[r]>> \in Records
      BY <1>2, MaxValuesAssumption DEF Store, TypeOK, Records
    <2>2. buf' \in [Slots -> Records \cup {NoRecord}]
      BY <1>2, <2>1 DEF Store, Add, TypeOK
    <2>3. next' \in Slots /\ full' \in BOOLEAN
      BY <1>2, StepLemma DEF Store, Add, TypeOK
    <2>4. history' \in Seq(Records)
      BY <1>2, <2>1 DEF Store, Add, TypeOK
    <2>5. /\ body' \in [Requests -> 0 .. MaxValues]
          /\ at' \in [Requests -> 0 .. MaxValues + 1]
          /\ \A q \in Requests : at'[q] <= body'[q] + 1
      BY <1>2, MaxValuesAssumption DEF Store, TypeOK
    <2> QED
      BY <2>2, <2>3, <2>4, <2>5 DEF TypeOK
  <1>3. CASE UNCHANGED vars
    BY <1>3 DEF vars, TypeOK
  <1> QED
    BY <1>1, <1>2, <1>3 DEF Next

\* TypeOK holds in every reachable state, for every capacity and request set.
THEOREM TypeCorrect == Spec => []TypeOK
  <1>1. Init => TypeOK
    BY CapAssumption, MaxValuesAssumption DEF Init, TypeOK, Slots
  <1> QED
    BY <1>1, TypeStep, PTL DEF Spec

\* ring.add keeps RingInv, on a lap and across the wrap.
LEMMA AddKeepsRing ==
    ASSUME TypeOK, RingInv, NEW rec \in Records, Add(rec)
    PROVE  RingInv'
  <1> DEFINE n == Len(history)
  <1>1. /\ n \in Nat /\ next \in 0 .. Cap - 1 /\ Cap \in Nat \ {0}
        /\ history \in Seq(Records) /\ buf \in [Slots -> Records \cup {NoRecord}]
        /\ full \in BOOLEAN
    BY CapAssumption DEF TypeOK, Slots
  <1>2. /\ Len(history') = n + 1
        /\ history'[n + 1] = rec
        /\ \A i \in 1 .. n : history'[i] = history[i]
    BY <1>1 DEF Add
  <1>3. /\ buf'[next] = rec
        /\ \A j \in Slots : j # next => buf'[j] = buf[j]
    BY <1>1 DEF Add, Slots
  <1>4. /\ n >= next
        /\ full => n >= Cap
        /\ ~full => n = next
        /\ \A j \in Slots : j < next => buf[j] = history[n - next + 1 + j]
        /\ full => \A j \in Slots : j >= next => buf[j] = history[n - next + 1 + j - Cap]
    BY DEF RingInv
  <1>5. CASE next + 1 < Cap
    <2>1. next' = next + 1 /\ full' = full
      BY <1>1, <1>5, StepLemma DEF Add, Wrapped, Slots
    <2>2. ASSUME NEW j \in Slots, j < next + 1
          PROVE  buf'[j] = history'[n - next + 1 + j]
      <3>1. CASE j = next
        BY <3>1, <1>1, <1>2, <1>3
      <3>2. CASE j < next
        <4>1. n - next + 1 + j \in 1 .. n
          BY <3>2, <1>1, <1>4 DEF Slots
        <4> QED
          BY <3>2, <4>1, <1>1, <1>2, <1>3, <1>4
      <3> QED
        BY <2>2, <3>1, <3>2, <1>1 DEF Slots
    <2>3. ASSUME full, NEW j \in Slots, j >= next + 1
          PROVE  buf'[j] = history'[n - next + 1 + j - Cap]
      <3>1. n - next + 1 + j - Cap \in 1 .. n
        BY <2>3, <1>1, <1>4 DEF Slots
      <3>2. j # next /\ j >= next
        BY <2>3, <1>1 DEF Slots
      <3> QED
        BY <2>3, <3>1, <3>2, <1>1, <1>2, <1>3, <1>4
    <2>4. (n + 1) - (next + 1) + 1 = n - next + 1
      BY <1>1
    <2> HIDE DEF n
    <2> QED
      BY <2>1, <2>2, <2>3, <2>4, <1>1, <1>2, <1>4 DEF RingInv, Slots
  <1>6. CASE next + 1 = Cap
    <2>1. next' = 0 /\ full'
      BY <1>1, <1>6, StepLemma DEF Add, Wrapped, Slots
    <2>2. n + 1 >= Cap
      BY <1>1, <1>4, <1>6
    <2>3. ASSUME NEW j \in Slots
          PROVE  buf'[j] = history'[n + 2 + j - Cap]
      <3>1. CASE j = next
        <4>1. n + 2 + j - Cap = n + 1
          BY <3>1, <1>1, <1>6
        <4> QED
          BY <3>1, <4>1, <1>2, <1>3
      <3>2. CASE j < next
        <4>1. /\ n + 2 + j - Cap \in 1 .. n
              /\ n + 2 + j - Cap = n - next + 1 + j
          BY <3>2, <1>1, <1>4, <1>6 DEF Slots
        <4>2. buf'[j] = buf[j]
          BY <3>2, <1>1, <1>3 DEF Slots
        <4> QED
          BY <3>2, <4>1, <4>2, <1>2, <1>4
      <3> QED
        BY <3>1, <3>2, <1>1, <1>6 DEF Slots
    <2>4. \A j \in Slots : (n + 1) - 0 + 1 + j - Cap = n + 2 + j - Cap
      BY <1>1 DEF Slots
    <2>5. \A j \in Slots : ~(j < 0)
      BY <1>1 DEF Slots
    <2> HIDE DEF n
    <2> QED
      BY <2>1, <2>2, <2>3, <2>4, <2>5, <1>1, <1>2 DEF RingInv
  <1> QED
    BY <1>1, <1>5, <1>6

\* RingInv is inductive, given the types.
LEMMA RingStep == TypeOK /\ RingInv /\ [Next]_vars => RingInv'
  <1> SUFFICES ASSUME TypeOK, RingInv, [Next]_vars
               PROVE  RingInv'
    OBVIOUS
  <1>1. ASSUME NEW r \in Requests, Arrive(r)
        PROVE  RingInv'
    BY <1>1 DEF Arrive, RingInv
  <1>2. ASSUME NEW r \in Requests, Store(r)
        PROVE  RingInv'
    <2>1. <<r, at[r]>> \in Records
      BY <1>2, MaxValuesAssumption DEF Store, TypeOK, Records
    <2> QED
      BY <1>2, <2>1, AddKeepsRing DEF Store
  <1>3. CASE UNCHANGED vars
    BY <1>3 DEF vars, RingInv
  <1> QED
    BY <1>1, <1>2, <1>3 DEF Next

\* What a reader sees follows from RingInv.
LEMMA RingShowsRecent == TypeOK /\ RingInv => SnapshotIsRecent
  <1> SUFFICES ASSUME TypeOK, RingInv
               PROVE  SnapshotIsRecent
    OBVIOUS
  <1> DEFINE n == Len(history)
  <1>1. n \in Nat /\ next \in 0 .. Cap - 1 /\ Cap \in Nat \ {0}
    BY CapAssumption DEF TypeOK, Slots
  <1>2. CASE ~full
    <2>1. n = next /\ n < Cap
      BY <1>1, <1>2 DEF RingInv
    <2>2. ASSUME NEW i \in 1 .. next
          PROVE  buf[i - 1] = history[n - n + i]
      <3>1. i - 1 \in Slots /\ i - 1 < next /\ n - next + 1 + (i - 1) = n - n + i
        BY <1>1, <2>1 DEF Slots
      <3> QED
        BY <3>1 DEF RingInv
    <2> HIDE DEF n
    <2> QED
      BY <1>1, <1>2, <2>1, <2>2 DEF SnapshotIsRecent, Snapshot, LastOf, n
  <1>3. CASE full
    <2>1. n >= Cap
      BY <1>3 DEF RingInv
    <2>2. ASSUME NEW i \in 1 .. Cap
          PROVE  (IF i <= Cap - next THEN buf[next + i - 1] ELSE buf[i - 1 - (Cap - next)])
                 = history[n - Cap + i]
      <3>1. CASE i <= Cap - next
        <4>1. /\ next + i - 1 \in Slots /\ next + i - 1 >= next
              /\ n - next + 1 + (next + i - 1) - Cap = n - Cap + i
          BY <1>1, <3>1 DEF Slots
        <4> QED
          BY <1>3, <3>1, <4>1 DEF RingInv
      <3>2. CASE ~(i <= Cap - next)
        <4>1. /\ i - 1 - (Cap - next) \in Slots /\ i - 1 - (Cap - next) < next
              /\ n - next + 1 + (i - 1 - (Cap - next)) = n - Cap + i
          BY <1>1, <3>2 DEF Slots
        <4> QED
          BY <3>2, <4>1 DEF RingInv
      <3> QED
        BY <3>1, <3>2
    <2>3. Snapshot = [i \in 1 .. Cap |-> history[n - Cap + i]]
      BY <1>3, <2>2 DEF Snapshot
    <2>4. ~(n < Cap)
      BY <1>1, <2>1
    <2> QED
      BY <2>3, <2>4 DEF SnapshotIsRecent, LastOf
  <1> QED
    BY <1>2, <1>3

\* The snapshot a query reads is always the last Cap records added, or all of
\* them while there are fewer, in order (ring.add and ring.snapshot).
THEOREM SnapshotCorrect == Spec => []SnapshotIsRecent
  <1>1. Init => RingInv
    <2> SUFFICES ASSUME Init PROVE RingInv
      OBVIOUS
    <2>1. Len(history) = 0 /\ next = 0 /\ ~full
      BY DEF Init
    <2> QED
      BY <2>1, CapAssumption DEF RingInv, Slots
  <1> QED
    BY <1>1, TypeCorrect, RingStep, RingShowsRecent, PTL DEF Spec

-----------------------------------------------------------------------------
(* The query.                                                                *)

\* A set of naturals that is not empty has a least element.
LEMMA LeastNatural ==
  ASSUME NEW T, T \subseteq Nat, T # {}
  PROVE  \E m \in T : \A k \in T : m <= k
<1> DEFINE R == OpToRel(<, Nat)
<1>1. IsWellFoundedOn(R, Nat)
  BY NatLessThanWellFounded, Zenon
<1>2. R = {ss \in Nat \X Nat : ss[1] < ss[2]}
  BY DEF OpToRel
<1> HIDE DEF R
<1>3. PICK m \in T : \A k \in T : <<k, m>> \notin R
  BY <1>1, WFMin
<1>4. ASSUME NEW k \in T PROVE m <= k
  <2>1. k \in Nat /\ m \in Nat /\ <<k, m>> \in Nat \X Nat
    OBVIOUS
  <2>2. <<k, m>> \notin R
    BY <1>3
  <2>3. ~(<<k, m>>[1] < <<k, m>>[2])
    BY <1>2, <2>1, <2>2
  <2> QED
    BY <2>1, <2>3
<1> QED
  BY <1>4

\* Induction up to n: a set that has 0 and the successor of each of its members
\* below n has every number up to n.
LEMMA InductionUpTo ==
  ASSUME NEW n \in Nat, NEW S, 0 \in S, \A i \in 1 .. n : i - 1 \in S => i \in S
  PROVE  0 .. n \subseteq S
<1> DEFINE T == (0 .. n) \ S
<1> SUFFICES ASSUME T # {} PROVE FALSE
  OBVIOUS
<1>0. T \subseteq Nat
  OBVIOUS
<1>1. PICK m \in T : \A k \in T : m <= k
  <2> HIDE DEF T
  <2> QED
    BY <1>0, LeastNatural
<1>2. m \in 1 .. n
  BY <1>1
<1>3. m - 1 \notin T
  BY <1>1, <1>2
<1> QED
  BY <1>1, <1>2, <1>3

\* The loop of handleQuery is well defined: it starts with no match, and each
\* record is appended when it matches.
LEMMA MatchesLoop ==
  ASSUME NEW all, NEW n \in Nat, Len(all) = n, NEW r
  PROVE  LET M == Matches(all, r)
         IN  /\ M[0] = <<>>
             /\ \A i \in 1 .. n :
                  M[i] = IF all[n + 1 - i][1] = r THEN Append(M[i - 1], all[n + 1 - i])
                                                  ELSE M[i - 1]
<1> DEFINE Turn(v, i) == IF all[n + 1 - i][1] = r THEN Append(v, all[n + 1 - i]) ELSE v
           Runs(f, m) == f = [i \in 0 .. m |-> IF i = 0 THEN <<>> ELSE Turn(f[i - 1], i)]
           S == {m \in Nat : \E f : Runs(f, m)}
<1>1. 0 \in S
  <2> DEFINE f == [i \in 0 .. 0 |-> <<>>]
  <2>1. Runs(f, 0)
    <3> HIDE DEF Turn
    <3> QED
      OBVIOUS
  <2> QED
    BY <2>1
<1>2. ASSUME NEW m \in 1 .. n, m - 1 \in S PROVE m \in S
  <2>1. PICK f : Runs(f, m - 1)
    BY <1>2
  <2> DEFINE g == [i \in 0 .. m |-> IF i = m THEN Turn(f[m - 1], m) ELSE f[i]]
  <2>2. ASSUME NEW i \in 0 .. m PROVE g[i] = IF i = 0 THEN <<>> ELSE Turn(g[i - 1], i)
    <3> HIDE DEF Turn
    <3>1. CASE i = m
      BY <3>1
    <3>2. CASE i # m
      <4>1. i \in 0 .. m - 1 /\ g[i] = f[i] /\ (i # 0 => g[i - 1] = f[i - 1])
        BY <3>2
      <4>2. f[i] = IF i = 0 THEN <<>> ELSE Turn(f[i - 1], i)
        BY <2>1, <4>1
      <4> QED
        BY <4>1, <4>2
    <3> QED
      BY <3>1, <3>2
  <2>3. Runs(g, m)
    <3> DEFINE h == [i \in 0 .. m |-> IF i = 0 THEN <<>> ELSE Turn(g[i - 1], i)]
    <3>1. \A i \in 0 .. m : g[i] = h[i]
      <4> HIDE DEF Turn, g
      <4> QED
        BY <2>2
    <3>2. g = [i \in 0 .. m |-> g[i]] /\ h = [i \in 0 .. m |-> h[i]]
      OBVIOUS
    <3> HIDE DEF g, h
    <3>3. g = h
      BY <3>1, <3>2
    <3> QED
      BY <3>3 DEF h
  <2> HIDE DEF g, Runs
  <2>4. m \in Nat
    OBVIOUS
  <2> QED
    BY <2>3, <2>4
<1>3. n \in S
  <2> HIDE DEF S
  <2> QED
    BY <1>1, <1>2, InductionUpTo
<1>4. \E f : Runs(f, n)
  BY <1>3
<1> DEFINE M == Matches(all, r)
<1>5. M = CHOOSE f : Runs(f, n)
  BY DEF Matches
<1> HIDE DEF M
<1>6. Runs(M, n)
  BY <1>4, <1>5
<1>7. \A i \in 0 .. n : M[i] = IF i = 0 THEN <<>> ELSE Turn(M[i - 1], i)
  BY <1>6
<1>8. M[0] = <<>>
  BY <1>7
<1>9. \A i \in 1 .. n : M[i] = Turn(M[i - 1], i)
  BY <1>7
<1> QED
  BY <1>8, <1>9 DEF M

\* The records of a request that were added so far are those before the value its
\* handler is at, each of them in history, in their order.
OrderInv ==
    /\ \A i \in 1 .. Len(history) : history[i][2] < at[history[i][1]]
    /\ \A r \in Requests : \A k \in 1 .. at[r] - 1 :
          \E i \in 1 .. Len(history) : history[i] = <<r, k>>
    /\ \A i, j \in 1 .. Len(history) :
          i < j /\ history[i][1] = history[j][1] => history[i][2] < history[j][2]

\* The members of history are records.
LEMMA HistoryType ==
  ASSUME TypeOK
  PROVE  /\ Len(history) \in Nat
         /\ \A i \in 1 .. Len(history) :
               /\ history[i] = <<history[i][1], history[i][2]>>
               /\ history[i][1] \in Requests /\ history[i][2] \in 1 .. MaxValues
<1>1. history \in Seq(Records)
  BY DEF TypeOK
<1>2. Len(history) \in Nat /\ \A i \in 1 .. Len(history) : history[i] \in Records
  BY <1>1
<1> QED
  BY <1>2 DEF Records

\* OrderInv is inductive, given the types.
LEMMA OrderStep == TypeOK /\ OrderInv /\ [Next]_vars => OrderInv'
<1> SUFFICES ASSUME TypeOK, OrderInv, [Next]_vars PROVE OrderInv'
  OBVIOUS
<1> DEFINE n == Len(history)
<1>0. /\ n \in Nat
      /\ \A i \in 1 .. n : history[i][1] \in Requests /\ history[i][2] \in 1 .. MaxValues
  BY HistoryType
<1>1. ASSUME NEW r \in Requests, Arrive(r) PROVE OrderInv'
  <2>1. /\ history' = history
        /\ at[r] = 0 /\ at'[r] = 1
        /\ \A q \in Requests : q # r => at'[q] = at[q]
    BY <1>1 DEF Arrive, TypeOK
  <2>2. \A i \in 1 .. n : history[i][1] # r
    BY <1>0, <2>1, MaxValuesAssumption DEF OrderInv
  <2>3. \A i \in 1 .. n : history[i][2] < at'[history[i][1]]
    BY <1>0, <2>1, <2>2 DEF OrderInv
  <2>4. ASSUME NEW q \in Requests, NEW k \in 1 .. at'[q] - 1
        PROVE  \E i \in 1 .. n : history[i] = <<q, k>>
    <3>1. q # r
      BY <2>1, <2>4
    <3> QED
      BY <2>1, <2>4, <3>1 DEF OrderInv
  <2> QED
    BY <2>1, <2>3, <2>4 DEF OrderInv
<1>2. ASSUME NEW r \in Requests, Store(r) PROVE OrderInv'
  <2> DEFINE rec == <<r, at[r]>>
  <2>1. /\ at[r] \in 1 .. MaxValues /\ at'[r] = at[r] + 1
        /\ \A q \in Requests : q # r => at'[q] = at[q]
    BY <1>2, MaxValuesAssumption DEF Store, TypeOK
  <2>2. /\ Len(history') = n + 1
        /\ history'[n + 1] = rec
        /\ \A i \in 1 .. n : history'[i] = history[i]
    <3>1. history \in Seq(Records) /\ history' = Append(history, rec)
      BY <1>2 DEF Store, Add, TypeOK
    <3>2. rec \in Records
      BY <2>1 DEF Records
    <3> HIDE DEF rec
    <3> QED
      BY <3>1, <3>2
  <2>3. \A i \in 1 .. n + 1 : i = n + 1 \/ i \in 1 .. n
    BY <1>0
  <2> HIDE DEF n
  <2>4. ASSUME NEW i \in 1 .. n + 1 PROVE history'[i][2] < at'[history'[i][1]]
    <3>1. CASE i = n + 1
      BY <2>1, <2>2, <3>1
    <3>2. CASE i \in 1 .. n
      <4>1. /\ history'[i] = history[i] /\ history[i][2] < at[history[i][1]]
            /\ history[i][1] \in Requests /\ history[i][2] \in Int
        BY <1>0, <2>2, <3>2 DEF OrderInv, n
      <4>2. CASE history[i][1] = r
        BY <2>1, <4>1, <4>2
      <4>3. CASE history[i][1] # r
        BY <2>1, <4>1, <4>3
      <4> QED
        BY <4>2, <4>3
    <3> QED
      BY <2>3, <2>4, <3>1, <3>2
  <2>5. ASSUME NEW q \in Requests, NEW k \in 1 .. at'[q] - 1
        PROVE  \E i \in 1 .. n + 1 : history'[i] = <<q, k>>
    <3>1. CASE q = r /\ k = at[r]
      BY <1>0, <2>2, <3>1
    <3>2. CASE ~(q = r /\ k = at[r])
      <4>1. k \in 1 .. at[q] - 1
        BY <2>1, <2>5, <3>2
      <4>2. PICK i \in 1 .. n : history[i] = <<q, k>>
        BY <4>1 DEF OrderInv, n
      <4>3. i \in 1 .. n + 1
        BY <1>0, <4>2
      <4> QED
        BY <2>2, <4>2, <4>3
    <3> QED
      BY <3>1, <3>2
  <2>6. ASSUME NEW i \in 1 .. n + 1, NEW j \in 1 .. n + 1, i < j,
               history'[i][1] = history'[j][1]
        PROVE  history'[i][2] < history'[j][2]
    <3>1. i \in 1 .. n /\ history'[i] = history[i]
      BY <1>0, <2>2, <2>6
    <3>2. CASE j = n + 1
      BY <1>0, <2>1, <2>2, <2>6, <3>1, <3>2 DEF OrderInv, n
    <3>3. CASE j \in 1 .. n
      BY <2>2, <2>6, <3>1, <3>3 DEF OrderInv, n
    <3> QED
      BY <2>3, <2>6, <3>2, <3>3
  <2> QED
    BY <2>2, <2>4, <2>5, <2>6 DEF OrderInv
<1>3. CASE UNCHANGED vars
  BY <1>3 DEF vars, OrderInv
<1> QED
  BY <1>1, <1>2, <1>3 DEF Next

\* After i records of the snapshot the loop has found the last values of r, newest
\* first: exactly those among the last i records added.
LEMMA LoopFinds ==
  ASSUME TypeOK, OrderInv, SnapshotIsRecent, NEW r \in Requests, Acknowledged(r)
  PROVE  LET m == Len(Snapshot)
             n == Len(history)
             b == body[r]
             found == Matches(Snapshot, r)[m]
         IN  /\ m = IF n < Cap THEN n ELSE Cap
             /\ \E c \in 0 .. b :
                  /\ found = [j \in 1 .. c |-> <<r, b + 1 - j>>]
                  /\ \A k \in 1 .. b :
                        (\E x \in n + 1 - m .. n : history[x] = <<r, k>>) <=> k > b - c
<1> DEFINE n == Len(history)
           m == IF n < Cap THEN n ELSE Cap
           b == body[r]
           M == Matches(Snapshot, r)
           Among(i, k) == \E x \in n + 1 - i .. n : history[x] = <<r, k>>
           Found(i) == \E c \in 0 .. b : /\ M[i] = [j \in 1 .. c |-> <<r, b + 1 - j>>]
                                         /\ \A k \in 1 .. b : Among(i, k) <=> k > b - c
           S == {i \in 0 .. m : Found(i)}
<1>1. n \in Nat /\ m \in Nat /\ m <= n /\ b \in Nat /\ b <= MaxValues /\ at[r] = b + 1
  BY HistoryType, CapAssumption, MaxValuesAssumption DEF TypeOK, Acknowledged
<1>2. Len(Snapshot) = m /\ \A i \in 1 .. m : Snapshot[m + 1 - i] = history[n + 1 - i]
  <2>1. Snapshot = [i \in 1 .. m |-> history[n - m + i]]
    BY DEF SnapshotIsRecent, LastOf
  <2> HIDE DEF n, m
  <2>2. Len(Snapshot) = m
    BY <1>1, <2>1
  <2>3. ASSUME NEW i \in 1 .. m PROVE Snapshot[m + 1 - i] = history[n + 1 - i]
    <3>1. m + 1 - i \in 1 .. m /\ n - m + (m + 1 - i) = n + 1 - i
      BY <1>1
    <3> QED
      BY <2>1, <3>1
  <2> QED
    BY <2>2, <2>3
<1>3. /\ M[0] = <<>>
      /\ \A i \in 1 .. m :
            M[i] = IF history[n + 1 - i][1] = r THEN Append(M[i - 1], history[n + 1 - i])
                                                ELSE M[i - 1]
  <2> HIDE DEF m, n
  <2>1. /\ M[0] = <<>>
        /\ \A i \in 1 .. m :
              M[i] = IF Snapshot[m + 1 - i][1] = r THEN Append(M[i - 1], Snapshot[m + 1 - i])
                                                   ELSE M[i - 1]
    BY <1>1, <1>2, MatchesLoop
  <2> HIDE DEF M
  <2> QED
    BY <1>2, <2>1
<1> HIDE DEF M, m, b
<1>a. ASSUME NEW i \in 0 .. m, Found(i) PROVE i \in S
  <2> HIDE DEF Found
  <2> QED
    BY <1>a
<1>b. ASSUME NEW i \in 0 .. m, NEW c \in 0 .. b,
             M[i] = [j \in 1 .. c |-> <<r, b + 1 - j>>],
             \A k \in 1 .. b : Among(i, k) <=> k > b - c
      PROVE  i \in S
  <2>1. Found(i)
    <3> HIDE DEF Among
    <3> WITNESS c \in 0 .. b
    <3> QED
      BY <1>b
  <2> HIDE DEF Found, S
  <2> QED
    BY <1>a, <2>1
<1>4. 0 \in S
  <2>1. M[0] = [j \in 1 .. 0 |-> <<r, b + 1 - j>>]
    BY <1>3
  <2>2. \A k \in 1 .. b : ~Among(0, k) /\ ~(k > b - 0)
    BY <1>1
  <2>3. 0 \in 0 .. m /\ 0 \in 0 .. b
    BY <1>1
  <2> HIDE DEF Among, S
  <2> QED
    BY <1>b, <2>1, <2>2, <2>3
<1>5. ASSUME NEW i \in 1 .. m, i - 1 \in S PROVE i \in S
  <2> DEFINE y == n + 1 - i
  <2>1. PICK c \in 0 .. b :
           /\ M[i - 1] = [j \in 1 .. c |-> <<r, b + 1 - j>>]
           /\ \A k \in 1 .. b : Among(i - 1, k) <=> k > b - c
    BY <1>5
  <2>2. y \in 1 .. n /\ \A x : x \in n + 1 - i .. n <=> x = y \/ x \in n + 1 - (i - 1) .. n
    BY <1>1
  <2>3. \A k : Among(i, k) <=> history[y] = <<r, k>> \/ Among(i - 1, k)
    <3> HIDE DEF y
    <3> QED
      BY <2>2
  <2>4. /\ history[y] = <<history[y][1], history[y][2]>>
        /\ history[y][1] \in Requests /\ history[y][2] \in 1 .. MaxValues
        /\ history[y][2] < at[history[y][1]]
    BY <2>2, HistoryType DEF OrderInv
  <2>5. CASE history[y][1] # r
    <3>1. M[i] = M[i - 1]
      BY <1>3, <2>5
    <3>2. \A k : history[y] # <<r, k>>
      BY <2>5
    <3>3. \A k \in 1 .. b : Among(i, k) <=> k > b - c
      BY <2>1, <2>3, <3>2
    <3>4. M[i] = [j \in 1 .. c |-> <<r, b + 1 - j>>] /\ i \in 0 .. m
      BY <1>1, <2>1, <3>1
    <3> HIDE DEF Among, S
    <3> QED
      BY <1>b, <3>3, <3>4
  <2>6. CASE history[y][1] = r
    <3> DEFINE k0 == history[y][2]
    <3>1. k0 \in 1 .. b /\ history[y] = <<r, k0>>
      BY <1>1, <2>4, <2>6
    <3>2. \A x \in n + 1 - (i - 1) .. n : x \in 1 .. n /\ y < x
      BY <1>1, <2>2
    <3>3. ~(k0 > b - c)
      <4> SUFFICES ASSUME k0 > b - c PROVE FALSE
        OBVIOUS
      <4>1. PICK x \in n + 1 - (i - 1) .. n : history[x] = <<r, k0>>
        BY <2>1, <3>1
      <4>2. history[y][2] < history[x][2]
        BY <2>2, <2>6, <3>2, <4>1 DEF OrderInv
      <4> QED
        BY <3>1, <4>1, <4>2
    <3>4. ~(k0 < b - c)
      <4> SUFFICES ASSUME k0 < b - c PROVE FALSE
        OBVIOUS
      <4>1. b - c \in 1 .. b /\ b - c \in 1 .. at[r] - 1
        BY <1>1, <2>1, <3>1
      <4>2. PICK x \in 1 .. n : history[x] = <<r, b - c>>
        BY <4>1 DEF OrderInv
      <4>3. ~Among(i - 1, b - c)
        BY <1>1, <2>1, <4>1
      <4>4. x \notin n + 1 - (i - 1) .. n
        BY <4>2, <4>3
      <4>5. x # y
        BY <3>1, <4>1, <4>2
      <4>6. x < y
        BY <1>1, <4>4, <4>5
      <4>7. history[x][2] < history[y][2]
        BY <2>2, <2>6, <4>2, <4>6 DEF OrderInv
      <4> QED
        BY <3>1, <4>1, <4>2, <4>7
    <3>5. k0 = b - c /\ c + 1 \in 0 .. b
      BY <1>1, <2>1, <3>1, <3>3, <3>4
    <3>6. M[i] = Append(M[i - 1], <<r, b - c>>)
      BY <1>3, <2>6, <3>1, <3>5
    <3>7. M[i] = [j \in 1 .. c + 1 |-> <<r, b + 1 - j>>]
      <4> DEFINE s == [j \in 1 .. c |-> <<r, b + 1 - j>>]
                 t == [j \in 1 .. c + 1 |-> <<r, b + 1 - j>>]
      <4>1. s \in Seq(Requests \X Int) /\ Len(s) = c /\ c \in Nat /\ b \in Nat
        BY <1>1, <2>1
      <4>2. <<r, b - c>> \in Requests \X Int
        BY <1>1, <2>1
      <4>3. \A j \in 1 .. c : s[j] = <<r, b + 1 - j>>
        OBVIOUS
      <4>4. b - c = b + 1 - (c + 1)
        BY <4>1
      <4> HIDE DEF s
      <4>5. Append(s, <<r, b - c>>) = [j \in 1 .. c + 1 |-> IF j = c + 1 THEN <<r, b - c>> ELSE s[j]]
        BY <4>1, <4>2
      <4>6. \A j \in 1 .. c + 1 : (IF j = c + 1 THEN <<r, b - c>> ELSE s[j]) = <<r, b + 1 - j>>
        BY <4>1, <4>3, <4>4
      <4>7. Append(s, <<r, b - c>>) = t
        BY <4>5, <4>6
      <4> QED
        BY <2>1, <3>6, <4>7 DEF s
    <3>8. \A k \in 1 .. b : Among(i, k) <=> k > b - (c + 1)
      <4> SUFFICES ASSUME NEW k \in 1 .. b PROVE Among(i, k) <=> k > b - (c + 1)
        OBVIOUS
      <4>1. history[y] = <<r, k>> <=> k = b - c
        BY <3>1, <3>5
      <4>2. k > b - (c + 1) <=> k = b - c \/ k > b - c
        BY <1>1, <2>1
      <4> HIDE DEF Among, y
      <4> QED
        BY <2>1, <2>3, <4>1, <4>2
    <3>9. i \in 0 .. m
      BY <1>1
    <3> HIDE DEF Among, S
    <3> QED
      BY <1>b, <3>5, <3>7, <3>8, <3>9
  <2> QED
    BY <2>5, <2>6
<1>6. m \in S
  <2> HIDE DEF S
  <2>1. 0 .. m \subseteq S
    BY <1>1, <1>4, <1>5, InductionUpTo
  <2> QED
    BY <1>1, <2>1
<1>7. Found(m)
  BY <1>6
<1> QED
  BY <1>2, <1>7 DEF m, b, M

\* A line whose push was acknowledged is found by a query for it until Cap other
\* records have been added after it, and the lines of one push come newest first:
\* handlePush and handleQuery, for every capacity and interleaving of pushes.
THEOREM AcknowledgedIsVisible == Spec => []AcknowledgedIsFound
<1>1. Init => OrderInv
  <2> SUFFICES ASSUME Init PROVE OrderInv
    OBVIOUS
  <2>1. Len(history) = 0 /\ \A r \in Requests : at[r] = 0
    BY DEF Init
  <2> QED
    BY <2>1 DEF OrderInv
<1>2. TypeOK /\ OrderInv /\ SnapshotIsRecent => AcknowledgedIsFound
  <2> SUFFICES ASSUME TypeOK, OrderInv, SnapshotIsRecent, NEW r \in Requests, Acknowledged(r)
               PROVE  LET found == Query(r)
                          b == body[r]
                          n == Len(history)
                          held == {k \in 1 .. b : \E i \in 1 .. n :
                                      history[i] = <<r, k>> /\ i > n - Cap}
                          gone == {k \in 1 .. b : \E i \in 1 .. n :
                                      history[i] = <<r, k>> /\ i <= n - Cap}
                      IN  /\ held \cup gone = 1 .. b
                          /\ found = [j \in 1 .. Len(found) |-> <<r, b + 1 - j>>]
                          /\ held = {found[j][2] : j \in 1 .. Len(found)}
    BY DEF AcknowledgedIsFound
  <2> DEFINE n == Len(history)
             m == Len(Snapshot)
             b == body[r]
             found == Query(r)
             held == {k \in 1 .. b : \E i \in 1 .. n : history[i] = <<r, k>> /\ i > n - Cap}
             gone == {k \in 1 .. b : \E i \in 1 .. n : history[i] = <<r, k>> /\ i <= n - Cap}
  <2>1. /\ n \in Nat /\ b \in Nat /\ at[r] = b + 1 /\ Cap \in Nat
        /\ \A k \in 1 .. b : \E i \in 1 .. n : history[i] = <<r, k>>
    BY HistoryType, CapAssumption, MaxValuesAssumption, SMTT(30) DEF TypeOK, Acknowledged, OrderInv
  <2>2. m = IF n < Cap THEN n ELSE Cap
    BY LoopFinds
  <2>3. PICK c \in 0 .. b :
           /\ found = [j \in 1 .. c |-> <<r, b + 1 - j>>]
           /\ \A k \in 1 .. b : (\E x \in n + 1 - m .. n : history[x] = <<r, k>>) <=> k > b - c
    BY LoopFinds DEF Query
  <2> HIDE DEF n, m, b, found
  <2>4. \A i : i \in n + 1 - m .. n <=> i \in 1 .. n /\ i > n - Cap
    BY <2>1, <2>2
  <2>5. Len(found) = c
    BY <2>1, <2>3
  <2>6. held \cup gone = 1 .. b
    <3>1. ASSUME NEW k \in 1 .. b PROVE k \in held \cup gone
      <4>1. PICK i \in 1 .. n : history[i] = <<r, k>>
        BY <2>1
      <4>2. i > n - Cap \/ i <= n - Cap
        BY <2>1
      <4> QED
        BY <4>1, <4>2
    <3>2. held \subseteq 1 .. b /\ gone \subseteq 1 .. b
      OBVIOUS
    <3> HIDE DEF held, gone
    <3> QED
      BY <3>1, <3>2
  <2>7. \A k \in 1 .. b : k \in held <=> k > b - c
    <3>1. \A k \in 1 .. b : k \in held <=> \E x \in n + 1 - m .. n : history[x] = <<r, k>>
      BY <2>4
    <3> QED
      BY <2>3, <3>1
  <2>8. held = {found[j][2] : j \in 1 .. c}
    <3>1. ASSUME NEW j \in 1 .. c PROVE found[j][2] \in held
      <4>1. found[j][2] = b + 1 - j /\ b + 1 - j \in 1 .. b /\ b + 1 - j > b - c
        BY <2>1, <2>3
      <4> HIDE DEF held
      <4> QED
        BY <2>7, <4>1
    <3>2. ASSUME NEW k \in held PROVE \E j \in 1 .. c : found[j][2] = k
      <4>1. k \in 1 .. b /\ k > b - c
        BY <2>7
      <4>2. b + 1 - k \in 1 .. c /\ b + 1 - (b + 1 - k) = k
        BY <2>1, <4>1
      <4>3. found[b + 1 - k][2] = k
        BY <2>3, <4>2
      <4> QED
        BY <4>2, <4>3
    <3> HIDE DEF held
    <3> QED
      BY <3>1, <3>2
  <2> HIDE DEF held, gone
  <2>9. found = [j \in 1 .. Len(found) |-> <<r, b + 1 - j>>]
    BY <2>3, <2>5
  <2>10. held = {found[j][2] : j \in 1 .. Len(found)}
    BY <2>5, <2>8
  <2> QED
    BY <2>6, <2>9, <2>10 DEF held, gone, found, b, n
<1> QED
  BY <1>1, <1>2, OrderStep, TypeCorrect, SnapshotCorrect, PTL DEF Spec
=============================================================================
