-------------------------- MODULE LogShippingProofs --------------------------
(* Proofs about LogShipping, for any files, batch size, body size, bounds on   *)
(* the faults and number of drain attempts: what a committed offset covers,    *)
(* and what a drain that ends as done has shipped, although two ticks read and *)
(* write the same offsets and the files may shrink under them.                 *)
EXTENDS LogShipping, FiniteSetTheorems, TLAPS

USE BoundsAssumption, NoFileAssumption

-----------------------------------------------------------------------------
(* The inductive invariant.                                                 *)

\* The sink holds the k-th line of f as it is, or as it was before a truncation.
Stored(f, k) == \E g \in 0 .. gen[f] : <<f, g, k>> \in stored

\* The byte offsets at which a line ends.
Ends == {2 * h : h \in 0 .. MaxLines}

\* The lines of f from the h-th, exclusive, to the m-th.
Run(f, g, h, m) == {<<f, g, k>> : k \in h + 1 .. m}

\* A committed offset lies at the end of a line the sink has, as have the lines
\* below it, and inside a file nobody truncated.
Offsets ==
    \A f \in Files :
        /\ offset[f] \in Ends
        /\ gen[f] = 0 => offset[f] <= size[f]
        /\ \A k \in 1 .. MaxLines : 2 * k <= offset[f] => Stored(f, k)

\* A read starts where everything before is stored.  The offset of the file the
\* poll loop reads stays where it was, or is reset by the drain's tick.  A slice
\* is a run of lines of one generation of the file.
Reading ==
    \A p \in Ticks :
        /\ pos[p] \in Ends
        /\ tpc[p] \in {"read", "slice"} =>
             /\ \A k \in 1 .. MaxLines : 2 * k <= pos[p] => Stored(cur[p], k)
             /\ gen[cur[p]] = 0 => pos[p] <= size[cur[p]]
        /\ p = "poll" /\ tpc[p] \in {"read", "slice"} => offset[cur[p]] \in {0, pos[p]}
        /\ tpc[p] = "slice" =>
             \E g \in 0 .. gen[cur[p]], h, m \in 0 .. MaxLines :
                /\ pos[p] = 2 * h /\ h <= m
                /\ got[p] = Run(cur[p], g, h, m)
                /\ gen[cur[p]] = 0 => 2 * m <= size[cur[p]]

\* The offset the poll loop is going to commit: every line below it is stored or
\* in its batch.
Batch ==
    \A f \in Files : pending["poll"][f] > 0 =>
        /\ pending["poll"][f] \in Ends
        /\ \A k \in 1 .. MaxLines : 2 * k <= pending["poll"][f] =>
             Stored(f, k) \/ \E g \in 0 .. gen[f] : <<f, g, k>> \in streams["poll"]
        /\ gen[f] = 0 => offset[f] <= pending["poll"][f] /\ pending["poll"][f] <= size[f]

\* A batch is sent when every file was looked at, and a 2xx means it is stored.
Sent ==
    \A p \in Ticks :
        /\ tpc[p] \in {"sent", "ok", "rejected"} => todo[p] = {}
        /\ tpc[p] = "ok" => streams[p] \subseteq stored

\* Ticks run in a live process, and the drain after SIGTERM only.
Process ==
    /\ life # "up" => \A p \in Ticks : tpc[p] = "off"
    /\ running => tpc["drain"] = "off" /\ atTerm = {} /\ life \in {"up", "crashed"}

\* Where a line that was complete at SIGTERM stands in the drain, if its file was
\* not truncated and no read failed: in a file still to be looked at, stored, in
\* the batch, or in the file the drain is at, within the bytes it is going to read.
Draining ==
    budget.read = MaxReadErrors => \A l \in atTerm : gen[l[1]] = 0 =>
        /\ l[2] = 0 /\ 2 * l[3] <= size[l[1]]
        /\ life = "drained" => l \in stored
        /\ tpc["drain"] # "off" =>
             \/ l[1] \in todo["drain"]
             \/ l \in stored \cup streams["drain"]
             \/ /\ l[1] = cur["drain"]
                /\ \/ tpc["drain"] = "open" /\ 2 * l[3] <= offset[l[1]] + len["drain"]
                   \/ tpc["drain"] = "read" /\ 2 * l[3] <= pos["drain"] + len["drain"]
                   \/ tpc["drain"] = "slice" /\ l \in got["drain"]

IInv == TypeOK /\ Offsets /\ Reading /\ Batch /\ Sent /\ Process /\ Draining

-----------------------------------------------------------------------------
(* Lemmas on lines and bytes.                                               *)

\* Integer division by two.
LEMMA Halves ==
  ASSUME NEW n \in Nat, NEW k \in Nat
  PROVE  n \div 2 \in Nat /\ (k <= n \div 2 <=> 2 * k <= n)
OBVIOUS

\* The complete lines of a file.
LEMMA CompleteLines ==
  ASSUME TypeOK, NEW f \in Files
  PROVE  /\ Complete(f) \subseteq Lines
         /\ \A l : l \in Complete(f) <=>
              \E k \in 1 .. MaxLines : 2 * k <= size[f] /\ l = <<f, gen[f], k>>
<1>1. size[f] \in Nat /\ size[f] <= 2 * MaxLines /\ gen[f] \in 0 .. MaxTruncations
  BY DEF TypeOK
<1>2. \A k \in Nat : k <= size[f] \div 2 <=> 2 * k <= size[f]
  BY <1>1, Halves
<1>3. size[f] \div 2 \in Nat
  BY <1>1, Halves
<1>4. \A k : k \in 1 .. size[f] \div 2 <=> k \in 1 .. MaxLines /\ 2 * k <= size[f]
  BY <1>1, <1>2, <1>3
<1> QED
  BY <1>1, <1>4 DEF Complete, Lines

\* A slice is a run of lines of the file as it is, up to the last complete line or
\* to the last that fits.
LEMMA SliceIsRun ==
  ASSUME TypeOK, NEW f \in Files, NEW h \in 0 .. MaxLines, NEW n \in Nat
  PROVE  \E m \in 0 .. MaxLines :
            /\ h <= m /\ Slice(f, 2 * h, n) = Run(f, gen[f], h, m)
            /\ 2 * h <= size[f] => 2 * m <= size[f]
<1>1. size[f] \in Nat /\ size[f] <= 2 * MaxLines
  BY DEF TypeOK
<1>2. PICK a \in Nat : /\ a <= MaxLines /\ 2 * a <= size[f]
                       /\ \A k \in Nat : k <= a <=> 2 * k <= size[f]
  <2>1. size[f] \div 2 \in Nat /\ \A k \in Nat : k <= size[f] \div 2 <=> 2 * k <= size[f]
    BY <1>1, Halves
  <2> QED
    BY <1>1, <2>1
<1>3. PICK b \in Nat : h <= b /\ \A k \in Nat : k <= b <=> 2 * k <= 2 * h + n
  <2>1. n \div 2 \in Nat /\ \A k \in Nat : k <= n \div 2 <=> 2 * k <= n
    BY Halves
  <2>2. ASSUME NEW k \in Nat PROVE k <= h + n \div 2 <=> 2 * k <= 2 * h + n
    <3>1. CASE k <= h
      BY <2>1, <3>1
    <3>2. CASE k > h
      BY <2>1, <3>2, k - h \in Nat
    <3> QED
      BY <3>1, <3>2
  <2>3. h + n \div 2 \in Nat /\ h <= h + n \div 2
    BY <2>1
  <2> QED
    BY <2>2, <2>3
<1>4. PICK m \in 0 .. MaxLines :
        /\ h <= m
        /\ 2 * h <= size[f] => 2 * m <= size[f]
        /\ \A k \in Nat : h < k => (k <= m <=> k <= a /\ k <= b)
  <2>1. CASE a < h
    BY <2>1, <1>1, <1>2, <1>3
  <2>2. CASE h <= a /\ a <= b
    BY <2>2, <1>1, <1>2, <1>3
  <2>3. CASE h <= a /\ b < a
    <3>1. b \in 0 .. MaxLines /\ h <= b /\ 2 * b <= size[f]
      BY <2>3, <1>1, <1>2, <1>3
    <3>2. \A k \in Nat : h < k => (k <= b <=> k <= a /\ k <= b)
      BY <2>3
    <3> QED
      BY <3>1, <3>2
  <2> QED
    BY <2>1, <2>2, <2>3, <1>2, <1>3
<1>5. ASSUME NEW k \in 1 .. MaxLines
      PROVE  2 * k <= size[f] /\ 2 * h + 2 <= 2 * k /\ 2 * k <= 2 * h + n
                <=> k \in h + 1 .. m
  BY <1>2, <1>3, <1>4
<1>6. Slice(f, 2 * h, n) = Run(f, gen[f], h, m)
  <2>1. ASSUME NEW l
        PROVE  l \in Slice(f, 2 * h, n) <=>
                 \E k \in 1 .. MaxLines : /\ l = <<f, gen[f], k>> /\ 2 * k <= size[f]
                                          /\ 2 * h + 2 <= 2 * k /\ 2 * k <= 2 * h + n
    BY CompleteLines DEF Slice
  <2>2. ASSUME NEW l
        PROVE  l \in Slice(f, 2 * h, n) <=> \E k \in 1 .. MaxLines : /\ l = <<f, gen[f], k>>
                                                                     /\ k \in h + 1 .. m
    BY <2>1, <1>5
  <2>3. h + 1 .. m \subseteq 1 .. MaxLines
    OBVIOUS
  <2> QED
    BY <2>2, <2>3 DEF Run
<1> QED
  BY <1>4, <1>6

\* A run has as many lines as it is long.
LEMMA RunCount ==
  ASSUME NEW f, NEW g, NEW h \in Nat, NEW m \in Nat, h <= m
  PROVE  /\ IsFiniteSet(Run(f, g, h, m)) /\ Cardinality(Run(f, g, h, m)) = m - h
<1> DEFINE S == h + 1 .. m
           T == Run(f, g, h, m)
           F == [k \in S |-> <<f, g, k>>]
<1>1. IsFiniteSet(S) /\ Cardinality(S) = m - h
  <2>1. h + 1 \in Int /\ m \in Int
    OBVIOUS
  <2>2. IsFiniteSet(S) /\ Cardinality(S) = IF h + 1 > m THEN 0 ELSE m - (h + 1) + 1
    BY <2>1, FS_Interval
  <2> QED
    BY <2>2
<1>2. F \in Bijection(S, T)
  <2>1. F \in [S -> T]
    BY DEF Run
  <2>2. \A a, b \in S : F[a] = F[b] => a = b
    OBVIOUS
  <2>3. \A t \in T : \E a \in S : F[a] = t
    BY DEF Run
  <2> HIDE DEF F, S, T
  <2> QED
    BY <2>1, <2>2, <2>3 DEF Bijection, Injection, Surjection, IsInjective
<1>3. ExistsBijection(S, T)
  BY <1>2 DEF ExistsBijection
<1> HIDE DEF S
<1> QED
  BY <1>1, <1>3, FS_Bijection

-----------------------------------------------------------------------------
(* The steps.                                                               *)

\* The steps, each under its name.
LEMMA NextCases ==
  ASSUME [Next]_vars
  PROVE  \/ \E f \in Files : Write(f) \/ Truncate(f)
         \/ \E p \in Ticks :
              \/ \E f \in Files : Stat(p, f)
              \/ Open(p) \/ Read(p) \/ Collect(p) \/ ReadFails(p)
              \/ NothingNew(p) \/ NotDue(p) \/ Push(p) \/ SinkAnswers(p)
              \/ Commit(p) \/ Rejected(p) \/ PushFails(p)
         \/ PollTick \/ Sigterm \/ Crash \/ Restart \/ UNCHANGED vars
BY DEF Next, TickStep

\* The lines of a slice can be counted, and the offset computed from them is a number.
LEMMA CollectType ==
  ASSUME TypeOK, Reading, NEW p \in Ticks, tpc[p] = "slice"
  PROVE  /\ cur[p] \in Files /\ Cardinality(got[p]) \in Nat /\ NewOffset(p) \in Nat
<1>1. cur[p] \in Files /\ offset[cur[p]] \in Nat
  BY DEF TypeOK
<1>2. PICK g \in 0 .. gen[cur[p]], h \in 0 .. MaxLines, m \in 0 .. MaxLines :
        h <= m /\ got[p] = Run(cur[p], g, h, m)
  BY DEF Reading
<1>3. Cardinality(got[p]) = m - h
  BY <1>2, RunCount
<1>4. Cardinality(got[p]) \in Nat
  BY <1>2, <1>3
<1> QED
  BY <1>1, <1>4 DEF NewOffset

\* The faults still allowed.
Budgets == [push : 0 .. MaxFaults, read : 0 .. MaxReadErrors, crash : 0 .. MaxCrashes]

\* The types.
LEMMA TypesStep ==
  ASSUME TypeOK, Reading, Process, [Next]_vars
  PROVE  TypeOK'
<1> USE DEF TypeOK, Ticks, TPCs, tickVars, fileVars, Budgets
<1>1. ASSUME NEW f \in Files, Write(f) PROVE TypeOK'
  BY <1>1 DEF Write
<1>2. ASSUME NEW f \in Files, Truncate(f) PROVE TypeOK'
  BY <1>2 DEF Truncate
<1>3. ASSUME NEW p \in Ticks, NEW f \in Files, Stat(p, f) PROVE TypeOK'
  BY <1>3 DEF Stat, Resumed
<1>4. ASSUME NEW p \in Ticks, Open(p) PROVE TypeOK'
  BY <1>4 DEF Open
<1>5. ASSUME NEW p \in Ticks, Read(p) PROVE TypeOK'
  <2>1. cur[p] \in Files
    BY <1>5 DEF Read
  <2>2. Slice(cur[p], pos[p], len[p]) \in SUBSET Lines
    BY <2>1, CompleteLines DEF Slice
  <2> QED
    BY <1>5, <2>2 DEF Read
<1>6. ASSUME NEW p \in Ticks, Collect(p) PROVE TypeOK'
  <2>1. cur[p] \in Files /\ NewOffset(p) \in Nat
    BY <1>6, CollectType DEF Collect
  <2>2. pending' \in [Ticks -> [Files -> Nat]]
    BY <1>6, <2>1 DEF Collect
  <2> QED
    BY <1>6, <2>1, <2>2 DEF Collect, Forget
<1>7. ASSUME NEW p \in Ticks, ReadFails(p) PROVE TypeOK'
  <2>1. budget' \in Budgets
    BY <1>7 DEF ReadFails
  <2> QED
    BY <1>7, <2>1 DEF ReadFails, Forget
<1>8. ASSUME PollSleeps, UNCHANGED <<fileVars, running, atTerm>>, stored' = stored,
             offset' \in [Files -> Nat],
             tpc["poll"] \notin {"open", "read", "slice"},
             budget' \in Budgets
      PROVE  TypeOK'
  BY <1>8 DEF PollSleeps, NoPending
<1>9. ASSUME NEW how \in {"crashed", "drained", "gave_up"}, Exit(how),
             UNCHANGED <<fileVars, running, atTerm>>, stored' = stored,
             budget' \in Budgets
      PROVE  TypeOK'
  BY <1>9 DEF Exit, NoPending
<1>10. ASSUME NEW p \in Ticks, Begin(p), UNCHANGED <<fileVars, running, atTerm, offset, life, stored>>,
              attempts' \in 0 .. DrainAttempts,
              budget' \in Budgets
      PROVE  TypeOK'
  BY <1>10 DEF Begin, NoPending
<1>11. ASSUME NEW p \in Ticks, TickFails(p), UNCHANGED <<fileVars, running, atTerm, stored>>,
              tpc[p] \notin {"open", "read", "slice"},
              budget' \in Budgets
       PROVE  TypeOK'
  <2>1. CASE p = "poll" /\ PollSleeps /\ UNCHANGED offset
    BY <2>1, <1>11, <1>8
  <2>2. CASE attempts < DrainAttempts /\ Begin("drain") /\ attempts' = attempts + 1
             /\ UNCHANGED <<offset, life>>
    BY <2>2, <1>11, <1>10
  <2>3. CASE Exit("gave_up")
    BY <2>3, <1>11, <1>9
  <2> QED
    BY <1>11, <2>1, <2>2, <2>3 DEF TickFails, DrainFails
<1>12. ASSUME NEW p \in Ticks, NothingNew(p) PROVE TypeOK'
  <2>1. tpc[p] = "next" /\ UNCHANGED <<fileVars, running, atTerm, stored, budget>>
    BY <1>12 DEF NothingNew, Collected
  <2>2. CASE p = "poll" /\ PollSleeps /\ UNCHANGED offset
    BY <2>1, <2>2, <1>8
  <2>3. CASE Exit("drained")
    BY <2>1, <2>3, <1>9
  <2> QED
    BY <1>12, <2>2, <2>3 DEF NothingNew
<1>13. ASSUME NEW p \in Ticks, NotDue(p) PROVE TypeOK'
  <2>1. /\ tpc["poll"] = "next" /\ UNCHANGED <<fileVars, running, atTerm, stored, budget, offset>>
        /\ PollSleeps
    BY <1>13 DEF NotDue, Collected
  <2> QED
    BY <2>1, <1>8
<1>14. ASSUME NEW p \in Ticks, Push(p) PROVE TypeOK'
  BY <1>14 DEF Push, Collected
<1>15. ASSUME NEW p \in Ticks, SinkAnswers(p) PROVE TypeOK'
  BY <1>15 DEF SinkAnswers
<1>16. ASSUME NEW p \in Ticks, Commit(p) PROVE TypeOK'
  <2>1. tpc[p] = "ok" /\ UNCHANGED <<fileVars, running, atTerm, stored, budget>>
    BY <1>16 DEF Commit
  <2>2. CASE p = "poll" /\ PollSleeps /\ offset' = Advanced(p)
    <3>1. Advanced(p) \in [Files -> Nat]
      BY DEF Advanced
    <3> QED
      BY <2>1, <2>2, <3>1, <1>8
  <2>3. CASE Exit("drained")
    BY <2>1, <2>3, <1>9
  <2> QED
    BY <1>16, <2>2, <2>3 DEF Commit
<1>17. ASSUME NEW p \in Ticks, Rejected(p) PROVE TypeOK'
  <2>1. /\ tpc[p] = "rejected" /\ TickFails(p)
        /\ UNCHANGED <<fileVars, running, atTerm, stored, budget>>
    BY <1>17 DEF Rejected
  <2> QED
    BY <2>1, <1>11
<1>18. ASSUME NEW p \in Ticks, PushFails(p) PROVE TypeOK'
  <2>1. /\ tpc[p] \in {"sent", "ok"} /\ TickFails(p)
        /\ UNCHANGED <<fileVars, running, atTerm, stored>>
    BY <1>18 DEF PushFails
  <2>2. budget' \in Budgets
    BY <1>18 DEF PushFails
  <2> QED
    BY <2>1, <2>2, <1>11
<1>19. ASSUME PollTick PROVE TypeOK'
  <2>1. Begin("poll") /\ UNCHANGED <<fileVars, running, atTerm, offset, life, stored, attempts, budget>>
    BY <1>19 DEF PollTick
  <2> QED
    BY <2>1, <1>10
<1>20. ASSUME Sigterm PROVE TypeOK'
  <2>1. atTerm' \subseteq Lines
    BY <1>20, CompleteLines DEF Sigterm
  <2>2. \A p \in Ticks : cur'[p] = NoFile <=> tpc'[p] \notin {"open", "read", "slice"}
    BY <1>20 DEF Sigterm, Process
  <2>3. /\ running' = FALSE /\ attempts' = 1 /\ todo' = [todo EXCEPT !["drain"] = Files]
        /\ UNCHANGED <<fileVars, offset, life, cur, len, pos, got, streams, pending, stored, budget>>
    BY <1>20 DEF Sigterm
  <2>4. tpc' \in [Ticks -> TPCs]
    BY <1>20 DEF Sigterm
  <2>5. todo' \in [Ticks -> SUBSET Files] /\ attempts' \in 0 .. DrainAttempts
    BY <2>3
  <2> QED
    BY <2>1, <2>2, <2>3, <2>4, <2>5
<1>21. ASSUME Crash PROVE TypeOK'
  <2>1. /\ Exit("crashed") /\ UNCHANGED <<fileVars, running, stored, atTerm>>
        /\ budget' \in Budgets
    BY <1>21 DEF Crash
  <2> QED
    BY <2>1, <1>9
<1>22. ASSUME Restart PROVE TypeOK'
  BY <1>22 DEF Restart, Process
<1>23. ASSUME UNCHANGED vars PROVE TypeOK'
  BY <1>23 DEF vars
<1> QED
  BY <1>1, <1>2, <1>3, <1>4, <1>5, <1>6, <1>7, <1>12, <1>13, <1>14, <1>15, <1>16, <1>17, <1>18,
     <1>19, <1>20, <1>21, <1>22, <1>23, NextCases

\* What a step leaves as it was: the sink forgets nothing, a file only grows until
\* it is truncated, and no fault is given back.
LEMMA Monotone ==
  ASSUME TypeOK, [Next]_vars
  PROVE  /\ stored \subseteq stored' /\ budget'.read <= budget.read
         /\ \A f \in Files : /\ gen[f] <= gen'[f]
                             /\ gen'[f] = 0 => gen[f] = 0 /\ size[f] <= size'[f]
<1> DEFINE G == /\ stored \subseteq stored' /\ budget'.read <= budget.read
                /\ \A f \in Files : /\ gen[f] <= gen'[f]
                                    /\ gen'[f] = 0 => gen[f] = 0 /\ size[f] <= size'[f]
<1> USE DEF fileVars
<1>1. ASSUME UNCHANGED <<fileVars, stored>>, budget'.read = budget.read PROVE G
  BY <1>1 DEF TypeOK
<1>2. ASSUME NEW f \in Files, Write(f) PROVE G
  BY <1>2 DEF Write, TypeOK
<1>3. ASSUME NEW f \in Files, Truncate(f) PROVE G
  BY <1>3 DEF Truncate, TypeOK
<1>4. ASSUME NEW p \in Ticks, ReadFails(p) PROVE G
  BY <1>4 DEF ReadFails, TypeOK
<1>5. ASSUME NEW p \in Ticks, SinkAnswers(p) PROVE G
  BY <1>5 DEF SinkAnswers, TypeOK
<1>6. ASSUME NEW p \in Ticks, PushFails(p) PROVE G
  <2>1. budget'.read = budget.read
    BY <1>6 DEF PushFails, TypeOK
  <2> QED
    BY <1>1, <1>6, <2>1 DEF PushFails
<1>7. ASSUME Crash PROVE G
  <2>1. budget'.read = budget.read
    BY <1>7 DEF Crash, TypeOK
  <2> QED
    BY <1>1, <1>7, <2>1 DEF Crash
<1>8. ASSUME NEW p \in Ticks,
             \/ \E f \in Files : Stat(p, f)
             \/ Open(p) \/ Read(p) \/ Collect(p)
             \/ NothingNew(p) \/ NotDue(p) \/ Push(p) \/ Commit(p) \/ Rejected(p)
      PROVE  G
  <2>1. UNCHANGED <<fileVars, stored, budget>>
    BY <1>8 DEF Stat, Open, Read, Collect, NothingNew, NotDue, Push, Commit, Rejected
  <2> QED
    BY <1>1, <2>1
<1>9. ASSUME PollTick \/ Sigterm \/ Restart \/ UNCHANGED vars PROVE G
  <2>1. UNCHANGED <<fileVars, stored, budget>>
    BY <1>9 DEF PollTick, Sigterm, Restart, vars
  <2> QED
    BY <1>1, <2>1
<1> QED
  BY <1>2, <1>3, <1>4, <1>5, <1>6, <1>7, <1>8, <1>9, NextCases

\* What is stored stays stored.
LEMMA StoredStays ==
  ASSUME TypeOK, TypeOK', [Next]_vars, NEW f \in Files, NEW k, Stored(f, k)
  PROVE  Stored(f, k)'
<1>1. PICK g \in 0 .. gen[f] : <<f, g, k>> \in stored
  BY DEF Stored
<1>2. gen[f] <= gen'[f] /\ stored \subseteq stored' /\ gen[f] \in Nat /\ gen'[f] \in Nat
  BY Monotone DEF TypeOK
<1>3. g \in 0 .. gen'[f] /\ <<f, g, k>> \in stored'
  BY <1>1, <1>2
<1> QED
  BY <1>3 DEF Stored

\* The poll loop commits its batch.
PollCommits ==
    /\ tpc["poll"] = "ok" /\ pending'["poll"] = NoPending
    /\ \A f \in Files : offset'[f] = IF pending["poll"][f] > 0 THEN pending["poll"][f] ELSE offset[f]
    /\ UNCHANGED <<size, gen, stored, life>> /\ tpc'["poll"] \in {"off", "sleep"}
    /\ tpc'["drain"] = tpc["drain"]

\* Who may write an offset: the poll loop's commit; a reset to zero by either tick
\* for a file that has shrunk, or at the end of the process; and no one else.
LEMMA OffsetEffect ==
  ASSUME TypeOK, [Next]_vars
  PROVE  \/ PollCommits
         \/ \A f \in Files : \/ offset'[f] = offset[f]
                             \/ offset'[f] = 0 /\ size[f] < offset[f] /\ UNCHANGED <<size, gen>>
         \/ /\ \A f \in Files : offset'[f] = 0
            /\ \A p \in Ticks : tpc'[p] = "off"
<1> DEFINE G == \/ PollCommits
                \/ \A f \in Files : \/ offset'[f] = offset[f]
                                    \/ offset'[f] = 0 /\ size[f] < offset[f] /\ UNCHANGED <<size, gen>>
                \/ /\ \A f \in Files : offset'[f] = 0
                   /\ \A p \in Ticks : tpc'[p] = "off"
<1> USE DEF fileVars, tickVars
<1>1. ASSUME UNCHANGED offset PROVE G
  BY <1>1
<1>2. ASSUME NEW how, Exit(how) PROVE G
  BY <1>2 DEF Exit
<1> SUFFICES ASSUME [Next]_vars PROVE G
  OBVIOUS
<1>3. ASSUME NEW p \in Ticks, NEW f \in Files, Stat(p, f) PROVE G
  BY <1>3 DEF Stat, Resumed, TypeOK
<1>4. ASSUME NEW p \in Ticks, Commit(p) PROVE G
  <2>1. CASE Exit("drained")
    BY <2>1, <1>2
  <2>2. CASE p = "poll" /\ PollSleeps /\ offset' = Advanced(p)
    <3>1. tpc["poll"] = "ok" /\ UNCHANGED <<size, gen, stored>>
      BY <1>4, <2>2 DEF Commit
    <3>2. /\ pending'["poll"] = NoPending /\ UNCHANGED life /\ tpc'["poll"] \in {"off", "sleep"}
          /\ tpc'["drain"] = tpc["drain"]
      BY <2>2 DEF PollSleeps, TypeOK, Ticks
    <3> QED
      BY <2>2, <3>1, <3>2 DEF Advanced, PollCommits
  <2> QED
    BY <1>4, <2>1, <2>2 DEF Commit
<1>5. ASSUME NEW p \in Ticks, TickFails(p) PROVE G
  BY <1>1, <1>2, <1>5 DEF TickFails, DrainFails
<1>6. ASSUME NEW p \in Ticks, NothingNew(p) PROVE G
  BY <1>1, <1>2, <1>6 DEF NothingNew
<1>7. ASSUME Crash PROVE G
  BY <1>2, <1>7 DEF Crash
<1>8. ASSUME NEW p \in Ticks, Open(p) \/ Read(p) \/ Collect(p) \/ ReadFails(p) \/ NotDue(p) \/ Push(p)
                              \/ SinkAnswers(p)
      PROVE  G
  BY <1>1, <1>8 DEF Open, Read, Collect, ReadFails, NotDue, Push, SinkAnswers
<1>9. ASSUME \/ \E f \in Files : Write(f) \/ Truncate(f)
             \/ PollTick \/ Sigterm \/ Restart \/ UNCHANGED vars
      PROVE  G
  BY <1>1, <1>9 DEF Write, Truncate, PollTick, Sigterm, Restart, vars
<1>10. ASSUME NEW p \in Ticks, Rejected(p) \/ PushFails(p) PROVE G
  BY <1>5, <1>10 DEF Rejected, PushFails
<1> HIDE DEF G
<1> QED
  BY <1>3, <1>4, <1>6, <1>7, <1>8, <1>9, <1>10, NextCases

\* A tick that a step leaves alone.
Same(p) ==
    /\ tpc'[p] = tpc[p] /\ todo'[p] = todo[p] /\ cur'[p] = cur[p] /\ len'[p] = len[p]
    /\ pos'[p] = pos[p] /\ got'[p] = got[p] /\ streams'[p] = streams[p]
    /\ pending'[p] = pending[p]

\* A tick that a step begins or ends.
Idle(p) ==
    /\ \/ tpc'[p] = "off"
       \/ tpc'[p] = "sleep" /\ p = "poll"
       \/ tpc'[p] = "next" /\ todo'[p] = Files
    /\ pos'[p] \in {0, pos[p]}
    /\ pending'[p] = NoPending \/ (pending'[p] = pending[p] /\ streams'[p] = streams[p])

\* A step begins or ends a tick, takes it a step further, or leaves it alone.
LEMMA TickFrame ==
  ASSUME TypeOK, Process, [Next]_vars, NEW p \in Ticks
  PROVE  \/ Same(p) \/ Idle(p)
         \/ \E f \in Files : Stat(p, f)
         \/ Open(p) \/ Read(p) \/ Collect(p) \/ ReadFails(p) \/ Push(p) \/ SinkAnswers(p)
<1> DEFINE G == \/ Same(p) \/ Idle(p)
                \/ \E f \in Files : Stat(p, f)
                \/ Open(p) \/ Read(p) \/ Collect(p) \/ ReadFails(p) \/ Push(p) \/ SinkAnswers(p)
<1> SUFFICES G
  OBVIOUS
<1> USE DEF fileVars, tickVars, TypeOK
<1>1. ASSUME UNCHANGED tickVars PROVE G
  BY <1>1 DEF Same
<1>2. ASSUME NEW how, Exit(how) PROVE G
  BY <1>2 DEF Exit, Idle
<1>3. ASSUME NEW q \in Ticks, Begin(q) PROVE G
  BY <1>3 DEF Begin, Idle, Same
<1>4. ASSUME PollSleeps PROVE G
  <2>1. CASE p = "poll"
    BY <1>4, <2>1 DEF PollSleeps, Idle
  <2>2. CASE p # "poll"
    BY <1>4, <2>2 DEF PollSleeps, Same, Ticks
  <2> QED
    BY <2>1, <2>2
<1>5. ASSUME NEW q \in Ticks, q # p, NEW f \in Files, Stat(q, f) PROVE Same(p)
  BY <1>5 DEF Stat, Same
<1>6. ASSUME NEW q \in Ticks, q # p, Open(q) PROVE Same(p)
  BY <1>6 DEF Open, Same
<1>7. ASSUME NEW q \in Ticks, q # p, Read(q) PROVE Same(p)
  BY <1>7 DEF Read, Same
<1>8. ASSUME NEW q \in Ticks, q # p, Collect(q) PROVE Same(p)
  BY <1>8 DEF Collect, Forget, Same
<1>9. ASSUME NEW q \in Ticks, q # p, ReadFails(q) PROVE Same(p)
  BY <1>9 DEF ReadFails, Forget, Same
<1>10. ASSUME NEW q \in Ticks, q # p, Push(q) \/ SinkAnswers(q) PROVE Same(p)
  BY <1>10 DEF Push, SinkAnswers, Same
<1>11. ASSUME NEW q \in Ticks, TickFails(q) PROVE G
  BY <1>2, <1>3, <1>4, <1>11 DEF TickFails, DrainFails, Ticks
<1>12. ASSUME NEW q \in Ticks, NothingNew(q) \/ NotDue(q) \/ Commit(q) \/ Rejected(q) \/ PushFails(q)
       PROVE  G
  <2>1. TickFails(q) \/ PollSleeps \/ Exit("drained")
    BY <1>12 DEF NothingNew, NotDue, Commit, Rejected, PushFails
  <2> QED
    BY <2>1, <1>2, <1>4, <1>11
<1>13. ASSUME PollTick PROVE G
  BY <1>3, <1>13 DEF PollTick, Ticks
<1>14. ASSUME Crash PROVE G
  BY <1>2, <1>14 DEF Crash
<1>15. ASSUME Sigterm PROVE G
  <2>1. CASE p = "drain"
    BY <1>15, <2>1 DEF Sigterm, Idle
  <2>2. CASE p = "poll" /\ tpc[p] = "sleep"
    BY <1>15, <2>2 DEF Sigterm, Idle
  <2>3. CASE p = "poll" /\ tpc[p] # "sleep"
    BY <1>15, <2>3 DEF Sigterm, Same
  <2> QED
    BY <2>1, <2>2, <2>3 DEF Ticks
<1>16. ASSUME Restart PROVE G
  <2>1. CASE p = "poll"
    BY <1>16, <2>1 DEF Restart, Idle
  <2>2. CASE p # "poll"
    BY <1>16, <2>2 DEF Restart, Same
  <2> QED
    BY <2>1, <2>2
<1>17. ASSUME (\E f \in Files : Write(f) \/ Truncate(f)) \/ UNCHANGED vars PROVE G
  BY <1>1, <1>17 DEF Write, Truncate, vars
<1>18. ASSUME NEW q \in Ticks,
              \/ \E f \in Files : Stat(q, f)
              \/ Open(q) \/ Read(q) \/ Collect(q) \/ ReadFails(q) \/ Push(q) \/ SinkAnswers(q)
       PROVE  G
  <2>1. CASE q = p
    BY <1>18, <2>1
  <2>2. CASE q # p
    BY <1>18, <2>2, <1>5, <1>6, <1>7, <1>8, <1>9, <1>10
  <2> QED
    BY <2>1, <2>2
<1> HIDE DEF G
<1> QED
  BY <1>12, <1>13, <1>14, <1>15, <1>16, <1>17, <1>18, NextCases

\* What the steps of a tick do to it, without the notation of a function update.
LEMMA TickEffect ==
  ASSUME TypeOK, NEW p \in Ticks
  PROVE  /\ \A f \in Files : Stat(p, f) =>
              /\ tpc[p] = "next" /\ f \in todo[p] /\ todo'[p] = todo[p] \ {f}
              /\ offset'[f] = Resumed(f) /\ \A e \in Files : e # f => offset'[e] = offset[e]
              /\ IF size[f] > Resumed(f)
                   THEN /\ tpc'[p] = "open" /\ cur'[p] = f
                        /\ len'[p] = size[f] - Resumed(f)
                   ELSE tpc'[p] = "next" /\ cur'[p] = cur[p]
              /\ pos'[p] = pos[p] /\ streams'[p] = streams[p] /\ pending'[p] = pending[p]
              /\ UNCHANGED <<size, gen, life, running, stored, atTerm, budget>>
         /\ Open(p) =>
              /\ tpc[p] = "open" /\ tpc'[p] = "read" /\ cur[p] \in Files /\ cur'[p] = cur[p]
              /\ pos'[p] = offset[cur[p]] /\ todo'[p] = todo[p] /\ len'[p] = len[p]
              /\ streams'[p] = streams[p] /\ pending'[p] = pending[p]
              /\ UNCHANGED <<size, gen, offset, life, running, stored, atTerm, budget>>
         /\ Read(p) =>
              /\ tpc[p] = "read" /\ tpc'[p] = "slice" /\ cur[p] \in Files /\ cur'[p] = cur[p]
              /\ pos'[p] = pos[p] /\ got'[p] = Slice(cur[p], pos[p], len[p])
              /\ todo'[p] = todo[p] /\ streams'[p] = streams[p] /\ pending'[p] = pending[p]
              /\ UNCHANGED <<size, gen, offset, life, running, stored, atTerm, budget>>
         /\ Collect(p) =>
              /\ tpc[p] = "slice" /\ tpc'[p] = "next" /\ cur[p] \in Files
              /\ cur'[p] = NoFile /\ pos'[p] = 0 /\ todo'[p] = todo[p]
              /\ streams'[p] = streams[p] \cup got[p]
              /\ IF got[p] = {} THEN pending'[p] = pending[p]
                 ELSE /\ pending'[p][cur[p]] = NewOffset(p)
                      /\ \A e \in Files : e # cur[p] => pending'[p][e] = pending[p][e]
              /\ UNCHANGED <<size, gen, offset, life, running, stored, atTerm, budget>>
         /\ ReadFails(p) =>
              /\ tpc'[p] = "next" /\ pos'[p] = 0 /\ budget'.read < budget.read
              /\ streams'[p] = streams[p] /\ pending'[p] = pending[p]
              /\ UNCHANGED <<size, gen, offset, life, running, stored, atTerm>>
         /\ Push(p) =>
              /\ tpc[p] = "next" /\ tpc'[p] = "sent" /\ todo[p] = {} /\ todo'[p] = {}
              /\ pos'[p] = pos[p] /\ streams'[p] = streams[p] /\ pending'[p] = pending[p]
              /\ UNCHANGED <<size, gen, offset, life, running, stored, atTerm, budget>>
         /\ SinkAnswers(p) =>
              /\ tpc[p] = "sent" /\ todo'[p] = todo[p]
              /\ \/ tpc'[p] = "ok" /\ stored' = stored \cup streams[p]
                 \/ tpc'[p] = "rejected" /\ UNCHANGED stored
              /\ pos'[p] = pos[p] /\ streams'[p] = streams[p] /\ pending'[p] = pending[p]
              /\ UNCHANGED <<size, gen, offset, life, running, atTerm, budget>>
<1> USE DEF TypeOK, fileVars
<1>1. ASSUME NEW f \in Files, Stat(p, f)
      PROVE  /\ tpc[p] = "next" /\ f \in todo[p] /\ todo'[p] = todo[p] \ {f}
             /\ offset'[f] = Resumed(f) /\ \A e \in Files : e # f => offset'[e] = offset[e]
             /\ IF size[f] > Resumed(f)
                  THEN /\ tpc'[p] = "open" /\ cur'[p] = f
                       /\ len'[p] = size[f] - Resumed(f)
                  ELSE tpc'[p] = "next" /\ cur'[p] = cur[p]
             /\ pos'[p] = pos[p] /\ streams'[p] = streams[p] /\ pending'[p] = pending[p]
             /\ UNCHANGED <<size, gen, life, running, stored, atTerm, budget>>
  BY <1>1 DEF Stat
<1>2. ASSUME Open(p)
      PROVE  /\ tpc[p] = "open" /\ tpc'[p] = "read" /\ cur[p] \in Files /\ cur'[p] = cur[p]
             /\ pos'[p] = offset[cur[p]] /\ todo'[p] = todo[p] /\ len'[p] = len[p]
             /\ streams'[p] = streams[p] /\ pending'[p] = pending[p]
             /\ UNCHANGED <<size, gen, offset, life, running, stored, atTerm, budget>>
  BY <1>2 DEF Open
<1>3. ASSUME Read(p)
      PROVE  /\ tpc[p] = "read" /\ tpc'[p] = "slice" /\ cur[p] \in Files /\ cur'[p] = cur[p]
             /\ pos'[p] = pos[p] /\ got'[p] = Slice(cur[p], pos[p], len[p])
             /\ todo'[p] = todo[p] /\ streams'[p] = streams[p] /\ pending'[p] = pending[p]
             /\ UNCHANGED <<size, gen, offset, life, running, stored, atTerm, budget>>
  BY <1>3 DEF Read
<1>4. ASSUME Collect(p)
      PROVE  /\ tpc[p] = "slice" /\ tpc'[p] = "next" /\ cur[p] \in Files
             /\ cur'[p] = NoFile /\ pos'[p] = 0 /\ todo'[p] = todo[p]
             /\ streams'[p] = streams[p] \cup got[p]
             /\ IF got[p] = {} THEN pending'[p] = pending[p]
                ELSE /\ pending'[p][cur[p]] = NewOffset(p)
                     /\ \A e \in Files : e # cur[p] => pending'[p][e] = pending[p][e]
             /\ UNCHANGED <<size, gen, offset, life, running, stored, atTerm, budget>>
  <2>1. tpc[p] = "slice" /\ cur[p] \in Files
    BY <1>4 DEF Collect
  <2>2. IF got[p] = {} THEN pending'[p] = pending[p]
        ELSE /\ pending'[p][cur[p]] = NewOffset(p)
             /\ \A e \in Files : e # cur[p] => pending'[p][e] = pending[p][e]
    BY <1>4, <2>1 DEF Collect
  <2> QED
    BY <1>4, <2>1, <2>2 DEF Collect, Forget
<1>5. ASSUME ReadFails(p)
      PROVE  /\ tpc'[p] = "next" /\ pos'[p] = 0 /\ budget'.read < budget.read
             /\ streams'[p] = streams[p] /\ pending'[p] = pending[p]
             /\ UNCHANGED <<size, gen, offset, life, running, stored, atTerm>>
  <2>1. budget'.read < budget.read
    BY <1>5 DEF ReadFails
  <2> QED
    BY <1>5, <2>1 DEF ReadFails, Forget
<1>6. ASSUME Push(p)
      PROVE  /\ tpc[p] = "next" /\ tpc'[p] = "sent" /\ todo[p] = {} /\ todo'[p] = {}
             /\ pos'[p] = pos[p] /\ streams'[p] = streams[p] /\ pending'[p] = pending[p]
             /\ UNCHANGED <<size, gen, offset, life, running, stored, atTerm, budget>>
  BY <1>6 DEF Push, Collected
<1>7. ASSUME SinkAnswers(p)
      PROVE  /\ tpc[p] = "sent" /\ todo'[p] = todo[p]
             /\ \/ tpc'[p] = "ok" /\ stored' = stored \cup streams[p]
                \/ tpc'[p] = "rejected" /\ UNCHANGED stored
             /\ pos'[p] = pos[p] /\ streams'[p] = streams[p] /\ pending'[p] = pending[p]
             /\ UNCHANGED <<size, gen, offset, life, running, atTerm, budget>>
  BY <1>7 DEF SinkAnswers
<1> HIDE DEF TypeOK
<1> QED
  BY <1>1, <1>2, <1>3, <1>4, <1>5, <1>6, <1>7

-----------------------------------------------------------------------------
(* Every step preserves each part of the invariant.                         *)

\* The offsets.
LEMMA OffsetsStep ==
  ASSUME TypeOK, TypeOK', Offsets, Batch, Sent, [Next]_vars
  PROVE  Offsets'
<1> SUFFICES ASSUME NEW f \in Files
    PROVE  /\ offset'[f] \in Ends
           /\ gen'[f] = 0 => offset'[f] <= size'[f]
           /\ \A k \in 1 .. MaxLines : 2 * k <= offset'[f] => Stored(f, k)'
  BY DEF Offsets
<1>1. /\ size[f] \in Nat /\ size'[f] \in Nat /\ offset[f] \in Nat /\ offset'[f] \in Nat
      /\ gen'[f] = 0 => gen[f] = 0 /\ size[f] <= size'[f]
  BY Monotone DEF TypeOK
<1>2. CASE offset'[f] = offset[f]
  BY <1>1, <1>2, StoredStays DEF Offsets
<1>3. CASE offset'[f] = 0
  BY <1>1, <1>3 DEF Ends
<1>4. CASE /\ tpc["poll"] = "ok" /\ pending["poll"][f] > 0 /\ offset'[f] = pending["poll"][f]
           /\ UNCHANGED <<size, gen, stored>>
  <2>1. streams["poll"] \subseteq stored
    BY <1>4 DEF Sent, Ticks
  <2>2. ASSUME NEW k \in 1 .. MaxLines, 2 * k <= offset'[f] PROVE Stored(f, k)'
    <3>1. Stored(f, k)
      BY <1>4, <2>1, <2>2 DEF Batch, Stored
    <3> QED
      BY <3>1, StoredStays
  <2> QED
    BY <1>4, <2>2 DEF Batch
<1> QED
  BY <1>2, <1>3, <1>4, OffsetEffect DEF PollCommits

\* The reads.
LEMMA ReadingStep ==
  ASSUME TypeOK, TypeOK', Offsets, Reading, Process, [Next]_vars
  PROVE  Reading'
<1> SUFFICES ASSUME NEW p \in Ticks
    PROVE  /\ pos'[p] \in Ends
           /\ tpc'[p] \in {"read", "slice"} =>
                /\ \A k \in 1 .. MaxLines : 2 * k <= pos'[p] => Stored(cur[p], k)'
                /\ gen'[cur'[p]] = 0 => pos'[p] <= size'[cur'[p]]
           /\ p = "poll" /\ tpc'[p] \in {"read", "slice"} => offset'[cur'[p]] \in {0, pos'[p]}
           /\ tpc'[p] = "slice" =>
                \E g \in 0 .. gen'[cur'[p]], h, m \in 0 .. MaxLines :
                   /\ pos'[p] = 2 * h /\ h <= m
                   /\ got'[p] = Run(cur'[p], g, h, m)
                   /\ gen'[cur'[p]] = 0 => 2 * m <= size'[cur'[p]]
  BY DEF Reading
<1> DEFINE Goal ==
           /\ pos'[p] \in Ends
           /\ tpc'[p] \in {"read", "slice"} =>
                /\ \A k \in 1 .. MaxLines : 2 * k <= pos'[p] => Stored(cur[p], k)'
                /\ gen'[cur'[p]] = 0 => pos'[p] <= size'[cur'[p]]
           /\ p = "poll" /\ tpc'[p] \in {"read", "slice"} => offset'[cur'[p]] \in {0, pos'[p]}
           /\ tpc'[p] = "slice" =>
                \E g \in 0 .. gen'[cur'[p]], h, m \in 0 .. MaxLines :
                   /\ pos'[p] = 2 * h /\ h <= m
                   /\ got'[p] = Run(cur'[p], g, h, m)
                   /\ gen'[cur'[p]] = 0 => 2 * m <= size'[cur'[p]]
<1>1. 0 \in Ends /\ pos[p] \in Ends
  BY DEF Ends, Reading
<1>2. ASSUME pos'[p] \in {0, pos[p]}, tpc'[p] \notin {"read", "slice"} PROVE Goal
  BY <1>1, <1>2
<1>3. ASSUME Idle(p) PROVE Goal
  BY <1>2, <1>3 DEF Idle
<1>4. ASSUME \E f \in Files : Stat(p, f) PROVE Goal
  <2>1. pos'[p] = pos[p] /\ tpc'[p] \in {"open", "next"}
    BY <1>4, TickEffect
  <2> QED
    BY <1>2, <2>1
<1>5. ASSUME Collect(p) \/ ReadFails(p) \/ Push(p) \/ SinkAnswers(p) PROVE Goal
  <2>1. pos'[p] \in {0, pos[p]} /\ tpc'[p] \in {"next", "sent", "ok", "rejected"}
    BY <1>5, TickEffect
  <2> QED
    BY <1>2, <2>1
<1>6. ASSUME Open(p) PROVE Goal
  <2>1. /\ tpc'[p] = "read" /\ cur[p] \in Files /\ cur'[p] = cur[p] /\ pos'[p] = offset[cur[p]]
        /\ UNCHANGED <<size, gen, offset, stored>>
    BY <1>6, TickEffect
  <2>2. pos'[p] \in Ends
    BY <2>1 DEF Offsets
  <2>3. ASSUME NEW k \in 1 .. MaxLines, 2 * k <= pos'[p] PROVE Stored(cur[p], k)'
    BY <2>1, <2>3 DEF Offsets, Stored
  <2> QED
    BY <2>1, <2>2, <2>3 DEF Offsets
<1>7. ASSUME Read(p) PROVE Goal
  <2>1. /\ tpc[p] = "read" /\ tpc'[p] = "slice" /\ cur[p] \in Files /\ cur'[p] = cur[p]
        /\ pos'[p] = pos[p] /\ got'[p] = Slice(cur[p], pos[p], len[p])
        /\ UNCHANGED <<size, gen, offset, stored>>
    BY <1>7, TickEffect
  <2>2. PICK h \in 0 .. MaxLines : pos[p] = 2 * h
    BY <1>1 DEF Ends
  <2>3. len[p] \in Nat /\ gen[cur[p]] \in Nat
    BY <2>1 DEF TypeOK
  <2>4. PICK m \in 0 .. MaxLines :
          /\ h <= m /\ Slice(cur[p], 2 * h, len[p]) = Run(cur[p], gen[cur[p]], h, m)
          /\ 2 * h <= size[cur[p]] => 2 * m <= size[cur[p]]
    BY <2>1, <2>3, SliceIsRun
  <2>5. ASSUME NEW k \in 1 .. MaxLines, 2 * k <= pos'[p] PROVE Stored(cur[p], k)'
    BY <2>1, <2>5 DEF Reading, Stored
  <2>6. gen'[cur'[p]] = 0 => pos'[p] <= size'[cur'[p]] /\ 2 * m <= size'[cur'[p]]
    BY <2>1, <2>2, <2>4 DEF Reading
  <2>7. p = "poll" => offset'[cur'[p]] \in {0, pos'[p]}
    BY <2>1 DEF Reading
  <2>8. \E g \in 0 .. gen'[cur'[p]], hh, mm \in 0 .. MaxLines :
           /\ pos'[p] = 2 * hh /\ hh <= mm
           /\ got'[p] = Run(cur'[p], g, hh, mm)
           /\ gen'[cur'[p]] = 0 => 2 * mm <= size'[cur'[p]]
    <3>1. gen[cur[p]] \in 0 .. gen'[cur'[p]]
      BY <2>1, <2>3
    <3> QED
      BY <3>1, <2>1, <2>2, <2>4, <2>6
  <2> QED
    BY <2>1, <2>5, <2>6, <2>7, <2>8, <1>1
<1>8. ASSUME Same(p) PROVE Goal
  <2>1. CASE tpc[p] \notin {"read", "slice"}
    BY <1>2, <1>8, <2>1 DEF Same
  <2>2. CASE tpc[p] \in {"read", "slice"}
    <3>1. /\ cur[p] \in Files /\ cur'[p] = cur[p] /\ pos'[p] = pos[p] /\ got'[p] = got[p]
          /\ tpc'[p] = tpc[p]
      BY <1>8, <2>2 DEF Same, TypeOK
    <3>2. ASSUME NEW k \in 1 .. MaxLines, 2 * k <= pos'[p] PROVE Stored(cur[p], k)'
      <4>1. Stored(cur[p], k)
        BY <2>2, <3>1, <3>2 DEF Reading
      <4>2. PICK f \in Files : f = cur[p]
        BY <3>1
      <4>3. Stored(f, k)'
        BY <4>1, <4>2, StoredStays
      <4> QED
        BY <4>2, <4>3, <3>1 DEF Stored
    <3>3. /\ gen'[cur[p]] = 0 => gen[cur[p]] = 0 /\ size[cur[p]] <= size'[cur[p]]
          /\ gen[cur[p]] <= gen'[cur[p]] /\ gen[cur[p]] \in Nat /\ gen'[cur[p]] \in Nat
          /\ size[cur[p]] \in Nat /\ size'[cur[p]] \in Nat /\ pos[p] \in Nat
      BY <3>1, Monotone DEF TypeOK
    <3>4. gen'[cur'[p]] = 0 => pos'[p] <= size'[cur'[p]]
      BY <2>2, <3>1, <3>3 DEF Reading
    <3>5. p = "poll" => offset'[cur'[p]] \in {0, pos'[p]}
      <4>1. p = "poll" => ~PollCommits
        BY <2>2 DEF PollCommits
      <4>2. p = "poll" => offset'[cur[p]] \in {0, offset[cur[p]]}
        BY <3>1, <4>1, OffsetEffect
      <4> QED
        BY <2>2, <3>1, <4>2 DEF Reading
    <3>6. ASSUME tpc[p] = "slice"
          PROVE  \E g \in 0 .. gen'[cur'[p]], h, m \in 0 .. MaxLines :
                    /\ pos'[p] = 2 * h /\ h <= m
                    /\ got'[p] = Run(cur'[p], g, h, m)
                    /\ gen'[cur'[p]] = 0 => 2 * m <= size'[cur'[p]]
      <4>1. PICK g \in 0 .. gen[cur[p]], h \in 0 .. MaxLines, m \in 0 .. MaxLines :
                    /\ pos[p] = 2 * h /\ h <= m
                    /\ got[p] = Run(cur[p], g, h, m)
                    /\ gen[cur[p]] = 0 => 2 * m <= size[cur[p]]
        BY <3>6 DEF Reading
      <4>2. g \in 0 .. gen'[cur[p]] /\ (gen'[cur[p]] = 0 => 2 * m <= size'[cur[p]])
        BY <3>3, <4>1
      <4> QED
        BY <3>1, <4>1, <4>2
    <3> QED
      BY <1>1, <3>1, <3>2, <3>4, <3>5, <3>6
  <2> QED
    BY <2>1, <2>2
<1> HIDE DEF Goal
<1>9. Goal
  BY <1>3, <1>4, <1>5, <1>6, <1>7, <1>8, TickFrame
<1> QED
  BY <1>9 DEF Goal

\* What the poll loop is going to commit.
LEMMA BatchStep ==
  ASSUME TypeOK, TypeOK', Reading, Batch, Process, [Next]_vars
  PROVE  Batch'
<1> DEFINE n == pending'["poll"]
<1> SUFFICES ASSUME NEW f \in Files, n[f] > 0
    PROVE  /\ n[f] \in Ends
           /\ \A k \in 1 .. MaxLines : 2 * k <= n[f] =>
                Stored(f, k)' \/ \E g \in 0 .. gen'[f] : <<f, g, k>> \in streams'["poll"]
           /\ gen'[f] = 0 => offset'[f] <= n[f] /\ n[f] <= size'[f]
  BY DEF Batch
<1> DEFINE Goal ==
           /\ n[f] \in Ends
           /\ \A k \in 1 .. MaxLines : 2 * k <= n[f] =>
                Stored(f, k)' \/ \E g \in 0 .. gen'[f] : <<f, g, k>> \in streams'["poll"]
           /\ gen'[f] = 0 => offset'[f] <= n[f] /\ n[f] <= size'[f]
<1>1. /\ "poll" \in Ticks /\ n[f] \in Nat /\ pending["poll"][f] \in Nat
      /\ size[f] \in Nat /\ size'[f] \in Nat /\ offset[f] \in Nat /\ offset'[f] \in Nat
      /\ gen[f] \in Nat /\ gen'[f] \in Nat /\ gen[f] <= gen'[f]
      /\ gen'[f] = 0 => gen[f] = 0 /\ size[f] <= size'[f]
  BY Monotone DEF TypeOK, Ticks
<1>2. pending'["poll"] # NoPending /\ ~PollCommits
  BY DEF NoPending, PollCommits
<1>3. ASSUME n[f] = pending["poll"][f], streams["poll"] \subseteq streams'["poll"] PROVE Goal
  <2>2. offset'[f] \in {0, offset[f]}
    BY <1>2, OffsetEffect
  <2>3. ASSUME NEW k \in 1 .. MaxLines, 2 * k <= n[f]
        PROVE  Stored(f, k)' \/ \E g \in 0 .. gen'[f] : <<f, g, k>> \in streams'["poll"]
    <3>1. CASE Stored(f, k)
      BY <3>1, StoredStays
    <3>2. CASE \E g \in 0 .. gen[f] : <<f, g, k>> \in streams["poll"]
      BY <1>1, <1>3, <3>2
    <3> QED
      BY <1>1, <1>3, <2>3, <3>1, <3>2 DEF Batch
  <2>4. n[f] \in Ends
    BY <1>3 DEF Batch
  <2>5. gen'[f] = 0 => offset'[f] <= n[f] /\ n[f] <= size'[f]
    BY <1>1, <1>3, <2>2 DEF Batch
  <2> QED
    BY <2>3, <2>4, <2>5
<1>4. CASE Collect("poll")
  <2>1. /\ tpc["poll"] = "slice" /\ cur["poll"] \in Files
        /\ streams'["poll"] = streams["poll"] \cup got["poll"]
        /\ IF got["poll"] = {} THEN pending'["poll"] = pending["poll"]
           ELSE /\ pending'["poll"][cur["poll"]] = NewOffset("poll")
                /\ \A e \in Files : e # cur["poll"] => pending'["poll"][e] = pending["poll"][e]
        /\ UNCHANGED <<size, gen, offset, stored>>
    BY <1>1, <1>4, TickEffect
  <2>2. CASE got["poll"] = {} \/ f # cur["poll"]
    BY <1>3, <2>1, <2>2
  <2>3. CASE got["poll"] # {} /\ f = cur["poll"]
    <3>1. PICK g \in 0 .. gen[f], h \in 0 .. MaxLines, m \in 0 .. MaxLines :
                    /\ pos["poll"] = 2 * h /\ h <= m
                    /\ got["poll"] = Run(f, g, h, m)
                    /\ gen[f] = 0 => 2 * m <= size[f]
      BY <1>1, <2>1, <2>3 DEF Reading
    <3>2. Cardinality(got["poll"]) = m - h
      BY <3>1, RunCount
    <3>3. n[f] = offset[f] + 2 * (m - h)
      BY <2>1, <2>3, <3>2 DEF NewOffset
    <3>4. offset[f] \in {0, 2 * h}
      BY <1>1, <2>1, <2>3, <3>1 DEF Reading
    <3>5. n[f] <= 2 * m /\ (n[f] = 2 * m \/ n[f] = 2 * (m - h))
      BY <3>1, <3>3, <3>4
    <3>6. n[f] \in Ends
      <4>1. m - h \in 0 .. MaxLines
        BY <3>1
      <4>2. PICK j \in 0 .. MaxLines : n[f] = 2 * j
        BY <3>5, <4>1
      <4> QED
        BY <4>2 DEF Ends
    <3>7. ASSUME NEW k \in 1 .. MaxLines, 2 * k <= n[f]
          PROVE  Stored(f, k)' \/ \E gg \in 0 .. gen'[f] : <<f, gg, k>> \in streams'["poll"]
      <4>1. CASE k <= h
        <5>1. Stored(f, k)
          BY <1>1, <2>1, <2>3, <3>1, <4>1 DEF Reading
        <5> QED
          BY <5>1, StoredStays
      <4>2. CASE k > h
        <5>1. k \in h + 1 .. m
          BY <3>1, <3>5, <3>7, <4>2, <1>1
        <5>2. <<f, g, k>> \in got["poll"]
          BY <3>1, <5>1 DEF Run
        <5> QED
          BY <2>1, <3>1, <5>2
      <4> QED
        BY <3>1, <4>1, <4>2
    <3>8. gen'[f] = 0 => offset'[f] <= n[f] /\ n[f] <= size'[f]
      BY <1>1, <2>1, <3>1, <3>3, <3>5
    <3> QED
      BY <3>6, <3>7, <3>8
  <2> QED
    BY <2>2, <2>3
<1>5. CASE \/ Same("poll") \/ Idle("poll")
           \/ \E e \in Files : Stat("poll", e)
           \/ Open("poll") \/ Read("poll") \/ ReadFails("poll") \/ Push("poll") \/ SinkAnswers("poll")
  <2>1. pending'["poll"] = pending["poll"] /\ streams'["poll"] = streams["poll"]
    BY <1>1, <1>2, <1>5, TickEffect DEF Same, Idle
  <2> QED
    BY <1>3, <2>1
<1> QED
  BY <1>1, <1>4, <1>5, TickFrame

\* A batch that was sent.
LEMMA SentStep ==
  ASSUME TypeOK, TypeOK', Sent, Process, [Next]_vars
  PROVE  Sent'
<1> SUFFICES ASSUME NEW p \in Ticks
    PROVE  /\ tpc'[p] \in {"sent", "ok", "rejected"} => todo'[p] = {}
           /\ tpc'[p] = "ok" => streams'[p] \subseteq stored'
  BY DEF Sent
<1>1. CASE Same(p)
  BY <1>1, Monotone DEF Same, Sent
<1>2. CASE Idle(p)
  BY <1>2 DEF Idle
<1>3. CASE \E f \in Files : Stat(p, f)
  BY <1>3, TickEffect
<1>4. CASE Open(p) \/ Read(p) \/ Collect(p) \/ ReadFails(p) \/ Push(p)
  BY <1>4, TickEffect
<1>5. CASE SinkAnswers(p)
  BY <1>5, TickEffect DEF Sent
<1> QED
  BY <1>1, <1>2, <1>3, <1>4, <1>5, TickFrame

\* The process and its ticks.
LEMMA ProcessStep ==
  ASSUME TypeOK, Process, [Next]_vars
  PROVE  Process'
<1> USE DEF Process, TypeOK, fileVars, tickVars
<1>1. ASSUME NEW p \in Ticks, Begin(p), life = "up", UNCHANGED <<life, running, atTerm>>,
             running => p = "poll"
      PROVE  Process'
  BY <1>1 DEF Begin, Ticks
<1>2. ASSUME NEW how, Exit(how), UNCHANGED <<running, atTerm>>, running => how = "crashed"
      PROVE  Process'
  BY <1>2 DEF Exit, Ticks
<1>3. ASSUME PollSleeps, life = "up", UNCHANGED <<running, atTerm>> PROVE Process'
  BY <1>3 DEF PollSleeps, Ticks
<1>4. ASSUME NEW p \in Ticks, tpc[p] # "off", life = "up", UNCHANGED <<life, running, atTerm>>,
             \A q \in Ticks : q # p => tpc'[q] = tpc[q]
      PROVE  Process'
  BY <1>4 DEF Ticks
<1>5. ASSUME NEW p \in Ticks, TickFails(p), tpc[p] # "off", life = "up", UNCHANGED <<running, atTerm>>
      PROVE  Process'
  BY <1>1, <1>2, <1>3, <1>5 DEF TickFails, DrainFails, Ticks
<1>6. ASSUME NEW p \in Ticks, NEW f \in Files, Stat(p, f) PROVE Process'
  BY <1>4, <1>6 DEF Stat, InTick
<1>7. ASSUME NEW p \in Ticks, Open(p) \/ Read(p) \/ Collect(p) PROVE Process'
  BY <1>4, <1>7 DEF Open, Read, Collect, InTick
<1>8. ASSUME NEW p \in Ticks, ReadFails(p) PROVE Process'
  BY <1>4, <1>8 DEF ReadFails, InTick
<1>9. ASSUME NEW p \in Ticks, Push(p) \/ SinkAnswers(p) PROVE Process'
  BY <1>4, <1>9 DEF Push, SinkAnswers, Collected, InTick
<1>10. ASSUME NEW p \in Ticks, NothingNew(p) PROVE Process'
  BY <1>2, <1>3, <1>10 DEF NothingNew, Collected, InTick, Ticks
<1>11. ASSUME NEW p \in Ticks, NotDue(p) PROVE Process'
  BY <1>3, <1>11 DEF NotDue, Collected, InTick
<1>12. ASSUME NEW p \in Ticks, Commit(p) PROVE Process'
  BY <1>2, <1>3, <1>12 DEF Commit, InTick, Ticks
<1>13. ASSUME NEW p \in Ticks, Rejected(p) \/ PushFails(p) PROVE Process'
  BY <1>5, <1>13 DEF Rejected, PushFails, InTick
<1>14. ASSUME PollTick PROVE Process'
  BY <1>1, <1>14 DEF PollTick, Ticks
<1>15. ASSUME Sigterm PROVE Process'
  BY <1>15 DEF Sigterm
<1>16. ASSUME Crash PROVE Process'
  BY <1>2, <1>16 DEF Crash
<1>17. ASSUME Restart PROVE Process'
  BY <1>17 DEF Restart, Ticks
<1>18. ASSUME (\E f \in Files : Write(f) \/ Truncate(f)) \/ UNCHANGED vars PROVE Process'
  BY <1>18 DEF Write, Truncate, vars
<1> QED
  BY <1>6, <1>7, <1>8, <1>9, <1>10, <1>11, <1>12, <1>13, <1>14, <1>15, <1>16, <1>17, <1>18, NextCases

\* Where the drain ends as done: its batch is stored, and no file is left to see.
LEMMA DrainedEffect ==
  ASSUME TypeOK, Sent, [Next]_vars, life' = "drained", life # "drained"
  PROVE  /\ tpc["drain"] \notin {"off", "open", "read", "slice"} /\ todo["drain"] = {}
         /\ streams["drain"] \subseteq stored
         /\ UNCHANGED <<size, gen, stored, atTerm, budget>>
<1> USE DEF fileVars, tickVars
<1>1. ASSUME NEW how, Exit(how), how # "drained" PROVE FALSE
  BY <1>1 DEF Exit
<1>2. ASSUME UNCHANGED life PROVE FALSE
  BY <1>2
<1>3. \/ NothingNew("drain") /\ Exit("drained")
      \/ Commit("drain") /\ Exit("drained")
  <2>1. ASSUME NEW p \in Ticks, TickFails(p) PROVE FALSE
    BY <1>1, <1>2, <2>1 DEF TickFails, DrainFails, PollSleeps
  <2>2. ~PollSleeps
    BY <1>2 DEF PollSleeps
  <2>3. ASSUME NEW p \in Ticks,
               \/ \E f \in Files : Stat(p, f)
               \/ Open(p) \/ Read(p) \/ Collect(p) \/ ReadFails(p) \/ NotDue(p) \/ Push(p)
               \/ SinkAnswers(p) \/ Rejected(p) \/ PushFails(p)
        PROVE  FALSE
    BY <1>2, <2>1, <2>2, <2>3
    DEF Stat, Open, Read, Collect, ReadFails, NotDue, Push, SinkAnswers, Rejected, PushFails
  <2>4. ASSUME \/ \E f \in Files : Write(f) \/ Truncate(f)
               \/ PollTick \/ Sigterm \/ Restart \/ UNCHANGED vars
        PROVE  FALSE
    BY <1>2, <2>4 DEF Write, Truncate, PollTick, Sigterm, Restart, vars
  <2>5. ~Crash
    BY <1>1 DEF Crash
  <2>6. PICK p \in Ticks : NothingNew(p) \/ Commit(p)
    BY <2>3, <2>4, <2>5, NextCases
  <2> QED
    BY <2>2, <2>6 DEF NothingNew, Commit
<1>4. CASE NothingNew("drain")
  BY <1>4 DEF NothingNew, Collected
<1>5. CASE Commit("drain")
  BY <1>5 DEF Commit, Sent, Ticks
<1> QED
  BY <1>3, <1>4, <1>5

\* What SIGTERM finds complete stays in its file, unless that is truncated.
LEMMA AtTermEffect ==
  ASSUME TypeOK, Process, [Next]_vars
  PROVE  \/ UNCHANGED atTerm
         \/ /\ tpc'["drain"] = "next" /\ todo'["drain"] = Files /\ life' = "up"
            /\ UNCHANGED <<size, gen>>
            /\ \A l \in atTerm' : /\ l[1] \in Files /\ l[2] = gen[l[1]]
                                  /\ 2 * l[3] <= size[l[1]]
<1> USE DEF fileVars, tickVars
<1>1. CASE Sigterm
  <2>1. /\ tpc'["drain"] = "next" /\ todo'["drain"] = Files /\ life' = "up"
        /\ UNCHANGED <<size, gen>> /\ atTerm' = UNION {Complete(f) : f \in Files}
    BY <1>1 DEF Sigterm, TypeOK, Ticks
  <2>2. ASSUME NEW l \in atTerm'
        PROVE  l[1] \in Files /\ l[2] = gen[l[1]] /\ 2 * l[3] <= size[l[1]]
    <3>1. PICK f \in Files : l \in Complete(f)
      BY <2>1
    <3>2. PICK k \in 1 .. MaxLines : 2 * k <= size[f] /\ l = <<f, gen[f], k>>
      BY <3>1, CompleteLines
    <3> QED
      BY <3>2
  <2> QED
    BY <2>1, <2>2
<1>2. CASE ~Sigterm
  BY <1>2, NextCases
  DEF Write, Truncate, Stat, Open, Read, Collect, ReadFails, NothingNew, NotDue, Push, SinkAnswers,
      Commit, Rejected, PushFails, PollTick, Crash, Restart, vars
<1> QED
  BY <1>1, <1>2

\* Until its file is truncated, an offset does not go back while the process lives.
LEMMA OffsetGrows ==
  ASSUME TypeOK, TypeOK', Offsets, Batch, [Next]_vars, NEW f \in Files, gen'[f] = 0,
         tpc'["drain"] # "off"
  PROVE  offset[f] <= offset'[f]
<1>1. gen[f] = 0 /\ offset[f] \in Nat /\ offset'[f] \in Nat /\ size[f] \in Nat
      /\ pending["poll"][f] \in Nat
  BY Monotone DEF TypeOK, Ticks
<1>2. offset[f] <= size[f]
  BY <1>1 DEF Offsets
<1>3. CASE PollCommits
  BY <1>1, <1>3 DEF PollCommits, Batch
<1> QED
  BY <1>1, <1>2, <1>3, OffsetEffect DEF Ticks

\* Where the lines SIGTERM found stand.
LEMMA DrainingStep ==
  ASSUME TypeOK, TypeOK', Offsets, Reading, Batch, Sent, Process, Draining, [Next]_vars
  PROVE  Draining'
<1> DEFINE At(l) ==
          \/ l[1] \in todo["drain"]
          \/ l \in stored \cup streams["drain"]
          \/ /\ l[1] = cur["drain"]
             /\ \/ tpc["drain"] = "open" /\ 2 * l[3] <= offset[l[1]] + len["drain"]
                \/ tpc["drain"] = "read" /\ 2 * l[3] <= pos["drain"] + len["drain"]
                \/ tpc["drain"] = "slice" /\ l \in got["drain"]
<1>0. "drain" \in Ticks
  BY DEF Ticks
<1> SUFFICES ASSUME budget'.read = MaxReadErrors, NEW l \in atTerm', gen'[l[1]] = 0
    PROVE  /\ l[2] = 0 /\ 2 * l[3] <= size'[l[1]]
           /\ life' = "drained" => l \in stored'
           /\ tpc'["drain"] # "off" =>
                \/ l[1] \in todo'["drain"]
                \/ l \in stored' \cup streams'["drain"]
                \/ /\ l[1] = cur'["drain"]
                   /\ \/ tpc'["drain"] = "open" /\ 2 * l[3] <= offset'[l[1]] + len'["drain"]
                      \/ tpc'["drain"] = "read" /\ 2 * l[3] <= pos'["drain"] + len'["drain"]
                      \/ tpc'["drain"] = "slice" /\ l \in got'["drain"]
  BY DEF Draining
<1>1. l[1] \in Files /\ l[3] \in 1 .. MaxLines /\ l = <<l[1], l[2], l[3]>>
  <2>1. l \in Lines
    BY DEF TypeOK
  <2> QED
    BY <2>1 DEF Lines
<1>2. PICK f \in Files : f = l[1]
  BY <1>1
<1>3. PICK k \in 1 .. MaxLines : k = l[3]
  BY <1>1
<1>4. /\ gen[f] = 0 /\ gen'[f] = 0 /\ size[f] <= size'[f] /\ size[f] \in Nat /\ size'[f] \in Nat
      /\ stored \subseteq stored'
  BY <1>2, Monotone DEF TypeOK
<1>5. budget.read = MaxReadErrors /\ ~ ReadFails("drain")
  <2>1. budget.read \in 0 .. MaxReadErrors /\ budget'.read <= budget.read
    BY Monotone DEF TypeOK
  <2>2. budget.read = MaxReadErrors
    BY <2>1
  <2>3. ReadFails("drain") => budget'.read < budget.read
    BY <1>0, TickEffect
  <2> QED
    BY <2>2, <2>3
<1>6. CASE ~ UNCHANGED atTerm
  BY <1>2, <1>4, <1>6, AtTermEffect
<1>7. CASE UNCHANGED atTerm
  <2>1. /\ l[2] = 0 /\ 2 * k <= size[f]
        /\ life = "drained" => l \in stored
        /\ tpc["drain"] # "off" => At(l)
    BY <1>2, <1>3, <1>4, <1>5, <1>7 DEF Draining
  <2>2. l = <<f, 0, k>>
    BY <1>1, <1>2, <1>3, <2>1
  <2>3. Stored(f, k) => l \in stored
    BY <1>4, <2>2 DEF Stored
  <2>4. life' = "drained" => l \in stored'
    <3>1. CASE life = "drained"
      BY <2>1, <3>1, <1>4
    <3>2. CASE life' = "drained" /\ life # "drained"
      BY <2>1, <3>2, <1>4, DrainedEffect
    <3> QED
      BY <3>1, <3>2
  <2>5. ASSUME tpc'["drain"] # "off"
        PROVE  \/ f \in todo'["drain"]
               \/ l \in stored' \cup streams'["drain"]
               \/ /\ f = cur'["drain"]
                  /\ \/ tpc'["drain"] = "open" /\ 2 * k <= offset'[f] + len'["drain"]
                     \/ tpc'["drain"] = "read" /\ 2 * k <= pos'["drain"] + len'["drain"]
                     \/ tpc'["drain"] = "slice" /\ l \in got'["drain"]
    <3> DEFINE Goal ==
               \/ f \in todo'["drain"]
               \/ l \in stored' \cup streams'["drain"]
               \/ /\ f = cur'["drain"]
                  /\ \/ tpc'["drain"] = "open" /\ 2 * k <= offset'[f] + len'["drain"]
                     \/ tpc'["drain"] = "read" /\ 2 * k <= pos'["drain"] + len'["drain"]
                     \/ tpc'["drain"] = "slice" /\ l \in got'["drain"]
    <3>1. /\ offset[f] \in Nat /\ offset'[f] \in Nat /\ len["drain"] \in Nat /\ pos["drain"] \in Nat
          /\ offset[f] <= offset'[f] /\ offset[f] <= size[f]
      BY <1>0, <1>4, <2>5, OffsetGrows DEF TypeOK, Offsets
    <3>2. ASSUME Same("drain") PROVE Goal
      <4>1. At(l)
        BY <2>1, <2>5, <3>2 DEF Same
      <4>2. CASE l[1] \in todo["drain"] \/ l \in stored \cup streams["drain"]
        BY <1>2, <1>4, <3>2, <4>2 DEF Same
      <4>3. CASE /\ l[1] = cur["drain"]
                 /\ tpc["drain"] = "open" /\ 2 * l[3] <= offset[l[1]] + len["drain"]
        BY <1>2, <1>3, <3>1, <3>2, <4>3 DEF Same
      <4>4. CASE /\ l[1] = cur["drain"]
                 /\ \/ tpc["drain"] = "read" /\ 2 * l[3] <= pos["drain"] + len["drain"]
                    \/ tpc["drain"] = "slice" /\ l \in got["drain"]
        BY <1>2, <1>3, <3>2, <4>4 DEF Same
      <4> QED
        BY <4>1, <4>2, <4>3, <4>4
    <3>3. ASSUME Idle("drain") PROVE Goal
      BY <2>5, <3>3 DEF Idle
    <3>4. ASSUME NEW e \in Files, Stat("drain", e) PROVE Goal
      <4>1. /\ tpc["drain"] = "next" /\ todo'["drain"] = todo["drain"] \ {e}
            /\ offset'[e] = Resumed(e)
            /\ IF size[e] > Resumed(e)
                 THEN /\ tpc'["drain"] = "open" /\ cur'["drain"] = e
                      /\ len'["drain"] = size[e] - Resumed(e)
                 ELSE tpc'["drain"] = "next" /\ cur'["drain"] = cur["drain"]
            /\ streams'["drain"] = streams["drain"] /\ UNCHANGED stored
        BY <1>0, <3>4, TickEffect
      <4>2. f \in todo["drain"] \/ l \in stored \cup streams["drain"]
        BY <1>2, <2>1, <4>1
      <4>3. CASE e # f \/ f \notin todo["drain"]
        BY <4>1, <4>2, <4>3
      <4>4. CASE e = f
        <5>1. Resumed(f) = offset[f]
          BY <3>1, <1>4 DEF Resumed
        <5>2. CASE size[f] > offset[f]
          BY <1>4, <2>1, <3>1, <4>1, <4>4, <5>1, <5>2
        <5>3. CASE size[f] = offset[f]
          <6>1. Stored(f, k)
            BY <2>1, <5>3 DEF Offsets
          <6> QED
            BY <2>3, <6>1, <1>4
        <5> QED
          BY <1>4, <3>1, <5>2, <5>3
      <4> QED
        BY <4>3, <4>4
    <3>5. ASSUME Open("drain") PROVE Goal
      <4>1. /\ tpc["drain"] = "open" /\ tpc'["drain"] = "read" /\ cur'["drain"] = cur["drain"]
            /\ pos'["drain"] = offset[cur["drain"]] /\ todo'["drain"] = todo["drain"]
            /\ len'["drain"] = len["drain"] /\ streams'["drain"] = streams["drain"]
            /\ UNCHANGED stored
        BY <1>0, <3>5, TickEffect
      <4> QED
        BY <1>2, <1>3, <2>1, <4>1
    <3>6. ASSUME Read("drain") PROVE Goal
      <4>1. /\ tpc["drain"] = "read" /\ tpc'["drain"] = "slice" /\ cur'["drain"] = cur["drain"]
            /\ got'["drain"] = Slice(cur["drain"], pos["drain"], len["drain"])
            /\ todo'["drain"] = todo["drain"] /\ streams'["drain"] = streams["drain"]
            /\ UNCHANGED stored
        BY <1>0, <3>6, TickEffect
      <4>2. \/ f \in todo["drain"] \/ l \in stored \cup streams["drain"]
            \/ f = cur["drain"] /\ 2 * k <= pos["drain"] + len["drain"]
        BY <1>2, <1>3, <2>1, <4>1
      <4>3. CASE f = cur["drain"] /\ 2 * k <= pos["drain"] + len["drain"] /\ 2 * k <= pos["drain"]
        <5>1. Stored(f, k)
          BY <1>0, <4>1, <4>3 DEF Reading
        <5> QED
          BY <5>1, <2>3, <1>4
      <4>4. CASE f = cur["drain"] /\ 2 * k <= pos["drain"] + len["drain"] /\ 2 * k > pos["drain"]
        <5>1. PICK h \in 0 .. MaxLines : pos["drain"] = 2 * h
          BY <1>0 DEF Reading, Ends
        <5>2. pos["drain"] + 2 <= 2 * k
          BY <4>4, <5>1
        <5>3. l \in Complete(f) /\ l[3] = k
          BY <1>3, <1>4, <2>1, <2>2, CompleteLines
        <5>4. l \in Slice(f, pos["drain"], len["drain"])
          BY <4>4, <5>2, <5>3 DEF Slice
        <5> QED
          BY <4>1, <4>4, <5>4
      <4>5. CASE f \in todo["drain"] \/ l \in stored \cup streams["drain"]
        BY <4>1, <4>5
      <4> QED
        BY <3>1, <4>2, <4>3, <4>4, <4>5
    <3>7. ASSUME Collect("drain") PROVE Goal
      <4>1. /\ tpc["drain"] = "slice" /\ todo'["drain"] = todo["drain"]
            /\ streams'["drain"] = streams["drain"] \cup got["drain"] /\ UNCHANGED stored
        BY <1>0, <3>7, TickEffect
      <4> QED
        BY <1>2, <2>1, <4>1
    <3>8. ASSUME Push("drain") \/ SinkAnswers("drain") PROVE Goal
      <4>1. /\ tpc["drain"] \in {"next", "sent"} /\ todo'["drain"] = todo["drain"]
            /\ streams'["drain"] = streams["drain"]
        BY <1>0, <3>8, TickEffect
      <4> QED
        BY <1>2, <1>4, <2>1, <4>1
    <3> HIDE DEF Goal
    <3>9. Goal
      BY <1>0, <1>5, <3>2, <3>3, <3>4, <3>5, <3>6, <3>7, <3>8, TickFrame
    <3> QED
      BY <3>9 DEF Goal
  <2>6. 2 * k <= size'[f]
    BY <1>4, <2>1
  <2> QED
    BY <1>2, <1>3, <2>1, <2>4, <2>5, <2>6
<1> QED
  BY <1>6, <1>7

-----------------------------------------------------------------------------
(* The invariant, and what it says.                                         *)

\* The inductive invariant holds in every reachable state.
THEOREM Invariance == Spec => []IInv
<1>1. Init => IInv
  <2> SUFFICES ASSUME Init PROVE IInv
    OBVIOUS
  <2>1. TypeOK
    BY DEF Init, TypeOK, NoPending, Ticks, TPCs
  <2>2. Offsets /\ Batch
    BY DEF Init, Offsets, Batch, Ends, NoPending, Ticks
  <2>3. Reading
    BY DEF Init, Reading, Ends, Ticks
  <2>4. Sent /\ Process /\ Draining
    BY DEF Init, Sent, Process, Draining, Ticks
  <2> QED
    BY <2>1, <2>2, <2>3, <2>4 DEF IInv
<1>2. IInv /\ [Next]_vars => IInv'
  <2> SUFFICES ASSUME IInv, [Next]_vars PROVE IInv'
    OBVIOUS
  <2>1. TypeOK'
    BY TypesStep DEF IInv
  <2> QED
    BY <2>1, OffsetsStep, ReadingStep, BatchStep, SentStep, ProcessStep, DrainingStep DEF IInv
<1> QED
  BY <1>1, <1>2, PTL DEF Spec

\* The volume, the process, its ticks and the sink have their types.
THEOREM TypeCorrect == Spec => []TypeOK
BY Invariance, PTL DEF IInv

\* A committed offset covers only lines the sink has taken, although two ticks
\* and a reset write it and the file may be truncated between two awaits.
THEOREM CommittedAreStored == Spec => []CommittedIsStored
<1>1. IInv => CommittedIsStored
  <2> SUFFICES ASSUME IInv, NEW f \in Files, NEW k \in 1 .. offset[f] \div 2
      PROVE  \E g \in 0 .. gen[f] : <<f, g, k>> \in stored
    BY DEF CommittedIsStored
  <2>1. offset[f] \in Nat /\ offset[f] <= 2 * MaxLines
    BY DEF IInv, Offsets, Ends
  <2>2. offset[f] \div 2 \in Nat /\ k \in Nat /\ k >= 1 /\ k <= offset[f] \div 2
    BY <2>1, Halves
  <2>3. 2 * k <= offset[f]
    BY <2>1, <2>2, Halves
  <2>4. k \in 1 .. MaxLines
    BY <2>1, <2>2, <2>3
  <2> QED
    BY <2>3, <2>4 DEF IInv, Offsets, Stored
<1> QED
  BY <1>1, Invariance, PTL

\* A drain that ends as done has shipped every line that was complete when SIGTERM
\* came, whatever the poll loop's tick was in the middle of.
THEOREM DrainShipsEverything == Spec => []DrainShipsAll
<1>1. IInv => DrainShipsAll
  BY DEF IInv, Draining, DrainShipsAll
<1> QED
  BY <1>1, Invariance, PTL
=============================================================================
