-------------------------- MODULE SettlementProofs --------------------------
(* Proofs about LeaderLease, for any set of pods and any durations with      *)
(* LeaseDuration > RenewDeadline, and about Settlement, which composes the   *)
(* electors with the sweepers, for any orders and bounds.                    *)
EXTENDS Settlement, TLAPS

(* The electors.                                                             *)

\* LeaseTypeOK holds of every initial state and is preserved by every step.
THEOREM LeaseTypeCorrect == LeaseSpec => []LeaseTypeOK
<1> USE DurationsAssumption, PodsAssumption, PunctualAssumption, MaxFaultsAssumption
<1>1. LeaseInit => LeaseTypeOK
  BY DEF LeaseInit, LeaseTypeOK, EPCs
<1>2. LeaseTypeOK /\ [LeaseNext]_leaseVars => LeaseTypeOK'
  <2> SUFFICES ASSUME LeaseTypeOK, [LeaseNext]_leaseVars PROVE LeaseTypeOK'
    OBVIOUS
  <2> USE DEF LeaseTypeOK, EPCs
  <2>1. ASSUME NEW p \in Pods, Acquire(p) PROVE LeaseTypeOK'
    BY <2>1 DEF Acquire
  <2>2. ASSUME NEW p \in Pods, Renew(p) PROVE LeaseTypeOK'
    BY <2>2 DEF Renew
  <2>3. ASSUME NEW p \in Pods, RenewTimesOut(p) PROVE LeaseTypeOK'
    BY <2>3 DEF RenewTimesOut
  <2>4. ASSUME NEW p \in Pods, Release(p) PROVE LeaseTypeOK'
    BY <2>4 DEF Release
  <2>5. ASSUME NEW p \in Pods, OnStartedLeading(p) PROVE LeaseTypeOK'
    BY <2>5 DEF OnStartedLeading
  <2>6. ASSUME NEW p \in Pods, RefreshValidUntil(p) PROVE LeaseTypeOK'
    BY <2>6 DEF RefreshValidUntil
  <2>7. ASSUME NEW p \in Pods, OnStoppedLeading(p) PROVE LeaseTypeOK'
    BY <2>7 DEF OnStoppedLeading
  <2>8. ASSUME NEW p \in Pods, ElectorRestarts(p) PROVE LeaseTypeOK'
    BY <2>8 DEF ElectorRestarts, FreshElector
  <2>9. ASSUME NEW p \in Pods, ElectorCrash(p) PROVE LeaseTypeOK'
    BY <2>9 DEF ElectorCrash, FreshElector, AFault
  <2>10. ASSUME NEW p \in Pods, ElectorSigterm(p) PROVE LeaseTypeOK'
    BY <2>10 DEF ElectorSigterm, AFault
  <2>11. CASE Tick
    BY <2>11 DEF Tick, Older
  <2>12. CASE UNCHANGED leaseVars
    BY <2>12 DEF leaseVars
  <2> QED
    BY <2>1, <2>2, <2>3, <2>4, <2>5, <2>6, <2>7, <2>8, <2>9, <2>10, <2>11, <2>12
    DEF LeaseNext, ElectorStep
<1> QED
  BY <1>1, <1>2, PTL DEF LeaseSpec

-----------------------------------------------------------------------------
\* A leading elector holds the Lease, which is at least as fresh as it thinks,
\* and it never waits past its renew deadline.  The bound on since is what
\* keeps a standby, which waits for LeaseDuration, from taking over meanwhile.
\* A standby is a process that has not led: no callback of it is pending.
LeaderHolds ==
    \A p \in Pods :
        /\ epc[p] = "leading" => holder = p /\ age <= since[p] /\ since[p] <= RenewDeadline
        /\ epc[p] = "standby" => ~starting[p] /\ ~isLeader[p]

\* Every step of punctual electors preserves LeaderHolds.
LEMMA LeaderHoldsStep ==
  ASSUME Punctual, LeaseTypeOK, LeaderHolds, [LeaseNext]_leaseVars
  PROVE  LeaderHolds'
<1> USE DurationsAssumption, PodsAssumption, PunctualAssumption, MaxFaultsAssumption
<1> USE DEF LeaseTypeOK, EPCs, LeaderHolds
<1>1. ASSUME NEW p \in Pods, Acquire(p) PROVE LeaderHolds'
  BY <1>1 DEF Acquire, MayAcquire
<1>2. ASSUME NEW p \in Pods, Renew(p) PROVE LeaderHolds'
  BY <1>2 DEF Renew
<1>3. ASSUME NEW p \in Pods, RenewTimesOut(p) PROVE LeaderHolds'
  BY <1>3 DEF RenewTimesOut
<1>4. ASSUME NEW p \in Pods, Release(p) PROVE LeaderHolds'
  BY <1>4 DEF Release
<1>5. ASSUME NEW p \in Pods, OnStartedLeading(p) \/ RefreshValidUntil(p)
      PROVE  LeaderHolds'
  BY <1>5 DEF OnStartedLeading, RefreshValidUntil
<1>6. ASSUME NEW p \in Pods, OnStoppedLeading(p) PROVE LeaderHolds'
  BY <1>6 DEF OnStoppedLeading
<1>7. ASSUME NEW p \in Pods, ElectorRestarts(p) \/ ElectorCrash(p)
      PROVE  LeaderHolds'
  BY <1>7 DEF ElectorRestarts, ElectorCrash, FreshElector
<1>8. ASSUME NEW p \in Pods, ElectorSigterm(p) PROVE LeaderHolds'
  BY <1>8 DEF ElectorSigterm
<1>9. CASE Tick
  BY <1>9 DEF Tick, Urgent, Older
<1>10. CASE UNCHANGED leaseVars
  BY <1>10 DEF leaseVars
<1> QED
  BY <1>1, <1>2, <1>3, <1>4, <1>5, <1>6, <1>7, <1>8, <1>9, <1>10
  DEF LeaseNext, ElectorStep

\* Punctual electors never both lead: two pods report leadership together only
\* while one of them is past its renew loop, on its way to the end of its process.
THEOREM OverlapIsTransient ==
  ASSUME Punctual
  PROVE  LeaseSpec => []OverlapOnlyWhileStopping
<1> USE DurationsAssumption, PodsAssumption, PunctualAssumption, MaxFaultsAssumption
<1>1. LeaseInit => LeaderHolds
  BY DEF LeaseInit, LeaderHolds
<1>2. LeaseTypeOK /\ LeaderHolds /\ [LeaseNext]_leaseVars => LeaderHolds'
  BY LeaderHoldsStep
<1>3. LeaseTypeOK /\ LeaderHolds => OverlapOnlyWhileStopping
  <2> SUFFICES ASSUME LeaseTypeOK, LeaderHolds, NEW p \in Pods, NEW q \in Pods, p # q,
                      Reports(p), Reports(q)
               PROVE  Leaving(p) \/ Leaving(q)
    BY DEF OverlapOnlyWhileStopping
  <2>1. epc[p] # "standby" /\ epc[q] # "standby"
    BY DEF LeaderHolds, Reports
  <2>2. ~(epc[p] = "leading" /\ epc[q] = "leading")
    BY DEF LeaderHolds
  <2> QED
    BY <2>1, <2>2 DEF LeaseTypeOK, EPCs, Leaving
<1> QED
  BY <1>1, <1>2, <1>3, LeaseTypeCorrect, PTL DEF LeaseSpec

-----------------------------------------------------------------------------
(* The sweepers with their electors.                                         *)

USE OrdersAssumption, BoundsAssumption

\* The composition never makes the electors do anything of their own: seen
\* through their variables, settlement behaves as LeaderLease allows.
THEOREM SettlementImplementsLease == Spec => LeaseSpec
<1>1. Init => LeaseInit
  BY DEF Init
<1>2. [Next]_vars => [LeaseNext]_leaseVars
  <2> SUFFICES ASSUME [Next]_vars PROVE [LeaseNext]_leaseVars
    OBVIOUS
  <2>1. CASE LeaseNext
    BY <2>1
  <2>2. ASSUME NEW o \in Orders, Handover(o) PROVE UNCHANGED leaseVars
    BY <2>2 DEF Handover
  <2>3. ASSUME NEW p \in Pods, PollLeader(p) PROVE UNCHANGED leaseVars
    BY <2>3 DEF PollLeader
  <2>4. ASSUME NEW p \in Pods, SweepStep(p) PROVE UNCHANGED leaseVars
    BY <2>4 DEF SweepStep, ReadPending, GetFinalized, Finalize, Remove
  <2>5. ASSUME NEW p \in Pods, RedisError(p) \/ ReplyLost(p) \/ SweeperCrash(p)
        PROVE  UNCHANGED leaseVars
    BY <2>5 DEF RedisError, ReplyLost, SweeperCrash
  <2>6. CASE UNCHANGED vars
    BY <2>6 DEF vars, leaseVars
  <2> QED
    BY <2>1, <2>2, <2>3, <2>4, <2>5, <2>6 DEF Next
<1> QED
  BY <1>1, <1>2, PTL DEF Spec, LeaseSpec

\* The types of the sweepers' own variables.
SweepTypeOK ==
    /\ pending \subseteq Orders
    /\ finalized \subseteq Orders
    /\ spc \in [Pods -> SPCs]
    /\ batch \in [Pods -> SUBSET Orders]
    /\ order \in [Pods -> Orders \cup {NoOrder}]
    /\ \A p \in Pods : order[p] = NoOrder <=> spc[p] \in {"wait", "list"}
    /\ \A p \in Pods : spc[p] \in {"wait", "list"} => batch[p] = {}
    /\ errors \in 0 .. MaxErrors
    /\ handed \in [Orders -> 0 .. MaxHandovers]
    /\ worked \in [Pods -> [Orders -> 0 .. 2]]

\* Where the loop of sweep goes from any call.
LEMMA ProceedLemma ==
  ASSUME SweepTypeOK, NEW p \in Pods, NEW rest \in SUBSET Orders, Proceed(p, rest)
  PROVE  /\ spc' \in [Pods -> SPCs]
         /\ batch' \in [Pods -> SUBSET Orders]
         /\ order' \in [Pods -> Orders \cup {NoOrder}]
         /\ \A q \in Pods : order'[q] = NoOrder <=> spc'[q] \in {"wait", "list"}
         /\ \A q \in Pods : spc'[q] \in {"wait", "list"} => batch'[q] = {}
         /\ spc'[p] \in {"get", "wait"}
         /\ \A q \in Pods \ {p} : spc'[q] = spc[q] /\ order'[q] = order[q]
<1> USE DEF SweepTypeOK, SPCs, Goto
<1>1. CASE rest = {}
  BY <1>1 DEF Proceed
<1>2. CASE rest # {}
  <2>1. PICK o \in rest : /\ batch' = [batch EXCEPT ![p] = rest \ {o}]
                         /\ order' = [order EXCEPT ![p] = o]
                         /\ spc' = [spc EXCEPT ![p] = "get"]
    BY <1>2 DEF Proceed
  <2>2. o \in Orders
    BY <2>1
  <2> QED
    BY <2>1, <2>2
<1> QED
  BY <1>1, <1>2

\* TypeOK holds of every initial state and is preserved by every step.
THEOREM TypeCorrect == Spec => []TypeOK
<1>1. Init => SweepTypeOK
  BY DEF Init, SweepTypeOK, SPCs
<1>2. SweepTypeOK /\ [Next]_vars => SweepTypeOK'
  <2> SUFFICES ASSUME SweepTypeOK, [Next]_vars PROVE SweepTypeOK'
    OBVIOUS
  <2> USE DEF SweepTypeOK, SPCs, Goto
  <2>1. CASE LeaseNext /\ UNCHANGED sweepVars
    BY <2>1 DEF sweepVars
  <2>2. ASSUME NEW o \in Orders, Handover(o) PROVE SweepTypeOK'
    BY <2>2 DEF Handover
  <2>3. ASSUME NEW p \in Pods, PollLeader(p) PROVE SweepTypeOK'
    BY <2>3 DEF PollLeader
  <2>4. ASSUME NEW p \in Pods, ReadPending(p) PROVE SweepTypeOK'
    BY <2>4, ProceedLemma DEF ReadPending
  <2>6. ASSUME NEW p \in Pods, GetFinalized(p) PROVE SweepTypeOK'
    BY <2>6 DEF GetFinalized
  <2>7. ASSUME NEW p \in Pods, Finalize(p) PROVE SweepTypeOK'
    BY <2>7 DEF Finalize, SetFinalized
  <2>8. ASSUME NEW p \in Pods, Remove(p) PROVE SweepTypeOK'
    BY <2>8, ProceedLemma DEF Remove
  <2>9. ASSUME NEW p \in Pods, RedisError(p) PROVE SweepTypeOK'
    BY <2>9, ProceedLemma DEF RedisError, AnError
  <2>10. ASSUME NEW p \in Pods, SweeperCrash(p) PROVE SweepTypeOK'
    BY <2>10 DEF SweeperCrash, AnError
  <2>11. ASSUME NEW p \in Pods, ReplyLost(p) PROVE SweepTypeOK'
    <3>1. /\ pending' \subseteq Orders /\ finalized' \subseteq Orders
          /\ worked' \in [Pods -> [Orders -> 0 .. 2]]
      BY <2>11, SMTT(30) DEF ReplyLost, SetFinalized
    <3>2. Proceed(p, batch[p]) /\ batch[p] \in SUBSET Orders
      BY <2>11 DEF ReplyLost
    <3>3. errors' \in 0 .. MaxErrors /\ UNCHANGED handed
      BY <2>11 DEF ReplyLost, AnError
    <3> QED
      BY <3>1, <3>2, <3>3, ProceedLemma
  <2>12. CASE UNCHANGED vars
    BY <2>12 DEF vars
  <2> QED
    BY <2>1, <2>2, <2>3, <2>4, <2>6, <2>7, <2>8, <2>9, <2>10, <2>11, <2>12
    DEF Next, SweepStep
<1>3. LeaseTypeOK /\ SweepTypeOK => TypeOK
  BY DEF TypeOK, SweepTypeOK
<1> QED
  BY <1>1, <1>2, <1>3, SettlementImplementsLease, LeaseTypeCorrect, PTL DEF Spec

-----------------------------------------------------------------------------
\* A sweeper removes an order from pending only after it saw or made it
\* finalized; finalized orders stay so.
RemovesFinalized == \A p \in Pods : spc[p] = "remove" => order[p] \in finalized

\* What a pod has worked on is finalized, and is not what it is about to work on.
WorkIsFlagged ==
    \A p \in Pods, o \in Orders :
        /\ worked[p][o] > 0 => o \in finalized
        /\ spc[p] = "work" /\ order[p] = o => worked[p][o] = 0

SettleInv == RemovesFinalized /\ PendingOrFinalized /\ WorkIsFlagged /\ FinalizeOncePerPod

\* Every step preserves SettleInv.
LEMMA SettleStep ==
  ASSUME TypeOK, SettleInv, [Next]_vars
  PROVE  SettleInv'
<1> USE DEF TypeOK, SPCs, Goto, SettleInv, RemovesFinalized, PendingOrFinalized,
            WorkIsFlagged, FinalizeOncePerPod
<1>0. SweepTypeOK
  BY DEF SweepTypeOK
<1>1. CASE LeaseNext /\ UNCHANGED sweepVars
  BY <1>1 DEF sweepVars
<1>2. ASSUME NEW o \in Orders, Handover(o) PROVE SettleInv'
  BY <1>2 DEF Handover
<1>3. ASSUME NEW p \in Pods, PollLeader(p) PROVE SettleInv'
  BY <1>3 DEF PollLeader
<1>4. ASSUME NEW p \in Pods, ReadPending(p) PROVE SettleInv'
  <2>1. /\ spc'[p] \in {"get", "wait"}
        /\ \A q \in Pods \ {p} : spc'[q] = spc[q] /\ order'[q] = order[q]
    BY <1>4, <1>0, ProceedLemma DEF ReadPending
  <2> QED
    BY <1>4, <2>1 DEF ReadPending
<1>6. ASSUME NEW p \in Pods, GetFinalized(p) PROVE SettleInv'
  BY <1>6 DEF GetFinalized
<1>7. ASSUME NEW p \in Pods, Finalize(p) PROVE SettleInv'
  BY <1>7 DEF Finalize, SetFinalized
<1>8. ASSUME NEW p \in Pods, Remove(p) PROVE SettleInv'
  <2>1. /\ spc'[p] \in {"get", "wait"}
        /\ \A q \in Pods \ {p} : spc'[q] = spc[q] /\ order'[q] = order[q]
    BY <1>8, <1>0, ProceedLemma DEF Remove
  <2> QED
    BY <1>8, <2>1 DEF Remove
<1>9. ASSUME NEW p \in Pods, RedisError(p) PROVE SettleInv'
  <2>1. /\ spc'[p] \in {"get", "wait"}
        /\ \A q \in Pods \ {p} : spc'[q] = spc[q] /\ order'[q] = order[q]
    BY <1>9, <1>0, ProceedLemma DEF RedisError
  <2>2. UNCHANGED <<pending, finalized, handed, worked>>
    BY <1>9 DEF RedisError
  <2>3. RemovesFinalized'
    BY <2>1, <2>2
  <2>4. WorkIsFlagged'
    BY <2>1, <2>2
  <2> QED
    BY <2>2, <2>3, <2>4
<1>10. ASSUME NEW p \in Pods, SweeperCrash(p) PROVE SettleInv'
  BY <1>10 DEF SweeperCrash
<1>11. ASSUME NEW p \in Pods, ReplyLost(p) PROVE SettleInv'
  <2>1. /\ spc'[p] \in {"get", "wait"}
        /\ \A q \in Pods \ {p} : spc'[q] = spc[q] /\ order'[q] = order[q]
    BY <1>11, <1>0, ProceedLemma DEF ReplyLost
  <2>2. CASE spc[p] = "work"
    BY <1>11, <2>1, <2>2, SMTT(30) DEF ReplyLost, SetFinalized
  <2>3. CASE spc[p] = "remove"
    BY <1>11, <2>1, <2>3 DEF ReplyLost
  <2> QED
    BY <1>11, <2>2, <2>3 DEF ReplyLost
<1>12. CASE UNCHANGED vars
  BY <1>12 DEF vars
<1> QED
  BY <1>1, <1>2, <1>3, <1>4, <1>6, <1>7, <1>8, <1>9, <1>10, <1>11, <1>12
  DEF Next, SweepStep

\* SettleInv is an invariant of the composed system.
LEMMA SettleInvHolds == Spec => []SettleInv
<1>1. Init => SettleInv
  BY DEF Init, SettleInv, RemovesFinalized, PendingOrFinalized, WorkIsFlagged,
     FinalizeOncePerPod
<1>2. TypeOK /\ SettleInv /\ [Next]_vars => SettleInv'
  BY SettleStep
<1> QED
  BY <1>1, <1>2, TypeCorrect, PTL DEF Spec

\* No order handed to settlement is forgotten.
THEOREM NoOrderForgotten == Spec => []PendingOrFinalized
<1>1. SettleInv => PendingOrFinalized
  BY DEF SettleInv
<1> QED
  BY <1>1, SettleInvHolds, PTL

\* No pod does the finalize work of an order twice, for any number of pods,
\* handovers, failures and leadership changes.
THEOREM NoPodFinalizesTwice == Spec => []FinalizeOncePerPod
<1>1. SettleInv => FinalizeOncePerPod
  BY DEF SettleInv
<1> QED
  BY <1>1, SettleInvHolds, PTL

\* In the composed system, too, punctual electors overlap only in passing.
THEOREM SettlementOverlap ==
  ASSUME Punctual
  PROVE  Spec => []OverlapOnlyWhileStopping
BY SettlementImplementsLease, OverlapIsTransient, PTL
=============================================================================
