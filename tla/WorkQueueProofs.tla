--------------------------- MODULE WorkQueueProofs ---------------------------
(* Proofs about WorkQueue, for any sets of tasks, workers and reapers, any   *)
(* MaxAttempts and any faults.                                               *)
EXTENDS WorkQueue, FiniteSetTheorems, TLAPS

USE MaxAttemptsAssumption, FaultsAssumption, NoTaskAssumption DEF FaultKinds

\* TypeOK holds of every initial state and is preserved by every step.
THEOREM TypeCorrect == Spec => []TypeOK
<1>1. Init => TypeOK
  BY DEF Init, TypeOK, Deadlines, Statuses, PCs, Protecting
<1>2. TypeOK /\ [Next]_vars => TypeOK'
  <2> SUFFICES ASSUME TypeOK, [Next]_vars PROVE TypeOK'
    OBVIOUS
  <2> USE DEF TypeOK, Deadlines, Statuses, PCs, Protecting, redisVars, workerVars
  <2>1. ASSUME NEW t \in Tasks, Enqueue(t) PROVE TypeOK'
    BY <2>1 DEF Enqueue
  <2>2. ASSUME NEW t \in Tasks, Lapse(t) PROVE TypeOK'
    BY <2>2 DEF Lapse
  <2>3. ASSUME NEW w \in Workers, NEW t \in Tasks, Claim(w, t) PROVE TypeOK'
    BY <2>3 DEF Claim, BLMove
  <2>4. ASSUME NEW w \in Workers, NEW t \in Tasks, ClaimReplyLost(w, t) PROVE TypeOK'
    BY <2>4 DEF ClaimReplyLost, BLMove, NextLoop
  <2>5. ASSUME NEW w \in Workers, Gate(w) PROVE TypeOK'
    BY <2>5 DEF Gate, Goto
  <2>6. ASSUME NEW w \in Workers, GateFails(w) PROVE TypeOK'
    BY <2>6 DEF GateFails, NextLoop
  <2>7. ASSUME NEW w \in Workers, Skip(w) PROVE TypeOK'
    BY <2>7 DEF Skip, NextLoop, LRem
  <2>8. ASSUME NEW w \in Workers, SkipFails(w) PROVE TypeOK'
    BY <2>8 DEF SkipFails, NextLoop
  <2>9. ASSUME NEW w \in Workers, Own(w) PROVE TypeOK'
    BY <2>9 DEF Own, Goto
  <2>10. ASSUME NEW w \in Workers, OwnFails(w) PROVE TypeOK'
    BY <2>10 DEF OwnFails, Goto
  <2>11. ASSUME NEW w \in Workers, Abandon(w) PROVE TypeOK'
    BY <2>11 DEF Abandon, NextLoop, LRem
  <2>12. ASSUME NEW w \in Workers, Load(w) PROVE TypeOK'
    BY <2>12 DEF Load, Goto
  <2>13. ASSUME NEW w \in Workers, LoadFails(w) PROVE TypeOK'
    BY <2>13 DEF LoadFails, Goto
  <2>14. ASSUME NEW w \in Workers, RunStage(w) PROVE TypeOK'
    BY <2>14 DEF RunStage, Goto
  <2>15. ASSUME NEW w \in Workers, Drop(w) PROVE TypeOK'
    BY <2>15 DEF Drop, NextLoop, LRem
  <2>16. ASSUME NEW w \in Workers, LRemFails(w) PROVE TypeOK'
    BY <2>16 DEF LRemFails, NextLoop
  <2>17. ASSUME NEW w \in Workers, Ack(w) PROVE TypeOK'
    BY <2>17 DEF Ack, NextLoop, LRem
  <2>18. ASSUME NEW w \in Workers, AckFails(w) PROVE TypeOK'
    BY <2>18 DEF AckFails, NextLoop
  <2>19. ASSUME NEW w \in Workers, Exit(w) PROVE TypeOK'
    BY <2>19 DEF Exit, NextLoop
  <2>20. ASSUME NEW w \in Workers, HeartbeatStep(w) PROVE TypeOK'
    BY <2>20 DEF HeartbeatStep, Beat, Bump, BumpFails
  <2>21. ASSUME NEW w \in Workers, KeyExpires(w) PROVE TypeOK'
    BY <2>21 DEF KeyExpires
  <2>22. ASSUME NEW r \in Reapers, ScanExpired(r) PROVE TypeOK'
    BY <2>22 DEF ScanExpired
  <2>23. ASSUME NEW r \in Reapers, NEW t \in Tasks, RequeueExpired(r, t) PROVE TypeOK'
    <3>1. scan' \in [Reapers -> SUBSET Tasks]
      BY <2>23 DEF RequeueExpired
    <3>2. CASE inflight[t] = "absent"
      BY <2>23, <3>1, <3>2 DEF RequeueExpired
    <3>3. CASE inflight[t] # "absent"
      <4>1. /\ inflight' = [inflight EXCEPT ![t] = "absent"]
            /\ attempt' = [attempt EXCEPT ![t] = Incr(@, 1)]
        BY <2>23, <3>3 DEF RequeueExpired
      <4>2. Incr(attempt[t], 1) \in 0 .. MaxAttempts + 1
        BY DEF Incr
      <4>3. /\ inflight' \in [Tasks -> Deadlines]
            /\ attempt' \in [Tasks -> 0 .. MaxAttempts + 1]
        BY <4>1, <4>2
      <4>4. /\ ready' \in [Tasks -> Nat]
            /\ dead' \subseteq Tasks
            /\ status' \in [Tasks -> Statuses]
        BY <2>23, <3>3 DEF RequeueExpired
      <4> QED
        BY <2>23, <3>1, <4>3, <4>4 DEF RequeueExpired
    <3> QED
      BY <3>2, <3>3
  <2>24. ASSUME NEW r \in Reapers, NEW t \in Tasks, RequeueFails(r, t) PROVE TypeOK'
    BY <2>24 DEF RequeueFails
  <2>25. ASSUME NEW r \in Reapers, NEW w \in Workers, DrainDeadWorker(r, w) PROVE TypeOK'
    BY <2>25 DEF DrainDeadWorker, Incr, Requeued
  <2>26. ASSUME NEW w \in Workers, Crash(w) PROVE TypeOK'
    BY <2>26 DEF Crash
  <2>27. ASSUME NEW w \in Workers, Restart(w) PROVE TypeOK'
    BY <2>27 DEF Restart
  <2>28. ASSUME NEW w \in Workers, Sigterm(w) PROVE TypeOK'
    BY <2>28 DEF Sigterm
  <2>29. ASSUME NEW r \in Reapers, ReaperCrash(r) PROVE TypeOK'
    BY <2>29 DEF ReaperCrash
  <2>30. CASE UNCHANGED vars
    BY <2>30 DEF vars
  <2> QED
    BY <2>1, <2>2, <2>3, <2>4, <2>5, <2>6, <2>7, <2>8, <2>9, <2>10, <2>11,
       <2>12, <2>13, <2>14, <2>15, <2>16, <2>17, <2>18, <2>19, <2>20, <2>21,
       <2>22, <2>23, <2>24, <2>25, <2>26, <2>27, <2>28, <2>29, <2>30
    DEF Next, WorkerStep, ReaperStep, Fault
<1> QED
  BY <1>1, <1>2, PTL DEF Spec

-----------------------------------------------------------------------------
\* A worker that takes the skip branch of claim has seen the task in done,
\* and nothing is ever removed from done.
SkipDone == \A w \in Workers : pc[w] = "skip" => task[w] \in done

\* LostOnlyByAbandon is inductive relative to the types and SkipDone: removing
\* the copy of a skipped task is harmless only because the task is done.
TraceInv == TypeOK /\ SkipDone /\ LostOnlyByAbandon

\* Every action preserves the two conjuncts of TraceInv beyond the types.
LEMMA TraceStep ==
  ASSUME TypeOK, SkipDone, LostOnlyByAbandon, [Next]_vars
  PROVE  SkipDone' /\ LostOnlyByAbandon'
<1> USE DEF TypeOK, Deadlines, Statuses, PCs, Protecting, redisVars, workerVars,
            SkipDone, LostOnlyByAbandon, Traceable, Spare
<1>1. ASSUME NEW t \in Tasks, Enqueue(t) PROVE SkipDone' /\ LostOnlyByAbandon'
  BY <1>1 DEF Enqueue
<1>2. ASSUME NEW t \in Tasks, Lapse(t) PROVE SkipDone' /\ LostOnlyByAbandon'
  BY <1>2 DEF Lapse
<1>3. ASSUME NEW w \in Workers, NEW t \in Tasks, Claim(w, t) PROVE SkipDone' /\ LostOnlyByAbandon'
  BY <1>3 DEF Claim, BLMove
<1>4. ASSUME NEW w \in Workers, NEW t \in Tasks, ClaimReplyLost(w, t) PROVE SkipDone' /\ LostOnlyByAbandon'
  <2>1. SkipDone'
    BY <1>4 DEF ClaimReplyLost, NextLoop
  <2>2. Spare(w, t)'
    BY <1>4 DEF ClaimReplyLost, BLMove, NextLoop
  <2>3. ASSUME NEW u \in Tasks, u # t
        PROVE  ready'[u] = ready[u] /\ \A v \in Workers : Spare(v, u) => Spare(v, u)'
    BY <1>4, <2>3 DEF ClaimReplyLost, BLMove, NextLoop
  <2>4. UNCHANGED <<inflight, done, dead, attempt, abandoned>>
    BY <1>4 DEF ClaimReplyLost
  <2> QED
    BY <2>1, <2>2, <2>3, <2>4
<1>5. ASSUME NEW w \in Workers, Gate(w) PROVE SkipDone' /\ LostOnlyByAbandon'
  BY <1>5 DEF Gate, Goto
<1>6. ASSUME NEW w \in Workers, GateFails(w) PROVE SkipDone' /\ LostOnlyByAbandon'
  BY <1>6 DEF GateFails, NextLoop
<1>7. ASSUME NEW w \in Workers, Skip(w) PROVE SkipDone' /\ LostOnlyByAbandon'
  BY <1>7 DEF Skip, NextLoop, LRem
<1>8. ASSUME NEW w \in Workers, SkipFails(w) PROVE SkipDone' /\ LostOnlyByAbandon'
  BY <1>8 DEF SkipFails, NextLoop
<1>9. ASSUME NEW w \in Workers, Own(w) PROVE SkipDone' /\ LostOnlyByAbandon'
  BY <1>9, SMTT(30) DEF Own, Goto
<1>10. ASSUME NEW w \in Workers, OwnFails(w) PROVE SkipDone' /\ LostOnlyByAbandon'
  BY <1>10 DEF OwnFails, Goto
<1>11. ASSUME NEW w \in Workers, Abandon(w) PROVE SkipDone' /\ LostOnlyByAbandon'
  BY <1>11, ZenonT(60) DEF Abandon, NextLoop, LRem
<1>12. ASSUME NEW w \in Workers, Load(w) PROVE SkipDone' /\ LostOnlyByAbandon'
  BY <1>12 DEF Load, Goto
<1>13. ASSUME NEW w \in Workers, LoadFails(w) PROVE SkipDone' /\ LostOnlyByAbandon'
  BY <1>13 DEF LoadFails, Goto
<1>14. ASSUME NEW w \in Workers, RunStage(w) PROVE SkipDone' /\ LostOnlyByAbandon'
  BY <1>14 DEF RunStage, Goto
<1>15. ASSUME NEW w \in Workers, Drop(w) PROVE SkipDone' /\ LostOnlyByAbandon'
  <2>1. SkipDone'
    BY <1>15 DEF Drop, NextLoop, LRem
  <2>2. ASSUME NEW u \in Tasks, NEW v \in Workers, Spare(v, u) PROVE Spare(v, u)'
    <3>1. CASE v = w /\ u = task[w]
      BY <1>15, <2>2, <3>1 DEF Drop, NextLoop, LRem
    <3>2. CASE v # w \/ u # task[w]
      <4>1. processing'[v][u] = processing[v][u]
        BY <1>15, <3>2 DEF Drop, LRem
      <4> QED
        BY <1>15, <2>2, <3>2, <4>1 DEF Drop, NextLoop
    <3> QED
      BY <3>1, <3>2
  <2>3. LostOnlyByAbandon'
    BY <1>15, <2>2 DEF Drop
  <2> QED
    BY <2>1, <2>3
<1>16. ASSUME NEW w \in Workers, LRemFails(w) PROVE SkipDone' /\ LostOnlyByAbandon'
  BY <1>16 DEF LRemFails, NextLoop
<1>17. ASSUME NEW w \in Workers, Ack(w) PROVE SkipDone' /\ LostOnlyByAbandon'
  BY <1>17, SMTT(30) DEF Ack, NextLoop, LRem
<1>18. ASSUME NEW w \in Workers, AckFails(w) PROVE SkipDone' /\ LostOnlyByAbandon'
  BY <1>18, SMTT(30) DEF AckFails, NextLoop
<1>19. ASSUME NEW w \in Workers, Exit(w) PROVE SkipDone' /\ LostOnlyByAbandon'
  BY <1>19 DEF Exit, NextLoop
<1>20. ASSUME NEW w \in Workers, HeartbeatStep(w) PROVE SkipDone' /\ LostOnlyByAbandon'
  BY <1>20 DEF HeartbeatStep, Beat, Bump, BumpFails
<1>21. ASSUME NEW w \in Workers, KeyExpires(w) PROVE SkipDone' /\ LostOnlyByAbandon'
  BY <1>21 DEF KeyExpires
<1>22. ASSUME NEW r \in Reapers, ScanExpired(r) PROVE SkipDone' /\ LostOnlyByAbandon'
  BY <1>22 DEF ScanExpired
<1>23. ASSUME NEW r \in Reapers, NEW t \in Tasks, RequeueExpired(r, t) PROVE SkipDone' /\ LostOnlyByAbandon'
  BY <1>23 DEF RequeueExpired, Incr
<1>24. ASSUME NEW r \in Reapers, NEW t \in Tasks, RequeueFails(r, t) PROVE SkipDone' /\ LostOnlyByAbandon'
  BY <1>24 DEF RequeueFails
<1>25. ASSUME NEW r \in Reapers, NEW w \in Workers, DrainDeadWorker(r, w) PROVE SkipDone' /\ LostOnlyByAbandon'
  BY <1>25, SMTT(30) DEF DrainDeadWorker, Incr, Requeued
<1>26. ASSUME NEW w \in Workers, Crash(w) PROVE SkipDone' /\ LostOnlyByAbandon'
  BY <1>26 DEF Crash
<1>27. ASSUME NEW w \in Workers, Restart(w) PROVE SkipDone' /\ LostOnlyByAbandon'
  BY <1>27 DEF Restart
<1>28. ASSUME NEW w \in Workers, Sigterm(w) PROVE SkipDone' /\ LostOnlyByAbandon'
  BY <1>28 DEF Sigterm
<1>29. ASSUME NEW r \in Reapers, ReaperCrash(r) PROVE SkipDone' /\ LostOnlyByAbandon'
  BY <1>29 DEF ReaperCrash
<1>30. CASE UNCHANGED vars
  BY <1>30 DEF vars
<1> QED
  BY <1>1, <1>2, <1>3, <1>4, <1>5, <1>6, <1>7, <1>8, <1>9, <1>10, <1>11, <1>12, <1>13, <1>14, <1>15, <1>16, <1>17, <1>18, <1>19, <1>20, <1>21, <1>22, <1>23, <1>24, <1>25, <1>26, <1>27, <1>28, <1>29, <1>30
  DEF Next, WorkerStep, ReaperStep, Fault

\* TraceInv is an invariant of the queue.
LEMMA TraceInvariant == Spec => []TraceInv
<1>1. Init => SkipDone /\ LostOnlyByAbandon
  BY DEF Init, SkipDone, LostOnlyByAbandon
<1>2. TypeOK /\ TypeOK' /\ SkipDone /\ LostOnlyByAbandon /\ [Next]_vars
        => SkipDone' /\ LostOnlyByAbandon'
  BY TraceStep
<1> QED
  BY <1>1, <1>2, TypeCorrect, PTL DEF Spec, TraceInv

\* Under every combination of faults, the only task that can drop out of the
\* queue's structures unresolved is one a worker abandoned after a failed ZADD.
THEOREM OnlyAbandonLoses == Spec => []LostOnlyByAbandon
BY TraceInvariant, PTL DEF TraceInv

-----------------------------------------------------------------------------
\* Without SIGTERM and Redis failures no call fails, so nothing is abandoned.
NeverAbandons ==
    /\ term = {}
    /\ abandoned = {}
    /\ \A w \in Workers : pc[w] # "abandon"

\* NeverAbandons is kept by every step when only containers crash and restart.
LEMMA NeverAbandonsStep ==
  ASSUME Faults \subseteq {"crash", "restart"}, TypeOK, NeverAbandons, [Next]_vars
  PROVE  NeverAbandons'
<1> USE DEF TypeOK, PCs, Protecting, NeverAbandons, redisVars, workerVars
<1>1. ASSUME NEW w \in Workers, WorkerStep(w) PROVE NeverAbandons'
  BY <1>1 DEF WorkerStep, Gate, GateFails, Skip, SkipFails, Own, OwnFails,
     Abandon, Load, LoadFails, RunStage, Drop, LRemFails, Ack, AckFails, Exit,
     Goto, NextLoop, CallFails
<1>2. ASSUME NEW w \in Workers, NEW t \in Tasks,
             Claim(w, t) \/ ClaimReplyLost(w, t)
      PROVE  NeverAbandons'
  BY <1>2 DEF Claim, ClaimReplyLost, BLMove
<1>3. ASSUME NEW w \in Workers, HeartbeatStep(w) \/ KeyExpires(w)
      PROVE  NeverAbandons'
  BY <1>3 DEF HeartbeatStep, Beat, Bump, BumpFails, KeyExpires
<1>4. ASSUME NEW t \in Tasks, Enqueue(t) \/ Lapse(t) PROVE NeverAbandons'
  BY <1>4 DEF Enqueue, Lapse
<1>5. ASSUME NEW r \in Reapers, ReaperStep(r) PROVE NeverAbandons'
  BY <1>5 DEF ReaperStep, ScanExpired, RequeueExpired, RequeueFails,
     DrainDeadWorker
<1>6. ASSUME Fault PROVE NeverAbandons'
  BY <1>6 DEF Fault, Crash, Restart, Sigterm, ReaperCrash
<1>7. CASE UNCHANGED vars
  BY <1>7 DEF vars
<1> QED
  BY <1>1, <1>2, <1>3, <1>4, <1>5, <1>6, <1>7 DEF Next

\* However often workers and coordinators crash and are restarted in place, no
\* accepted task is lost.
THEOREM CrashesLoseNothing ==
  ASSUME Faults \subseteq {"crash", "restart"}
  PROVE  Spec => []NoTaskLost
<1>1. Init => NeverAbandons
  BY DEF Init, NeverAbandons
<1>2. TypeOK /\ NeverAbandons /\ [Next]_vars => NeverAbandons'
  BY NeverAbandonsStep
<1>3. LostOnlyByAbandon /\ NeverAbandons => NoTaskLost
  BY DEF LostOnlyByAbandon, NeverAbandons, NoTaskLost
<1> QED
  BY <1>1, <1>2, <1>3, TypeCorrect, OnlyAbandonLoses, PTL DEF Spec

-----------------------------------------------------------------------------
\* Nothing works on a task that was not accepted, and a task is dead only when
\* its attempts are used up.
Accepted(t) ==
    attempt[t] = 0 =>
        /\ ready[t] = 0 /\ inflight[t] = "absent"
        /\ \A w \in Workers : processing[w][t] = 0 /\ task[w] # t /\ beat[w] # t
        /\ \A r \in Reapers : t \notin scan[r]

LifeInv ==
    /\ \A t \in Tasks : Accepted(t)
    /\ \A t \in dead : attempt[t] > MaxAttempts

\* Every step preserves LifeInv.
LEMMA LifeStep ==
  ASSUME TypeOK, LifeInv, [Next]_vars
  PROVE  LifeInv'
<1> USE DEF TypeOK, Deadlines, PCs, Protecting, redisVars, workerVars, LifeInv, Accepted
<1>1. ASSUME NEW t \in Tasks, Enqueue(t) PROVE LifeInv'
  BY <1>1 DEF Enqueue
<1>2. ASSUME NEW t \in Tasks, Lapse(t) PROVE LifeInv'
  BY <1>2 DEF Lapse
<1>3. ASSUME NEW w \in Workers, NEW t \in Tasks, Claim(w, t) PROVE LifeInv'
  BY <1>3 DEF Claim, BLMove
<1>4. ASSUME NEW w \in Workers, NEW t \in Tasks, ClaimReplyLost(w, t) PROVE LifeInv'
  BY <1>4 DEF ClaimReplyLost, BLMove, NextLoop
<1>5. ASSUME NEW w \in Workers, Gate(w) \/ GateFails(w) PROVE LifeInv'
  BY <1>5 DEF Gate, GateFails, Goto, NextLoop
<1>6. ASSUME NEW w \in Workers, Skip(w) \/ SkipFails(w) PROVE LifeInv'
  <2>1. CASE Skip(w)
    <3>1. task[w] \in Tasks /\ attempt[task[w]] # 0
      BY <2>1 DEF Skip
    <3>2. \A v \in Workers, t \in Tasks : attempt[t] = 0 => processing'[v][t] = 0
      BY <2>1, <3>1 DEF Skip, LRem
    <3> QED
      BY <2>1, <3>1, <3>2 DEF Skip, NextLoop
  <2>2. CASE SkipFails(w)
    BY <2>2 DEF SkipFails, NextLoop
  <2> QED
    BY <1>6, <2>1, <2>2
<1>7. ASSUME NEW w \in Workers, Own(w) \/ OwnFails(w) PROVE LifeInv'
  BY <1>7 DEF Own, OwnFails, Goto
<1>8. ASSUME NEW w \in Workers, Abandon(w) PROVE LifeInv'
  BY <1>8 DEF Abandon, LRem, NextLoop
<1>9. ASSUME NEW w \in Workers, Load(w) \/ LoadFails(w) \/ RunStage(w) PROVE LifeInv'
  BY <1>9 DEF Load, LoadFails, RunStage, Goto
<1>10. ASSUME NEW w \in Workers, Drop(w) \/ LRemFails(w) PROVE LifeInv'
  BY <1>10 DEF Drop, LRemFails, LRem, NextLoop
<1>11. ASSUME NEW w \in Workers, Ack(w) PROVE LifeInv'
  BY <1>11 DEF Ack, LRem, NextLoop
<1>12. ASSUME NEW w \in Workers, AckFails(w) \/ Exit(w) PROVE LifeInv'
  BY <1>12 DEF AckFails, Exit, NextLoop
<1>13. ASSUME NEW w \in Workers, HeartbeatStep(w) PROVE LifeInv'
  BY <1>13 DEF HeartbeatStep, Beat, Bump, BumpFails
<1>14. ASSUME NEW w \in Workers, KeyExpires(w) PROVE LifeInv'
  BY <1>14 DEF KeyExpires
<1>15. ASSUME NEW r \in Reapers, ScanExpired(r) PROVE LifeInv'
  BY <1>15 DEF ScanExpired
<1>16. ASSUME NEW r \in Reapers, NEW t \in Tasks, RequeueExpired(r, t) PROVE LifeInv'
  BY <1>16, SMTT(30) DEF RequeueExpired, Incr
<1>17. ASSUME NEW r \in Reapers, NEW t \in Tasks, RequeueFails(r, t) PROVE LifeInv'
  BY <1>17 DEF RequeueFails
<1>18. ASSUME NEW r \in Reapers, NEW w \in Workers, DrainDeadWorker(r, w) PROVE LifeInv'
  BY <1>18 DEF DrainDeadWorker, Incr, Requeued
<1>19. ASSUME NEW w \in Workers, Crash(w) \/ Restart(w) \/ Sigterm(w) PROVE LifeInv'
  BY <1>19 DEF Crash, Restart, Sigterm
<1>20. ASSUME NEW r \in Reapers, ReaperCrash(r) PROVE LifeInv'
  BY <1>20 DEF ReaperCrash
<1>21. CASE UNCHANGED vars
  BY <1>21 DEF vars
<1> QED
  BY <1>1, <1>2, <1>3, <1>4, <1>5, <1>6, <1>7, <1>8, <1>9, <1>10, <1>11, <1>12,
     <1>13, <1>14, <1>15, <1>16, <1>17, <1>18, <1>19, <1>20, <1>21
  DEF Next, WorkerStep, ReaperStep, Fault

\* Every step of the queue is a step of a task's life, or leaves it alone.
LEMMA LifecycleStep ==
  ASSUME TypeOK, LifeInv, LifeInv', [Next]_vars
  PROVE  [Lifecycle!Next]_(Lifecycle!vars)
<1> USE DEF Lifecycle!Next, Lifecycle!vars
<1>1. ASSUME NEW t \in Tasks, Enqueue(t) PROVE Lifecycle!Accept(t)
  BY <1>1 DEF Enqueue, Lifecycle!Accept
<1>2. ASSUME NEW w \in Workers, Ack(w) PROVE \E t \in Tasks : Lifecycle!Acknowledge(t)
  <2>1. task[w] \in Tasks /\ attempt[task[w]] > 0
    BY <1>2 DEF Ack, TypeOK, LifeInv, Accepted
  <2>2. Lifecycle!Acknowledge(task[w])
    BY <1>2, <2>1 DEF Ack, Lifecycle!Acknowledge
  <2> QED
    BY <2>1, <2>2
<1>3. ASSUME NEW r \in Reapers, NEW t \in Tasks, RequeueExpired(r, t)
      PROVE  Lifecycle!Charge \/ UNCHANGED Lifecycle!vars
  <2>1. CASE inflight[t] = "absent"
    BY <1>3, <2>1 DEF RequeueExpired
  <2>2. CASE inflight[t] # "absent"
    BY <1>3, <2>2 DEF RequeueExpired, Incr, TypeOK, LifeInv, Accepted, Lifecycle!Charge
  <2> QED
    BY <2>1, <2>2
<1>4. ASSUME NEW r \in Reapers, NEW w \in Workers, DrainDeadWorker(r, w)
      PROVE  Lifecycle!Charge
  BY <1>4 DEF DrainDeadWorker, Incr, TypeOK, LifeInv, Accepted, Lifecycle!Charge
<1>5. ASSUME NEW w \in Workers, WorkerStep(w), ~Ack(w) PROVE UNCHANGED Lifecycle!vars
  BY <1>5 DEF WorkerStep, redisVars, Gate, GateFails, Skip, SkipFails, Own, OwnFails,
     Abandon, Load, LoadFails, RunStage, Drop, LRemFails, AckFails, Exit
<1>6. ASSUME NEW w \in Workers, HeartbeatStep(w) \/ KeyExpires(w)
      PROVE  UNCHANGED Lifecycle!vars
  BY <1>6 DEF HeartbeatStep, Beat, Bump, BumpFails, KeyExpires, redisVars
<1>7. ASSUME NEW w \in Workers, NEW t \in Tasks,
             Claim(w, t) \/ ClaimReplyLost(w, t) \/ Lapse(t)
      PROVE  UNCHANGED Lifecycle!vars
  BY <1>7 DEF Claim, ClaimReplyLost, Lapse
<1>8. ASSUME NEW r \in Reapers, NEW t \in Tasks, ScanExpired(r) \/ RequeueFails(r, t)
      PROVE  UNCHANGED Lifecycle!vars
  BY <1>8 DEF ScanExpired, RequeueFails, redisVars
<1>9. CASE Fault
  BY <1>9 DEF Fault, Crash, Restart, Sigterm, ReaperCrash, redisVars
<1>10. CASE UNCHANGED vars
  BY <1>10 DEF vars
<1>11. ASSUME NEW r \in Reapers, ScanExpired(r) PROVE UNCHANGED Lifecycle!vars
  BY <1>11 DEF ScanExpired, redisVars
<1>12. ASSUME NEW t \in Tasks, Lapse(t) PROVE UNCHANGED Lifecycle!vars
  BY <1>12 DEF Lapse
<1> QED
  BY <1>1, <1>2, <1>3, <1>4, <1>5, <1>6, <1>7, <1>8, <1>9, <1>10, <1>11, <1>12
  DEF Next, ReaperStep

\* The queue implements TaskLifecycle: attempts are charged and never refunded,
\* nothing is dead-lettered while some are left, outcomes are never withdrawn.
THEOREM QueueImplementsLifecycle == Spec => ImplementsLifecycle
<1>1. Init => LifeInv /\ Lifecycle!Init
  BY DEF Init, LifeInv, Accepted, Lifecycle!Init
<1>2. TypeOK /\ LifeInv /\ [Next]_vars => LifeInv'
  BY LifeStep
<1>3. TypeOK /\ LifeInv /\ LifeInv' /\ [Next]_vars => [Lifecycle!Next]_(Lifecycle!vars)
  BY LifecycleStep
<1> QED
  BY <1>1, <1>2, <1>3, TypeCorrect, PTL DEF Spec, ImplementsLifecycle, Lifecycle!Spec

-----------------------------------------------------------------------------
\* The held copies of t, finitely many, and those in ready are covered by the
\* attempts of t that were charged and that MAX_ATTEMPTS allows.
WithinBudget(t) ==
    /\ IsFiniteSet(Held(t))
    /\ CopiesOf(t) <= attempt[t]
    /\ CopiesOf(t) <= MaxAttempts

\* A list with n copies of t accounts for n members of Held(t).
LEMMA ListCount ==
  ASSUME NEW w, NEW n \in Nat
  PROVE  IsFiniteSet({w} \X (1 .. n)) /\ Cardinality({w} \X (1 .. n)) = n
<1> DEFINE f == [i \in 1 .. n |-> <<w, i>>]
<1>1. f \in Bijection(1 .. n, {w} \X (1 .. n))
  <2>1. f \in [1 .. n -> {w} \X (1 .. n)]
    OBVIOUS
  <2>2. \A i, j \in 1 .. n : f[i] = f[j] => i = j
    OBVIOUS
  <2>3. ASSUME NEW c \in {w} \X (1 .. n) PROVE \E i \in 1 .. n : f[i] = c
    <3>1. PICK i \in 1 .. n : c = <<w, i>>
      OBVIOUS
    <3> QED
      BY <3>1
  <2> HIDE DEF f
  <2> QED
    BY <2>1, <2>2, <2>3 DEF Bijection, Injection, Surjection, IsInjective
<1>2. ExistsBijection(1 .. n, {w} \X (1 .. n))
  BY <1>1 DEF ExistsBijection
<1>3. IsFiniteSet(1 .. n) /\ Cardinality(1 .. n) = n
  BY FS_Interval
<1> QED
  BY <1>2, <1>3, FS_Bijection

\* Held(t) follows the processing lists alone.
LEMMA HeldFrame ==
  ASSUME NEW t \in Tasks, \A w \in Workers : processing'[w][t] = processing[w][t]
  PROVE  Held(t)' = Held(t)
BY DEF Held

\* BLMOVE adds the next numbered copy to the list of w.
LEMMA HeldGrows ==
  ASSUME TypeOK, NEW w \in Workers, NEW t \in Tasks, IsFiniteSet(Held(t)),
         processing' = [processing EXCEPT ![w][t] = @ + 1]
  PROVE  /\ IsFiniteSet(Held(t)')
         /\ Cardinality(Held(t)') = Cardinality(Held(t)) + 1
<1> DEFINE n == processing[w][t]
<1>1. n \in Nat
  BY DEF TypeOK
<1>2. /\ processing'[w][t] = n + 1
      /\ \A v \in Workers \ {w} : processing'[v][t] = processing[v][t]
  BY DEF TypeOK
<1>3. Held(t)' = Held(t) \cup {<<w, n + 1>>}
  <2>1. ASSUME NEW c \in Held(t)' PROVE c \in Held(t) \cup {<<w, n + 1>>}
    <3>1. PICK v \in Workers : c \in {v} \X (1 .. processing'[v][t])
      BY <2>1 DEF Held
    <3>2. CASE v = w
      BY <1>1, <1>2, <3>1, <3>2 DEF Held
    <3>3. CASE v # w
      BY <1>2, <3>1, <3>3 DEF Held
    <3> QED
      BY <3>2, <3>3
  <2>2. ASSUME NEW c \in Held(t) PROVE c \in Held(t)'
    <3>1. PICK v \in Workers : c \in {v} \X (1 .. processing[v][t])
      BY <2>2 DEF Held
    <3>2. CASE v = w
      BY <1>1, <1>2, <3>1, <3>2 DEF Held
    <3>3. CASE v # w
      BY <1>2, <3>1, <3>3 DEF Held
    <3> QED
      BY <3>2, <3>3
  <2>3. <<w, n + 1>> \in {w} \X (1 .. processing'[w][t])
    BY <1>1, <1>2
  <2>4. <<w, n + 1>> \in Held(t)'
    BY <2>3 DEF Held
  <2> QED
    BY <2>1, <2>2, <2>4
<1>4. <<w, n + 1>> \notin Held(t)
  BY <1>1 DEF Held
<1> DEFINE e == <<w, n + 1>>
<1>5. Held(t)' = Held(t) \cup {e} /\ e \notin Held(t)
  BY <1>3, <1>4
<1> HIDE DEF e
<1> QED
  BY <1>5, FS_AddElement

\* LREM takes one copy off the list of w, if there is one.
LEMMA HeldShrinks ==
  ASSUME TypeOK, NEW w \in Workers, NEW t \in Tasks, IsFiniteSet(Held(t)), LRem(w, t)
  PROVE  /\ IsFiniteSet(Held(t)')
         /\ Cardinality(Held(t)') <= Cardinality(Held(t))
<1>1. /\ processing[w][t] \in Nat
      /\ processing'[w][t] \in Nat
      /\ processing'[w][t] <= processing[w][t]
      /\ \A v \in Workers \ {w} : processing'[v][t] = processing[v][t]
  BY DEF TypeOK, LRem
<1>2. Held(t)' \subseteq Held(t)
  <2> SUFFICES ASSUME NEW c \in Held(t)' PROVE c \in Held(t)
    OBVIOUS
  <2>1. PICK v \in Workers : c \in {v} \X (1 .. processing'[v][t])
    BY DEF Held
  <2>2. CASE v = w
    BY <1>1, <2>1, <2>2 DEF Held
  <2>3. CASE v # w
    BY <1>1, <2>1, <2>3 DEF Held
  <2> QED
    BY <2>2, <2>3
<1> QED
  BY <1>2, FS_Subset

\* Draining w takes all the copies of its list.
LEMMA HeldDrained ==
  ASSUME TypeOK, NEW w \in Workers, NEW t \in Tasks, IsFiniteSet(Held(t)),
         processing' = [processing EXCEPT ![w] = [u \in Tasks |-> 0]]
  PROVE  /\ IsFiniteSet(Held(t)')
         /\ Cardinality(Held(t)') = Cardinality(Held(t)) - processing[w][t]
<1> DEFINE n == processing[w][t]
           L == {w} \X (1 .. n)
<1>1. n \in Nat
  BY DEF TypeOK
<1>2. /\ processing'[w][t] = 0
      /\ \A v \in Workers \ {w} : processing'[v][t] = processing[v][t]
  BY DEF TypeOK
<1>3. Held(t) = Held(t)' \cup L
  <2>1. ASSUME NEW c \in Held(t)' PROVE c \in Held(t)
    <3>1. PICK v \in Workers : c \in {v} \X (1 .. processing'[v][t])
      BY <2>1 DEF Held
    <3>2. CASE v = w
      BY <1>2, <3>1, <3>2 DEF Held
    <3>3. CASE v # w
      BY <1>2, <3>1, <3>3 DEF Held
    <3> QED
      BY <3>2, <3>3
  <2>2. ASSUME NEW c \in Held(t) PROVE c \in Held(t)' \cup L
    <3>1. PICK v \in Workers : c \in {v} \X (1 .. processing[v][t])
      BY <2>2 DEF Held
    <3>2. CASE v = w
      BY <3>1, <3>2
    <3>3. CASE v # w
      BY <1>2, <3>1, <3>3 DEF Held
    <3> QED
      BY <3>2, <3>3
  <2>3. L \subseteq Held(t)
    BY DEF Held
  <2> QED
    BY <2>1, <2>2, <2>3
<1>4. Held(t)' \cap L = {}
  <2>1. ASSUME NEW c \in Held(t)', c \in L PROVE FALSE
    <3>1. PICK v \in Workers : c \in {v} \X (1 .. processing'[v][t])
      BY <2>1 DEF Held
    <3>2. v = w
      BY <2>1, <3>1
    <3> QED
      BY <1>2, <3>1, <3>2
  <2> QED
    BY <2>1
<1>5. IsFiniteSet(L) /\ Cardinality(L) = n
  BY <1>1, ListCount
<1>6. IsFiniteSet(Held(t)')
  BY <1>3, FS_Subset
<1> HIDE DEF n, L
<1>7. Cardinality(Held(t)) = Cardinality(Held(t)') + Cardinality(L) - Cardinality(Held(t)' \cap L)
  BY <1>3, <1>5, <1>6, FS_Union
<1>8. Cardinality(Held(t)' \cap L) = 0
  BY <1>4, FS_EmptySet
<1>9. Cardinality(Held(t)') \in Nat
  BY <1>6, FS_CardinalityType
<1>10. Cardinality(Held(t)') = Cardinality(Held(t)) - n
  BY <1>1, <1>5, <1>7, <1>8, <1>9
<1> QED
  BY <1>6, <1>10 DEF n

\* Every step keeps every task within its budget.
LEMMA BudgetStep ==
  ASSUME TypeOK, [Next]_vars, NEW t \in Tasks, WithinBudget(t)
  PROVE  WithinBudget(t)'
<1> DEFINE held == Cardinality(Held(t))
<1>0. /\ IsFiniteSet(Held(t)) /\ held \in Nat
      /\ ready[t] \in Nat /\ attempt[t] \in 0 .. MaxAttempts + 1
      /\ ready[t] + held <= attempt[t]
      /\ ready[t] + held <= MaxAttempts
  BY FS_CardinalityType DEF TypeOK, WithinBudget, CopiesOf
<1>a. ASSUME \A w \in Workers : processing'[w][t] = processing[w][t],
             ready'[t] = ready[t], attempt'[t] = attempt[t]
      PROVE  WithinBudget(t)'
  BY <1>0, <1>a, HeldFrame DEF WithinBudget, CopiesOf
<1>b. ASSUME NEW w \in Workers, task[w] \in Tasks, LRem(w, task[w]), UNCHANGED <<ready, attempt>>
      PROVE  WithinBudget(t)'
  <2>1. CASE task[w] = t
    <3>1. IsFiniteSet(Held(t)') /\ Cardinality(Held(t)') <= held
      BY <1>0, <1>b, <2>1, HeldShrinks
    <3>2. Cardinality(Held(t)') \in Nat
      BY <3>1, FS_CardinalityType
    <3> HIDE DEF held
    <3>3. ready'[t] + Cardinality(Held(t)') <= ready[t] + held
      BY <1>0, <1>b, <3>1, <3>2
    <3> QED
      BY <1>0, <1>b, <3>1, <3>2, <3>3 DEF WithinBudget, CopiesOf
  <2>2. CASE task[w] # t
    BY <1>a, <1>b, <2>2 DEF LRem, TypeOK
  <2> QED
    BY <2>1, <2>2
<1>c. ASSUME NEW w \in Workers, NEW u \in Tasks, BLMove(w, u), UNCHANGED attempt
      PROVE  WithinBudget(t)'
  <2>1. CASE u = t
    <3>1. IsFiniteSet(Held(t)') /\ Cardinality(Held(t)') = held + 1
      BY <1>0, <1>c, <2>1, HeldGrows DEF BLMove
    <3>2. ready'[t] = ready[t] - 1
      BY <1>c, <2>1 DEF BLMove, TypeOK
    <3> HIDE DEF held
    <3>3. ready'[t] + Cardinality(Held(t)') = ready[t] + held
      BY <1>0, <3>1, <3>2
    <3> QED
      BY <1>0, <1>c, <3>1, <3>3 DEF WithinBudget, CopiesOf
  <2>2. CASE u # t
    BY <1>a, <1>c, <2>2 DEF BLMove, TypeOK
  <2> QED
    BY <2>1, <2>2
<1>1. ASSUME NEW u \in Tasks, Enqueue(u) PROVE WithinBudget(t)'
  <2>1. CASE u = t
    <3>1. attempt[t] = 0 /\ attempt'[t] = 1 /\ ready'[t] = ready[t] + 1 /\ UNCHANGED processing
      BY <1>1, <2>1 DEF Enqueue, TypeOK
    <3>2. Held(t)' = Held(t)
      BY <3>1, HeldFrame
    <3> HIDE DEF held
    <3>3. ready'[t] + held <= 1 /\ 1 <= MaxAttempts
      BY <1>0, <3>1
    <3> QED
      BY <1>0, <3>1, <3>2, <3>3 DEF WithinBudget, CopiesOf, held
  <2>2. CASE u # t
    BY <1>a, <1>1, <2>2 DEF Enqueue, TypeOK
  <2> QED
    BY <2>1, <2>2
<1>2. ASSUME NEW w \in Workers, NEW u \in Tasks, Claim(w, u) \/ ClaimReplyLost(w, u)
      PROVE  WithinBudget(t)'
  BY <1>c, <1>2 DEF Claim, ClaimReplyLost
<1>3. ASSUME NEW w \in Workers, WorkerStep(w) PROVE WithinBudget(t)'
  <2>1. CASE Skip(w) \/ Abandon(w) \/ Drop(w) \/ Ack(w)
    <3>1. task[w] \in Tasks
      BY <2>1 DEF Skip, Abandon, Drop, Ack, TypeOK
    <3> QED
      BY <1>b, <2>1, <3>1 DEF Skip, Abandon, Drop, Ack
  <2>2. CASE ~(Skip(w) \/ Abandon(w) \/ Drop(w) \/ Ack(w))
    <3>1. UNCHANGED <<processing, ready, attempt>>
      BY <1>3, <2>2 DEF WorkerStep, redisVars, Gate, GateFails, SkipFails, Own, OwnFails,
         Load, LoadFails, RunStage, LRemFails, AckFails, Exit
    <3> QED
      BY <1>a, <3>1
  <2> QED
    BY <2>1, <2>2
<1>4. ASSUME NEW r \in Reapers, NEW u \in Tasks, RequeueExpired(r, u) PROVE WithinBudget(t)'
  <2>1. CASE u # t \/ inflight[u] = "absent"
    <3>1. UNCHANGED processing /\ ready'[t] = ready[t] /\ attempt'[t] = attempt[t]
      BY <1>4, <2>1 DEF RequeueExpired, TypeOK
    <3> QED
      BY <1>a, <3>1
  <2>2. CASE u = t /\ inflight[u] # "absent"
    <3>1. UNCHANGED processing /\ attempt'[t] = Incr(attempt[t], 1)
      BY <1>4, <2>2 DEF RequeueExpired, TypeOK
    <3>2. Held(t)' = Held(t)
      BY <3>1, HeldFrame
    <3>3. CASE attempt[t] + 1 > MaxAttempts
      <4>1. ready'[t] = ready[t]
        BY <1>4, <2>2, <3>3 DEF RequeueExpired
      <4> HIDE DEF held
      <4>2. ready'[t] + held <= attempt'[t]
        BY <1>0, <3>1, <4>1 DEF Incr
      <4> QED
        BY <1>0, <3>2, <4>1, <4>2 DEF WithinBudget, CopiesOf, held
    <3>4. CASE ~(attempt[t] + 1 > MaxAttempts)
      <4>1. ready'[t] = ready[t] + 1
        BY <1>4, <2>2, <3>4 DEF RequeueExpired, TypeOK
      <4> HIDE DEF held
      <4>2. ready'[t] + held <= attempt'[t] /\ ready'[t] + held <= MaxAttempts
        BY <1>0, <3>1, <3>4, <4>1 DEF Incr
      <4> QED
        BY <1>0, <3>2, <4>2 DEF WithinBudget, CopiesOf, held
    <3> QED
      BY <3>3, <3>4
  <2> QED
    BY <2>1, <2>2
<1>5. ASSUME NEW r \in Reapers, NEW w \in Workers, DrainDeadWorker(r, w) PROVE WithinBudget(t)'
  <2> DEFINE n == processing[w][t]
  <2>1. /\ n \in Nat
        /\ attempt'[t] = Incr(attempt[t], n)
        /\ ready'[t] = ready[t] + Requeued(t, n)
        /\ processing' = [processing EXCEPT ![w] = [u \in Tasks |-> 0]]
    BY <1>5 DEF DrainDeadWorker, TypeOK
  <2>2. IsFiniteSet(Held(t)') /\ Cardinality(Held(t)') = held - n
    BY <1>0, <2>1, HeldDrained
  <2> HIDE DEF held, n
  <2>3. Requeued(t, n) \in Nat /\ Requeued(t, n) <= n /\ attempt[t] <= attempt'[t]
    BY <1>0, <2>1 DEF Requeued, Incr
  <2>4. attempt'[t] \in Nat
    BY <1>0, <2>1 DEF Incr
  <2>5. ready'[t] + Cardinality(Held(t)') <= ready[t] + held
    BY <1>0, <2>1, <2>2, <2>3
  <2>6. ready'[t] + Cardinality(Held(t)') \in Int
    BY <1>0, <2>1, <2>2, <2>3
  <2> QED
    BY <1>0, <2>2, <2>3, <2>4, <2>5, <2>6 DEF WithinBudget, CopiesOf
<1>6. ASSUME UNCHANGED <<processing, ready, attempt>> PROVE WithinBudget(t)'
  BY <1>6, <1>a
<1>7. ASSUME NEW w \in Workers, HeartbeatStep(w) \/ KeyExpires(w) PROVE WithinBudget(t)'
  BY <1>6, <1>7 DEF HeartbeatStep, Beat, Bump, BumpFails, KeyExpires, redisVars
<1>8. ASSUME NEW u \in Tasks, Lapse(u) PROVE WithinBudget(t)'
  BY <1>6, <1>8 DEF Lapse
<1>9. ASSUME NEW r \in Reapers, NEW u \in Tasks, RequeueFails(r, u) PROVE WithinBudget(t)'
  BY <1>6, <1>9 DEF RequeueFails, redisVars
<1>10. ASSUME NEW r \in Reapers, ScanExpired(r) PROVE WithinBudget(t)'
  BY <1>6, <1>10 DEF ScanExpired, redisVars
<1>11. CASE Fault
  BY <1>6, <1>11 DEF Fault, Crash, Restart, Sigterm, ReaperCrash, redisVars
<1>12. CASE UNCHANGED vars
  BY <1>6, <1>12 DEF vars
<1> HIDE DEF held
<1> QED
  BY <1>1, <1>2, <1>3, <1>4, <1>5, <1>7, <1>8, <1>9, <1>10, <1>11, <1>12
  DEF Next, ReaperStep

\* The copies of a task never outnumber its attempts, nor MAX_ATTEMPTS, and a dead
\* task has used them up: requeueExpiredScript and drainDeadWorkerScript charge an
\* attempt for every copy they make, whatever happens between a scan and a requeue.
THEOREM BudgetIsKept == Spec => []RetryBudget
<1> DEFINE BudgetInv == LifeInv /\ \A t \in Tasks : WithinBudget(t)
<1>1. Init => BudgetInv
  <2> SUFFICES ASSUME Init PROVE BudgetInv
    OBVIOUS
  <2>1. LifeInv
    BY DEF Init, LifeInv, Accepted
  <2>2. ASSUME NEW t \in Tasks PROVE WithinBudget(t)
    <3>1. Held(t) = {} /\ ready[t] = 0 /\ attempt[t] = 0
      BY DEF Init, Held
    <3> QED
      BY <3>1, FS_EmptySet DEF WithinBudget, CopiesOf
  <2> QED
    BY <2>1, <2>2
<1>2. TypeOK /\ BudgetInv /\ [Next]_vars => BudgetInv'
  BY LifeStep, BudgetStep
<1>3. TypeOK /\ BudgetInv => RetryBudget
  BY DEF LifeInv, WithinBudget, RetryBudget, TypeOK
<1> QED
  BY <1>1, <1>2, <1>3, TypeCorrect, PTL DEF Spec
=============================================================================
