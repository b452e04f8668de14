------------------------------ MODULE WorkQueue ------------------------------
(***************************************************************************)
(* The reliable work queue of OrderForge: the state kept in                *)
(* redis-workqueue, the worker frameworks (one per stage pod) that claim,  *)
(* run and acknowledge tasks, and the coordinator that enqueues them and   *)
(* reaps what workers left behind.                                         *)
(*                                                                         *)
(* Abstractions.  A task stands for its order as well: the coordinator     *)
(* mints one task per enqueued order.  The ready and processing lists are  *)
(* bags: the properties never tell two orders of a list apart, and FIFO    *)
(* service appears only as strong fairness of claiming.  There is no       *)
(* clock: a visibility deadline lapses, and a liveness key expires, at any *)
(* time, because nothing bounds how late a heartbeat may be.               *)
(***************************************************************************)
EXTENDS Naturals, FiniteSets

CONSTANTS
    Tasks,          \* task ids
    Workers,        \* WORKER_IDs: the pod names of the stage pods
    Reapers,        \* coordinator processes (two overlap during a rollout)
    MaxAttempts,    \* MAX_ATTEMPTS of the coordinator
    MinUp,          \* replicas the Deployment keeps up when pods crash
    Faults,         \* which faults the environment may inject
    NoTask          \* the empty task id, ""

FaultKinds == {"crash", "restart", "sigterm", "redis"}

ASSUME MaxAttemptsAssumption == MaxAttempts \in Nat \ {0}
ASSUME FaultsAssumption == Faults \subseteq FaultKinds
ASSUME NoTaskAssumption == NoTask \notin Tasks

VARIABLES
    ready,          \* LIST  orderforge:ready, as a bag
    processing,     \* LISTs orderforge:processing:<worker>, as bags
    inflight,       \* ZSET  orderforge:inflight: no entry, or its deadline
                    \*       still ahead ("fresh") or passed ("lapsed")
    alive,          \* the workers whose liveness key exists
    done,           \* SET   orderforge:done
    dead,           \* LIST  orderforge:dead, as a set
    settlePending,  \* SET   orderforge:settle:pending
    attempt,        \* HASH  task:<id>.attempt; 0 before the task exists
    status,         \* HASH  task:<id>.status
    pc,             \* where each worker's claim loop stands
    task,           \* the id its claim loop works on
    beat,           \* the id its heartbeat goroutine has read, not yet bumped
    term,           \* workers whose context SIGTERM has cancelled
    scan,           \* expired ids a reaper has read and not yet requeued
    abandoned       \* history: tasks whose copy a worker removed although it
                    \* could not enter them in the inflight set

redisVars  == <<ready, processing, inflight, alive, done, dead,
                settlePending, attempt, status>>
workerVars == <<pc, task, beat, term>>
vars == <<ready, processing, inflight, alive, done, dead, settlePending,
          attempt, status, pc, task, beat, term, scan, abandoned>>

Deadlines == {"absent", "fresh", "lapsed"}
Statuses  == {"none", "ready", "dead", "done", "failed"}

\* Between ZADD and the return of handleTask, w.current is the task's id.
Protecting == {"load", "stage", "drop", "ack_done", "ack_failed"}
PCs == {"down", "idle", "gate", "skip", "own", "abandon"} \cup Protecting

\* One type invariant: the shape of the Redis keys and of each process.
TypeOK ==
    /\ ready \in [Tasks -> Nat]
    /\ processing \in [Workers -> [Tasks -> Nat]]
    /\ inflight \in [Tasks -> Deadlines]
    /\ alive \subseteq Workers
    /\ done \subseteq Tasks
    /\ dead \subseteq Tasks
    /\ settlePending \subseteq done
    /\ attempt \in [Tasks -> 0 .. MaxAttempts + 1]
    /\ status \in [Tasks -> Statuses]
    /\ pc \in [Workers -> PCs]
    /\ task \in [Workers -> Tasks \cup {NoTask}]
    /\ \A w \in Workers : task[w] = NoTask <=> pc[w] \in {"down", "idle"}
    /\ beat \in [Workers -> Tasks \cup {NoTask}]
    /\ term \subseteq Workers
    /\ scan \in [Reapers -> SUBSET Tasks]
    /\ abandoned \subseteq Tasks

-----------------------------------------------------------------------------
(* Redis and the worker's loop. *)

\* LREM processing:<w> 1 t
LRem(w, t) ==
    processing' = [processing EXCEPT ![w][t] = IF @ > 0 THEN @ - 1 ELSE 0]

\* Mutant: the attempt is never counted.
IncrForgotten(a, n) == a

\* A counter compared only with MAX_ATTEMPTS: exact up to MaxAttempts + 1.
Incr(a, n) == IF a + n > MaxAttempts THEN MaxAttempts + 1 ELSE a + n

\* Mutant: the id of the task just handled is not cleared.
NextLoopKeepsTask(w) ==
    /\ pc' = [pc EXCEPT ![w] = IF w \in term THEN "down" ELSE "idle"]
    /\ task' = task

\* runLoop checks for shutdown between tasks: it claims again or returns.
NextLoop(w) ==
    /\ pc' = [pc EXCEPT ![w] = IF w \in term THEN "down" ELSE "idle"]
    /\ task' = [task EXCEPT ![w] = NoTask]

Goto(w, label) ==
    /\ pc' = [pc EXCEPT ![w] = label]
    /\ task' = task

\* A Redis call made with the loop's context fails once that is cancelled,
\* before anything is sent; with a Redis fault any call may fail.
CallFails(w) == w \in term \/ "redis" \in Faults

Init ==
    /\ ready = [t \in Tasks |-> 0]
    /\ processing = [w \in Workers |-> [t \in Tasks |-> 0]]
    /\ inflight = [t \in Tasks |-> "absent"]
    /\ alive = {}
    /\ done = {}
    /\ dead = {}
    /\ settlePending = {}
    /\ attempt = [t \in Tasks |-> 0]
    /\ status = [t \in Tasks |-> "none"]
    /\ pc = [w \in Workers |-> "idle"]
    /\ task = [w \in Workers |-> NoTask]
    /\ beat = [w \in Workers |-> NoTask]
    /\ term = {}
    /\ scan = [r \in Reapers |-> {}]
    /\ abandoned = {}

-----------------------------------------------------------------------------
(* POST /enqueue: the task hash and the push are one transaction. *)

Enqueue(t) ==
    /\ attempt[t] = 0
    /\ attempt' = [attempt EXCEPT ![t] = 1]
    /\ status' = [status EXCEPT ![t] = "ready"]
    /\ ready' = [ready EXCEPT ![t] = @ + 1]
    /\ UNCHANGED <<processing, inflight, alive, done, dead, settlePending,
                   workerVars, scan, abandoned>>

-----------------------------------------------------------------------------
(* claim: BLMOVE, then the idempotency gate.  A blocked BLMOVE is not       *)
(* interrupted by SIGTERM, so a terminating worker may still claim.         *)

BLMove(w, t) ==
    /\ pc[w] = "idle"
    /\ ready[t] > 0
    /\ ready' = [ready EXCEPT ![t] = @ - 1]
    /\ processing' = [processing EXCEPT ![w][t] = @ + 1]

Claim(w, t) ==
    /\ BLMove(w, t)
    /\ pc' = [pc EXCEPT ![w] = "gate"]
    /\ task' = [task EXCEPT ![w] = t]
    /\ UNCHANGED <<inflight, alive, done, dead, settlePending, attempt,
                   status, beat, term, scan, abandoned>>

\* The move is applied and its reply lost: claim returns an error and the
\* loop goes round, the copy staying in the processing list.
ClaimReplyLost(w, t) ==
    /\ "redis" \in Faults
    /\ BLMove(w, t)
    /\ NextLoop(w)
    /\ UNCHANGED <<inflight, alive, done, dead, settlePending, attempt,
                   status, beat, term, scan, abandoned>>

Gate(w) ==
    /\ pc[w] = "gate"
    /\ w \notin term
    /\ Goto(w, IF task[w] \in done THEN "skip" ELSE "own")
    /\ UNCHANGED <<redisVars, beat, term, scan, abandoned>>

\* SISMEMBER fails: claim returns the error, the copy stays where it is.
GateFails(w) ==
    /\ pc[w] = "gate"
    /\ CallFails(w)
    /\ NextLoop(w)
    /\ UNCHANGED <<redisVars, beat, term, scan, abandoned>>

\* Mutant: an already-done task is skipped without removing its copy.
SkipKeepsCopy(w) ==
    /\ pc[w] = "skip"
    /\ w \notin term
    /\ NextLoop(w)
    /\ UNCHANGED <<redisVars, beat, term, scan, abandoned>>

Skip(w) ==
    /\ pc[w] = "skip"
    /\ w \notin term
    /\ LRem(w, task[w])
    /\ NextLoop(w)
    /\ UNCHANGED <<ready, inflight, alive, done, dead, settlePending, attempt,
                   status, beat, term, scan, abandoned>>

SkipFails(w) ==
    /\ pc[w] = "skip"
    /\ CallFails(w)
    /\ NextLoop(w)
    /\ UNCHANGED <<redisVars, beat, term, scan, abandoned>>

-----------------------------------------------------------------------------
(* handleTask *)

\* ZADD inflight: take ownership of the visibility deadline.
Own(w) ==
    /\ pc[w] = "own"
    /\ w \notin term
    /\ inflight' = [inflight EXCEPT ![task[w]] = "fresh"]
    /\ Goto(w, "load")
    /\ UNCHANGED <<ready, processing, alive, done, dead, settlePending,
                   attempt, status, beat, term, scan, abandoned>>

\* ZADD fails: not sent when the context is cancelled, perhaps applied when
\* only the reply was lost.
OwnFails(w) ==
    /\ pc[w] = "own"
    /\ CallFails(w)
    /\ \/ UNCHANGED inflight
       \/ /\ w \notin term
          /\ inflight' = [inflight EXCEPT ![task[w]] = "fresh"]
    /\ Goto(w, "abandon")
    /\ UNCHANGED <<ready, processing, alive, done, dead, settlePending,
                   attempt, status, beat, term, scan, abandoned>>

\* lremProcessing falls back to a background context, so it works after
\* SIGTERM too.
Abandon(w) ==
    /\ pc[w] = "abandon"
    /\ LRem(w, task[w])
    /\ abandoned' = abandoned \cup {task[w]}
    /\ NextLoop(w)
    /\ UNCHANGED <<ready, inflight, alive, done, dead, settlePending, attempt,
                   status, beat, term, scan>>

\* HGET payload.
Load(w) ==
    /\ pc[w] = "load"
    /\ w \notin term
    /\ Goto(w, "stage")
    /\ UNCHANGED <<redisVars, beat, term, scan, abandoned>>

LoadFails(w) ==
    /\ pc[w] = "load"
    /\ CallFails(w)
    /\ Goto(w, "drop")
    /\ UNCHANGED <<redisVars, beat, term, scan, abandoned>>

\* runStage answers, or gives up on a timeout, a cancelled context or an I/O
\* error.
RunStage(w) ==
    /\ pc[w] = "stage"
    /\ \E label \in {"ack_done", "ack_failed", "drop"} : Goto(w, label)
    /\ UNCHANGED <<redisVars, beat, term, scan, abandoned>>

\* Mutant: giving up clears the visibility entry as well.
DropClearsDeadline(w) ==
    /\ pc[w] = "drop"
    /\ LRem(w, task[w])
    /\ inflight' = [inflight EXCEPT ![task[w]] = "absent"]
    /\ NextLoop(w)
    /\ UNCHANGED <<ready, alive, done, dead, settlePending, attempt, status,
                   beat, term, scan, abandoned>>

\* lremProcessing of a task left for the reaper; then w.current is cleared.
Drop(w) ==
    /\ pc[w] = "drop"
    /\ LRem(w, task[w])
    /\ NextLoop(w)
    /\ UNCHANGED <<ready, inflight, alive, done, dead, settlePending, attempt,
                   status, beat, term, scan, abandoned>>

\* A best-effort LREM that fails is only logged.
LRemFails(w) ==
    /\ pc[w] \in {"abandon", "drop"}
    /\ "redis" \in Faults
    /\ NextLoop(w)
    /\ UNCHANGED <<redisVars, beat, term, scan, abandoned>>

\* Mutant: a late ack takes the task off the dead-letter list.
AckRevives(w) ==
    /\ pc[w] \in {"ack_done", "ack_failed"}
    /\ done' = done \cup {task[w]}
    /\ dead' = dead \ {task[w]}
    /\ settlePending' = IF pc[w] = "ack_done"
                        THEN settlePending \cup {task[w]}
                        ELSE settlePending
    /\ LRem(w, task[w])
    /\ inflight' = [inflight EXCEPT ![task[w]] = "absent"]
    /\ status' = [status EXCEPT ![task[w]] = IF pc[w] = "ack_done"
                                             THEN "done" ELSE "failed"]
    /\ NextLoop(w)
    /\ UNCHANGED <<ready, alive, attempt, beat, term, scan, abandoned>>

\* ack: one transaction, on a context SIGTERM does not cancel.
Ack(w) ==
    /\ pc[w] \in {"ack_done", "ack_failed"}
    /\ done' = done \cup {task[w]}
    /\ settlePending' = IF pc[w] = "ack_done"
                        THEN settlePending \cup {task[w]}
                        ELSE settlePending
    /\ LRem(w, task[w])
    /\ inflight' = [inflight EXCEPT ![task[w]] = "absent"]
    /\ status' = [status EXCEPT ![task[w]] = IF pc[w] = "ack_done"
                                             THEN "done" ELSE "failed"]
    /\ NextLoop(w)
    /\ UNCHANGED <<ready, alive, dead, attempt, beat, term, scan, abandoned>>

\* Mutant: a plain pipeline, cut after LREM and ZREM and before SADD.
AckFailsHalfway(w) ==
    /\ pc[w] \in {"ack_done", "ack_failed"}
    /\ "redis" \in Faults
    /\ LRem(w, task[w])
    /\ inflight' = [inflight EXCEPT ![task[w]] = "absent"]
    /\ NextLoop(w)
    /\ UNCHANGED <<ready, alive, done, dead, settlePending, attempt, status,
                   beat, term, scan, abandoned>>

\* The transaction fails as a whole: the entry and the copy stay.
AckFails(w) ==
    /\ pc[w] \in {"ack_done", "ack_failed"}
    /\ "redis" \in Faults
    /\ NextLoop(w)
    /\ UNCHANGED <<redisVars, beat, term, scan, abandoned>>

-----------------------------------------------------------------------------
(* heartbeatLoop, a goroutine beside the claim loop.  Reading w.current and *)
(* bumping its deadline are two steps, and the claim loop runs in between.  *)

Beat(w) ==
    /\ pc[w] # "down"
    /\ w \notin term
    /\ beat[w] = NoTask
    /\ \/ alive' = alive \cup {w}
       \/ "redis" \in Faults /\ alive' = alive
    /\ beat' = [beat EXCEPT ![w] = IF pc[w] \in Protecting THEN task[w]
                                                           ELSE NoTask]
    /\ UNCHANGED <<ready, processing, inflight, done, dead, settlePending,
                   attempt, status, pc, task, term, scan, abandoned>>

\* ZADD GT: moves a deadline forward, and adds the entry when it is gone.
Bump(w) ==
    /\ beat[w] # NoTask
    /\ inflight' = [inflight EXCEPT ![beat[w]] = "fresh"]
    /\ beat' = [beat EXCEPT ![w] = NoTask]
    /\ UNCHANGED <<ready, processing, alive, done, dead, settlePending,
                   attempt, status, pc, task, term, scan, abandoned>>

BumpFails(w) ==
    /\ beat[w] # NoTask
    /\ "redis" \in Faults
    /\ beat' = [beat EXCEPT ![w] = NoTask]
    /\ UNCHANGED <<redisVars, pc, task, term, scan, abandoned>>

-----------------------------------------------------------------------------
(* Time. *)

\* The visibility deadline of t passes.
Lapse(t) ==
    /\ inflight[t] = "fresh"
    /\ inflight' = [inflight EXCEPT ![t] = "lapsed"]
    /\ UNCHANGED <<ready, processing, alive, done, dead, settlePending,
                   attempt, status, workerVars, scan, abandoned>>

\* The liveness key of w runs out of its time to live.
KeyExpires(w) ==
    /\ w \in alive
    /\ alive' = alive \ {w}
    /\ UNCHANGED <<ready, processing, inflight, done, dead, settlePending,
                   attempt, status, workerVars, scan, abandoned>>

-----------------------------------------------------------------------------
(* The reaper: on each tick, pass (a) over expired entries, then pass (b)   *)
(* over the processing lists.                                               *)

\* ZRANGEBYSCORE inflight -inf now.
ScanExpired(r) ==
    /\ scan[r] = {}
    /\ scan' = [scan EXCEPT ![r] = {t \in Tasks : inflight[t] = "lapsed"}]
    /\ UNCHANGED <<redisVars, workerVars, abandoned>>

\* requeueExpiredScript: membership is all it checks.
RequeueExpired(r, t) ==
    /\ t \in scan[r]
    /\ scan' = [scan EXCEPT ![r] = @ \ {t}]
    /\ IF inflight[t] = "absent"
       THEN UNCHANGED <<inflight, attempt, ready, dead, status>>
       ELSE /\ inflight' = [inflight EXCEPT ![t] = "absent"]
            /\ attempt' = [attempt EXCEPT ![t] = Incr(@, 1)]
            /\ IF attempt[t] + 1 > MaxAttempts
               THEN /\ dead' = dead \cup {t}
                    /\ status' = [status EXCEPT ![t] = "dead"]
                    /\ UNCHANGED ready
               ELSE /\ ready' = [ready EXCEPT ![t] = @ + 1]
                    /\ status' = [status EXCEPT ![t] = "ready"]
                    /\ UNCHANGED dead
    /\ UNCHANGED <<processing, alive, done, settlePending, workerVars,
                   abandoned>>

\* The script call fails: the reaper logs it and goes to the next id.
RequeueFails(r, t) ==
    /\ "redis" \in Faults
    /\ t \in scan[r]
    /\ scan' = [scan EXCEPT ![r] = @ \ {t}]
    /\ UNCHANGED <<redisVars, workerVars, abandoned>>

\* How many of n copies of t a drain pushes back: one attempt each.
Requeued(t, n) ==
    IF attempt[t] + n <= MaxAttempts THEN n
    ELSE IF attempt[t] <= MaxAttempts THEN MaxAttempts - attempt[t] ELSE 0

\* drainDeadWorkerScript: re-check the liveness key, then requeue every copy
\* and clear the list, atomically.
DrainDeadWorker(r, w) ==
    LET copies   == processing[w]
        stranded == {t \in Tasks : copies[t] > 0}
        toDead   == {t \in stranded : attempt[t] + copies[t] > MaxAttempts}
    IN  /\ scan[r] = {}
        /\ w \notin alive
        /\ stranded # {}
        /\ inflight' = [t \in Tasks |-> IF t \in stranded THEN "absent"
                                                          ELSE inflight[t]]
        /\ attempt' = [t \in Tasks |-> Incr(attempt[t], copies[t])]
        /\ ready' = [t \in Tasks |-> ready[t] + Requeued(t, copies[t])]
        /\ dead' = dead \cup toDead
        /\ status' = [t \in Tasks |-> IF t \in toDead THEN "dead"
                                      ELSE IF t \in stranded THEN "ready"
                                      ELSE status[t]]
        /\ processing' = [processing EXCEPT ![w] = [t \in Tasks |-> 0]]
        /\ UNCHANGED <<alive, done, settlePending, workerVars, scan,
                       abandoned>>

-----------------------------------------------------------------------------
(* Processes come and go. *)

\* The Deployment keeps MinUp pods that are not on their way out.
ReplicasRemain(w) ==
    Cardinality({v \in Workers \ (term \cup {w}) : pc[v] # "down"}) >= MinUp

\* The framework container dies, its heartbeat with it.
Crash(w) ==
    /\ "crash" \in Faults
    /\ pc[w] # "down"
    /\ ReplicasRemain(w)
    /\ pc' = [pc EXCEPT ![w] = "down"]
    /\ task' = [task EXCEPT ![w] = NoTask]
    /\ beat' = [beat EXCEPT ![w] = NoTask]
    /\ UNCHANGED <<redisVars, term, scan, abandoned>>

\* The kubelet restarts the container in its pod: same POD_NAME, same keys.
Restart(w) ==
    /\ "restart" \in Faults
    /\ pc[w] = "down"
    /\ pc' = [pc EXCEPT ![w] = "idle"]
    /\ beat' = [beat EXCEPT ![w] = NoTask]
    /\ term' = term \ {w}
    /\ UNCHANGED <<redisVars, task, scan, abandoned>>

\* SIGTERM cancels the context of the loop and of the heartbeat ticker.
Sigterm(w) ==
    /\ "sigterm" \in Faults
    /\ pc[w] # "down"
    /\ w \notin term
    /\ ReplicasRemain(w)
    /\ term' = term \cup {w}
    /\ UNCHANGED <<redisVars, pc, task, beat, scan, abandoned>>

\* A blocking claim that moved nothing returns, and the loop sees the
\* cancelled context.
Exit(w) ==
    /\ pc[w] = "idle"
    /\ w \in term
    /\ NextLoop(w)
    /\ UNCHANGED <<redisVars, beat, term, scan, abandoned>>

\* A coordinator dies between its scan and its requeues, and starts again.
ReaperCrash(r) ==
    /\ "crash" \in Faults
    /\ scan[r] # {}
    /\ scan' = [scan EXCEPT ![r] = {}]
    /\ UNCHANGED <<redisVars, workerVars, abandoned>>

-----------------------------------------------------------------------------
WorkerStep(w) ==
    \/ Gate(w) \/ GateFails(w) \/ Skip(w) \/ SkipFails(w)
    \/ Own(w) \/ OwnFails(w) \/ Abandon(w)
    \/ Load(w) \/ LoadFails(w) \/ RunStage(w) \/ Drop(w) \/ LRemFails(w)
    \/ Ack(w) \/ AckFails(w) \/ Exit(w)

HeartbeatStep(w) == Beat(w) \/ Bump(w) \/ BumpFails(w)

ReaperStep(r) ==
    \/ ScanExpired(r)
    \/ \E t \in Tasks : RequeueExpired(r, t) \/ RequeueFails(r, t)
    \/ \E w \in Workers : DrainDeadWorker(r, w)

Fault ==
    \/ \E w \in Workers : Crash(w) \/ Restart(w) \/ Sigterm(w)
    \/ \E r \in Reapers : ReaperCrash(r)

Next ==
    \/ \E t \in Tasks : Enqueue(t) \/ Lapse(t)
    \/ \E w \in Workers, t \in Tasks : Claim(w, t) \/ ClaimReplyLost(w, t)
    \/ \E w \in Workers : WorkerStep(w) \/ HeartbeatStep(w) \/ KeyExpires(w)
    \/ \E r \in Reapers : ReaperStep(r)
    \/ Fault

Spec == Init /\ [][Next]_vars

(***************************************************************************)
(* What the code's scheduling guarantees.  A worker's loop keeps running    *)
(* (runStage ends at PROCESS_TIMEOUT_S at the latest); ready is served in   *)
(* FIFO order, so a waiting task is claimed if workers keep claiming; a     *)
(* deadline nobody bumps passes; the liveness key of a process that is gone *)
(* expires; every reaper tick runs both passes and not every one of them is *)
(* cut short.  Nothing is assumed of faults, enqueues or heartbeats.        *)
(***************************************************************************)
Protected(t) == \E w \in Workers : pc[w] \in Protecting /\ task[w] = t

Fairness ==
    /\ \A w \in Workers : /\ WF_vars(WorkerStep(w))
                           /\ WF_vars(Bump(w))
                           /\ WF_vars(pc[w] = "down" /\ KeyExpires(w))
                           /\ \A r \in Reapers :
                                SF_vars(pc[w] = "down" /\ DrainDeadWorker(r, w))
    /\ \A t \in Tasks : /\ SF_vars(\E w \in Workers : Claim(w, t))
                         /\ WF_vars(~Protected(t) /\ Lapse(t))
                         /\ SF_vars(\E r \in Reapers : RequeueExpired(r, t))
    /\ \A r \in Reapers : WF_vars(ScanExpired(r))

FairSpec == Spec /\ Fairness

-----------------------------------------------------------------------------
(* Properties *)

\* The processing list of w holds a copy of t other than the one that w, past
\* its ZADD, is going to remove itself.
Spare(w, t) ==
    processing[w][t] > IF pc[w] \in Protecting /\ task[w] = t THEN 1 ELSE 0

\* A task is traceable when something will still move it on: it is resolved,
\* it waits, it has a visibility entry, or a drain would find a spare copy.
Traceable(t) ==
    \/ t \in done \cup dead
    \/ ready[t] > 0
    \/ inflight[t] # "absent"
    \/ \E w \in Workers : Spare(w, t)

\* No accepted task is lost: whatever crashes and restarts happen between two
\* Redis commands of a worker, of the heartbeat and of a reaper, an enqueued
\* task is resolved or still in a structure the reaper works from
\* ("a crash between pop and bookkeeping cannot lose the task", claim).
NoTaskLost == \A t \in Tasks : attempt[t] > 0 => Traceable(t)

\* Under every fault (lost replies, failed commands, SIGTERM, crashes) the one
\* way to lose a task is handleTask's abandon path: ZADD failed and the copy
\* was removed from the processing list all the same.
LostOnlyByAbandon ==
    \A t \in Tasks : attempt[t] > 0 => Traceable(t) \/ t \in abandoned

\* The copies of t: those in ready, and the numbered ones of each processing list.
Held(t) == UNION {{w} \X (1 .. processing[w][t]) : w \in Workers}
CopiesOf(t) == ready[t] + Cardinality(Held(t))

\* The copies of a task never outnumber its attempts, nor MAX_ATTEMPTS, however
\* often visibility lapses, lists are drained and heartbeats revive an entry:
\* the two reaper passes never requeue without paying an attempt.
RetryBudget ==
    \A t \in Tasks :
        /\ CopiesOf(t) <= attempt[t]
        /\ CopiesOf(t) <= MaxAttempts
        /\ t \in dead => attempt[t] > MaxAttempts

Lifecycle == INSTANCE TaskLifecycle
             WITH attempt <- attempt, done <- done, dead <- dead,
                  settlePending <- settlePending

\* Whatever workers, heartbeats, reapers and faults do, the life of a task is the
\* one TaskLifecycle describes: attempts are charged and never refunded, nothing
\* is dead-lettered while attempts are left, an outcome is never withdrawn, and
\* settlement is handed done tasks only.
ImplementsLifecycle == Lifecycle!Spec

\* Every enqueued task is eventually acknowledged or dead-lettered, although
\* workers and coordinators crash between any two of their steps.
Resolved == \A t \in Tasks : attempt[t] > 0 ~> t \in done \cup dead

\* A task survives crashes that stop at some time, each container staying down
\* or staying up with its liveness key from then on ("the reaper finds it in processing:<worker>
\* once our liveness key expires", claim).
ContainersSettle ==
    \A w \in Workers : <>[](pc[w] = "down") \/ <>[](pc[w] # "down" /\ w \in alive)
ResolvedAfterCrashes == ContainersSettle => Resolved

\* During a rollout, too, every task ends: SIGTERM at any point of the loop
\* leaves it to be acked, reaped or drained, except where it is abandoned.
ResolvedOrAbandoned ==
    \A t \in Tasks : attempt[t] > 0 ~> t \in done \cup dead \cup abandoned

\* The queue drains: from some time on no copy, no visibility entry is left,
\* although a heartbeat may revive the entry of a task acked meanwhile and
\* workers die holding copies (the gate and the reaper clear what is left).
Quiesces ==
    <>[](\A t \in Tasks : /\ ready[t] = 0
                          /\ inflight[t] = "absent"
                          /\ \A w \in Workers : processing[w][t] = 0)

=============================================================================
