# OrderForge in TLA+

TLA+ models of the services in `src/`, the TLC runs that check them on small
instances, and the TLAPS proofs of what holds on every instance. `PROJECT.json`
lists components, runs, mutants, the line-by-line map from definitions to code,
findings, hazards and theorems.

## 1. The system

A client posts an order to **order-api**. It asks **inventory-root** whether the
order can be fulfilled, caches through **cache-ambassador**, hands the order to
**workqueue-coordinator**, and appends JSON lines to log files on a shared
volume. A stage pod claims the task (**workqueue-framework**), runs it through
**order-stage** over files on a shared volume, and acks it, which puts the order
into a pending set. The **settlement** pod whose **leader-elector** says it leads
finalizes it. **log-shipper** sends the log lines to **log-sink**;
**metrics-adapter** exports order-api's statistics.

| component | state it keeps | operations | shares with |
|---|---|---|---|
| workqueue-coordinator | none of its own; the Redis keys `ready`, `inflight`, `done`, `dead`, `task:*`, `order:*` | enqueue; reaper pass (a) expired deadlines, pass (b) lists of dead workers, each one Lua call | Redis, with the workers and with a second coordinator during a rollout |
| workqueue-framework | the task it works on (`current`), its processing list and liveness key | claim (BLMOVE, gate), handleTask (ZADD, load, stage, ack), heartbeat goroutine, shutdown | Redis; the stage volume |
| order-stage | `inProgress`; the stage children | poll, isEligible, processTask, close callback | the stage volume |
| leader-elector | `isLeader`, `leaseValidUntil` | OnStartedLeading, OnStoppedLeading, refresh ticker, exit | the Lease object; `GET /leader` |
| settlement | the batch of the sweep | is_leader, SMEMBERS, HGET, finalize and HSET, SREM | Redis; its elector |
| log-shipper | byte offset per file (memory only) | tick: readdir, stat, open, read, push, commit; drain on SIGTERM | the log volume; the sink |
| log-sink | a ring of records behind a RW mutex | push, query | HTTP |
| inventory-root, -merge, two leaves | none between requests; a constant catalogue per leaf | scatter, gather, merge, relay | HTTP |
| order-api | counters behind one mutex, log files | order handler (validate, cart, availability, enqueue, answer), access log, stats, drain | everything above |
| cache-ambassador | idle connections per shard | handleConn (read, dispatch, reply, flush), pool.do (borrow, round trip, one retry, put), drain | RESP connections of order-api and of the shards |
| metrics-adapter | none | translate one snapshot | `GET /stats` of order-api |

What is hard about it:

* **Work queue.** Every Redis command is atomic and every sequence of them is
  not. A worker may die, be restarted under its old name, get SIGTERM or lose a
  reply between any two; its heartbeat is a second goroutine; two coordinators
  may overlap. *Correct*: no accepted task is lost, retries are bounded, every
  task ends in `done` or `dead`, and nothing circulates afterwards.
* **Stage handshake.** Two containers and child processes share files only;
  directories are deleted and created again while others look at them.
  *Correct*: an unambiguous answer, success only for valid orders, and an answer
  to every request.
* **Leader election and settlement.** Leadership is checked once per sweep, and
  validity is advanced by a ticker. *Correct*: overlaps of leaders are transient,
  no order is forgotten, every order is finalized.
* **Log shipping.** The drain's tick runs next to the poll loop's tick in one
  event loop, on the same offsets. *Correct*: an offset covers only what the sink
  has, a finished drain is complete, every line arrives.
* **Log ring.** Wrap-around, concurrent batches. *Correct*: a snapshot is the
  last `Cap` records in order.
* **Cache ambassador.** Goroutines share connections on which replies carry no
  id, shards hang, close and answer late, and a command may be sent twice.
  *Correct*: each command gets its own reply or an error, connections are pooled
  clean, no reply is held back, every command is answered.
* **Order path.** A call that timed out may still succeed at the other end, and
  each counter has a critical section of its own. *Correct*: answer and task
  agree as far as they can, a scrape is consistent at any moment, every request
  completes.
* **Scatter/gather.** Leaves answer, fail and time out in any order. *Correct*:
  a sound verdict, `partial` exactly when an answer is missing, an answer always.

## 2. Modules

| module | models | checked by | proved in |
|---|---|---|---|
| `WorkQueue` | coordinator and framework over Redis | `MCWorkQueue` | `WorkQueueProofs` |
| `StageHandshake` | `runStage`, `shim.js`, `stage.js` | `MCStageHandshake` | `StageHandshakeProofs` |
| `LeaderLease` | Lease, client-go's loop (external), the sidecar | through `Settlement` | `SettlementProofs` |
| `Settlement` | the sweepers; extends and composes `LeaderLease` | `MCSettlement` | `SettlementProofs` |
| `LogShipping` | log files, log-shipper, the sink's body limit | itself | `LogShippingProofs` |
| `LogRing` | the sink's ring and its handlers | itself | `LogRingProofs` |
| `ScatterGather` | root, two kinds of leaf, merge | `MCScatterGather` | `ScatterGatherProofs` |
| `CacheAmbassador` | client handlers, pools, connections; shards (external) | `MCCacheAmbassador` | `CacheAmbassadorProofs` |
| `OrderApi` | order handlers, counters, the coordinator's side of `/enqueue`, metrics-adapter | itself | `OrderApiProofs` |
| `TaskLifecycle` | *abstract*: what the queue promises of a task | implemented by `WorkQueue` | `WorkQueueProofs` |
| `CacheService` | *abstract*: one cache that answers each command once | implemented by `CacheAmbassador` | `CacheAmbassadorProofs` |

Operators marked "Mutant" are the plausible bugs each property must detect; no
specification uses them.

### WorkQueue

The variables are the Redis keys (`ready`, `processing`, `inflight`, `alive`,
`done`, `dead`, `settlePending`, `attempt`, `status`), each worker's position
(`pc`, `task`), what its heartbeat has read (`beat`), the workers with a
cancelled context (`term`) and the ids a reaper has scanned (`scan`). One action
is one Redis command, transaction or script together with the local code up to
the next one: `Claim` is BLMOVE, `Gate`/`Skip` the idempotency check, `Own` the
ZADD, `Load`, `RunStage`, `Drop`, `Ack` the rest of `handleTask`, `Beat`/`Bump`
the two halves of a heartbeat, `ScanExpired`, `RequeueExpired` and
`DrainDeadWorker` the reaper. Every call has a failing variant, where the code
goes on without knowing whether Redis has applied it.

* Lists are bags. FIFO service shows only as strong fairness of claiming.
* There is no clock: a deadline may lapse, and a liveness key may expire, at any
  time, because nothing bounds how late a heartbeat is.
* `attempt` saturates at `MaxAttempts + 1`, which is exact: the code compares it
  with `MAX_ATTEMPTS` only.
* A call with a cancelled context fails before it is sent (go-redis v9). The
  client's own retries are not modelled.
* After an ack `os.RemoveAll` and `setCurrent("")` are one step with the return.
* A worker whose loop has returned sends no more heartbeats.
* `MinUp` is the number of replicas the Deployment keeps: 0 in safety runs
  (nothing is assumed), 1 where liveness needs somebody to do the work.
* An order gets a new id per POST, so the `finalized 0` of enqueue meets an order
  once. A Redis restart that wipes the keys is a stated non-goal of the
  repository (`src/README.md:15-18`).

**TaskLifecycle** is what remains when workers, lists and deadlines are
forgotten: a task is accepted once; its attempts are charged and never refunded;
it is given up only when they are used up; an acknowledgement is never withdrawn,
and only what is acknowledged, in the same step, goes to settlement. The mapping
keeps `attempt`, `done`, `dead` and `settlePending` as they are. A task may be
given up and acknowledged: that is what the code does when a slow worker acks
after the reaper has dead-lettered its task.

### StageHandshake

`files[t]` is the set of entries of a task directory. The framework's side is one
action per file operation; `os.RemoveAll` is unlink by unlink. The shim's event
loop runs a callback to its end before the next one, but its file operations
interleave with the framework's and the children's, so `isEligible` takes two
steps (`SeeReady`, `CheckMarkers`) before `Spawn`. `in/` and `order.json` are one
entry, since the write is a rename. `ShimCrash` stands for a crash and for a
shutdown whose grace period is over. Pricing is reduced to the set `Valid`.

### LeaderLease and Settlement

Time is counted in RetryPeriods, and ages are kept instead of instants.
`Punctual` says that an elector is not frozen between its renew deadline and
OnStoppedLeading; leader election promises nothing without it. OnStartedLeading
is a goroutine (`starting`) that may run after OnStoppedLeading. `Settlement`
adds one sweeper per pod that reads `Reports(p)` of its elector, and every Redis
call of a sweep is a step that may fail, be applied with its reply lost, or be
the last one before a crash. `worked` counts, per pod, the flag writes that stand
for the finalize work.

### LogShipping and LogRing

A line is two bytes, text and newline, so a read may end in the middle of a line.
Every `await` of `collectBatch` and `pushToSink` ends a step, for the poll loop's
tick and the drain's tick alike. `ReadFails` is a failing readdir, stat, open
or read; a store that happens after the client's timeout is `PushFails`
from "ok". order-api never truncates its files: truncation is an outside log
rotation that the shipper handles. `LogRing` is the ring with one lock acquisition
per record and `history`, the records in the order of the lock; `Query` is
handleQuery's loop over a snapshot, newest record first. A value is one that holds
a line: an empty one (`log-sink/main.go:112-114`) never reaches the ring.

### ScatterGather

One request: handlers share no state. The two leaves differ as the code does:
the Python leaf answers one line per distinct SKU and refuses a body without
items, the Node leaf answers one line per item. `merge_availability` is a set of
operators checked against the stock. A list of lines is a function from the items
of the query it answers, so a line keeps its place; a sum of quantities is a count
of units. Prices are whole cents, where rounding is exact.

### CacheAmbassador

A client's stream is a sequence of items (a key for a keyed command, and the
kinds of command the ambassador answers or rejects itself); `filled` and `read`
say how far the buffered reader and `readCommand` are in it, since the flush
depends on what is buffered. A backend connection has the commands on their way
(`req`) and the replies on their way back (`rep`), and nothing that tells which
reply belongs to which command, as in RESP. `Forward`, `ReadReply`, `ReuseFails`,
`Dial`, `DialFails` and `FreshFails` are the paths through `pool.do`. A connection
that is given up keeps what was written on it until the shard runs it or the bytes
are lost, so a command may run after its answer. Shards and clients are external:
they may do anything the protocol lets them do. An item arrives as a whole, so
a reader never waits in the middle of a command with replies unflushed, and the
replies to a batch fit into the write buffer.

**CacheService** is the promise to order-api: a command is accepted, runs at most
twice, and is answered once, with its own reply, which means it has run, or with
an error, which says nothing. A reply to another command maps to the status
"crossed", which no step of CacheService produces.

### OrderApi

One handler per request, one action per critical section or outgoing call. The
`/enqueue` call is a second actor: the coordinator may apply its transaction while
order-api waits, after it gave up, or with the reply lost. `Metrics` is the
adapter's translation of one snapshot, for whichever moment it is taken at.
What cache and inventory answer is a choice. The latency sum and the uptime are
left out: nothing relates them to other state.

## 3. Runs

| run | shows | instance |
|---|---|---|
| `wq_faults` | `TypeOK`, `LostOnlyByAbandon`, `RetryBudget`, `ImplementsLifecycle` under all four fault classes | 1 task, 2 workers, 2 coordinators, 3 attempts; 1.4 M states |
| `wq_rollout` | `ResolvedOrAbandoned`, `Quiesces` through crashes and SIGTERM | 1 task, 2 workers, 1 coordinator, 2 attempts; 160 k |
| `wq_sigterm_loss` | *violation* of `NoTaskLost` | |
| `wq_restart_strands` | *violation* of `ResolvedAfterCrashes` | |
| `hs_handshake` | `TypeOK`, `OneMarker`, `AcceptOnlyValid`, `StageAnswers` | a valid and an invalid order, each given twice, 1 container crash, killed children; 570 k |
| `hs_stale_marker` | *violation* of `RejectOnlyInvalid` | no crash, no killed child |
| `st_settle` | `TypeOK`, `PendingOrFinalized`, `FinalizeOncePerPod`, `OverlapOnlyWhileStopping`, `EventuallySettled` | 2 pods, 1 order, 1 elector fault, 1 failed call, lost reply or sweeper crash; 430 k |
| `ls_ship` | `TypeOK`, `CommittedIsStored`, `DrainShipsAll`, `EventuallyShipped` | 1 file, 2 lines, 1 truncation, 1 failed push, 1 failed stat or read, 1 crash, bodies of 2 lines rejected; 520 k |
| `lr_ring` | `TypeOK`, `SnapshotIsRecent`, `AcknowledgedIsFound` | ring of 3, 3 concurrent pushes of up to 3 values; 17 k |
| `sg_verdict` | `TypeOK`, `VerdictMatchesStock`, `PartialIsExact`, `AllocationIsBest`, `Answered` | 2 shards, 2 SKUs, 625 catalogues, 74 queries; 1.0 M |
| `ca_cache` | `TypeOK`, `PoolIsClean`, `NothingWithheld`, `ImplementsCache`, `Answered` | 2 clients (one sends any 2 items, one a keyed command), 2 shards, pools of 1, 3 connections; 230 k |
| `oa_orders` | `TypeOK`, `ScrapeConsistent`, `AnsweredIsCounted`, `TaskMatchesAnswer`, `Completes` | 2 concurrent requests, 2 buckets, 1 crash, drain at any time; 87 k |

Why the bounds are enough. Tasks do not interact except for their place in a list
that is a bag here; two workers and two coordinators give every pair of actors
on one task, and three attempts a requeue before, at and after the limit. In the
handshake two runs of a task are what a stale child needs. One order and two pods
give the overlap; one failed call is enough to leave an order half done (a second
handover of an order is left to the theorems). Two
lines against a body limit of one make a rejected batch; that an accepted batch
has several lines is left to the theorems, which hold for any `BatchMax` and
`MaxBody` (with 3 lines and bodies of 2 there are 3.2 M states, whose liveness
takes longer than a run may). A ring of three is lapped three times. Two clients on one key contend for a pool of one, so a
connection is reused, refused at a full pool, retried and given up with its reply
still to come; the third connection is the one a retry dials while the others are
busy. Requests meet only in the counters, which add up: two of them show every
pair of critical sections, with a scrape anywhere between. For safety none of
these arguments is needed any more: every invariant of the passing runs and both
refinements are theorems. For liveness they are what there is.

`hs_*`, `ls_*`, `lr_*`, `sg_*`, `ca_*` and `oa_*` do not check deadlock: the pod
has no more work, the process ends, or the request is answered. The others never
stop.

**Fairness.** *WorkQueue*: a loop that runs takes its next step (`runStage` ends at
`PROCESS_TIMEOUT_S`), a waiting task is claimed if workers keep claiming (FIFO),
an unrenewed deadline passes and the key of a process that is gone expires (both
are clocks), and a reaper's ticks are not all cut short. Nothing is assumed of
faults or heartbeats. *StageHandshake*: both loops and the children run; giving
up is never forced, so a poll that ends was answered. *Settlement*: electors,
clock and sweeps go on; a leadership lasts at least RenewDeadline, longer than a
goroutine needs to be scheduled and longer than a sweep interval, hence strong
fairness of the start callback and of a successful poll. Renewals are not
assumed. *LogShipping*: the event loop runs what is ready and `FLUSH_MS` passes;
failures are bounded by the constants. *ScatterGather*: only that every call has
a timeout. *CacheAmbassador*: a handler goes on; `opTimeout` and `dialTimeout`
end its calls; nothing is assumed of shards. *OrderApi*: a handler goes on once
the body is there (the server has no read timeout), and the client's timeout ends
its calls; nothing is assumed of the coordinator. The server has no write timeout
either (`main.go:92-93`, `writeJSON`): that `WriteResponse` ends rests on the answer
to an order being small enough for the kernel's buffers, or on a client that reads.

## 4. Proofs

Every invariant of the passing runs, and both refinements, are theorems of the
specifications, for every value of the constants. The assumptions are those the
modules name: `MAX_ATTEMPTS`, `Cap` and the number of leaves positive,
RenewDeadline positive and below LeaseDuration, null values outside the sets,
bounds that are numbers; catalogues and queries of the shape the leaves and the
root read; at least one shard, keys told from the other kinds of item, and finitely
many connections and requests (a pool's size and a counter are cardinalities).
Nothing finite is assumed of tasks, workers, pods, files or clients.

Each proof has the same shape: an inductive invariant whose parts are named, one
lemma per part with one step per action, and the theorem from their conjunction.

* **WorkQueue** - `TypeCorrect`; `OnlyAbandonLoses`: `LostOnlyByAbandon` for any
  tasks, workers, coordinators and faults. It is not inductive alone: `Skip`
  removes a copy, harmless only because the task is in `done` (`SkipDone`), so
  `TraceInv == TypeOK /\ SkipDone /\ LostOnlyByAbandon`. `Spare` in `Traceable`
  excludes the copy a worker is about to remove itself, which is what makes the
  visibility entry carry the task while it is worked on. `CrashesLoseNothing`:
  without SIGTERM and Redis failures nothing is abandoned (`NeverAbandons`), so
  `NoTaskLost`. `QueueImplementsLifecycle`: every step of the queue is one of
  `TaskLifecycle` or leaves its variables alone. The reaper must never charge a
  task that was not accepted, nor a worker acknowledge one, so the invariant
  (`LifeInv`) says that an id with no attempt is in no list, deadline, heartbeat
  or scan, and that what is dead has used up its attempts. `BudgetIsKept`
  (`RetryBudget`) adds `WithinBudget`: the copies of a task, as a set of pairs of
  a worker and a number, are finitely many, at most its attempts and at most
  `MaxAttempts`; a requeue adds one copy and one attempt, a claim moves one.
* **StageHandshake** - `TypeCorrect`; `AnswerUnambiguous`: while the shim is
  committed to a request or has a child for it there is no marker (`Unanswered`),
  which gives `OneMarker`; `SuccessIsValid`: from exit code to verdict, success
  means a valid order (`ValidInv`).
* **LeaderLease** - `OverlapIsTransient`: with punctual electors a leading elector
  holds the Lease, which is no older than its last renewal, itself no older than
  RenewDeadline (`LeaderHolds`); a standby waits for LeaseDuration, which is
  longer, so two pods never both lead. A standby has no start callback pending and
  no `isLeader` left over, since a process that has led ends before it could stand
  again, so whoever overlaps with a leader is past its renew loop.
* **Settlement** - `SettlementImplementsLease`: the composition implements
  `LeaseSpec`, so `SettlementOverlap` follows; `TypeCorrect`; `NoOrderForgotten`:
  an order is removed only when finalized (`RemovesFinalized`), with no assumption
  on leadership at all; `NoPodFinalizesTwice`: what a pod has worked on is flagged,
  and is not what it has read as unflagged (`WorkIsFlagged`).
* **LogShipping** - `CommittedAreStored` and `DrainShipsEverything`. Two ticks read
  and write the same offsets, so the invariant follows a line through both:
  an offset is the end of a stored line (`Offsets`), a read starts where all before
  is stored (`Reading`), what the poll loop is going to commit is stored or in its
  batch (`Batch`), a 2xx means the batch is stored (`Sent`). `Draining` says where a
  line that was complete at SIGTERM stands while the drain runs: in a file still to
  be looked at, in the bytes about to be read, in the batch, or stored.
* **LogRing** - `TypeCorrect`; `SnapshotCorrect`: `RingInv` says which record of
  `history` each slot holds, on a lap and across the wrap. `AcknowledgedIsVisible`
  (`AcknowledgedIsFound`): `OrderInv` says that a push's records are in `history`
  once each and in order; `MatchesLoop` and `LoopFinds` what the query's loop
  returns.
* **ScatterGather** - `PartialMeansMissing`, `AllocationIsOptimal`,
  `VerdictIsSound`, from what an answering leaf has sent (`Bodies`) and that the
  answer is `Merge` of it (`Replied`). The weight is in the lemmas on the
  operators: a leaf's lines show what it holds (`LeafLine`, `LeafShows`), the
  candidates for a SKU are its answering holders (`CandidateHolds`,
  `HolderIsCandidate`), `Best` is first in a total order (`BestIsFirst`), and the
  units offered map onto all those in stock if every leaf answered, one to one if
  no SKU is named twice or only Python leaves answered (`OfferedIsStocked`).
* **CacheAmbassador** - `PoolStaysClean`, `NothingIsWithheld`, `NeverThreeRuns` and
  `Refinement` of `CacheService`. RESP replies carry no id, so the point is that a
  connection carries one command at most (`OneAtATime`), that of the handler which
  holds it (`HeldIsOwn`), and nothing once it is pooled; then the reply that is read
  is the command's own (`AnswerIsOwn`). `RunsTwice` counts runs together with the
  connections on which the command still waits.
* **OrderApi** - `ScrapeIsConsistent`, `AnsweredAreCounted`, `TaskMatches`. Each
  counter is related to the cardinality of the set of handlers between two of
  their critical sections (`Orders`, `Records`, `Answers`); `Calls` follows the
  `/enqueue` call and its late or lost answer.

The library's induction theorems take an operator as parameter, which the provers
cannot instantiate. Where a proof needs induction over numbers (the least candidate
of a merge, the loop of a query) it takes a least counterexample instead: any
non-empty set of naturals has a least element (`LeastNatural`, from `WFMin` and
`NatLessThanWellFounded`).

Model-checked only: the liveness properties `ResolvedOrAbandoned`, `Quiesces`,
`StageAnswers`, `EventuallySettled`, `EventuallyShipped`, both `Answered` and
`Completes`, because fairness is out of the prover's reach. `TotalPrice` is a fold
over the lines that no property speaks about. The three violations are
counterexamples and need no proof.

## 5. What the checks found

Three runs violate what the repository says of itself (`findings`):

1. `wq_sigterm_loss` - after a ZADD that failed because SIGTERM cancelled the
   context, the task is removed from the processing list with a fresh context
   (`workqueue-framework/main.go:235`) and is then nowhere.
2. `wq_restart_strands` - a container that dies after BLMOVE and is restarted in
   its pod renews the same liveness key; no reaper pass finds the task. (It is not
   lost: `NoTaskLost` holds, it waits until the pod goes away.)
3. `hs_stale_marker` - the child of a timed-out attempt answers the next attempt
   with error.failed, and a valid order is acked as failed.

Smaller observations, made with these models and left without a run:

* A requeue script checks membership in `inflight`, not the score, so a deadline
  renewed after the scan does not save the task from a requeue; and the scripts
  set `status` without looking at `done`. Both are harmless for resolution: the
  gate of the next claim skips a done task (`Quiesces` covers them).
* The shim's `mkdir` with `recursive` may create the directory of a task that was
  just cleaned up, and `response.done` may appear in a directory reset after its
  result was written.
* `leaseValidUntil` moves forward by a ticker, not with renewals, so the
  fail-closed test of `is_leader` rests on OnStoppedLeading. `RunOrDie` also
  returns when a renewal is lost, and the elector exits.
* HGET, the work and HSET are three steps, so two pods that overlap in a failover
  can both do the work of one order, although `src/README.md:258-260` says that
  "finalize is idempotent so a failover overlap can't double-settle". Today the
  work is the flag, so nothing is lost; `FinalizeOncePerPod` is what the code does
  guarantee.
* A backlog above the sink's body limit is rejected for ever, because a batch is
  never split: `EventuallyShipped` excepts it as `Oversized`. A file that is
  truncated and grows back to the old offset is read from there, so the property
  is about files before their first truncation; a read failure in the drain makes
  it end as done, so `DrainShipsAll` promises nothing after one.
* An order answered with 502 may have a task and be fulfilled
  (`TaskMatchesAnswer` says "never two", not "none"); a retry by the client is a
  new order with a new id.
* The order handler reads the body without a server timeout: a client that never
  finishes sending keeps a handler, and the in-flight gauge, for as long as it
  likes. `Completes` starts when the body is there, and no property is about the
  wait before.
* A blank line at the end of a pipelined batch makes the ambassador wait for more
  input without flushing the replies before it (`handleConn`'s `continue` skips
  the flush). No Redis client sends one; `NothingWithheld` and `Answered` except it.
* A command answered with an error, or retried, may run later, after its answer
  and after other commands of the client. For the cart entries, all equal, this is
  harmless.
* go-redis keeps its connections open, so the ambassador's drain lasts the whole
  `drainTimeout` whenever order-api is alive beside it.
* Lines the sink has acknowledged are gone when it restarts, and the shipper does
  not send them again.
* A SKU named twice is reported twice by the Node leaf and added up by merge, so
  such a query may be called fulfillable when it is not; `VerdictMatchesStock` says
  "no false fulfillable" only without repeats or with answers from Python leaves
  alone, and "no false refusal" of every query. merge allocates
  the whole quantity to the best shard even if that holds less.

## 6. Not modelled

* Byte-level RESP parsing, JSON and Prometheus text: formatting without state,
  represented by whole commands, garbled ones and broken replies.
* Health endpoints, logging, configuration parsing, the label map of the sink.
* Manifests and scripts, except for what they imply: replicas, restarts, SIGTERM.
* Redis and client-go themselves, except as external actions.

## 7. Plan

Done in this order, most important behaviour first: WorkQueue, StageHandshake,
LeaderLease, Settlement, LogShipping, LogRing, ScatterGather, CacheAmbassador with
CacheService, OrderApi with the metrics adapter, TaskLifecycle. The
safety of all of them is proved. What could still be added:

1. Action properties as theorems: an offset moves back only by a reset or a new
   process; `finalized` and `done` only grow.
2. A proof that `CacheAmbassador` and `OrderApi` compose, with the cart's SET as a
   command of the cache.
