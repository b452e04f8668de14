------------------------------ MODULE OrderApi ------------------------------
(***************************************************************************)
(* order-api's POST /orders pipeline, the native counters it keeps, and     *)
(* what the metrics-adapter beside it shows of them.  Each request is a     *)
(* goroutine; every operation on the counters is a critical section of its  *)
(* own, so a scrape may fall between any two of them.  The calls to         *)
(* inventory-root and to the coordinator end after the client's timeout of  *)
(* 5 s at the latest, but the coordinator may go on with a request that     *)
(* order-api has given up, and a transaction may be applied whose reply is  *)
(* lost.                                                                    *)
(*                                                                          *)
(* Abstractions.  What the cache and inventory-root answer is a choice; the *)
(* cache write-through changes nothing here.  A latency is one of a few     *)
(* numbers.  A disconnecting client cancels the calls made for it, which    *)
(* then fail as on a timeout.  A task is known by its order.                *)
(***************************************************************************)
EXTENDS Naturals, FiniteSets

CONSTANTS
    Requests,       \* HTTP requests to the API; each order gets a fresh id
    Buckets,        \* latencyBucketsMs
    Latencies,      \* the latencies a request may have
    Inf,            \* the bound of the +Inf bucket
    MaxCrashes      \* bound: crashes of the order-api container

ASSUME RequestsAssumption == IsFiniteSet(Requests)
ASSUME BucketsAssumption ==
    /\ Buckets \subseteq Nat /\ Latencies \subseteq Nat /\ Inf \in Nat
    /\ \A b \in Buckets \cup Latencies : b < Inf
ASSUME MaxCrashesAssumption == MaxCrashes \in Nat

Codes == {200, 201, 400, 405, 502}

VARIABLES
    phase,      \* of order-api: "up", "draining", "stopped" or "crashed"
    crashes,
    stats,      \* the counters of the running process
    rpc,        \* where the handler of each request stands
    outcome,    \* the status it is going to answer with, 0 before that
    response,   \* the status written to the client, 0 if none was
    call,       \* its /enqueue call: "none", "open" at the coordinator, or
                \* answered "ok" or "failed"
    task        \* how many tasks the coordinator has pushed for it

vars == <<phase, crashes, stats, rpc, outcome, response, call, task>>

Counting == {"body", "cart", "avail", "enqueue", "wait", "count"}
Active   == Counting \cup {"write", "done", "record"}

\* newStats
NewStats == [received |-> 0, placed |-> 0, rejected |-> 0, inFlight |-> 0,
             hits |-> 0, misses |-> 0, count |-> 0,
             http |-> [c \in Codes |-> 0], buckets |-> [b \in Buckets |-> 0]]

\* One type invariant: the process, its requests and their calls.
TypeOK ==
    /\ phase \in {"up", "draining", "stopped", "crashed"}
    /\ crashes \in 0 .. MaxCrashes
    /\ DOMAIN stats = DOMAIN NewStats
    /\ \A f \in DOMAIN stats \ {"http", "buckets"} : stats[f] \in 0 .. Cardinality(Requests)
    /\ stats.http \in [Codes -> Nat] /\ stats.buckets \in [Buckets -> Nat]
    /\ rpc \in [Requests -> Active \cup {"new", "end", "cut"}]
    /\ outcome \in [Requests -> Codes \cup {0}]
    /\ \A r \in Requests : rpc[r] \in {"count", "write", "done", "record", "end"} => outcome[r] # 0
    /\ response \in [Requests -> Codes \cup {0}]
    /\ call \in [Requests -> {"none", "open", "ok", "failed"}]
    /\ task \in [Requests -> Nat]

Init ==
    /\ phase = "up" /\ crashes = 0
    /\ stats = NewStats
    /\ rpc = [r \in Requests |-> "new"]
    /\ outcome = [r \in Requests |-> 0]
    /\ response = [r \in Requests |-> 0]
    /\ call = [r \in Requests |-> "none"]
    /\ task = [r \in Requests |-> 0]

Goto(r, label) == rpc' = [rpc EXCEPT ![r] = label]

\* Mutant: the outcome is not kept.
DecideForgets(r, code) ==
    /\ UNCHANGED outcome
    /\ Goto(r, "count")

\* The handler has its outcome: what is left is to count it and to answer.
Decide(r, code) ==
    /\ outcome' = [outcome EXCEPT ![r] = code]
    /\ Goto(r, "count")

Serving == phase \in {"up", "draining"}

-----------------------------------------------------------------------------
(* handleOrders *)

\* Mutant: the gauge is raised only once the order is known to be valid.
OrderReceivedLate(r) ==
    /\ phase = "up" /\ rpc[r] = "new"
    /\ stats' = [stats EXCEPT !.received = @ + 1]
    /\ Goto(r, "body")
    /\ UNCHANGED <<phase, crashes, outcome, response, call, task>>

\* orderReceived
OrderReceived(r) ==
    /\ phase = "up" /\ rpc[r] = "new"
    /\ stats' = [stats EXCEPT !.received = @ + 1, !.inFlight = @ + 1]
    /\ Goto(r, "body")
    /\ UNCHANGED <<phase, crashes, outcome, response, call, task>>

\* /healthz, or another method than POST: answered, not counted as an order.
OtherRequest(r) ==
    /\ phase = "up" /\ rpc[r] = "new"
    /\ \E code \in {200, 405} :
        /\ outcome' = [outcome EXCEPT ![r] = code]
        /\ response' = [response EXCEPT ![r] = code]
    /\ Goto(r, "record")
    /\ UNCHANGED <<phase, crashes, stats, call, task>>

\* The body is read and checked.
Validate(r) ==
    /\ rpc[r] = "body"
    /\ \/ Decide(r, 400)
       \/ Goto(r, "cart") /\ UNCHANGED outcome
    /\ UNCHANGED <<phase, crashes, stats, response, call, task>>

\* readCart: a hit, or a miss, which a cache error counts as too.
ReadCart(r) ==
    /\ rpc[r] = "cart"
    /\ \E f \in {"hits", "misses"} : stats' = [stats EXCEPT ![f] = @ + 1]
    /\ Goto(r, "avail")
    /\ UNCHANGED <<phase, crashes, outcome, response, call, task>>

\* checkAvailability: an error, not fulfillable, or on to the queue.
CheckAvailability(r) ==
    /\ rpc[r] = "avail"
    /\ \/ \E code \in {502, 200} : Decide(r, code)
       \/ Goto(r, "enqueue") /\ UNCHANGED outcome
    /\ UNCHANGED <<phase, crashes, stats, response, call, task>>

\* enqueue: the POST leaves, or cannot be made.
PostEnqueue(r) ==
    /\ rpc[r] = "enqueue"
    /\ \/ /\ call' = [call EXCEPT ![r] = "open"]
          /\ Goto(r, "wait")
          /\ UNCHANGED outcome
       \/ Decide(r, 502) /\ UNCHANGED call
    /\ UNCHANGED <<phase, crashes, stats, response, task>>

\* The coordinator answers while order-api is still waiting.
EnqueueReturns(r) ==
    /\ rpc[r] = "wait" /\ call[r] \in {"ok", "failed"}
    /\ Decide(r, IF call[r] = "ok" THEN 201 ELSE 502)
    /\ UNCHANGED <<phase, crashes, stats, response, call, task>>

\* Mutant: no timeout on the client.
EnqueueTimesOutNever(r) ==
    /\ rpc[r] = "wait" /\ call[r] = "failed"
    /\ Decide(r, 502)
    /\ UNCHANGED <<phase, crashes, stats, response, call, task>>

\* Mutant: a call that timed out is made again.
EnqueueTimesOutRetries(r) ==
    /\ rpc[r] = "wait"
    /\ Goto(r, "enqueue")
    /\ UNCHANGED <<phase, crashes, stats, outcome, response, call, task>>

\* The client's timeout, a lost connection or a cancelled request: an error,
\* whatever becomes of the call at the coordinator.
EnqueueTimesOut(r) ==
    /\ rpc[r] = "wait"
    /\ Decide(r, 502)
    /\ UNCHANGED <<phase, crashes, stats, response, call, task>>

\* Mutant: the response is written before the order is counted.
CountAfterWrite(r) ==
    /\ rpc[r] = "count"
    /\ response' = [response EXCEPT ![r] = outcome[r]]
    /\ Goto(r, "write")
    /\ UNCHANGED <<phase, crashes, stats, outcome, call, task>>

\* orderPlaced or orderRejected
Count(r) ==
    /\ rpc[r] = "count"
    /\ stats' = IF outcome[r] = 201 THEN [stats EXCEPT !.placed = @ + 1]
                                    ELSE [stats EXCEPT !.rejected = @ + 1]
    /\ Goto(r, "write")
    /\ UNCHANGED <<phase, crashes, outcome, response, call, task>>

\* writeJSON
WriteResponse(r) ==
    /\ rpc[r] = "write"
    /\ response' = [response EXCEPT ![r] = outcome[r]]
    /\ Goto(r, "done")
    /\ UNCHANGED <<phase, crashes, stats, outcome, call, task>>

\* The deferred orderDone.
OrderDone(r) ==
    /\ rpc[r] = "done"
    /\ stats' = [stats EXCEPT !.inFlight = IF @ > 0 THEN @ - 1 ELSE @]
    /\ Goto(r, "record")
    /\ UNCHANGED <<phase, crashes, outcome, response, call, task>>

\* withAccessLog, when the handler has returned: recordHTTP.
RecordHTTP(r) ==
    /\ rpc[r] = "record"
    /\ \E lat \in Latencies :
        stats' = [stats EXCEPT
            !.http[outcome[r]] = @ + 1,
            !.count = @ + 1,
            !.buckets = [b \in Buckets |-> IF lat <= b THEN @[b] + 1 ELSE @[b]]]
    /\ Goto(r, "end")
    /\ UNCHANGED <<phase, crashes, outcome, response, call, task>>

-----------------------------------------------------------------------------
\* The coordinator's handleEnqueue, also after order-api has given up: the
\* transaction is applied and answered, applied with its reply lost, or not
\* applied.
HandleEnqueue(r) ==
    /\ call[r] = "open"
    /\ \/ /\ task' = [task EXCEPT ![r] = @ + 1]
          /\ \E a \in {"ok", "failed"} : call' = [call EXCEPT ![r] = a]
       \/ /\ call' = [call EXCEPT ![r] = "failed"]
          /\ UNCHANGED task
    /\ UNCHANGED <<phase, crashes, stats, rpc, outcome, response>>

-----------------------------------------------------------------------------
(* The process.                                                             *)

\* The handlers that are left end with the process.
CutHandlers == rpc' = [r \in Requests |-> IF rpc[r] \in Active THEN "cut" ELSE rpc[r]]

\* SIGTERM, or a listener that failed: no request is accepted any more.
Shutdown ==
    /\ phase = "up"
    /\ phase' = "draining"
    /\ UNCHANGED <<crashes, stats, rpc, outcome, response, call, task>>

\* The API listener has drained, or 25 s have passed.
Stop ==
    /\ phase = "draining"
    /\ phase' = "stopped"
    /\ CutHandlers
    /\ UNCHANGED <<crashes, stats, outcome, response, call, task>>

Crash ==
    /\ Serving /\ crashes < MaxCrashes
    /\ phase' = "crashed" /\ crashes' = crashes + 1
    /\ CutHandlers
    /\ UNCHANGED <<stats, outcome, response, call, task>>

\* The kubelet starts the container again: the counters begin at zero.
Restart ==
    /\ phase = "crashed"
    /\ phase' = "up"
    /\ stats' = NewStats
    /\ UNCHANGED <<crashes, rpc, outcome, response, call, task>>

-----------------------------------------------------------------------------
HandlerStep(r) ==
    /\ Serving
    /\ \/ Validate(r) \/ ReadCart(r) \/ CheckAvailability(r) \/ PostEnqueue(r)
       \/ EnqueueReturns(r) \/ EnqueueTimesOut(r) \/ Count(r) \/ WriteResponse(r)
       \/ OrderDone(r) \/ RecordHTTP(r)

Next ==
    \/ \E r \in Requests : OrderReceived(r) \/ OtherRequest(r) \/ HandlerStep(r)
                           \/ HandleEnqueue(r)
    \/ Shutdown \/ Stop \/ Crash \/ Restart

Spec == Init /\ [][Next]_vars

\* A handler is a goroutine, and each call it makes ends by its timeout.  The
\* server has no read timeout: nothing is assumed of a client that has not sent
\* its whole body, and the coordinator owes nothing.
FairSpec == Spec /\ \A r \in Requests : WF_vars(rpc[r] # "body" /\ HandlerStep(r))

-----------------------------------------------------------------------------
(* GET /stats and the metrics-adapter: a stateless view of one snapshot.    *)

\* snapshot, under the lock: all the counters at one moment.
Snapshot == stats

\* histogram: the native buckets, and +Inf from the count.
Histogram(s) ==
    [b \in Buckets \cup {Inf} |-> IF b = Inf THEN s.count ELSE s.buckets[b]]

\* build_metrics: one snapshot transformed, or scrape_up 0 when order-api does
\* not answer.
Metrics ==
    IF Serving
    THEN [up |-> 1, native |-> Snapshot, le |-> Histogram(Snapshot)]
    ELSE [up |-> 0]

-----------------------------------------------------------------------------
(* Properties *)

\* What Prometheus may rely on in every scrape, whatever handlers are between
\* two of their critical sections: the orders not yet placed or rejected are in
\* flight, no more requests are recorded with a status than orders were counted
\* with it, and the histogram is cumulative up to the number of requests ("so a
\* scrape sees a self-consistent snapshot").
ScrapeConsistent ==
    Metrics.up = 1 =>
        LET s == Metrics.native
            h == Metrics.le
        IN  /\ s.placed + s.rejected <= s.received
            /\ s.received <= s.placed + s.rejected + s.inFlight
            /\ s.inFlight <= s.received
            /\ s.hits + s.misses <= s.received
            /\ s.http[201] <= s.placed
            /\ s.http[400] + s.http[502] <= s.rejected
            /\ s.http[200] + s.http[201] + s.http[400] + s.http[405] + s.http[502] = h[Inf]
            /\ \A a, b \in DOMAIN h : a <= b => h[a] <= h[b]

\* A client that has its answer finds it counted: there are at least as many
\* orders placed, and rejected, as this process has told clients.
AnsweredIsCounted ==
    Serving /\ crashes = 0 =>
        /\ Cardinality({r \in Requests : response[r] = 201}) <= stats.placed
        /\ Cardinality({r \in Requests : response[r] \in {400, 502}}) <= stats.rejected

\* A placed order has exactly one task, and an order refused for a reason of its
\* own (invalid, not fulfillable) has none.  One whose enqueue call failed may
\* have a task all the same, but never two.
TaskMatchesAnswer ==
    \A r \in Requests :
        /\ task[r] <= 1
        /\ outcome[r] = 201 => task[r] = 1
        /\ outcome[r] \in {200, 400, 405} => task[r] = 0
        /\ task[r] = 1 => rpc[r] = "cut" \/ rpc[r] = "wait" \/ outcome[r] \in {201, 502}

\* Every request whose body has arrived is answered, recorded and no longer in
\* flight, unless the process ends first: no call is waited for without a timeout.
Completes ==
    \A r \in Requests : rpc[r] \notin {"new", "body"} ~> rpc[r] \in {"end", "cut"}
=============================================================================
