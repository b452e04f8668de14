--------------------------- MODULE OrderApiProofs ---------------------------
(* Proofs about OrderApi, for any requests, buckets, latencies and bound on    *)
(* crashes: what a scrape may rely on, what a client that was answered may     *)
(* rely on, and that an order and its task agree.                              *)
EXTENDS OrderApi, FiniteSetTheorems, TLAPS

USE RequestsAssumption, BucketsAssumption, MaxCrashesAssumption

-----------------------------------------------------------------------------
(* The inductive invariant.                                                 *)

\* The counters as a record of numbers.
StatsType ==
    [received : Nat, placed : Nat, rejected : Nat, inFlight : Nat, hits : Nat,
     misses : Nat, count : Nat, http : [Codes -> Nat], buckets : [Buckets -> Nat]]

Types ==
    /\ phase \in {"up", "draining", "stopped", "crashed"}
    /\ crashes \in 0 .. MaxCrashes
    /\ stats \in StatsType
    /\ rpc \in [Requests -> Active \cup {"new", "end", "cut"}]
    /\ outcome \in [Requests -> Codes \cup {0}]
    /\ response \in [Requests -> Codes \cup {0}]
    /\ call \in [Requests -> {"none", "open", "ok", "failed"}]
    /\ task \in [Requests -> Nat]

\* A handler exists only in a running process; it has no outcome before it
\* counts one, and has one from there on.
Before == {"body", "cart", "avail", "enqueue"}
After  == {"count", "write", "done", "record", "end"}
Handlers ==
    \A r \in Requests :
        /\ ~ Serving => rpc[r] \notin Active
        /\ rpc[r] \in Before \cup {"new", "wait"} => outcome[r] = 0
        /\ rpc[r] \in After => outcome[r] # 0

\* The enqueue call of an order: when it is made, what it leaves, and what
\* order-api makes of its answer.
Calls ==
    \A r \in Requests :
        /\ rpc[r] \in Before \cup {"new"} => call[r] = "none"
        /\ call[r] \in {"none", "open"} => task[r] = 0
        /\ call[r] = "ok" => task[r] = 1
        /\ task[r] <= 1
        /\ outcome[r] = 201 => call[r] = "ok"
        /\ outcome[r] \in {200, 400, 405} => call[r] = "none"
        /\ call[r] # "none" => rpc[r] \in {"wait", "cut"} \/ outcome[r] \in {201, 502}

\* The requests by what has been counted of them.
Arrived   == {r \in Requests : rpc[r] # "new"}
Uncounted == {r \in Requests : rpc[r] \in Counting}
Counted   == {r \in Requests : rpc[r] \in {"write", "done"}}
NoCart    == {r \in Requests : rpc[r] \in {"body", "cart"}}
Recorded  == {r \in Requests : rpc[r] = "end"}
Unrecorded(codes) ==
    {r \in Requests : rpc[r] \in {"write", "done", "record"} /\ outcome[r] \in codes}
Untold(codes) == {r \in Requests : rpc[r] = "write" /\ outcome[r] \in codes}
Told(codes) == {r \in Requests : response[r] \in codes}

\* The orders: each is counted on arrival and, until it is placed or rejected,
\* is one of the handlers at work.
Orders ==
    /\ stats.received <= Cardinality(Arrived)
    /\ stats.placed + stats.rejected + Cardinality(Uncounted) <= stats.received
    /\ Cardinality(Counted) <= stats.placed + stats.rejected
    /\ stats.hits + stats.misses + Cardinality(NoCart) <= stats.received
    /\ stats.inFlight <= Cardinality(Requests)
    /\ Serving => /\ stats.received = stats.placed + stats.rejected + Cardinality(Uncounted)
                  /\ stats.inFlight = Cardinality(Uncounted) + Cardinality(Counted)

\* The requests: a status is recorded only after its order has been counted, and
\* a latency falls into every bucket above it.
Records ==
    /\ stats.count <= Cardinality(Recorded)
    /\ stats.http[201] + Cardinality(Unrecorded({201})) <= stats.placed
    /\ stats.http[400] + stats.http[502] + Cardinality(Unrecorded({400, 502})) <= stats.rejected
    /\ stats.http[200] + stats.http[201] + stats.http[400] + stats.http[405] + stats.http[502]
         = stats.count
    /\ \A a \in Buckets : stats.buckets[a] <= stats.count
    /\ \A a, b \in Buckets : a <= b => stats.buckets[a] <= stats.buckets[b]

\* The answers: before the first crash, what clients were told and what they are
\* about to be told has been counted.
Answers ==
    crashes = 0 =>
        /\ phase # "crashed"
        /\ Cardinality(Told({201})) + Cardinality(Untold({201})) <= stats.placed
        /\ Cardinality(Told({400, 502})) + Cardinality(Untold({400, 502})) <= stats.rejected

IInv == Types /\ Handlers /\ Calls /\ Orders /\ Records /\ Answers

-----------------------------------------------------------------------------
(* Lemmas on counting.                                                      *)

Bit(P) == IF P THEN 1 ELSE 0

\* Any set of requests has a cardinality, and a part of it one no greater.
LEMMA CountType ==
  ASSUME NEW S \in SUBSET Requests, NEW T \in SUBSET S
  PROVE  /\ IsFiniteSet(S) /\ Cardinality(S) \in Nat
         /\ Cardinality(T) \in Nat /\ Cardinality(T) <= Cardinality(S)
         /\ Cardinality(S) <= Cardinality(Requests) /\ Cardinality(Requests) \in Nat
<1>1. IsFiniteSet(S) /\ Cardinality(S) <= Cardinality(Requests)
  BY FS_Subset
<1>2. IsFiniteSet(T) /\ Cardinality(T) <= Cardinality(S)
  BY <1>1, FS_Subset
<1> QED
  BY <1>1, <1>2, FS_CardinalityType

\* When one request enters or leaves a set, its cardinality changes by one.
LEMMA CountChange ==
  ASSUME NEW S \in SUBSET Requests, NEW T \in SUBSET Requests, NEW r \in Requests,
         \A q \in Requests : q # r => (q \in S <=> q \in T)
  PROVE  /\ Cardinality(S) \in Nat /\ Cardinality(T) \in Nat
         /\ Cardinality(T) + Bit(r \in S) = Cardinality(S) + Bit(r \in T)
<1>1. /\ IsFiniteSet(S) /\ Cardinality(S) \in Nat
      /\ IsFiniteSet(T) /\ Cardinality(T) \in Nat
  BY CountType
<1>2. CASE r \in S /\ r \in T
  BY <1>1, <1>2, S = T DEF Bit
<1>3. CASE r \notin S /\ r \notin T
  BY <1>1, <1>3, S = T DEF Bit
<1>4. CASE r \in S /\ r \notin T
  <2>1. T = S \ {r}
    BY <1>4
  <2>2. Cardinality(T) = Cardinality(S) - 1
    BY <1>1, <1>4, <2>1, FS_RemoveElement
  <2> QED
    BY <1>1, <1>4, <2>2 DEF Bit
<1>5. CASE r \notin S /\ r \in T
  <2>1. T = S \cup {r}
    BY <1>5
  <2>2. Cardinality(T) = Cardinality(S) + 1
    BY <1>1, <1>5, <2>1, FS_AddElement
  <2> QED
    BY <1>1, <1>5, <2>2 DEF Bit
<1> QED
  BY <1>2, <1>3, <1>4, <1>5

\* The counts are numbers, before a step and after it.
LEMMA CountTypes ==
  /\ Cardinality(Arrived) \in Nat /\ Cardinality(Arrived') \in Nat
  /\ Cardinality(Uncounted) \in Nat /\ Cardinality(Uncounted') \in Nat
  /\ Cardinality(Counted) \in Nat /\ Cardinality(Counted') \in Nat
  /\ Cardinality(NoCart) \in Nat /\ Cardinality(NoCart') \in Nat
  /\ Cardinality(Recorded) \in Nat /\ Cardinality(Recorded') \in Nat
  /\ Cardinality(Requests) \in Nat
  /\ \A C : /\ Cardinality(Unrecorded(C)) \in Nat /\ Cardinality(Unrecorded(C)') \in Nat
            /\ Cardinality(Untold(C)) \in Nat /\ Cardinality(Untold(C)') \in Nat
            /\ Cardinality(Told(C)) \in Nat /\ Cardinality(Told(C)') \in Nat
<1>1. /\ Arrived \in SUBSET Requests /\ Arrived' \in SUBSET Requests
      /\ Uncounted \in SUBSET Requests /\ Uncounted' \in SUBSET Requests
      /\ Counted \in SUBSET Requests /\ Counted' \in SUBSET Requests
      /\ NoCart \in SUBSET Requests /\ NoCart' \in SUBSET Requests
      /\ Recorded \in SUBSET Requests /\ Recorded' \in SUBSET Requests
  BY DEF Arrived, Uncounted, Counted, NoCart, Recorded
<1>2. ASSUME NEW C
      PROVE  /\ Unrecorded(C) \in SUBSET Requests /\ Unrecorded(C)' \in SUBSET Requests
             /\ Untold(C) \in SUBSET Requests /\ Untold(C)' \in SUBSET Requests
             /\ Told(C) \in SUBSET Requests /\ Told(C)' \in SUBSET Requests
  BY DEF Unrecorded, Untold, Told
<1> QED
  BY <1>1, <1>2, CountType

\* A step of one handler changes each count by what it does to its own request.
LEMMA Counts ==
  ASSUME NEW r \in Requests,
         \A q \in Requests : q # r => /\ rpc'[q] = rpc[q] /\ outcome'[q] = outcome[q]
                                     /\ response'[q] = response[q]
  PROVE  /\ Cardinality(Arrived') + Bit(rpc[r] # "new") = Cardinality(Arrived) + Bit(rpc'[r] # "new")
         /\ Cardinality(Uncounted') + Bit(rpc[r] \in Counting)
              = Cardinality(Uncounted) + Bit(rpc'[r] \in Counting)
         /\ Cardinality(Counted') + Bit(rpc[r] \in {"write", "done"})
              = Cardinality(Counted) + Bit(rpc'[r] \in {"write", "done"})
         /\ Cardinality(NoCart') + Bit(rpc[r] \in {"body", "cart"})
              = Cardinality(NoCart) + Bit(rpc'[r] \in {"body", "cart"})
         /\ Cardinality(Recorded') + Bit(rpc[r] = "end") = Cardinality(Recorded) + Bit(rpc'[r] = "end")
         /\ \A C : /\ Cardinality(Unrecorded(C)')
                       + Bit(rpc[r] \in {"write", "done", "record"} /\ outcome[r] \in C)
                     = Cardinality(Unrecorded(C))
                       + Bit(rpc'[r] \in {"write", "done", "record"} /\ outcome'[r] \in C)
                   /\ Cardinality(Untold(C)') + Bit(rpc[r] = "write" /\ outcome[r] \in C)
                     = Cardinality(Untold(C)) + Bit(rpc'[r] = "write" /\ outcome'[r] \in C)
                   /\ Cardinality(Told(C)') + Bit(response[r] \in C)
                     = Cardinality(Told(C)) + Bit(response'[r] \in C)
<1>1. Cardinality(Arrived') + Bit(r \in Arrived) = Cardinality(Arrived) + Bit(r \in Arrived')
  <2>1. Arrived \in SUBSET Requests /\ Arrived' \in SUBSET Requests
    BY DEF Arrived
  <2>2. \A q \in Requests : q # r => (q \in Arrived <=> q \in Arrived')
    BY DEF Arrived
  <2> QED
    BY <2>1, <2>2, CountChange
<1>2. Cardinality(Uncounted') + Bit(r \in Uncounted) = Cardinality(Uncounted) + Bit(r \in Uncounted')
  <2>1. Uncounted \in SUBSET Requests /\ Uncounted' \in SUBSET Requests
    BY DEF Uncounted
  <2>2. \A q \in Requests : q # r => (q \in Uncounted <=> q \in Uncounted')
    BY DEF Uncounted
  <2> QED
    BY <2>1, <2>2, CountChange
<1>3. Cardinality(Counted') + Bit(r \in Counted) = Cardinality(Counted) + Bit(r \in Counted')
  <2>1. Counted \in SUBSET Requests /\ Counted' \in SUBSET Requests
    BY DEF Counted
  <2>2. \A q \in Requests : q # r => (q \in Counted <=> q \in Counted')
    BY DEF Counted
  <2> QED
    BY <2>1, <2>2, CountChange
<1>4. Cardinality(NoCart') + Bit(r \in NoCart) = Cardinality(NoCart) + Bit(r \in NoCart')
  <2>1. NoCart \in SUBSET Requests /\ NoCart' \in SUBSET Requests
    BY DEF NoCart
  <2>2. \A q \in Requests : q # r => (q \in NoCart <=> q \in NoCart')
    BY DEF NoCart
  <2> QED
    BY <2>1, <2>2, CountChange
<1>5. Cardinality(Recorded') + Bit(r \in Recorded) = Cardinality(Recorded) + Bit(r \in Recorded')
  <2>1. Recorded \in SUBSET Requests /\ Recorded' \in SUBSET Requests
    BY DEF Recorded
  <2>2. \A q \in Requests : q # r => (q \in Recorded <=> q \in Recorded')
    BY DEF Recorded
  <2> QED
    BY <2>1, <2>2, CountChange
<1>6. ASSUME NEW C
      PROVE  /\ Cardinality(Unrecorded(C)') + Bit(r \in Unrecorded(C))
                 = Cardinality(Unrecorded(C)) + Bit(r \in Unrecorded(C)')
             /\ Cardinality(Untold(C)') + Bit(r \in Untold(C))
                 = Cardinality(Untold(C)) + Bit(r \in Untold(C)')
             /\ Cardinality(Told(C)') + Bit(r \in Told(C))
                 = Cardinality(Told(C)) + Bit(r \in Told(C)')
  <2>1. Unrecorded(C) \in SUBSET Requests /\ Unrecorded(C)' \in SUBSET Requests
    BY DEF Unrecorded
  <2>2. \A q \in Requests : q # r => (q \in Unrecorded(C) <=> q \in Unrecorded(C)')
    BY DEF Unrecorded
  <2>3. Untold(C) \in SUBSET Requests /\ Untold(C)' \in SUBSET Requests
    BY DEF Untold
  <2>4. \A q \in Requests : q # r => (q \in Untold(C) <=> q \in Untold(C)')
    BY DEF Untold
  <2>5. Told(C) \in SUBSET Requests /\ Told(C)' \in SUBSET Requests
    BY DEF Told
  <2>6. \A q \in Requests : q # r => (q \in Told(C) <=> q \in Told(C)')
    BY DEF Told
  <2> QED
    BY <2>1, <2>2, <2>3, <2>4, <2>5, <2>6, CountChange, ZenonT(60)
<1>7. /\ Bit(r \in Arrived) = Bit(rpc[r] # "new") /\ Bit(r \in Arrived') = Bit(rpc'[r] # "new")
      /\ Bit(r \in Uncounted) = Bit(rpc[r] \in Counting)
      /\ Bit(r \in Uncounted') = Bit(rpc'[r] \in Counting)
      /\ Bit(r \in Counted) = Bit(rpc[r] \in {"write", "done"})
      /\ Bit(r \in Counted') = Bit(rpc'[r] \in {"write", "done"})
      /\ Bit(r \in NoCart) = Bit(rpc[r] \in {"body", "cart"})
      /\ Bit(r \in NoCart') = Bit(rpc'[r] \in {"body", "cart"})
      /\ Bit(r \in Recorded) = Bit(rpc[r] = "end") /\ Bit(r \in Recorded') = Bit(rpc'[r] = "end")
  BY DEF Arrived, Uncounted, Counted, NoCart, Recorded, Bit
<1>8. ASSUME NEW C
      PROVE  /\ Bit(r \in Unrecorded(C))
                 = Bit(rpc[r] \in {"write", "done", "record"} /\ outcome[r] \in C)
             /\ Bit(r \in Unrecorded(C)')
                 = Bit(rpc'[r] \in {"write", "done", "record"} /\ outcome'[r] \in C)
             /\ Bit(r \in Untold(C)) = Bit(rpc[r] = "write" /\ outcome[r] \in C)
             /\ Bit(r \in Untold(C)') = Bit(rpc'[r] = "write" /\ outcome'[r] \in C)
             /\ Bit(r \in Told(C)) = Bit(response[r] \in C)
             /\ Bit(r \in Told(C)') = Bit(response'[r] \in C)
  BY DEF Unrecorded, Untold, Told, Bit
<1> QED
  BY <1>1, <1>2, <1>3, <1>4, <1>5, <1>6, <1>7, <1>8

-----------------------------------------------------------------------------
(* Every step preserves each part of the invariant.                         *)

\* A step of the handler of r, from one point of its code to another.
Moves(r, from, to) ==
    /\ rpc[r] = from /\ rpc'[r] = to
    /\ \A q \in Requests : q # r => rpc'[q] = rpc[q]

\* An array that changes at r only.
OnlyAt(r, old, new) == \A q \in Requests : q # r => new[q] = old[q]

\* What the steps of a handler do, without the notation of a record update.
LEMMA HandlerEffect ==
  ASSUME Types, NEW r \in Requests
  PROVE  /\ OrderReceived(r) =>
              /\ Serving /\ Moves(r, "new", "body")
              /\ UNCHANGED <<phase, crashes, outcome, response, call, task>>
         /\ OtherRequest(r) =>
              /\ Serving /\ Moves(r, "new", "record")
              /\ outcome'[r] \in {200, 405} /\ OnlyAt(r, outcome, outcome')
              /\ response'[r] = outcome'[r] /\ OnlyAt(r, response, response')
              /\ UNCHANGED <<phase, crashes, stats, call, task>>
         /\ Validate(r) =>
              /\ \/ Moves(r, "body", "cart") /\ UNCHANGED outcome
                 \/ Moves(r, "body", "count") /\ outcome'[r] = 400 /\ OnlyAt(r, outcome, outcome')
              /\ UNCHANGED <<phase, crashes, stats, response, call, task>>
         /\ ReadCart(r) =>
              /\ Moves(r, "cart", "avail")
              /\ UNCHANGED <<phase, crashes, outcome, response, call, task>>
         /\ CheckAvailability(r) =>
              /\ \/ Moves(r, "avail", "enqueue") /\ UNCHANGED outcome
                 \/ /\ Moves(r, "avail", "count")
                    /\ outcome'[r] \in {200, 502} /\ OnlyAt(r, outcome, outcome')
              /\ UNCHANGED <<phase, crashes, stats, response, call, task>>
         /\ PostEnqueue(r) =>
              /\ \/ /\ Moves(r, "enqueue", "wait") /\ UNCHANGED outcome
                    /\ call'[r] = "open" /\ OnlyAt(r, call, call')
                 \/ /\ Moves(r, "enqueue", "count") /\ UNCHANGED call
                    /\ outcome'[r] = 502 /\ OnlyAt(r, outcome, outcome')
              /\ UNCHANGED <<phase, crashes, stats, response, task>>
         /\ EnqueueReturns(r) \/ EnqueueTimesOut(r) =>
              /\ Moves(r, "wait", "count")
              /\ outcome'[r] = 502 \/ (outcome'[r] = 201 /\ call[r] = "ok")
              /\ OnlyAt(r, outcome, outcome')
              /\ UNCHANGED <<phase, crashes, stats, response, call, task>>
         /\ Count(r) =>
              /\ Moves(r, "count", "write")
              /\ UNCHANGED <<phase, crashes, outcome, response, call, task>>
         /\ WriteResponse(r) =>
              /\ Moves(r, "write", "done")
              /\ response'[r] = outcome[r] /\ OnlyAt(r, response, response')
              /\ UNCHANGED <<phase, crashes, stats, outcome, call, task>>
         /\ OrderDone(r) =>
              /\ Moves(r, "done", "record")
              /\ UNCHANGED <<phase, crashes, outcome, response, call, task>>
         /\ RecordHTTP(r) =>
              /\ Moves(r, "record", "end")
              /\ UNCHANGED <<phase, crashes, outcome, response, call, task>>
<1> USE DEF Types, Goto, Decide, Moves, OnlyAt
<1>1. OrderReceived(r) => /\ Serving /\ Moves(r, "new", "body")
                          /\ UNCHANGED <<phase, crashes, outcome, response, call, task>>
  BY DEF OrderReceived, Serving
<1>2. OtherRequest(r) =>
        /\ Serving /\ Moves(r, "new", "record")
        /\ outcome'[r] \in {200, 405} /\ OnlyAt(r, outcome, outcome')
        /\ response'[r] = outcome'[r] /\ OnlyAt(r, response, response')
        /\ UNCHANGED <<phase, crashes, stats, call, task>>
  BY DEF OtherRequest, Serving
<1>3. Validate(r) =>
        /\ \/ Moves(r, "body", "cart") /\ UNCHANGED outcome
           \/ Moves(r, "body", "count") /\ outcome'[r] = 400 /\ OnlyAt(r, outcome, outcome')
        /\ UNCHANGED <<phase, crashes, stats, response, call, task>>
  BY DEF Validate
<1>4. ReadCart(r) => /\ Moves(r, "cart", "avail")
                     /\ UNCHANGED <<phase, crashes, outcome, response, call, task>>
  BY DEF ReadCart
<1>5. CheckAvailability(r) =>
        /\ \/ Moves(r, "avail", "enqueue") /\ UNCHANGED outcome
           \/ /\ Moves(r, "avail", "count")
              /\ outcome'[r] \in {200, 502} /\ OnlyAt(r, outcome, outcome')
        /\ UNCHANGED <<phase, crashes, stats, response, call, task>>
  BY DEF CheckAvailability
<1>6. PostEnqueue(r) =>
        /\ \/ /\ Moves(r, "enqueue", "wait") /\ UNCHANGED outcome
              /\ call'[r] = "open" /\ OnlyAt(r, call, call')
           \/ /\ Moves(r, "enqueue", "count") /\ UNCHANGED call
              /\ outcome'[r] = 502 /\ OnlyAt(r, outcome, outcome')
        /\ UNCHANGED <<phase, crashes, stats, response, task>>
  BY DEF PostEnqueue
<1>7. EnqueueReturns(r) \/ EnqueueTimesOut(r) =>
        /\ Moves(r, "wait", "count")
        /\ outcome'[r] = 502 \/ (outcome'[r] = 201 /\ call[r] = "ok")
        /\ OnlyAt(r, outcome, outcome')
        /\ UNCHANGED <<phase, crashes, stats, response, call, task>>
  <2>1. CASE EnqueueReturns(r)
    BY <2>1 DEF EnqueueReturns
  <2>2. CASE EnqueueTimesOut(r)
    BY <2>2 DEF EnqueueTimesOut
  <2> QED
    BY <2>1, <2>2
<1>8. Count(r) => /\ Moves(r, "count", "write")
                  /\ UNCHANGED <<phase, crashes, outcome, response, call, task>>
  BY DEF Count
<1>9. WriteResponse(r) =>
        /\ Moves(r, "write", "done")
        /\ response'[r] = outcome[r] /\ OnlyAt(r, response, response')
        /\ UNCHANGED <<phase, crashes, stats, outcome, call, task>>
  BY DEF WriteResponse
<1>10. OrderDone(r) => /\ Moves(r, "done", "record")
                       /\ UNCHANGED <<phase, crashes, outcome, response, call, task>>
  BY DEF OrderDone
<1>11. RecordHTTP(r) => /\ Moves(r, "record", "end")
                        /\ UNCHANGED <<phase, crashes, outcome, response, call, task>>
  BY DEF RecordHTTP
<1> QED
  BY <1>1, <1>2, <1>3, <1>4, <1>5, <1>6, <1>7, <1>8, <1>9, <1>10, <1>11

\* What they do to the counters.
LEMMA StatsEffect ==
  ASSUME Types, NEW r \in Requests, outcome[r] # 0 \/ rpc[r] # "record"
  PROVE  /\ OrderReceived(r) =>
              /\ stats' \in StatsType
              /\ stats'.received = stats.received + 1 /\ stats'.inFlight = stats.inFlight + 1
              /\ stats'.placed = stats.placed /\ stats'.rejected = stats.rejected
              /\ stats'.hits = stats.hits /\ stats'.misses = stats.misses
              /\ stats'.count = stats.count /\ stats'.http = stats.http
              /\ stats'.buckets = stats.buckets
         /\ ReadCart(r) =>
              /\ stats' \in StatsType
              /\ stats'.hits + stats'.misses = stats.hits + stats.misses + 1
              /\ stats'.received = stats.received /\ stats'.inFlight = stats.inFlight
              /\ stats'.placed = stats.placed /\ stats'.rejected = stats.rejected
              /\ stats'.count = stats.count /\ stats'.http = stats.http
              /\ stats'.buckets = stats.buckets
         /\ Count(r) =>
              /\ stats' \in StatsType
              /\ stats'.placed = stats.placed + Bit(outcome[r] = 201)
              /\ stats'.rejected = stats.rejected + Bit(outcome[r] # 201)
              /\ stats'.received = stats.received /\ stats'.inFlight = stats.inFlight
              /\ stats'.hits = stats.hits /\ stats'.misses = stats.misses
              /\ stats'.count = stats.count /\ stats'.http = stats.http
              /\ stats'.buckets = stats.buckets
         /\ OrderDone(r) =>
              /\ stats' \in StatsType
              /\ stats'.inFlight = IF stats.inFlight > 0 THEN stats.inFlight - 1 ELSE stats.inFlight
              /\ stats'.received = stats.received
              /\ stats'.placed = stats.placed /\ stats'.rejected = stats.rejected
              /\ stats'.hits = stats.hits /\ stats'.misses = stats.misses
              /\ stats'.count = stats.count /\ stats'.http = stats.http
              /\ stats'.buckets = stats.buckets
         /\ RecordHTTP(r) =>
              /\ stats' \in StatsType
              /\ stats'.count = stats.count + 1
              /\ stats'.http[outcome[r]] = stats.http[outcome[r]] + 1
              /\ \A c \in Codes : c # outcome[r] => stats'.http[c] = stats.http[c]
              /\ \E lat \in Latencies : \A b \in Buckets :
                   stats'.buckets[b] = stats.buckets[b] + Bit(lat <= b)
              /\ stats'.received = stats.received /\ stats'.inFlight = stats.inFlight
              /\ stats'.placed = stats.placed /\ stats'.rejected = stats.rejected
              /\ stats'.hits = stats.hits /\ stats'.misses = stats.misses
<1> USE DEF Types, StatsType
<1>1. ASSUME OrderReceived(r)
      PROVE /\ stats' \in StatsType
            /\ stats'.received = stats.received + 1 /\ stats'.inFlight = stats.inFlight + 1
            /\ stats'.placed = stats.placed /\ stats'.rejected = stats.rejected
            /\ stats'.hits = stats.hits /\ stats'.misses = stats.misses
            /\ stats'.count = stats.count /\ stats'.http = stats.http
            /\ stats'.buckets = stats.buckets
  <2> DEFINE s == [stats EXCEPT !.received = @ + 1]
  <2>1. stats' = [s EXCEPT !.inFlight = @ + 1]
    BY <1>1 DEF OrderReceived
  <2>2. /\ s \in StatsType
        /\ s.received = stats.received + 1 /\ s.inFlight = stats.inFlight
        /\ s.placed = stats.placed /\ s.rejected = stats.rejected
        /\ s.hits = stats.hits /\ s.misses = stats.misses
        /\ s.count = stats.count /\ s.http = stats.http
        /\ s.buckets = stats.buckets
    OBVIOUS
  <2> HIDE DEF s
  <2>3. /\ stats' \in StatsType
        /\ stats'.received = s.received /\ stats'.inFlight = s.inFlight + 1
        /\ stats'.placed = s.placed /\ stats'.rejected = s.rejected
        /\ stats'.hits = s.hits /\ stats'.misses = s.misses
        /\ stats'.count = s.count /\ stats'.http = s.http
        /\ stats'.buckets = s.buckets
    BY <2>1, <2>2
  <2> QED
    BY <2>2, <2>3
<1>2. ReadCart(r) =>
        /\ stats' \in StatsType
        /\ stats'.hits + stats'.misses = stats.hits + stats.misses + 1
        /\ stats'.received = stats.received /\ stats'.inFlight = stats.inFlight
        /\ stats'.placed = stats.placed /\ stats'.rejected = stats.rejected
        /\ stats'.count = stats.count /\ stats'.http = stats.http
        /\ stats'.buckets = stats.buckets
  <2> SUFFICES ASSUME ReadCart(r)
      PROVE /\ stats' \in StatsType
            /\ stats'.hits + stats'.misses = stats.hits + stats.misses + 1
            /\ stats'.received = stats.received /\ stats'.inFlight = stats.inFlight
            /\ stats'.placed = stats.placed /\ stats'.rejected = stats.rejected
            /\ stats'.count = stats.count /\ stats'.http = stats.http
            /\ stats'.buckets = stats.buckets
    OBVIOUS
  <2>1. \/ stats' = [stats EXCEPT !["hits"] = @ + 1]
        \/ stats' = [stats EXCEPT !["misses"] = @ + 1]
    BY DEF ReadCart
  <2>2. CASE stats' = [stats EXCEPT !["hits"] = @ + 1]
    BY <2>2
  <2>3. CASE stats' = [stats EXCEPT !["misses"] = @ + 1]
    BY <2>3
  <2> QED
    BY <2>1, <2>2, <2>3
<1>3. Count(r) =>
        /\ stats' \in StatsType
        /\ stats'.placed = stats.placed + Bit(outcome[r] = 201)
        /\ stats'.rejected = stats.rejected + Bit(outcome[r] # 201)
        /\ stats'.received = stats.received /\ stats'.inFlight = stats.inFlight
        /\ stats'.hits = stats.hits /\ stats'.misses = stats.misses
        /\ stats'.count = stats.count /\ stats'.http = stats.http
        /\ stats'.buckets = stats.buckets
  BY DEF Count, Bit
<1>4. OrderDone(r) =>
        /\ stats' \in StatsType
        /\ stats'.inFlight = IF stats.inFlight > 0 THEN stats.inFlight - 1 ELSE stats.inFlight
        /\ stats'.received = stats.received
        /\ stats'.placed = stats.placed /\ stats'.rejected = stats.rejected
        /\ stats'.hits = stats.hits /\ stats'.misses = stats.misses
        /\ stats'.count = stats.count /\ stats'.http = stats.http
        /\ stats'.buckets = stats.buckets
  BY DEF OrderDone
<1>5. ASSUME RecordHTTP(r)
      PROVE /\ stats' \in StatsType
            /\ stats'.count = stats.count + 1
            /\ stats'.http[outcome[r]] = stats.http[outcome[r]] + 1
            /\ \A c \in Codes : c # outcome[r] => stats'.http[c] = stats.http[c]
            /\ \E lat \in Latencies : \A b \in Buckets :
                 stats'.buckets[b] = stats.buckets[b] + Bit(lat <= b)
            /\ stats'.received = stats.received /\ stats'.inFlight = stats.inFlight
            /\ stats'.placed = stats.placed /\ stats'.rejected = stats.rejected
            /\ stats'.hits = stats.hits /\ stats'.misses = stats.misses
  <2>1. PICK lat \in Latencies :
          stats' = [stats EXCEPT
            !.http[outcome[r]] = @ + 1,
            !.count = @ + 1,
            !.buckets = [b \in Buckets |-> IF lat <= b THEN @[b] + 1 ELSE @[b]]]
    BY <1>5 DEF RecordHTTP
  <2>2. outcome[r] \in Codes
    BY <1>5 DEF RecordHTTP
  <2>3. /\ stats'.http = [stats.http EXCEPT ![outcome[r]] = @ + 1]
        /\ stats'.count = stats.count + 1
        /\ stats'.buckets = [b \in Buckets |-> IF lat <= b THEN stats.buckets[b] + 1
                                                           ELSE stats.buckets[b]]
        /\ stats'.received = stats.received /\ stats'.inFlight = stats.inFlight
        /\ stats'.placed = stats.placed /\ stats'.rejected = stats.rejected
        /\ stats'.hits = stats.hits /\ stats'.misses = stats.misses
    BY <2>1
  <2>4. stats'.http \in [Codes -> Nat] /\ stats'.buckets \in [Buckets -> Nat]
    BY <2>2, <2>3
  <2>5. stats' \in StatsType
    <3>1. stats' = [[[stats EXCEPT !.http = stats'.http] EXCEPT !.count = stats.count + 1]
                     EXCEPT !.buckets = stats'.buckets]
      BY <2>1
    <3>2. ASSUME NEW t \in StatsType
          PROVE /\ [t EXCEPT !.http = stats'.http] \in StatsType
                /\ [t EXCEPT !.count = stats.count + 1] \in StatsType
                /\ [t EXCEPT !.buckets = stats'.buckets] \in StatsType
      BY <2>4
    <3>3. [stats EXCEPT !.http = stats'.http] \in StatsType
      BY <3>2
    <3>4. [[stats EXCEPT !.http = stats'.http] EXCEPT !.count = stats.count + 1] \in StatsType
      BY ONLY <3>2, <3>3, Zenon
    <3> QED
      BY ONLY <3>1, <3>2, <3>4, Zenon
  <2>6. \A b \in Buckets : stats'.buckets[b] = stats.buckets[b] + Bit(lat <= b)
    BY <2>3 DEF Bit
  <2> QED
    BY <2>2, <2>3, <2>5, <2>6
<1> QED
  BY <1>1, <1>2, <1>3, <1>4, <1>5

\* The steps, each under its name.
LEMMA NextCases ==
  ASSUME [Next]_vars
  PROVE  \/ \E r \in Requests : OrderReceived(r) \/ OtherRequest(r) \/ HandleEnqueue(r)
         \/ Serving /\ \E r \in Requests :
              \/ Validate(r) \/ ReadCart(r) \/ CheckAvailability(r) \/ PostEnqueue(r)
              \/ EnqueueReturns(r) \/ EnqueueTimesOut(r) \/ Count(r) \/ WriteResponse(r)
              \/ OrderDone(r) \/ RecordHTTP(r)
         \/ Shutdown \/ Stop \/ Crash \/ Restart \/ UNCHANGED vars
BY DEF Next, HandlerStep

\* The types.
LEMMA TypesStep ==
  ASSUME Types, Handlers, [Next]_vars
  PROVE  Types'
<1> USE DEF Types, Active, Counting, Codes
<1>1. ASSUME NEW r \in Requests, OrderReceived(r) PROVE Types'
  <2>1. stats' \in StatsType
    BY <1>1, StatsEffect DEF Handlers, OrderReceived
  <2> QED
    BY <1>1, <2>1 DEF OrderReceived, Goto
<1>2. ASSUME NEW r \in Requests, OtherRequest(r) PROVE Types'
  BY <1>2 DEF OtherRequest, Goto
<1>3. ASSUME NEW r \in Requests, HandleEnqueue(r) PROVE Types'
  BY <1>3 DEF HandleEnqueue
<1>4. ASSUME NEW r \in Requests, Validate(r) PROVE Types'
  BY <1>4 DEF Validate, Decide, Goto
<1>5. ASSUME NEW r \in Requests, ReadCart(r) PROVE Types'
  <2>1. stats' \in StatsType
    BY <1>5, StatsEffect DEF Handlers, ReadCart
  <2> QED
    BY <1>5, <2>1 DEF ReadCart, Goto
<1>6. ASSUME NEW r \in Requests, CheckAvailability(r) PROVE Types'
  BY <1>6 DEF CheckAvailability, Decide, Goto
<1>7. ASSUME NEW r \in Requests, PostEnqueue(r) PROVE Types'
  BY <1>7 DEF PostEnqueue, Decide, Goto
<1>8. ASSUME NEW r \in Requests, EnqueueReturns(r) PROVE Types'
  BY <1>8 DEF EnqueueReturns, Decide, Goto
<1>9. ASSUME NEW r \in Requests, EnqueueTimesOut(r) PROVE Types'
  BY <1>9 DEF EnqueueTimesOut, Decide, Goto
<1>10. ASSUME NEW r \in Requests, Count(r) PROVE Types'
  <2>1. stats' \in StatsType
    BY <1>10, StatsEffect DEF Handlers, Count
  <2> QED
    BY <1>10, <2>1 DEF Count, Goto
<1>11. ASSUME NEW r \in Requests, WriteResponse(r) PROVE Types'
  BY <1>11 DEF WriteResponse, Goto
<1>12. ASSUME NEW r \in Requests, OrderDone(r) PROVE Types'
  <2>1. stats' \in StatsType
    BY <1>12, StatsEffect DEF Handlers, OrderDone
  <2> QED
    BY <1>12, <2>1 DEF OrderDone, Goto
<1>13. ASSUME NEW r \in Requests, RecordHTTP(r) PROVE Types'
  <2>1. stats' \in StatsType
    BY <1>13, StatsEffect, ZenonT(60) DEF Handlers, RecordHTTP, After
  <2> QED
    BY <1>13, <2>1 DEF RecordHTTP, Goto
<1>14. ASSUME Shutdown PROVE Types'
  BY <1>14 DEF Shutdown
<1>15. ASSUME Stop PROVE Types'
  BY <1>15 DEF Stop, CutHandlers
<1>16. ASSUME Crash PROVE Types'
  BY <1>16 DEF Crash, CutHandlers
<1>17. ASSUME Restart PROVE Types'
  <2>1. NewStats \in StatsType
    BY DEF NewStats, StatsType
  <2> QED
    BY <1>17, <2>1 DEF Restart
<1>18. ASSUME UNCHANGED vars PROVE Types'
  BY <1>18 DEF vars
<1> QED
  BY <1>1, <1>2, <1>3, <1>4, <1>5, <1>6, <1>7, <1>8, <1>9, <1>10, <1>11, <1>12, <1>13,
     <1>14, <1>15, <1>16, <1>17, <1>18, NextCases

\* A handler and its outcome.
LEMMA HandlersStep ==
  ASSUME Types, Handlers, [Next]_vars
  PROVE  Handlers'
<1> USE DEF Handlers, Moves, OnlyAt, Before, After, Active, Counting, Serving
<1>1. ASSUME UNCHANGED <<rpc, outcome>>, Serving' = Serving \/ \A r \in Requests : rpc[r] \notin Active
      PROVE  Handlers'
  BY <1>1
<1>2. ASSUME NEW r \in Requests, OrderReceived(r) PROVE Handlers'
  BY <1>2, HandlerEffect
<1>3. ASSUME NEW r \in Requests, OtherRequest(r) PROVE Handlers'
  BY <1>3, HandlerEffect
<1>4. ASSUME NEW r \in Requests, Serving, Validate(r) PROVE Handlers'
  BY <1>4, HandlerEffect
<1>5. ASSUME NEW r \in Requests, Serving, ReadCart(r) PROVE Handlers'
  BY <1>5, HandlerEffect
<1>6. ASSUME NEW r \in Requests, Serving, CheckAvailability(r) PROVE Handlers'
  BY <1>6, HandlerEffect
<1>7. ASSUME NEW r \in Requests, Serving, PostEnqueue(r) PROVE Handlers'
  BY <1>7, HandlerEffect
<1>8. ASSUME NEW r \in Requests, Serving, EnqueueReturns(r) \/ EnqueueTimesOut(r) PROVE Handlers'
  BY <1>8, HandlerEffect
<1>9. ASSUME NEW r \in Requests, Serving, Count(r) PROVE Handlers'
  BY <1>9, HandlerEffect
<1>10. ASSUME NEW r \in Requests, Serving, WriteResponse(r) PROVE Handlers'
  BY <1>10, HandlerEffect
<1>11. ASSUME NEW r \in Requests, Serving, OrderDone(r) PROVE Handlers'
  BY <1>11, HandlerEffect
<1>12. ASSUME NEW r \in Requests, Serving, RecordHTTP(r) PROVE Handlers'
  BY <1>12, HandlerEffect
<1>13. ASSUME Stop \/ Crash PROVE Handlers'
  BY <1>13 DEF Stop, Crash, CutHandlers
<1>14. ASSUME Shutdown \/ Restart \/ UNCHANGED vars \/ \E r \in Requests : HandleEnqueue(r)
       PROVE  Handlers'
  BY <1>1, <1>14 DEF Shutdown, Restart, vars, HandleEnqueue
<1> QED
  BY <1>2, <1>3, <1>4, <1>5, <1>6, <1>7, <1>8, <1>9, <1>10, <1>11, <1>12, <1>13, <1>14, NextCases

\* An order and its call.
LEMMA CallsStep ==
  ASSUME Types, Handlers, Calls, [Next]_vars
  PROVE  Calls'
<1> USE DEF Handlers, Calls, Moves, OnlyAt, Before, After, Active, Counting
<1>1. ASSUME UNCHANGED <<rpc, outcome, call, task>> PROVE Calls'
  BY <1>1
<1>2. ASSUME NEW r \in Requests, OrderReceived(r) PROVE Calls'
  BY <1>2, HandlerEffect
<1>3. ASSUME NEW r \in Requests, OtherRequest(r) PROVE Calls'
  BY <1>3, HandlerEffect
<1>4. ASSUME NEW r \in Requests, Validate(r) PROVE Calls'
  BY <1>4, HandlerEffect
<1>5. ASSUME NEW r \in Requests, ReadCart(r) PROVE Calls'
  BY <1>5, HandlerEffect
<1>6. ASSUME NEW r \in Requests, CheckAvailability(r) PROVE Calls'
  BY <1>6, HandlerEffect
<1>7. ASSUME NEW r \in Requests, PostEnqueue(r) PROVE Calls'
  BY <1>7, HandlerEffect
<1>8. ASSUME NEW r \in Requests, EnqueueReturns(r) \/ EnqueueTimesOut(r) PROVE Calls'
  BY <1>8, HandlerEffect
<1>9. ASSUME NEW r \in Requests, Count(r) PROVE Calls'
  BY <1>9, HandlerEffect
<1>10. ASSUME NEW r \in Requests, WriteResponse(r) PROVE Calls'
  BY <1>10, HandlerEffect
<1>11. ASSUME NEW r \in Requests, OrderDone(r) PROVE Calls'
  BY <1>11, HandlerEffect
<1>12. ASSUME NEW r \in Requests, RecordHTTP(r) PROVE Calls'
  BY <1>12, HandlerEffect
<1>13. ASSUME NEW r \in Requests, HandleEnqueue(r) PROVE Calls'
  <2>1. /\ call[r] = "open" /\ OnlyAt(r, call, call') /\ OnlyAt(r, task, task')
        /\ UNCHANGED <<rpc, outcome>>
        /\ \/ task'[r] = task[r] + 1 /\ call'[r] \in {"ok", "failed"}
           \/ task'[r] = task[r] /\ call'[r] = "failed"
    BY <1>13 DEF HandleEnqueue, Types
  <2>2. task[r] = 0
    BY <2>1
  <2> QED
    BY <2>1, <2>2
<1>14. ASSUME Stop \/ Crash PROVE Calls'
  <2>1. /\ UNCHANGED <<outcome, call, task>>
        /\ \A q \in Requests : rpc'[q] = "cut" \/ (rpc'[q] = rpc[q] /\ rpc[q] \notin Active)
    BY <1>14 DEF Stop, Crash, CutHandlers
  <2> QED
    BY <2>1
<1>15. ASSUME Shutdown \/ Restart \/ UNCHANGED vars PROVE Calls'
  BY <1>1, <1>15 DEF Shutdown, Restart, vars
<1> QED
  BY <1>2, <1>3, <1>4, <1>5, <1>6, <1>7, <1>8, <1>9, <1>10, <1>11, <1>12, <1>13, <1>14, <1>15,
     NextCases

\* When the process ends nothing is left at work, and what was answered stays so.
LEMMA CutEffect ==
  ASSUME Types, Stop \/ Crash
  PROVE  /\ ~ Serving' /\ UNCHANGED <<stats, outcome, response>>
         /\ Cardinality(Arrived') = Cardinality(Arrived)
         /\ Cardinality(Uncounted') = 0 /\ Cardinality(Counted') = 0
         /\ Cardinality(NoCart') = 0 /\ Cardinality(Recorded') = Cardinality(Recorded)
         /\ \A C : /\ Cardinality(Unrecorded(C)') = 0 /\ Cardinality(Untold(C)') = 0
                   /\ Cardinality(Told(C)') = Cardinality(Told(C))
<1>1. /\ ~ Serving' /\ UNCHANGED <<stats, outcome, response>>
      /\ rpc' = [r \in Requests |-> IF rpc[r] \in Active THEN "cut" ELSE rpc[r]]
  BY DEF Stop, Crash, CutHandlers, Serving
<1>2. \A r \in Requests : rpc'[r] \notin Active
  BY <1>1 DEF Active, Counting
<1>3. Arrived' = Arrived /\ Recorded' = Recorded
  BY <1>1 DEF Arrived, Recorded, Active, Counting
<1>4. Uncounted' = {} /\ Counted' = {} /\ NoCart' = {}
  BY <1>2 DEF Uncounted, Counted, NoCart, Active, Counting
<1>5. ASSUME NEW C PROVE Unrecorded(C)' = {} /\ Untold(C)' = {} /\ Told(C)' = Told(C)
  BY <1>1, <1>2 DEF Unrecorded, Untold, Told, Active, Counting
<1> QED
  BY <1>1, <1>3, <1>4, <1>5, FS_EmptySet

\* A new process starts at zero, with nothing at work.
LEMMA RestartEffect ==
  ASSUME Types, Handlers, Restart
  PROVE  /\ ~ Serving /\ UNCHANGED <<rpc, outcome, response>>
         /\ stats' = NewStats /\ UNCHANGED crashes /\ phase = "crashed" /\ phase' = "up"
         /\ Cardinality(Uncounted') = 0 /\ Cardinality(Counted') = 0
         /\ Cardinality(NoCart') = 0
         /\ \A C : Cardinality(Unrecorded(C)') = 0
<1>1. /\ ~ Serving /\ UNCHANGED <<rpc, outcome, response>> /\ stats' = NewStats
      /\ UNCHANGED crashes /\ phase = "crashed" /\ phase' = "up"
  BY DEF Restart, Serving
<1>2. \A r \in Requests : rpc'[r] \notin Active
  BY <1>1 DEF Handlers
<1>3. Uncounted' = {} /\ Counted' = {} /\ NoCart' = {}
  BY <1>2 DEF Uncounted, Counted, NoCart, Active, Counting
<1>4. ASSUME NEW C PROVE Unrecorded(C)' = {}
  BY <1>2 DEF Unrecorded, Active, Counting
<1> QED
  BY <1>1, <1>3, <1>4, FS_EmptySet

\* The numbers in the counters.
LEMMA StatsNumbers ==
  ASSUME Types
  PROVE  /\ stats.received \in Nat /\ stats.placed \in Nat /\ stats.rejected \in Nat
         /\ stats.inFlight \in Nat /\ stats.hits \in Nat /\ stats.misses \in Nat
         /\ stats.count \in Nat
         /\ stats.http[200] \in Nat /\ stats.http[201] \in Nat /\ stats.http[400] \in Nat
         /\ stats.http[405] \in Nat /\ stats.http[502] \in Nat
         /\ \A b \in Buckets : stats.buckets[b] \in Nat
BY DEF Types, StatsType, Codes

\* The handlers at work are requests.
LEMMA AtWork ==
  /\ Cardinality(Uncounted) + Cardinality(Counted) <= Cardinality(Requests)
  /\ Cardinality(Uncounted') + Cardinality(Counted') <= Cardinality(Requests)
<1>1. ASSUME NEW S \in SUBSET Requests, NEW T \in SUBSET Requests, S \cap T = {}
      PROVE  Cardinality(S) + Cardinality(T) <= Cardinality(Requests)
  <2>1. /\ IsFiniteSet(S) /\ IsFiniteSet(T)
        /\ Cardinality(S) \in Nat /\ Cardinality(T) \in Nat
    BY CountType
  <2>2. Cardinality(S \cup T) = Cardinality(S) + Cardinality(T) - Cardinality({})
    BY <1>1, <2>1, FS_Union
  <2>3. Cardinality(S \cup T) <= Cardinality(Requests)
    BY CountType
  <2> QED
    BY <2>1, <2>2, <2>3, FS_EmptySet
<1>2. /\ Uncounted \in SUBSET Requests /\ Uncounted' \in SUBSET Requests
      /\ Counted \in SUBSET Requests /\ Counted' \in SUBSET Requests
      /\ Uncounted \cap Counted = {} /\ Uncounted' \cap Counted' = {}
  BY DEF Uncounted, Counted, Counting
<1> QED
  BY <1>1, <1>2

\* A step of one handler, as far as the counts go.
LEMMA OthersKept ==
  ASSUME Types, NEW r \in Requests,
         \/ OrderReceived(r) \/ OtherRequest(r)
         \/ Validate(r) \/ ReadCart(r) \/ CheckAvailability(r) \/ PostEnqueue(r)
         \/ EnqueueReturns(r) \/ EnqueueTimesOut(r) \/ Count(r) \/ WriteResponse(r)
         \/ OrderDone(r) \/ RecordHTTP(r)
  PROVE  \A q \in Requests : q # r => /\ rpc'[q] = rpc[q] /\ outcome'[q] = outcome[q]
                                     /\ response'[q] = response[q]
BY HandlerEffect DEF Moves, OnlyAt

\* An order is always counted as received, and until it is placed or rejected its
\* handler is at work.
LEMMA OrdersStep ==
  ASSUME Types, Handlers, Orders, [Next]_vars
  PROVE  Orders'
<1> USE DEF Orders
<1> USE CountTypes, StatsNumbers
<1>1. ASSUME UNCHANGED <<rpc, stats>>, Serving' = Serving PROVE Orders'
  BY <1>1 DEF Arrived, Uncounted, Counted, NoCart
<1>2. ASSUME NEW r \in Requests, OrderReceived(r) PROVE Orders'
  <2>1. Moves(r, "new", "body") /\ Serving /\ UNCHANGED phase
    BY <1>2, HandlerEffect
  <2>2. /\ Cardinality(Arrived') = Cardinality(Arrived) + 1
        /\ Cardinality(Uncounted') = Cardinality(Uncounted) + 1
        /\ Cardinality(Counted') = Cardinality(Counted)
        /\ Cardinality(NoCart') = Cardinality(NoCart) + 1
    BY <1>2, <2>1, OthersKept, Counts DEF Bit, Moves, Counting
  <2>3. /\ stats'.received = stats.received + 1
        /\ stats'.inFlight = stats.inFlight + 1
        /\ stats'.placed = stats.placed
        /\ stats'.rejected = stats.rejected
        /\ stats'.hits = stats.hits
        /\ stats'.misses = stats.misses
    BY <1>2, <2>1, StatsEffect DEF Bit, Moves, Handlers, After
  <2> QED
    BY <1>2, <2>1, <2>2, <2>3, AtWork DEF Serving
<1>3. ASSUME NEW r \in Requests, OtherRequest(r) PROVE Orders'
  <2>1. Moves(r, "new", "record") /\ UNCHANGED phase /\ UNCHANGED stats
    BY <1>3, HandlerEffect
  <2>2. /\ Cardinality(Arrived') = Cardinality(Arrived) + 1
        /\ Cardinality(Uncounted') = Cardinality(Uncounted)
        /\ Cardinality(Counted') = Cardinality(Counted)
        /\ Cardinality(NoCart') = Cardinality(NoCart)
    BY <1>3, <2>1, OthersKept, Counts DEF Bit, Moves, Counting
  <2> QED
    BY <1>3, <2>1, <2>2, AtWork DEF Serving
<1>4. ASSUME NEW r \in Requests, Serving, Validate(r) PROVE Orders'
  <2>1. (Moves(r, "body", "cart") \/ Moves(r, "body", "count")) /\ UNCHANGED phase /\ UNCHANGED stats
    BY <1>4, HandlerEffect
  <2>2. /\ Cardinality(Arrived') = Cardinality(Arrived)
        /\ Cardinality(Uncounted') = Cardinality(Uncounted)
        /\ Cardinality(Counted') = Cardinality(Counted)
        /\ Cardinality(NoCart') <= Cardinality(NoCart)
    BY <1>4, <2>1, OthersKept, Counts DEF Bit, Moves, Counting
  <2> QED
    BY <1>4, <2>1, <2>2, AtWork DEF Serving
<1>5. ASSUME NEW r \in Requests, Serving, ReadCart(r) PROVE Orders'
  <2>1. Moves(r, "cart", "avail") /\ UNCHANGED phase
    BY <1>5, HandlerEffect
  <2>2. /\ Cardinality(Arrived') = Cardinality(Arrived)
        /\ Cardinality(Uncounted') = Cardinality(Uncounted)
        /\ Cardinality(Counted') = Cardinality(Counted)
        /\ Cardinality(NoCart') = Cardinality(NoCart) - 1
    BY <1>5, <2>1, OthersKept, Counts DEF Bit, Moves, Counting
  <2>3. /\ stats'.hits + stats'.misses = stats.hits + stats.misses + 1
        /\ stats'.received = stats.received
        /\ stats'.inFlight = stats.inFlight
        /\ stats'.placed = stats.placed
        /\ stats'.rejected = stats.rejected
    BY <1>5, <2>1, StatsEffect DEF Bit, Moves, Handlers, After
  <2> QED
    BY <1>5, <2>1, <2>2, <2>3, AtWork DEF Serving
<1>6. ASSUME NEW r \in Requests, Serving, CheckAvailability(r) PROVE Orders'
  <2>1. (Moves(r, "avail", "enqueue") \/ Moves(r, "avail", "count")) /\ UNCHANGED phase /\ UNCHANGED stats
    BY <1>6, HandlerEffect
  <2>2. /\ Cardinality(Arrived') = Cardinality(Arrived)
        /\ Cardinality(Uncounted') = Cardinality(Uncounted)
        /\ Cardinality(Counted') = Cardinality(Counted)
        /\ Cardinality(NoCart') = Cardinality(NoCart)
    BY <1>6, <2>1, OthersKept, Counts DEF Bit, Moves, Counting
  <2> QED
    BY <1>6, <2>1, <2>2, AtWork DEF Serving
<1>7. ASSUME NEW r \in Requests, Serving, PostEnqueue(r) PROVE Orders'
  <2>1. (Moves(r, "enqueue", "wait") \/ Moves(r, "enqueue", "count")) /\ UNCHANGED phase /\ UNCHANGED stats
    BY <1>7, HandlerEffect
  <2>2. /\ Cardinality(Arrived') = Cardinality(Arrived)
        /\ Cardinality(Uncounted') = Cardinality(Uncounted)
        /\ Cardinality(Counted') = Cardinality(Counted)
        /\ Cardinality(NoCart') = Cardinality(NoCart)
    BY <1>7, <2>1, OthersKept, Counts DEF Bit, Moves, Counting
  <2> QED
    BY <1>7, <2>1, <2>2, AtWork DEF Serving
<1>8. ASSUME NEW r \in Requests, Serving, EnqueueReturns(r) \/ EnqueueTimesOut(r) PROVE Orders'
  <2>1. Moves(r, "wait", "count") /\ UNCHANGED phase /\ UNCHANGED stats
    BY <1>8, HandlerEffect
  <2>2. /\ Cardinality(Arrived') = Cardinality(Arrived)
        /\ Cardinality(Uncounted') = Cardinality(Uncounted)
        /\ Cardinality(Counted') = Cardinality(Counted)
        /\ Cardinality(NoCart') = Cardinality(NoCart)
    BY <1>8, <2>1, OthersKept, Counts DEF Bit, Moves, Counting
  <2> QED
    BY <1>8, <2>1, <2>2, AtWork DEF Serving
<1>9. ASSUME NEW r \in Requests, Serving, Count(r) PROVE Orders'
  <2>1. Moves(r, "count", "write") /\ UNCHANGED phase
    BY <1>9, HandlerEffect
  <2>2. /\ Cardinality(Arrived') = Cardinality(Arrived)
        /\ Cardinality(Uncounted') = Cardinality(Uncounted) - 1
        /\ Cardinality(Counted') = Cardinality(Counted) + 1
        /\ Cardinality(NoCart') = Cardinality(NoCart)
    BY <1>9, <2>1, OthersKept, Counts DEF Bit, Moves, Counting
  <2>3. /\ stats'.placed + stats'.rejected = stats.placed + stats.rejected + 1
        /\ stats'.placed \in Nat /\ stats'.rejected \in Nat
        /\ stats'.received = stats.received
        /\ stats'.inFlight = stats.inFlight
        /\ stats'.hits = stats.hits
        /\ stats'.misses = stats.misses
    BY <1>9, <2>1, StatsEffect DEF Bit, Moves, Handlers, After
  <2> QED
    BY <1>9, <2>1, <2>2, <2>3, AtWork DEF Serving
<1>10. ASSUME NEW r \in Requests, Serving, WriteResponse(r) PROVE Orders'
  <2>1. Moves(r, "write", "done") /\ UNCHANGED phase /\ UNCHANGED stats
    BY <1>10, HandlerEffect
  <2>2. /\ Cardinality(Arrived') = Cardinality(Arrived)
        /\ Cardinality(Uncounted') = Cardinality(Uncounted)
        /\ Cardinality(Counted') = Cardinality(Counted)
        /\ Cardinality(NoCart') = Cardinality(NoCart)
    BY <1>10, <2>1, OthersKept, Counts DEF Bit, Moves, Counting
  <2> QED
    BY <1>10, <2>1, <2>2, AtWork DEF Serving
<1>11. ASSUME NEW r \in Requests, Serving, OrderDone(r) PROVE Orders'
  <2>1. Moves(r, "done", "record") /\ UNCHANGED phase
    BY <1>11, HandlerEffect
  <2>2. /\ Cardinality(Arrived') = Cardinality(Arrived)
        /\ Cardinality(Uncounted') = Cardinality(Uncounted)
        /\ Cardinality(Counted') = Cardinality(Counted) - 1
        /\ Cardinality(NoCart') = Cardinality(NoCart)
    BY <1>11, <2>1, OthersKept, Counts DEF Bit, Moves, Counting
  <2>3. /\ stats'.inFlight = IF stats.inFlight > 0 THEN stats.inFlight - 1 ELSE stats.inFlight
        /\ stats'.received = stats.received
        /\ stats'.placed = stats.placed
        /\ stats'.rejected = stats.rejected
        /\ stats'.hits = stats.hits
        /\ stats'.misses = stats.misses
    BY <1>11, <2>1, StatsEffect DEF Bit, Moves, Handlers, After
  <2> QED
    BY <1>11, <2>1, <2>2, <2>3, AtWork DEF Serving
<1>12. ASSUME NEW r \in Requests, Serving, RecordHTTP(r) PROVE Orders'
  <2>1. Moves(r, "record", "end") /\ UNCHANGED phase
    BY <1>12, HandlerEffect
  <2>2. /\ Cardinality(Arrived') = Cardinality(Arrived)
        /\ Cardinality(Uncounted') = Cardinality(Uncounted)
        /\ Cardinality(Counted') = Cardinality(Counted)
        /\ Cardinality(NoCart') = Cardinality(NoCart)
    BY <1>12, <2>1, OthersKept, Counts DEF Bit, Moves, Counting
  <2>3. /\ stats'.received = stats.received
        /\ stats'.inFlight = stats.inFlight
        /\ stats'.placed = stats.placed
        /\ stats'.rejected = stats.rejected
        /\ stats'.hits = stats.hits
        /\ stats'.misses = stats.misses
    BY <1>12, <2>1, StatsEffect DEF Bit, Moves, Handlers, After
  <2> QED
    BY <1>12, <2>1, <2>2, <2>3, AtWork DEF Serving
<1>13. ASSUME Stop \/ Crash PROVE Orders'
  BY <1>13, CutEffect
<1>14. ASSUME Restart PROVE Orders'
  BY <1>14, RestartEffect DEF NewStats
<1>15. ASSUME Shutdown \/ UNCHANGED vars \/ \E r \in Requests : HandleEnqueue(r) PROVE Orders'
  BY <1>1, <1>15 DEF Shutdown, vars, HandleEnqueue, Serving
<1> QED
  BY <1>2, <1>3, <1>4, <1>5, <1>6, <1>7, <1>8, <1>9, <1>10, <1>11, <1>12, <1>13, <1>14, <1>15,
     NextCases

\* A status is recorded only after its order has been counted, and a latency in
\* every bucket above it.
LEMMA RecordsStep ==
  ASSUME Types, Handlers, Records, [Next]_vars
  PROVE  Records'
<1> USE DEF Records
<1> USE CountTypes, StatsNumbers
<1>1. ASSUME /\ stats'.count = stats.count /\ stats'.http = stats.http
             /\ stats'.buckets = stats.buckets
             /\ stats'.placed = stats.placed /\ stats'.rejected = stats.rejected,
             Cardinality(Recorded') = Cardinality(Recorded),
             \A C \in {{201}, {400, 502}} : Cardinality(Unrecorded(C)') <= Cardinality(Unrecorded(C))
      PROVE  Records'
  <2>1. /\ Cardinality(Unrecorded({201})') <= Cardinality(Unrecorded({201}))
        /\ Cardinality(Unrecorded({400, 502})') <= Cardinality(Unrecorded({400, 502}))
    BY <1>1
  <2>2. /\ Cardinality(Unrecorded({201})) \in Nat /\ Cardinality(Unrecorded({201})') \in Nat
        /\ Cardinality(Unrecorded({400, 502})) \in Nat
        /\ Cardinality(Unrecorded({400, 502})') \in Nat
    OBVIOUS
  <2>3. /\ stats'.http[201] + Cardinality(Unrecorded({201})') <= stats'.placed
        /\ stats'.http[400] + stats'.http[502] + Cardinality(Unrecorded({400, 502})')
             <= stats'.rejected
    BY <1>1, <2>1, <2>2
  <2>4. /\ stats'.count <= Cardinality(Recorded')
        /\ stats'.http[200] + stats'.http[201] + stats'.http[400] + stats'.http[405]
             + stats'.http[502] = stats'.count
    BY <1>1
  <2>5. /\ \A a \in Buckets : stats'.buckets[a] <= stats'.count
        /\ \A a, b \in Buckets : a <= b => stats'.buckets[a] <= stats'.buckets[b]
    BY <1>1
  <2> QED
    BY <2>3, <2>4, <2>5
<1>2. ASSUME UNCHANGED <<rpc, outcome, stats>> PROVE Records'
  BY <1>1, <1>2 DEF Recorded, Unrecorded
<1>3. ASSUME NEW r \in Requests, OrderReceived(r) PROVE Records'
  <2>1. Moves(r, "new", "body") /\ UNCHANGED outcome
    BY <1>3, HandlerEffect
  <2>2. /\ Cardinality(Recorded') = Cardinality(Recorded)
        /\ \A C : Cardinality(Unrecorded(C)') = Cardinality(Unrecorded(C))
    BY <1>3, <2>1, OthersKept, Counts DEF Bit, Moves
  <2>3. /\ stats'.count = stats.count /\ stats'.http = stats.http
        /\ stats'.buckets = stats.buckets
        /\ stats'.placed = stats.placed /\ stats'.rejected = stats.rejected
    BY <1>3, <2>1, StatsEffect DEF Moves
  <2> QED
    BY <1>1, <2>2, <2>3
<1>4. ASSUME NEW r \in Requests, OtherRequest(r) PROVE Records'
  <2>1. Moves(r, "new", "record") /\ outcome'[r] \in {200, 405} /\ UNCHANGED stats
    BY <1>4, HandlerEffect
  <2>2. /\ Cardinality(Recorded') = Cardinality(Recorded)
        /\ Cardinality(Unrecorded({201})') = Cardinality(Unrecorded({201}))
        /\ Cardinality(Unrecorded({400, 502})') = Cardinality(Unrecorded({400, 502}))
    BY <1>4, <2>1, OthersKept, Counts DEF Bit, Moves
  <2> QED
    BY <1>1, <2>1, <2>2
<1>5. ASSUME NEW r \in Requests, Validate(r) PROVE Records'
  <2>1. (Moves(r, "body", "cart") \/ Moves(r, "body", "count")) /\ UNCHANGED stats
    BY <1>5, HandlerEffect
  <2>2. /\ Cardinality(Recorded') = Cardinality(Recorded)
        /\ \A C : Cardinality(Unrecorded(C)') = Cardinality(Unrecorded(C))
    BY <1>5, <2>1, OthersKept, Counts DEF Bit, Moves
  <2> QED
    BY <1>1, <2>1, <2>2
<1>6. ASSUME NEW r \in Requests, ReadCart(r) PROVE Records'
  <2>1. Moves(r, "cart", "avail") /\ UNCHANGED outcome
    BY <1>6, HandlerEffect
  <2>2. /\ Cardinality(Recorded') = Cardinality(Recorded)
        /\ \A C : Cardinality(Unrecorded(C)') = Cardinality(Unrecorded(C))
    BY <1>6, <2>1, OthersKept, Counts DEF Bit, Moves
  <2>3. /\ stats'.count = stats.count /\ stats'.http = stats.http
        /\ stats'.buckets = stats.buckets
        /\ stats'.placed = stats.placed /\ stats'.rejected = stats.rejected
    BY <1>6, <2>1, StatsEffect DEF Moves
  <2> QED
    BY <1>1, <2>2, <2>3
<1>7. ASSUME NEW r \in Requests, CheckAvailability(r) PROVE Records'
  <2>1. (Moves(r, "avail", "enqueue") \/ Moves(r, "avail", "count")) /\ UNCHANGED stats
    BY <1>7, HandlerEffect
  <2>2. /\ Cardinality(Recorded') = Cardinality(Recorded)
        /\ \A C : Cardinality(Unrecorded(C)') = Cardinality(Unrecorded(C))
    BY <1>7, <2>1, OthersKept, Counts DEF Bit, Moves
  <2> QED
    BY <1>1, <2>1, <2>2
<1>8. ASSUME NEW r \in Requests, PostEnqueue(r) PROVE Records'
  <2>1. (Moves(r, "enqueue", "wait") \/ Moves(r, "enqueue", "count")) /\ UNCHANGED stats
    BY <1>8, HandlerEffect
  <2>2. /\ Cardinality(Recorded') = Cardinality(Recorded)
        /\ \A C : Cardinality(Unrecorded(C)') = Cardinality(Unrecorded(C))
    BY <1>8, <2>1, OthersKept, Counts DEF Bit, Moves
  <2> QED
    BY <1>1, <2>1, <2>2
<1>9. ASSUME NEW r \in Requests, EnqueueReturns(r) \/ EnqueueTimesOut(r) PROVE Records'
  <2>1. Moves(r, "wait", "count") /\ UNCHANGED stats
    BY <1>9, HandlerEffect
  <2>2. /\ Cardinality(Recorded') = Cardinality(Recorded)
        /\ \A C : Cardinality(Unrecorded(C)') = Cardinality(Unrecorded(C))
    BY <1>9, <2>1, OthersKept, Counts DEF Bit, Moves
  <2> QED
    BY <1>1, <2>1, <2>2
<1>10. ASSUME NEW r \in Requests, Count(r) PROVE Records'
  <2>1. Moves(r, "count", "write") /\ UNCHANGED outcome
    BY <1>10, HandlerEffect
  <2>2. /\ Cardinality(Recorded') = Cardinality(Recorded)
        /\ Cardinality(Unrecorded({201})') = Cardinality(Unrecorded({201})) + Bit(outcome[r] = 201)
        /\ Cardinality(Unrecorded({400, 502})')
             <= Cardinality(Unrecorded({400, 502})) + Bit(outcome[r] # 201)
    BY <1>10, <2>1, OthersKept, Counts DEF Bit, Moves
  <2>3. /\ stats'.count = stats.count /\ stats'.http = stats.http
        /\ stats'.buckets = stats.buckets
        /\ stats'.placed = stats.placed + Bit(outcome[r] = 201)
        /\ stats'.rejected = stats.rejected + Bit(outcome[r] # 201)
    BY <1>10, <2>1, StatsEffect DEF Moves
  <2> QED
    BY <2>2, <2>3 DEF Bit
<1>11. ASSUME NEW r \in Requests, WriteResponse(r) PROVE Records'
  <2>1. Moves(r, "write", "done") /\ UNCHANGED <<stats, outcome>>
    BY <1>11, HandlerEffect
  <2>2. /\ Cardinality(Recorded') = Cardinality(Recorded)
        /\ \A C : Cardinality(Unrecorded(C)') = Cardinality(Unrecorded(C))
    <3>1. \A q \in Requests : q # r => /\ rpc'[q] = rpc[q] /\ outcome'[q] = outcome[q]
                                        /\ response'[q] = response[q]
      BY <1>11, OthersKept
    <3>2. rpc[r] = "write" /\ rpc'[r] = "done" /\ outcome' = outcome
      BY <2>1 DEF Moves
    <3>3. Cardinality(Recorded') = Cardinality(Recorded)
      BY <3>1, <3>2, Counts DEF Bit
    <3>4. ASSUME NEW C PROVE Cardinality(Unrecorded(C)') = Cardinality(Unrecorded(C))
      BY <3>1, <3>2, Counts DEF Bit
    <3> QED
      BY <3>3, <3>4
  <2> QED
    BY <1>1, <2>1, <2>2
<1>12. ASSUME NEW r \in Requests, OrderDone(r) PROVE Records'
  <2>1. Moves(r, "done", "record") /\ UNCHANGED outcome
    BY <1>12, HandlerEffect
  <2>2. /\ Cardinality(Recorded') = Cardinality(Recorded)
        /\ \A C : Cardinality(Unrecorded(C)') = Cardinality(Unrecorded(C))
    BY <1>12, <2>1, OthersKept, Counts DEF Bit, Moves
  <2>3. /\ stats'.count = stats.count /\ stats'.http = stats.http
        /\ stats'.buckets = stats.buckets
        /\ stats'.placed = stats.placed /\ stats'.rejected = stats.rejected
    BY <1>12, <2>1, StatsEffect DEF Moves
  <2> QED
    BY <1>1, <2>2, <2>3
<1>13. ASSUME NEW r \in Requests, RecordHTTP(r) PROVE Records'
  <2>1. Moves(r, "record", "end") /\ UNCHANGED outcome /\ outcome[r] \in Codes
    BY <1>13, HandlerEffect DEF Handlers, After, Moves, Types
  <2>2. /\ Cardinality(Recorded') = Cardinality(Recorded) + 1
        /\ Cardinality(Unrecorded({201})') = Cardinality(Unrecorded({201})) - Bit(outcome[r] = 201)
        /\ Cardinality(Unrecorded({400, 502})')
             = Cardinality(Unrecorded({400, 502})) - Bit(outcome[r] \in {400, 502})
    BY <1>13, <2>1, OthersKept, Counts DEF Bit, Moves
  <2>3. /\ stats'.count = stats.count + 1
        /\ stats'.placed = stats.placed /\ stats'.rejected = stats.rejected
        /\ stats'.http[outcome[r]] = stats.http[outcome[r]] + 1
        /\ \A c \in Codes : c # outcome[r] => stats'.http[c] = stats.http[c]
    BY <1>13, <2>1, StatsEffect DEF Moves, Codes
  <2>4. /\ stats'.http[200] = stats.http[200] + Bit(outcome[r] = 200)
        /\ stats'.http[201] = stats.http[201] + Bit(outcome[r] = 201)
        /\ stats'.http[400] = stats.http[400] + Bit(outcome[r] = 400)
        /\ stats'.http[405] = stats.http[405] + Bit(outcome[r] = 405)
        /\ stats'.http[502] = stats.http[502] + Bit(outcome[r] = 502)
    BY <2>3 DEF Bit, Codes
  <2>5. PICK lat \in Latencies :
          \A b \in Buckets : stats'.buckets[b] = stats.buckets[b] + Bit(lat <= b)
    <3>1. outcome[r] # 0
      BY <2>1 DEF Codes
    <3> QED
      BY <1>13, <3>1, StatsEffect, ZenonT(60)
  <2>6. /\ stats'.count <= Cardinality(Recorded')
        /\ stats'.http[201] + Cardinality(Unrecorded({201})') <= stats'.placed
    BY <2>2, <2>3, <2>4 DEF Bit
  <2>7. stats'.http[400] + stats'.http[502] + Cardinality(Unrecorded({400, 502})') <= stats'.rejected
    BY <2>2, <2>3, <2>4 DEF Bit
  <2>8. stats'.http[200] + stats'.http[201] + stats'.http[400] + stats'.http[405]
          + stats'.http[502] = stats'.count
    BY <2>1, <2>3, <2>4 DEF Bit, Codes
  <2>9. \A a \in Buckets : stats'.buckets[a] <= stats'.count
    BY <2>3, <2>5 DEF Bit
  <2>10. ASSUME NEW a \in Buckets, NEW b \in Buckets, a <= b
         PROVE  stats'.buckets[a] <= stats'.buckets[b]
    <3>1. lat <= a => lat <= b
      BY <2>10
    <3>2. /\ stats'.buckets[a] = stats.buckets[a] + Bit(lat <= a)
          /\ stats'.buckets[b] = stats.buckets[b] + Bit(lat <= b)
      BY <2>5
    <3>3. stats.buckets[a] <= stats.buckets[b] /\ stats.buckets[a] \in Nat /\ stats.buckets[b] \in Nat
      BY <2>10, ZenonT(60)
    <3> QED
      BY <3>1, <3>2, <3>3 DEF Bit
  <2>11. \A a, b \in Buckets : a <= b => stats'.buckets[a] <= stats'.buckets[b]
    BY <2>10
  <2> QED
    BY <2>6, <2>7, <2>8, <2>9, <2>11, ZenonT(60)
<1>14. ASSUME Stop \/ Crash PROVE Records'
  BY <1>14, CutEffect
<1>15. ASSUME Restart PROVE Records'
  BY <1>15, RestartEffect DEF NewStats, Codes
<1>16. ASSUME Shutdown \/ UNCHANGED vars \/ \E r \in Requests : HandleEnqueue(r) PROVE Records'
  BY <1>2, <1>16 DEF Shutdown, vars, HandleEnqueue
<1> QED
  BY <1>3, <1>4, <1>5, <1>6, <1>7, <1>8, <1>9, <1>10, <1>11, <1>12, <1>13, <1>14, <1>15, <1>16,
     NextCases

\* Before the first crash, what clients were told has been counted.
LEMMA AnswersStep ==
  ASSUME Types, Handlers, Answers, [Next]_vars
  PROVE  Answers'
<1> USE DEF Answers
<1> USE CountTypes, StatsNumbers
<1>1. ASSUME stats'.placed = stats.placed, stats'.rejected = stats.rejected,
             UNCHANGED crashes, phase' # "crashed" \/ UNCHANGED phase,
             \A C \in {{201}, {400, 502}} :
                Cardinality(Told(C)') + Cardinality(Untold(C)')
                  <= Cardinality(Told(C)) + Cardinality(Untold(C))
      PROVE  Answers'
  BY <1>1
<1>2. ASSUME NEW r \in Requests,
             \/ OrderReceived(r) \/ Validate(r) \/ ReadCart(r) \/ CheckAvailability(r)
             \/ PostEnqueue(r) \/ EnqueueReturns(r) \/ EnqueueTimesOut(r)
             \/ OrderDone(r) \/ RecordHTTP(r)
      PROVE  Answers'
  <2>1. /\ rpc[r] # "write" /\ rpc'[r] # "write" /\ UNCHANGED <<phase, crashes, response>>
        /\ stats' = stats \/ OrderReceived(r) \/ ReadCart(r) \/ OrderDone(r) \/ RecordHTTP(r)
    BY <1>2, HandlerEffect DEF Moves
  <2>2. \A C : /\ Cardinality(Told(C)') = Cardinality(Told(C))
               /\ Cardinality(Untold(C)') = Cardinality(Untold(C))
    BY <1>2, <2>1, OthersKept, Counts DEF Bit
  <2>3. stats'.placed = stats.placed /\ stats'.rejected = stats.rejected
    BY <2>1, StatsEffect, HandlerEffect DEF Handlers, After, Moves
  <2> QED
    BY <1>1, <2>1, <2>2, <2>3
<1>3. ASSUME NEW r \in Requests, OtherRequest(r) PROVE Answers'
  <2>1. /\ Moves(r, "new", "record") /\ response'[r] \in {200, 405}
        /\ UNCHANGED <<phase, crashes, stats>>
    BY <1>3, HandlerEffect
  <2>2. \A C \in {{201}, {400, 502}} :
          /\ Cardinality(Told(C)') <= Cardinality(Told(C))
          /\ Cardinality(Untold(C)') = Cardinality(Untold(C))
    BY <1>3, <2>1, OthersKept, Counts DEF Bit, Moves
  <2> QED
    BY <1>1, <2>1, <2>2
<1>4. ASSUME NEW r \in Requests, Count(r) PROVE Answers'
  <2>1. Moves(r, "count", "write") /\ UNCHANGED <<phase, crashes, outcome, response>>
    BY <1>4, HandlerEffect
  <2>2. /\ Cardinality(Told({201})') = Cardinality(Told({201}))
        /\ Cardinality(Told({400, 502})') = Cardinality(Told({400, 502}))
        /\ Cardinality(Untold({201})') = Cardinality(Untold({201})) + Bit(outcome[r] = 201)
        /\ Cardinality(Untold({400, 502})')
             <= Cardinality(Untold({400, 502})) + Bit(outcome[r] # 201)
    BY <1>4, <2>1, OthersKept, Counts DEF Bit, Moves
  <2>3. /\ stats'.placed = stats.placed + Bit(outcome[r] = 201)
        /\ stats'.rejected = stats.rejected + Bit(outcome[r] # 201)
    BY <1>4, <2>1, StatsEffect DEF Moves
  <2> QED
    BY <2>1, <2>2, <2>3 DEF Bit
<1>5. ASSUME NEW r \in Requests, WriteResponse(r) PROVE Answers'
  <2>1. /\ Moves(r, "write", "done") /\ response'[r] = outcome[r]
        /\ UNCHANGED <<phase, crashes, stats, outcome>>
    BY <1>5, HandlerEffect
  <2>2. ASSUME NEW C
        PROVE  Cardinality(Told(C)') + Cardinality(Untold(C)')
                 <= Cardinality(Told(C)) + Cardinality(Untold(C))
    <3>1. /\ Cardinality(Told(C)') + Bit(response[r] \in C) = Cardinality(Told(C)) + Bit(outcome[r] \in C)
          /\ Cardinality(Untold(C)') + Bit(outcome[r] \in C) = Cardinality(Untold(C))
      BY <1>5, <2>1, OthersKept, Counts DEF Bit, Moves
    <3> QED
      BY <3>1 DEF Bit
  <2> QED
    BY <1>1, <2>1, <2>2
<1>6. ASSUME Stop PROVE Answers'
  <2>1. UNCHANGED crashes /\ phase' # "crashed"
    BY <1>6 DEF Stop
  <2> QED
    BY <1>1, <1>6, <2>1, CutEffect
<1>7. ASSUME Crash PROVE Answers'
  BY <1>7 DEF Crash, Types
<1>8. ASSUME Restart PROVE Answers'
  BY <1>8, RestartEffect
<1>9. ASSUME Shutdown \/ UNCHANGED vars \/ \E r \in Requests : HandleEnqueue(r) PROVE Answers'
  <2>1. UNCHANGED <<crashes, rpc, outcome, response, stats>> /\ (phase' # "crashed" \/ UNCHANGED phase)
    BY <1>9 DEF Shutdown, vars, HandleEnqueue
  <2>2. \A C : Told(C)' = Told(C) /\ Untold(C)' = Untold(C)
    BY <2>1 DEF Told, Untold
  <2> QED
    BY <1>1, <2>1, <2>2
<1> QED
  BY <1>2, <1>3, <1>4, <1>5, <1>6, <1>7, <1>8, <1>9, NextCases

-----------------------------------------------------------------------------
(* The invariant, and what it says.                                         *)

\* The inductive invariant holds in every reachable state.
THEOREM Invariance == Spec => []IInv
<1>1. Init => IInv
  <2> SUFFICES ASSUME Init PROVE IInv
    OBVIOUS
  <2>1. Types
    BY DEF Init, Types, NewStats, StatsType, Codes, Active
  <2>2. Handlers /\ Calls
    BY DEF Init, Handlers, Calls, Serving, Before, After, Active, Counting
  <2>3. Arrived = {} /\ Uncounted = {} /\ Counted = {} /\ NoCart = {} /\ Recorded = {}
    BY DEF Init, Arrived, Uncounted, Counted, NoCart, Recorded, Counting
  <2>4. /\ Unrecorded({201}) = {} /\ Unrecorded({400, 502}) = {} /\ Untold({201}) = {}
        /\ Untold({400, 502}) = {} /\ Told({201}) = {} /\ Told({400, 502}) = {}
    BY DEF Init, Unrecorded, Untold, Told
  <2>5. Cardinality({}) = 0
    BY FS_EmptySet
  <2>6. Orders
    BY <2>3, <2>5, CountTypes DEF Init, Orders, NewStats
  <2>7. Records
    BY <2>3, <2>4, <2>5 DEF Init, Records, NewStats, Codes
  <2>8. Answers
    BY <2>4, <2>5 DEF Init, Answers, NewStats
  <2> QED
    BY <2>1, <2>2, <2>6, <2>7, <2>8 DEF IInv
<1>2. IInv /\ [Next]_vars => IInv'
  BY TypesStep, HandlersStep, CallsStep, OrdersStep, RecordsStep, AnswersStep DEF IInv
<1> QED
  BY <1>1, <1>2, PTL DEF Spec

\* No counter of order-api grows past the number of requests, and a handler that
\* counts or answers has an outcome.
THEOREM TypeCorrect == Spec => []TypeOK
<1>1. IInv => TypeOK
  <2> SUFFICES ASSUME IInv PROVE TypeOK
    OBVIOUS
  <2>1. Types /\ Handlers /\ Orders /\ Records
    BY DEF IInv
  <2> DEFINE N == Cardinality(Requests)
  <2>2. /\ Cardinality(Arrived) <= N /\ Cardinality(Recorded) <= N
        /\ Arrived \in SUBSET Requests /\ Recorded \in SUBSET Requests
    BY CountType DEF Arrived, Recorded
  <2>3. /\ stats.received \in 0 .. N /\ stats.placed \in 0 .. N /\ stats.rejected \in 0 .. N
        /\ stats.inFlight \in 0 .. N /\ stats.hits \in 0 .. N /\ stats.misses \in 0 .. N
        /\ stats.count \in 0 .. N
    BY <2>1, <2>2, StatsNumbers, CountTypes DEF Orders, Records
  <2>4. /\ DOMAIN stats = {"received", "placed", "rejected", "inFlight", "hits", "misses",
                           "count", "http", "buckets"}
        /\ DOMAIN NewStats = DOMAIN stats
        /\ stats.http \in [Codes -> Nat] /\ stats.buckets \in [Buckets -> Nat]
    BY <2>1 DEF Types, StatsType, NewStats
  <2>5. \A f \in DOMAIN stats \ {"http", "buckets"} : stats[f] \in 0 .. N
    BY <2>3, <2>4
  <2>6. \A r \in Requests : rpc[r] \in {"count", "write", "done", "record", "end"} => outcome[r] # 0
    BY <2>1 DEF Handlers, After
  <2> QED
    BY <2>1, <2>4, <2>5, <2>6 DEF Types, TypeOK
<1> QED
  BY <1>1, Invariance, PTL

\* Every scrape is self-consistent, whatever handlers are between two of their
\* critical sections.
THEOREM ScrapeIsConsistent == Spec => []ScrapeConsistent
<1>1. IInv => ScrapeConsistent
  <2> SUFFICES ASSUME IInv, Serving PROVE ScrapeConsistent
    BY DEF ScrapeConsistent, Metrics
  <2> DEFINE h == Histogram(stats)
  <2>1. Types /\ Orders /\ Records
    BY DEF IInv
  <2>2. Metrics.up = 1 /\ Metrics.native = stats /\ Metrics.le = h
    BY DEF Metrics, Snapshot
  <2>3. /\ stats.placed + stats.rejected <= stats.received
        /\ stats.received <= stats.placed + stats.rejected + stats.inFlight
        /\ stats.inFlight <= stats.received
        /\ stats.hits + stats.misses <= stats.received
    BY <2>1, StatsNumbers, CountTypes DEF Orders
  <2>4. /\ stats.http[201] <= stats.placed
        /\ stats.http[400] + stats.http[502] <= stats.rejected
    BY <2>1, StatsNumbers, CountTypes DEF Records
  <2>5. /\ DOMAIN h = Buckets \cup {Inf} /\ h[Inf] = stats.count
        /\ \A b \in Buckets : h[b] = stats.buckets[b]
    BY DEF Histogram
  <2>6. stats.http[200] + stats.http[201] + stats.http[400] + stats.http[405] + stats.http[502]
          = h[Inf]
    BY <2>1, <2>5 DEF Records
  <2>7. ASSUME NEW a \in DOMAIN h, NEW b \in DOMAIN h, a <= b PROVE h[a] <= h[b]
    <3>1. CASE a \in Buckets /\ b \in Buckets
      BY <2>1, <2>5, <2>7, <3>1 DEF Records
    <3>2. CASE a \in Buckets /\ b = Inf
      BY <2>1, <2>5, <3>2 DEF Records
    <3>3. CASE a = Inf /\ b \in Buckets
      BY <2>7, <3>3
    <3>4. CASE a = Inf /\ b = Inf
      BY <2>1, <2>5, <3>4, StatsNumbers
    <3> QED
      BY <2>5, <3>1, <3>2, <3>3, <3>4
  <2> HIDE DEF h
  <2> QED
    BY <2>2, <2>3, <2>4, <2>6, <2>7 DEF ScrapeConsistent
<1> QED
  BY <1>1, Invariance, PTL

\* A client that has its answer finds it counted.
THEOREM AnsweredAreCounted == Spec => []AnsweredIsCounted
<1>1. IInv => AnsweredIsCounted
  <2> SUFFICES ASSUME IInv, crashes = 0
      PROVE /\ Cardinality({r \in Requests : response[r] = 201}) <= stats.placed
            /\ Cardinality({r \in Requests : response[r] \in {400, 502}}) <= stats.rejected
    BY DEF AnsweredIsCounted
  <2>1. /\ {r \in Requests : response[r] = 201} = Told({201})
        /\ {r \in Requests : response[r] \in {400, 502}} = Told({400, 502})
    BY DEF Told
  <2>2. Types /\ Answers
    BY DEF IInv
  <2>3. /\ Cardinality(Told({201})) + Cardinality(Untold({201})) <= stats.placed
        /\ Cardinality(Told({400, 502})) + Cardinality(Untold({400, 502})) <= stats.rejected
    BY <2>2 DEF Answers
  <2>4. /\ Cardinality(Told({201})) \in Nat /\ Cardinality(Untold({201})) \in Nat
        /\ Cardinality(Told({400, 502})) \in Nat /\ Cardinality(Untold({400, 502})) \in Nat
        /\ stats.placed \in Nat /\ stats.rejected \in Nat
    BY <2>2, StatsNumbers, CountTypes
  <2> QED
    BY ONLY <2>1, <2>3, <2>4
<1> QED
  BY <1>1, Invariance, PTL

\* An order and its task agree, through lost replies, timeouts and crashes.
THEOREM TaskMatches == Spec => []TaskMatchesAnswer
<1>1. IInv => TaskMatchesAnswer
  <2> SUFFICES ASSUME IInv, NEW r \in Requests
      PROVE /\ task[r] <= 1
            /\ outcome[r] = 201 => task[r] = 1
            /\ outcome[r] \in {200, 400, 405} => task[r] = 0
            /\ task[r] = 1 => rpc[r] = "cut" \/ rpc[r] = "wait" \/ outcome[r] \in {201, 502}
    BY DEF TaskMatchesAnswer
  <2> QED
    BY DEF IInv, Calls
<1> QED
  BY <1>1, Invariance, PTL
=============================================================================
