----------------------------- MODULE Settlement -----------------------------
(***************************************************************************)
(* The settlement sweeper, composed with the leader-elector sidecar of its  *)
(* pod.  Each pod's loop asks its sidecar once per sweep, reads the pending *)
(* set, and finalizes one order after the other: HGET, finalize work and    *)
(* HSET, SREM are separate Redis calls.  Orders become pending when the     *)
(* work queue acks their task, which may happen more than once.             *)
(***************************************************************************)
EXTENDS LeaderLease, FiniteSets

CONSTANTS
    Orders,
    NoOrder,
    MaxHandovers,   \* bound: how often an order is put into the pending set
    MaxErrors       \* bound: failed Redis calls and sweeper crashes

ASSUME OrdersAssumption == NoOrder \notin Orders
ASSUME BoundsAssumption == MaxHandovers \in Nat /\ MaxErrors \in Nat

VARIABLES
    pending,    \* SET orderforge:settle:pending
    finalized,  \* the orders whose hash says finalized = "1"
    spc,        \* where each sweeper stands
    batch,      \* the orders of its SMEMBERS reply it has not taken up yet
    order,      \* the order it is finalizing
    errors,     \* failed calls and crashes so far
    handed,     \* history: how often each order was handed over
    worked      \* history: how often each pod did the finalize work, up to 2

sweepVars == <<pending, finalized, spc, batch, order, errors, handed, worked>>
vars == <<holder, age, epc, since, starting, isLeader, valid, faults,
          pending, finalized, spc, batch, order, errors, handed, worked>>

SPCs == {"wait", "list", "get", "work", "remove"}

\* One type invariant for the orders and the sweepers.
TypeOK ==
    /\ LeaseTypeOK
    /\ pending \subseteq Orders
    /\ finalized \subseteq Orders
    /\ spc \in [Pods -> SPCs]
    /\ batch \in [Pods -> SUBSET Orders]
    /\ order \in [Pods -> Orders \cup {NoOrder}]
    /\ \A p \in Pods : order[p] = NoOrder <=> spc[p] \in {"wait", "list"}
    /\ \A p \in Pods : spc[p] \in {"wait", "list"} => batch[p] = {}
    /\ errors \in 0 .. MaxErrors
    /\ handed \in [Orders -> 0 .. MaxHandovers]
    /\ worked \in [Pods -> [Orders -> 0 .. 2]]

Init ==
    /\ LeaseInit
    /\ pending = {}
    /\ finalized = {}
    /\ spc = [p \in Pods |-> "wait"]
    /\ batch = [p \in Pods |-> {}]
    /\ order = [p \in Pods |-> NoOrder]
    /\ errors = 0
    /\ handed = [o \in Orders |-> 0]
    /\ worked = [p \in Pods |-> [o \in Orders |-> 0]]

-----------------------------------------------------------------------------
\* The framework's ack: SADD settle:pending.
Handover(o) ==
    /\ handed[o] < MaxHandovers
    /\ handed' = [handed EXCEPT ![o] = @ + 1]
    /\ pending' = pending \cup {o}
    /\ UNCHANGED <<leaseVars, finalized, spc, batch, order, errors, worked>>

Goto(p, label) == spc' = [spc EXCEPT ![p] = label]

\* is_leader answers yes.  A poll that fails or answers no ends the sweep,
\* which then has changed nothing.
PollLeader(p) ==
    /\ spc[p] = "wait"
    /\ Reports(p)
    /\ Goto(p, "list")
    /\ UNCHANGED <<leaseVars, pending, finalized, batch, order, errors, handed,
                   worked>>

\* The for loop of sweep goes on with one of the orders in rest, or the sweep ends.
Proceed(p, rest) ==
    \/ \E o \in rest :
          /\ batch' = [batch EXCEPT ![p] = rest \ {o}]
          /\ order' = [order EXCEPT ![p] = o]
          /\ Goto(p, "get")
    \/ /\ rest = {}
       /\ batch' = [batch EXCEPT ![p] = {}]
       /\ order' = [order EXCEPT ![p] = NoOrder]
       /\ Goto(p, "wait")

\* SMEMBERS settle:pending, and on to the first order.
ReadPending(p) ==
    /\ spc[p] = "list"
    /\ Proceed(p, pending)
    /\ UNCHANGED <<leaseVars, pending, finalized, errors, handed, worked>>

\* Mutant: the flag is not looked at.
GetFinalizedIgnored(p) ==
    /\ spc[p] = "get"
    /\ Goto(p, "work")
    /\ UNCHANGED <<leaseVars, pending, finalized, batch, order, errors, handed,
                   worked>>

\* HGET order:<id> finalized.
GetFinalized(p) ==
    /\ spc[p] = "get"
    /\ Goto(p, IF order[p] \in finalized THEN "remove" ELSE "work")
    /\ UNCHANGED <<leaseVars, pending, finalized, batch, order, errors, handed,
                   worked>>

\* HSET order:<id> finalized 1, with the finalize work before it, at Redis.
SetFinalized(p) ==
    /\ finalized' = finalized \cup {order[p]}
    /\ worked' = [worked EXCEPT ![p][order[p]] = IF @ < 2 THEN @ + 1 ELSE @]

Finalize(p) ==
    /\ spc[p] = "work"
    /\ SetFinalized(p)
    /\ Goto(p, "remove")
    /\ UNCHANGED <<leaseVars, pending, batch, order, errors, handed>>

\* Mutant: the loop variable outlives the loop.
RemoveKeepsOrder(p) ==
    /\ spc[p] = "remove"
    /\ pending' = pending \ {order[p]}
    /\ Goto(p, "wait")
    /\ UNCHANGED <<leaseVars, finalized, batch, order, errors, handed, worked>>

\* SREM settle:pending, and on to the next order.
Remove(p) ==
    /\ spc[p] = "remove"
    /\ pending' = pending \ {order[p]}
    /\ Proceed(p, batch[p])
    /\ UNCHANGED <<leaseVars, finalized, errors, handed, worked>>

AnError == errors < MaxErrors /\ errors' = errors + 1

\* Mutant: the error is swallowed one call too early, and SREM goes ahead.
RedisErrorSwallowed(p) ==
    /\ AnError
    /\ spc[p] = "work"
    /\ Goto(p, "remove")
    /\ UNCHANGED <<leaseVars, pending, finalized, batch, order, handed, worked>>

\* A Redis call fails: SMEMBERS ends the sweep, its batch being empty, any other
\* call skips the order.
RedisError(p) ==
    /\ AnError
    /\ spc[p] \in {"list", "get", "work", "remove"}
    /\ Proceed(p, batch[p])
    /\ UNCHANGED <<leaseVars, pending, finalized, handed, worked>>

\* HSET or SREM is applied and its reply is lost: an error like any other.
ReplyLost(p) ==
    /\ AnError
    /\ \/ /\ spc[p] = "work"
          /\ SetFinalized(p) /\ pending' = pending
       \/ /\ spc[p] = "remove"
          /\ pending' = pending \ {order[p]} /\ UNCHANGED <<finalized, worked>>
    /\ Proceed(p, batch[p])
    /\ UNCHANGED <<leaseVars, handed>>

\* The settlement container dies and is started again.
SweeperCrash(p) ==
    /\ AnError
    /\ spc[p] # "wait"
    /\ Goto(p, "wait")
    /\ batch' = [batch EXCEPT ![p] = {}]
    /\ order' = [order EXCEPT ![p] = NoOrder]
    /\ UNCHANGED <<leaseVars, pending, finalized, handed, worked>>

-----------------------------------------------------------------------------
SweepStep(p) ==
    ReadPending(p) \/ GetFinalized(p) \/ Finalize(p) \/ Remove(p)

Next ==
    \/ LeaseNext /\ UNCHANGED sweepVars
    \/ \E o \in Orders : Handover(o)
    \/ \E p \in Pods : PollLeader(p) \/ SweepStep(p)
    \/ \E p \in Pods : RedisError(p) \/ ReplyLost(p) \/ SweeperCrash(p)

Spec == Init /\ [][Next]_vars

(***************************************************************************)
(* Electors, tickers, sweepers and the clock keep going;   a standby that   *)
(* finds the lease free in the end takes it.  A leadership lasts for at     *)
(* least RenewDeadline, its start callback is a goroutine that is ready to  *)
(* run all that time, and polls come every SWEEP_INTERVAL_S, well within:   *)
(* hence strong fairness of the callback and of a successful poll by some   *)
(* pod.  Renewals are not assumed.                                          *)
(***************************************************************************)
Fairness ==
    /\ WF_vars(Tick /\ UNCHANGED sweepVars)
    /\ SF_vars(\E p \in Pods : PollLeader(p))
    /\ \A p \in Pods :
          /\ WF_vars(ElectorStep(p) /\ UNCHANGED sweepVars)
          /\ SF_vars(OnStartedLeading(p) /\ UNCHANGED sweepVars)
          /\ WF_vars(RefreshValidUntil(p) /\ UNCHANGED sweepVars)
          /\ WF_vars(SweepStep(p))

FairSpec == Spec /\ Fairness

-----------------------------------------------------------------------------
(* Properties *)

\* No order handed to settlement is forgotten: it is pending until it is
\* finalized, with any number of sweepers at work, stale batches, failed
\* calls, and crashes between HGET, HSET and SREM.
PendingOrFinalized == \A o \in Orders : handed[o] > 0 => o \in pending \cup finalized

\* Every order handed over is settled, through leaders that lose the lease,
\* sweepers that crash in the middle of an order and failed Redis calls.
EventuallySettled == \A o \in Orders : handed[o] > 0 ~> o \in finalized

\* A pod does the finalize work of an order once, through repeated handovers,
\* failed calls, lost replies and crashes: only another pod, past its own HGET
\* when this one sets the flag, can repeat it ("Safe to run twice").
FinalizeOncePerPod == \A p \in Pods, o \in Orders : worked[p][o] <= 1
=============================================================================
