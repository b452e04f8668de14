----------------------------- MODULE LeaderLease -----------------------------
(***************************************************************************)
(* The leader-elector sidecars of the settlement pods: the Lease object at  *)
(* the API server, client-go's election loop (external, as the sidecar      *)
(* configures it: ReleaseOnCancel, LeaseDuration > RenewDeadline), and the  *)
(* sidecar's own state behind GET /leader, which callbacks and a refresh    *)
(* goroutine update.                                                        *)
(*                                                                          *)
(* Time is counted in RetryPeriods.  Ages and remaining validity are kept   *)
(* instead of instants, so that the state space is finite.                  *)
(***************************************************************************)
EXTENDS Naturals

CONSTANTS
    Pods,           \* identities, POD_NAME
    NoPod,          \* the empty holderIdentity
    LeaseDuration,
    RenewDeadline,
    Punctual,       \* whether electors meet their renew deadline: no pod is
                    \* frozen between its deadline and OnStoppedLeading
    MaxFaults       \* bound: crashes and signals in a behaviour

ASSUME DurationsAssumption ==
    /\ LeaseDuration \in Nat
    /\ RenewDeadline \in Nat \ {0}
    /\ LeaseDuration > RenewDeadline
ASSUME PodsAssumption == NoPod \notin Pods
ASSUME PunctualAssumption == Punctual \in BOOLEAN
ASSUME MaxFaultsAssumption == MaxFaults \in Nat

VARIABLES
    holder,     \* holderIdentity of the Lease
    age,        \* time since the Lease was last written, up to LeaseDuration
    epc,        \* where each elector stands
    since,      \* time since a leading elector's last successful renewal
    starting,   \* OnStartedLeading is spawned and has not run yet
    isLeader,   \* leaderState.isLeader
    valid,      \* how far leaseValidUntilUnix lies ahead; 0 once it is past
    faults      \* faults that happened so far

leaseVars == <<holder, age, epc, since, starting, isLeader, valid, faults>>

\* "stopping": renew has returned; "released": release has been tried, and
\* OnStoppedLeading is next; "exiting": RunOrDie has returned.
EPCs == {"standby", "leading", "stopping", "released", "exiting"}

\* One type invariant for the Lease and the electors.
LeaseTypeOK ==
    /\ holder \in Pods \cup {NoPod}
    /\ age \in 0 .. LeaseDuration
    /\ epc \in [Pods -> EPCs]
    /\ since \in [Pods -> 0 .. LeaseDuration]
    /\ starting \in [Pods -> BOOLEAN]
    /\ isLeader \in [Pods -> BOOLEAN]
    /\ valid \in [Pods -> 0 .. LeaseDuration]
    /\ faults \in 0 .. MaxFaults

LeaseInit ==
    /\ holder = NoPod
    /\ age = LeaseDuration
    /\ epc = [p \in Pods |-> "standby"]
    /\ since = [p \in Pods |-> 0]
    /\ starting = [p \in Pods |-> FALSE]
    /\ isLeader = [p \in Pods |-> FALSE]
    /\ valid = [p \in Pods |-> 0]
    /\ faults = 0

AFault == faults < MaxFaults /\ faults' = faults + 1

-----------------------------------------------------------------------------
(* client-go's election loop *)

\* Mutant: a standby does not wait for the lease to run out.
MayAcquireEarly(p) == holder \in {NoPod, p} \/ age >= RenewDeadline

\* A pod takes a lease that is free, its own from before a restart, or one
\* not renewed for LeaseDuration.
MayAcquire(p) == holder \in {NoPod, p} \/ age >= LeaseDuration

Acquire(p) ==
    /\ epc[p] = "standby"
    /\ MayAcquire(p)
    /\ holder' = p
    /\ age' = 0
    /\ since' = [since EXCEPT ![p] = 0]
    /\ epc' = [epc EXCEPT ![p] = "leading"]
    /\ starting' = [starting EXCEPT ![p] = TRUE]
    /\ UNCHANGED <<isLeader, valid, faults>>

\* A renewal succeeds, or the Lease is written and the reply is lost.
Renew(p) ==
    /\ epc[p] = "leading"
    /\ holder = p
    /\ age' = 0
    /\ \/ since' = [since EXCEPT ![p] = 0]
       \/ UNCHANGED since
    /\ UNCHANGED <<holder, epc, starting, isLeader, valid, faults>>

\* No renewal within RenewDeadline: renew returns.
RenewTimesOut(p) ==
    /\ epc[p] = "leading"
    /\ since[p] >= RenewDeadline
    /\ epc' = [epc EXCEPT ![p] = "stopping"]
    /\ UNCHANGED <<holder, age, since, starting, isLeader, valid, faults>>

\* ReleaseOnCancel: the holder is cleared, unless the write fails.
Release(p) ==
    /\ epc[p] = "stopping"
    /\ epc' = [epc EXCEPT ![p] = "released"]
    /\ \/ /\ holder = p
          /\ holder' = NoPod
          /\ age' = 0
       \/ UNCHANGED <<holder, age>>
    /\ UNCHANGED <<since, starting, isLeader, valid, faults>>

-----------------------------------------------------------------------------
(* The sidecar *)

\* A goroutine of its own: nothing orders it before a later OnStoppedLeading.
OnStartedLeading(p) ==
    /\ starting[p]
    /\ starting' = [starting EXCEPT ![p] = FALSE]
    /\ valid' = [valid EXCEPT ![p] = LeaseDuration]
    /\ isLeader' = [isLeader EXCEPT ![p] = TRUE]
    /\ UNCHANGED <<holder, age, epc, since, faults>>

\* Mutant: the leadership test is inverted.
RefreshInverted(p) ==
    /\ ~isLeader[p]
    /\ epc[p] \in {"leading", "stopping", "released"}
    /\ valid' = [valid EXCEPT ![p] = LeaseDuration]
    /\ UNCHANGED <<holder, age, epc, since, starting, isLeader, faults>>

\* refreshValidUntil: a ticker, not a renewal, moves leaseValidUntil forward.
RefreshValidUntil(p) ==
    /\ isLeader[p]
    /\ epc[p] \in {"leading", "stopping", "released"}
    /\ valid' = [valid EXCEPT ![p] = LeaseDuration]
    /\ UNCHANGED <<holder, age, epc, since, starting, isLeader, faults>>

\* OnStoppedLeading clears the state; RunOrDie returns, which stops main.
OnStoppedLeading(p) ==
    /\ epc[p] = "released"
    /\ epc' = [epc EXCEPT ![p] = "exiting"]
    /\ isLeader' = [isLeader EXCEPT ![p] = FALSE]
    /\ valid' = [valid EXCEPT ![p] = 0]
    /\ UNCHANGED <<holder, age, since, starting, faults>>

FreshElector(p) ==
    /\ epc' = [epc EXCEPT ![p] = "standby"]
    /\ since' = [since EXCEPT ![p] = 0]
    /\ starting' = [starting EXCEPT ![p] = FALSE]
    /\ isLeader' = [isLeader EXCEPT ![p] = FALSE]
    /\ valid' = [valid EXCEPT ![p] = 0]

\* Mutant: after RunOrDie returned, the process campaigns again as it is, with
\* whatever a late start callback has left in its state.
ElectorRejoins(p) ==
    /\ epc[p] = "exiting"
    /\ epc' = [epc EXCEPT ![p] = "standby"]
    /\ UNCHANGED <<holder, age, since, starting, isLeader, valid, faults>>

\* main ends after its drain and the container is started again.
ElectorRestarts(p) ==
    /\ epc[p] = "exiting"
    /\ FreshElector(p)
    /\ UNCHANGED <<holder, age, faults>>

\* The container dies: nothing is released.
ElectorCrash(p) ==
    /\ AFault
    /\ FreshElector(p)
    /\ UNCHANGED <<holder, age>>

\* SIGTERM cancels the election context: renew returns, or acquire does.
ElectorSigterm(p) ==
    /\ AFault
    /\ epc[p] \in {"standby", "leading"}
    /\ epc' = [epc EXCEPT ![p] = IF epc[p] = "leading" THEN "stopping" ELSE "released"]
    /\ UNCHANGED <<holder, age, since, starting, isLeader, valid>>

-----------------------------------------------------------------------------
(* Time *)

\* Work that takes no time in a punctual elector: giving up at the deadline
\* and the way from there to OnStoppedLeading.
Urgent(p) ==
    \/ epc[p] = "leading" /\ since[p] >= RenewDeadline
    \/ epc[p] \in {"stopping", "released"}

Older(n) == IF n < LeaseDuration THEN n + 1 ELSE n

Tick ==
    /\ Punctual => \A p \in Pods : ~Urgent(p)
    /\ age' = Older(age)
    /\ since' = [p \in Pods |-> IF epc[p] = "leading" THEN Older(since[p]) ELSE since[p]]
    /\ valid' = [p \in Pods |-> IF valid[p] > 0 THEN valid[p] - 1 ELSE 0]
    /\ UNCHANGED <<holder, epc, starting, isLeader, faults>>

-----------------------------------------------------------------------------
ElectorStep(p) ==
    \/ Acquire(p) \/ RenewTimesOut(p) \/ Release(p)
    \/ OnStoppedLeading(p) \/ ElectorRestarts(p)

LeaseNext ==
    \/ \E p \in Pods : \/ ElectorStep(p) \/ Renew(p)
                       \/ OnStartedLeading(p) \/ RefreshValidUntil(p)
                       \/ ElectorCrash(p) \/ ElectorSigterm(p)
    \/ Tick

LeaseSpec == LeaseInit /\ [][LeaseNext]_leaseVars

\* What is_leader accepts: isLeader with a leaseValidUntil still ahead.
Reports(p) == isLeader[p] /\ valid[p] > 0

-----------------------------------------------------------------------------
(* Properties *)

\* An elector past its renew loop: its process ends without leading again.
Leaving(p) == epc[p] \in {"stopping", "released", "exiting"}

\* With punctual electors two pods report leadership together only while one
\* of them is past its renew loop: between the end of renew, or a start
\* callback that came late, and the end of its process.  What a late callback has left
\* behind never reaches the next election.
OverlapOnlyWhileStopping ==
    \A p, q \in Pods :
        p # q /\ Reports(p) /\ Reports(q) => Leaving(p) \/ Leaving(q)

=============================================================================
