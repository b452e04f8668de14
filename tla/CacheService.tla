---------------------------- MODULE CacheService ----------------------------
(***************************************************************************)
(* What the cache-ambassador promises the application beside it: one cache  *)
(* that takes a command, runs it, and answers it once, with that command's  *)
(* own reply or with an error.  The promise is no stronger than that: a     *)
(* command may run twice, and may still run after its answer (pool.do sends *)
(* it again, and a shard may run what was written on a connection that has  *)
(* been given up since).                                                    *)
(***************************************************************************)
EXTENDS Naturals

CONSTANT Cmds   \* the commands the application may issue

VARIABLES
    status,     \* "new", "pending", "answered" or "failed"
    runs        \* how often a shard has run each command

\* The command has reached the ambassador.
Accept(m) ==
    /\ status[m] = "new"
    /\ status' = [status EXCEPT ![m] = "pending"]
    /\ UNCHANGED runs

\* Some shard runs an accepted command, at most twice in all.
Run(m) ==
    /\ status[m] # "new"
    /\ runs[m] < 2
    /\ runs' = [runs EXCEPT ![m] = @ + 1]
    /\ UNCHANGED status

\* The command's own reply is relayed: it has run.
Answer(m) ==
    /\ status[m] = "pending"
    /\ runs[m] > 0
    /\ status' = [status EXCEPT ![m] = "answered"]
    /\ UNCHANGED runs

\* An error takes the place of the reply: nobody knows whether it has run.
Fail(m) ==
    /\ status[m] = "pending"
    /\ status' = [status EXCEPT ![m] = "failed"]
    /\ UNCHANGED runs

Init ==
    /\ status = [m \in Cmds |-> "new"]
    /\ runs = [m \in Cmds |-> 0]

Next == \E m \in Cmds : Accept(m) \/ Run(m) \/ Answer(m) \/ Fail(m)

Spec == Init /\ [][Next]_<<status, runs>>
=============================================================================
