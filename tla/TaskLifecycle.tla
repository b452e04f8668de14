---------------------------- MODULE TaskLifecycle ----------------------------
(***************************************************************************)
(* What the work queue promises about a task, whoever works on it: it is    *)
(* accepted once, its attempts are charged and never refunded, it is dead-  *)
(* lettered only when they are used up, an outcome is never withdrawn, and  *)
(* only a task that is done is handed to settlement, in the same step.      *)
(***************************************************************************)
EXTENDS Naturals

CONSTANTS
    Tasks,
    MaxAttempts

VARIABLES
    attempt,        \* 0 before the task is accepted
    done,           \* acknowledged, as processed or as failed
    dead,           \* dead-lettered
    settlePending   \* handed to settlement

vars == <<attempt, done, dead, settlePending>>

Init ==
    /\ attempt = [t \in Tasks |-> 0]
    /\ done = {} /\ dead = {} /\ settlePending = {}

Accept(t) ==
    /\ attempt[t] = 0
    /\ attempt' = [attempt EXCEPT ![t] = 1]
    /\ UNCHANGED <<done, dead, settlePending>>

\* A worker acknowledges an accepted task, also one given up meanwhile.  It goes
\* to settlement with its acknowledgement or not at all.
Acknowledge(t) ==
    /\ attempt[t] > 0
    /\ done' = done \cup {t}
    /\ settlePending' \in {settlePending, settlePending \cup {t}}
    /\ UNCHANGED <<attempt, dead>>

\* A reaper charges attempts, of several tasks at once, and gives up those that
\* have none left.
Charge ==
    /\ \A t \in Tasks : /\ attempt'[t] >= attempt[t]
                        /\ attempt[t] = 0 => attempt'[t] = 0
    /\ \A t \in dead' : attempt'[t] > MaxAttempts
    /\ dead \subseteq dead' /\ dead' \subseteq Tasks
    /\ UNCHANGED <<done, settlePending>>

Next == Charge \/ \E t \in Tasks : Accept(t) \/ Acknowledge(t)

Spec == Init /\ [][Next]_vars
=============================================================================
