--------------------------- MODULE StageHandshake ---------------------------
(***************************************************************************)
(* The file handshake inside one stage pod: the framework's runStage writes *)
(* a task directory on the shared volume and polls it for a marker; the     *)
(* order-stage shim polls the same volume, spawns a stage child per request *)
(* and turns its exit code into a marker.  The two containers share nothing *)
(* but the files, and every file operation is a step of its own.            *)
(*                                                                          *)
(* A directory is the set of what it holds.  in/ and order.json are one     *)
(* entry, "order": the write is a rename, so it is there whole or not.      *)
(***************************************************************************)
EXTENDS Naturals, FiniteSets

CONSTANTS
    Tasks,      \* task ids this pod may be given
    Valid,      \* the tasks whose order the stage accepts
    MaxRuns,    \* bound: how often the pod is given one task
    MaxCrashes, \* bound: container crashes in a behaviour
    Killable,   \* whether a stage child may be killed or fail to start
    NoTask

ASSUME ValidAssumption == Valid \subseteq Tasks
ASSUME BoundsAssumption == MaxRuns \in Nat /\ MaxCrashes \in Nat
ASSUME KillableAssumption == Killable \in BOOLEAN
ASSUME NoTaskAssumption == NoTask \notin Tasks

VARIABLES
    files,      \* what each task directory holds; {} when there is none
    fpc,        \* where the framework's handleTask stands
    ftask,      \* the task it handles
    verdict,    \* what runStage returned to handleTask: "done" or "failed"
    spc,        \* where the shim's event loop stands
    stask,      \* the directory it is looking at
    child,      \* the stage child of each task, "none" outside inProgress
    runs,       \* how often each task was given to this pod
    crashes     \* containers that crashed so far

fVars == <<fpc, ftask, verdict>>
sVars == <<spc, stask>>
vars  == <<files, fpc, ftask, verdict, spc, stask, child, runs, crashes>>

Entries == {"dir", "out", "order", "ready", "result", "done", "failed"}
FPCs == {"idle", "reset", "mkdir", "write", "signal", "poll", "ack", "cleanup"}
SPCs == {"idle", "seen", "eligible", "mark_done", "mark_failed"}
Children == {"none", "read", "write", "exit0", "exit1"}

\* One type invariant: directories, the two loops and the children.
TypeOK ==
    /\ files \in [Tasks -> SUBSET Entries]
    /\ fpc \in FPCs
    /\ ftask \in Tasks \cup {NoTask}
    /\ ftask = NoTask <=> fpc = "idle"
    /\ verdict \in {"none", "done", "failed"}
    /\ spc \in SPCs
    /\ stask \in Tasks \cup {NoTask}
    /\ stask = NoTask <=> spc = "idle"
    /\ child \in [Tasks -> Children]
    /\ runs \in [Tasks -> 0 .. MaxRuns]
    /\ crashes \in 0 .. MaxCrashes

Init ==
    /\ files = [t \in Tasks |-> {}]
    /\ fpc = "idle" /\ ftask = NoTask /\ verdict = "none"
    /\ spc = "idle" /\ stask = NoTask
    /\ child = [t \in Tasks |-> "none"]
    /\ runs = [t \in Tasks |-> 0]
    /\ crashes = 0

\* Creating a file fails, and is only logged, when its directory is gone.
Touched(dir, name) == IF "dir" \in dir THEN dir \cup {name} ELSE dir

-----------------------------------------------------------------------------
(* The framework *)

FGoto(label) ==
    /\ fpc' = label
    /\ UNCHANGED <<ftask, verdict>>

\* Mutant: the loop goes on without forgetting its task.
FReturnKeepsTask ==
    /\ fpc' = "idle"
    /\ verdict' = "none"
    /\ UNCHANGED ftask

FReturn ==
    /\ fpc' = "idle"
    /\ ftask' = NoTask
    /\ verdict' = "none"

\* handleTask calls runStage.
Start(t) ==
    /\ fpc = "idle"
    /\ runs[t] < MaxRuns
    /\ fpc' = "reset"
    /\ ftask' = t
    /\ verdict' = "none"
    /\ runs' = [runs EXCEPT ![t] = @ + 1]
    /\ UNCHANGED <<files, sVars, child, crashes>>

\* os.RemoveAll unlinks the entries one by one, a directory after its content.
Unlink ==
    /\ fpc \in {"reset", "cleanup"}
    /\ \E f \in files[ftask] \ {"dir"} :
          /\ f = "out" => "result" \notin files[ftask]
          /\ files' = [files EXCEPT ![ftask] = @ \ {f}]
    /\ UNCHANGED <<fVars, sVars, child, runs, crashes>>

\* The directory is removed, or was not there.
RemovedAll ==
    /\ fpc \in {"reset", "cleanup"}
    /\ files[ftask] \subseteq {"dir"}
    /\ files' = [files EXCEPT ![ftask] = {}]
    /\ IF fpc = "reset" THEN FGoto("mkdir") ELSE FReturn
    /\ UNCHANGED <<sVars, child, runs, crashes>>

\* A file created meanwhile makes RemoveAll fail: runStage returns the error,
\* and after an ack it is only logged.
RemoveAllFails ==
    /\ fpc \in {"reset", "cleanup"}
    /\ stask = ftask \/ child[ftask] # "none"
    /\ FReturn
    /\ UNCHANGED <<files, sVars, child, runs, crashes>>

Mkdir ==
    /\ fpc = "mkdir"
    /\ files' = [files EXCEPT ![ftask] = @ \cup {"dir", "out"}]
    /\ FGoto("write")
    /\ UNCHANGED <<sVars, child, runs, crashes>>

WriteOrder ==
    /\ fpc = "write"
    /\ files' = [files EXCEPT ![ftask] = Touched(@, "order")]
    /\ FGoto("signal")
    /\ UNCHANGED <<sVars, child, runs, crashes>>

TouchReady ==
    /\ fpc = "signal"
    /\ files' = [files EXCEPT ![ftask] = Touched(@, "ready")]
    /\ FGoto("poll")
    /\ UNCHANGED <<sVars, child, runs, crashes>>

\* One round of the poll that finds a marker; error.failed is looked at first.
Poll ==
    /\ fpc = "poll"
    /\ files[ftask] \cap {"done", "failed"} # {}
    /\ fpc' = "ack"
    /\ verdict' = IF "failed" \in files[ftask] THEN "failed" ELSE "done"
    /\ UNCHANGED <<files, ftask, sVars, child, runs, crashes>>

\* PROCESS_TIMEOUT_S passes or the context is cancelled: the task is left for
\* the reaper and its directory stays.
GiveUp ==
    /\ fpc = "poll"
    /\ FReturn
    /\ UNCHANGED <<files, sVars, child, runs, crashes>>

Ack ==
    /\ fpc = "ack"
    /\ FGoto("cleanup")
    /\ UNCHANGED <<files, sVars, child, runs, crashes>>

\* The ack transaction fails: the directory is kept.
AckFails ==
    /\ fpc = "ack"
    /\ FReturn
    /\ UNCHANGED <<files, sVars, child, runs, crashes>>

\* The framework container dies; the volume outlives it.
FrameworkCrash ==
    /\ crashes < MaxCrashes
    /\ fpc # "idle"
    /\ FReturn
    /\ crashes' = crashes + 1
    /\ UNCHANGED <<files, sVars, child, runs>>

-----------------------------------------------------------------------------
(* The shim: one event loop, so a callback runs to its end before the next;  *)
(* its file operations interleave with the framework's and the children's.   *)

SGoto(label) == spc' = label /\ UNCHANGED stask
SReturn == spc' = "idle" /\ stask' = NoTask

\* isEligible: not in progress, and request.ready is there ...
SeeReady(t) ==
    /\ spc = "idle"
    /\ child[t] = "none"
    /\ "ready" \in files[t]
    /\ spc' = "seen"
    /\ stask' = t
    /\ UNCHANGED <<files, fVars, child, runs, crashes>>

\* Mutant: only response.done counts as an answer.
CheckMarkersIgnoresFailed ==
    /\ spc = "seen"
    /\ IF "done" \notin files[stask] THEN SGoto("eligible") ELSE SReturn
    /\ UNCHANGED <<files, fVars, child, runs, crashes>>

\* Mutant: a result.json counts as an answer too.
CheckMarkersTrustsResult ==
    /\ spc = "seen"
    /\ IF files[stask] \cap {"done", "failed", "result"} = {}
       THEN SGoto("eligible") ELSE SReturn
    /\ UNCHANGED <<files, fVars, child, runs, crashes>>

\* ... and neither marker is.
CheckMarkers ==
    /\ spc = "seen"
    /\ IF files[stask] \cap {"done", "failed"} = {} THEN SGoto("eligible") ELSE SReturn
    /\ UNCHANGED <<files, fVars, child, runs, crashes>>

\* processTask: mkdir -p out, which creates the task directory too, and spawn.
Spawn ==
    /\ spc = "eligible"
    /\ files' = [files EXCEPT ![stask] = @ \cup {"dir", "out"}]
    /\ child' = [child EXCEPT ![stask] = "read"]
    /\ SReturn
    /\ UNCHANGED <<fVars, runs, crashes>>

\* mkdir or spawn fails: the request is answered with error.failed.
SpawnFails ==
    /\ Killable
    /\ spc = "eligible"
    /\ files' = [files EXCEPT ![stask] = Touched(@, "failed")]
    /\ SReturn
    /\ UNCHANGED <<fVars, child, runs, crashes>>

\* The close event: give up if the directory is gone ...
Close(t) ==
    /\ spc = "idle"
    /\ child[t] \in {"exit0", "exit1"}
    /\ child' = [child EXCEPT ![t] = "none"]
    /\ IF "dir" \notin files[t]
       THEN UNCHANGED sVars
       ELSE /\ stask' = t
            /\ spc' = IF child[t] = "exit0" THEN "mark_done" ELSE "mark_failed"
    /\ UNCHANGED <<files, fVars, runs, crashes>>

\* Mutant: the exit code is not looked at.
MarkIgnoresCode ==
    /\ spc \in {"mark_done", "mark_failed"}
    /\ files' = [files EXCEPT ![stask] = Touched(@, "done")]
    /\ SReturn
    /\ UNCHANGED <<fVars, child, runs, crashes>>

\* ... otherwise touch the marker the exit code calls for.
Mark ==
    /\ spc \in {"mark_done", "mark_failed"}
    /\ files' = [files EXCEPT ![stask] =
                   Touched(@, IF spc = "mark_done" THEN "done" ELSE "failed")]
    /\ SReturn
    /\ UNCHANGED <<fVars, child, runs, crashes>>

\* The shim's container stops, on a signal or a crash, and is started again:
\* its children die with it and inProgress is forgotten.
ShimCrash ==
    /\ crashes < MaxCrashes
    /\ crashes' = crashes + 1
    /\ SReturn
    /\ child' = [t \in Tasks |-> "none"]
    /\ UNCHANGED <<files, fVars, runs>>

-----------------------------------------------------------------------------
(* stage.js *)

ReadOrder(t) ==
    /\ child[t] = "read"
    /\ child' = [child EXCEPT ![t] = IF "order" \in files[t] THEN "write" ELSE "exit1"]
    /\ UNCHANGED <<files, fVars, sVars, runs, crashes>>

\* Write result.json, whatever the decision, and exit with the decision.
WriteResult(t) ==
    /\ child[t] = "write"
    /\ IF "out" \in files[t]
       THEN /\ files' = [files EXCEPT ![t] = @ \cup {"result"}]
            /\ child' = [child EXCEPT ![t] = IF t \in Valid THEN "exit0" ELSE "exit1"]
       ELSE /\ child' = [child EXCEPT ![t] = "exit1"]
            /\ UNCHANGED files
    /\ UNCHANGED <<fVars, sVars, runs, crashes>>

\* A child killed by a signal closes with a null code, which is not 0.
Killed(t) ==
    /\ Killable
    /\ child[t] \in {"read", "write"}
    /\ child' = [child EXCEPT ![t] = "exit1"]
    /\ UNCHANGED <<files, fVars, sVars, runs, crashes>>

-----------------------------------------------------------------------------
RunStage == Unlink \/ RemovedAll \/ Mkdir \/ WriteOrder \/ TouchReady \/ Poll \/ Ack

ShimStep ==
    \/ CheckMarkers \/ Spawn \/ SpawnFails \/ Mark
    \/ \E t \in Tasks : SeeReady(t) \/ Close(t)

ChildStep(t) == ReadOrder(t) \/ WriteResult(t)

Next ==
    \/ \E t \in Tasks : Start(t) \/ ChildStep(t) \/ Killed(t)
    \/ RunStage \/ ShimStep
    \/ RemoveAllFails \/ GiveUp \/ AckFails \/ FrameworkCrash \/ ShimCrash

Spec == Init /\ [][Next]_vars

(***************************************************************************)
(* Both loops and every child keep running.  Giving up, failures and        *)
(* crashes are never forced, so a run that ends under this fairness ends    *)
(* because the stage answered.                                              *)
(***************************************************************************)
Fairness ==
    /\ WF_vars(RunStage)
    /\ WF_vars(CheckMarkers \/ Spawn \/ Mark)
    /\ \A t \in Tasks : /\ WF_vars(ChildStep(t))
                        /\ SF_vars(SeeReady(t))
                        /\ SF_vars(Close(t))

FairSpec == Spec /\ Fairness

-----------------------------------------------------------------------------
(* Properties *)

\* The answer to a request is unambiguous: a directory never holds both
\* markers, whatever child, of this attempt or an earlier one, wrote them, and
\* though isEligible reads the markers at different times.
OneMarker == \A t \in Tasks : ~({"done", "failed"} \subseteq files[t])

\* The framework acks an order as done only if the stage accepts it, whichever
\* attempt's child, crash or leftover directory the marker comes from.
AcceptOnlyValid == fpc \in {"ack", "cleanup"} /\ verdict = "done" => ftask \in Valid

\* Every request is answered: a poll ends without the timeout, although the
\* shim is restarted, its children die and stale children of an earlier
\* attempt are still running.
StageAnswers == fpc = "poll" ~> fpc # "poll"

\* runStage "starts clean" so that no stale marker fools its poll: a valid
\* order is never rejected while nothing kills a child.
RejectOnlyInvalid == fpc = "ack" /\ verdict = "failed" => ftask \notin Valid

=============================================================================
