------------------------ MODULE StageHandshakeProofs ------------------------
(* Proofs about StageHandshake, for any tasks, any split into valid and      *)
(* invalid orders and any bounds.                                            *)
EXTENDS StageHandshake, TLAPS

USE ValidAssumption, BoundsAssumption, KillableAssumption, NoTaskAssumption

\* TypeOK holds of every initial state and is preserved by every step.
THEOREM TypeCorrect == Spec => []TypeOK
<1>1. Init => TypeOK
  BY DEF Init, TypeOK, FPCs, SPCs, Children, Entries
<1>2. TypeOK /\ [Next]_vars => TypeOK'
  <2> SUFFICES ASSUME TypeOK, [Next]_vars PROVE TypeOK'
    OBVIOUS
  <2> USE DEF TypeOK, FPCs, SPCs, Children, Entries, fVars, sVars
  <2>1. ASSUME NEW t \in Tasks, Start(t) PROVE TypeOK'
    BY <2>1 DEF Start
  <2>2. ASSUME Unlink PROVE TypeOK'
    BY <2>2 DEF Unlink
  <2>3. ASSUME RemovedAll PROVE TypeOK'
    BY <2>3 DEF RemovedAll, FGoto, FReturn
  <2>4. ASSUME RemoveAllFails PROVE TypeOK'
    BY <2>4 DEF RemoveAllFails, FReturn
  <2>5. ASSUME Mkdir PROVE TypeOK'
    BY <2>5 DEF Mkdir, FGoto
  <2>6. ASSUME WriteOrder PROVE TypeOK'
    BY <2>6 DEF WriteOrder, FGoto, Touched
  <2>7. ASSUME TouchReady PROVE TypeOK'
    BY <2>7 DEF TouchReady, FGoto, Touched
  <2>8. ASSUME Poll PROVE TypeOK'
    BY <2>8 DEF Poll
  <2>9. ASSUME GiveUp PROVE TypeOK'
    BY <2>9 DEF GiveUp, FReturn
  <2>10. ASSUME Ack PROVE TypeOK'
    BY <2>10 DEF Ack, FGoto
  <2>11. ASSUME AckFails PROVE TypeOK'
    BY <2>11 DEF AckFails, FReturn
  <2>12. ASSUME FrameworkCrash PROVE TypeOK'
    BY <2>12 DEF FrameworkCrash, FReturn
  <2>13. ASSUME NEW t \in Tasks, SeeReady(t) PROVE TypeOK'
    BY <2>13 DEF SeeReady
  <2>14. ASSUME CheckMarkers PROVE TypeOK'
    BY <2>14 DEF CheckMarkers, SGoto, SReturn
  <2>15. ASSUME Spawn PROVE TypeOK'
    BY <2>15 DEF Spawn, SReturn
  <2>16. ASSUME SpawnFails PROVE TypeOK'
    BY <2>16 DEF SpawnFails, SReturn, Touched
  <2>17. ASSUME NEW t \in Tasks, Close(t) PROVE TypeOK'
    BY <2>17 DEF Close
  <2>18. ASSUME Mark PROVE TypeOK'
    BY <2>18 DEF Mark, SReturn, Touched
  <2>19. ASSUME ShimCrash PROVE TypeOK'
    BY <2>19 DEF ShimCrash, SReturn
  <2>20. ASSUME NEW t \in Tasks, ReadOrder(t) PROVE TypeOK'
    BY <2>20 DEF ReadOrder
  <2>21. ASSUME NEW t \in Tasks, WriteResult(t) PROVE TypeOK'
    BY <2>21 DEF WriteResult
  <2>22. ASSUME NEW t \in Tasks, Killed(t) PROVE TypeOK'
    BY <2>22 DEF Killed
  <2>23. CASE UNCHANGED vars
    BY <2>23 DEF vars
  <2> QED
    BY <2>1, <2>2, <2>3, <2>4, <2>5, <2>6, <2>7, <2>8, <2>9, <2>10, <2>11, <2>12,
       <2>13, <2>14, <2>15, <2>16, <2>17, <2>18, <2>19, <2>20, <2>21, <2>22, <2>23
    DEF Next, RunStage, ShimStep, ChildStep
<1> QED
  BY <1>1, <1>2, PTL DEF Spec

-----------------------------------------------------------------------------
\* While the shim is committed to a request or a child runs for it, the
\* directory holds no marker; and the shim never looks at a request whose
\* child runs.  This is what makes its serial event loop enough.
Unanswered ==
    \A t \in Tasks :
        /\ child[t] # "none" => stask # t
        /\ \/ child[t] # "none"
           \/ stask = t /\ spc \in {"eligible", "mark_done", "mark_failed"}
           => "done" \notin files[t] /\ "failed" \notin files[t]

MarkerInv == Unanswered /\ OneMarker

\* Every step preserves MarkerInv.
LEMMA MarkerStep ==
  ASSUME TypeOK, MarkerInv, [Next]_vars
  PROVE  MarkerInv'
<1> USE DEF TypeOK, FPCs, SPCs, Children, Entries, fVars, sVars, MarkerInv,
            Unanswered, OneMarker
<1>1. ASSUME NEW t \in Tasks, Start(t) PROVE MarkerInv'
  BY <1>1 DEF Start
<1>2. ASSUME Unlink PROVE MarkerInv'
  BY <1>2 DEF Unlink
<1>3. ASSUME RemovedAll PROVE MarkerInv'
  BY <1>3 DEF RemovedAll, FGoto, FReturn
<1>4. ASSUME RemoveAllFails PROVE MarkerInv'
  BY <1>4 DEF RemoveAllFails, FReturn
<1>5. ASSUME Mkdir PROVE MarkerInv'
  BY <1>5 DEF Mkdir, FGoto
<1>6. ASSUME WriteOrder PROVE MarkerInv'
  BY <1>6 DEF WriteOrder, FGoto, Touched
<1>7. ASSUME TouchReady PROVE MarkerInv'
  BY <1>7 DEF TouchReady, FGoto, Touched
<1>8. ASSUME Poll PROVE MarkerInv'
  BY <1>8 DEF Poll
<1>9. ASSUME GiveUp PROVE MarkerInv'
  BY <1>9 DEF GiveUp, FReturn
<1>10. ASSUME Ack PROVE MarkerInv'
  BY <1>10 DEF Ack, FGoto
<1>11. ASSUME AckFails PROVE MarkerInv'
  BY <1>11 DEF AckFails, FReturn
<1>12. ASSUME FrameworkCrash PROVE MarkerInv'
  BY <1>12 DEF FrameworkCrash, FReturn
<1>13. ASSUME NEW t \in Tasks, SeeReady(t) PROVE MarkerInv'
  BY <1>13 DEF SeeReady
<1>14. ASSUME CheckMarkers PROVE MarkerInv'
  BY <1>14 DEF CheckMarkers, SGoto, SReturn
<1>15. ASSUME Spawn PROVE MarkerInv'
  BY <1>15 DEF Spawn, SReturn
<1>16. ASSUME SpawnFails PROVE MarkerInv'
  BY <1>16 DEF SpawnFails, SReturn, Touched
<1>17. ASSUME NEW t \in Tasks, Close(t) PROVE MarkerInv'
  BY <1>17 DEF Close
<1>18. ASSUME Mark PROVE MarkerInv'
  BY <1>18 DEF Mark, SReturn, Touched
<1>19. ASSUME ShimCrash PROVE MarkerInv'
  BY <1>19 DEF ShimCrash, SReturn
<1>20. ASSUME NEW t \in Tasks, ReadOrder(t) PROVE MarkerInv'
  BY <1>20 DEF ReadOrder
<1>21. ASSUME NEW t \in Tasks, WriteResult(t) PROVE MarkerInv'
  BY <1>21 DEF WriteResult
<1>22. ASSUME NEW t \in Tasks, Killed(t) PROVE MarkerInv'
  BY <1>22 DEF Killed
<1>23. CASE UNCHANGED vars
  BY <1>23 DEF vars
<1> QED
  BY <1>1, <1>2, <1>3, <1>4, <1>5, <1>6, <1>7, <1>8, <1>9, <1>10, <1>11, <1>12,
     <1>13, <1>14, <1>15, <1>16, <1>17, <1>18, <1>19, <1>20, <1>21, <1>22, <1>23
  DEF Next, RunStage, ShimStep, ChildStep

\* A directory never holds both markers.
THEOREM AnswerUnambiguous == Spec => []OneMarker
<1>1. Init => MarkerInv
  BY DEF Init, MarkerInv, Unanswered, OneMarker
<1>2. TypeOK /\ MarkerInv /\ [Next]_vars => MarkerInv'
  BY MarkerStep
<1>3. MarkerInv => OneMarker
  BY DEF MarkerInv
<1> QED
  BY <1>1, <1>2, <1>3, TypeCorrect, PTL DEF Spec

-----------------------------------------------------------------------------
\* Along the whole way from the exit code to the verdict, success means that
\* the order is valid.
ValidInv ==
    /\ \A t \in Tasks : "done" \in files[t] \/ child[t] = "exit0" => t \in Valid
    /\ spc = "mark_done" => stask \in Valid
    /\ verdict = "done" => ftask \in Valid

\* Every step preserves ValidInv.
LEMMA ValidStep ==
  ASSUME TypeOK, ValidInv, [Next]_vars
  PROVE  ValidInv'
<1> USE DEF TypeOK, FPCs, SPCs, Children, Entries, fVars, sVars, ValidInv
<1>1. ASSUME NEW t \in Tasks, Start(t) PROVE ValidInv'
  BY <1>1 DEF Start
<1>2. ASSUME Unlink PROVE ValidInv'
  BY <1>2 DEF Unlink
<1>3. ASSUME RemovedAll PROVE ValidInv'
  BY <1>3 DEF RemovedAll, FGoto, FReturn
<1>4. ASSUME RemoveAllFails PROVE ValidInv'
  BY <1>4 DEF RemoveAllFails, FReturn
<1>5. ASSUME Mkdir PROVE ValidInv'
  BY <1>5 DEF Mkdir, FGoto
<1>6. ASSUME WriteOrder PROVE ValidInv'
  BY <1>6 DEF WriteOrder, FGoto, Touched
<1>7. ASSUME TouchReady PROVE ValidInv'
  BY <1>7 DEF TouchReady, FGoto, Touched
<1>8. ASSUME Poll PROVE ValidInv'
  BY <1>8 DEF Poll
<1>9. ASSUME GiveUp PROVE ValidInv'
  BY <1>9 DEF GiveUp, FReturn
<1>10. ASSUME Ack PROVE ValidInv'
  BY <1>10 DEF Ack, FGoto
<1>11. ASSUME AckFails PROVE ValidInv'
  BY <1>11 DEF AckFails, FReturn
<1>12. ASSUME FrameworkCrash PROVE ValidInv'
  BY <1>12 DEF FrameworkCrash, FReturn
<1>13. ASSUME NEW t \in Tasks, SeeReady(t) PROVE ValidInv'
  BY <1>13 DEF SeeReady
<1>14. ASSUME CheckMarkers PROVE ValidInv'
  BY <1>14 DEF CheckMarkers, SGoto, SReturn
<1>15. ASSUME Spawn PROVE ValidInv'
  BY <1>15 DEF Spawn, SReturn
<1>16. ASSUME SpawnFails PROVE ValidInv'
  BY <1>16 DEF SpawnFails, SReturn, Touched
<1>17. ASSUME NEW t \in Tasks, Close(t) PROVE ValidInv'
  BY <1>17 DEF Close
<1>18. ASSUME Mark PROVE ValidInv'
  BY <1>18 DEF Mark, SReturn, Touched
<1>19. ASSUME ShimCrash PROVE ValidInv'
  BY <1>19 DEF ShimCrash, SReturn
<1>20. ASSUME NEW t \in Tasks, ReadOrder(t) PROVE ValidInv'
  BY <1>20 DEF ReadOrder
<1>21. ASSUME NEW t \in Tasks, WriteResult(t) PROVE ValidInv'
  BY <1>21 DEF WriteResult
<1>22. ASSUME NEW t \in Tasks, Killed(t) PROVE ValidInv'
  BY <1>22 DEF Killed
<1>23. CASE UNCHANGED vars
  BY <1>23 DEF vars
<1> QED
  BY <1>1, <1>2, <1>3, <1>4, <1>5, <1>6, <1>7, <1>8, <1>9, <1>10, <1>11, <1>12,
     <1>13, <1>14, <1>15, <1>16, <1>17, <1>18, <1>19, <1>20, <1>21, <1>22, <1>23
  DEF Next, RunStage, ShimStep, ChildStep

\* The framework reports success only for an order the stage accepts.
THEOREM SuccessIsValid == Spec => []AcceptOnlyValid
<1>1. Init => ValidInv
  BY DEF Init, ValidInv
<1>2. TypeOK /\ ValidInv /\ [Next]_vars => ValidInv'
  BY ValidStep
<1>3. ValidInv => AcceptOnlyValid
  BY DEF ValidInv, AcceptOnlyValid
<1> QED
  BY <1>1, <1>2, <1>3, TypeCorrect, PTL DEF Spec
=============================================================================
