----------------------------- MODULE MCWorkQueue -----------------------------
(* Instances of WorkQueue for TLC.                                         *)
EXTENDS WorkQueue, TLC

\* Tasks, workers and reapers are interchangeable: nothing in WorkQueue names
\* one.  Used by the runs that check safety properties only.
Symmetry ==
    Permutations(Tasks) \cup Permutations(Workers) \cup Permutations(Reapers)
=============================================================================
