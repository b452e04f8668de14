---------------------------- MODULE MCSettlement ----------------------------
(* Instances of Settlement, and with it of LeaderLease, for TLC.           *)
EXTENDS Settlement, TLC

\* Pods and orders are interchangeable.  Used by safety runs only.
Symmetry == Permutations(Pods) \cup Permutations(Orders)
=============================================================================
