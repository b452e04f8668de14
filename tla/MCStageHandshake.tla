-------------------------- MODULE MCStageHandshake --------------------------
(* Instances of StageHandshake for TLC.                                    *)
EXTENDS StageHandshake, TLC
=============================================================================
