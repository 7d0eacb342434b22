-------------------------- MODULE MCUpdatePipeline --------------------------
(* Instances of UpdatePipeline for TLC: the sets the configurations choose  *)
(* from.                                                                    *)
EXTENDS UpdatePipeline

ShippedVerdicts == {"pass", "hard_fail"}
RecoveryOps == {"rollback", "unlock"}
=============================================================================
