--------------------------- MODULE MCEvaluationRun ---------------------------
(* Small instances of EvaluationRun for TLC; every run checks liveness, so    *)
(* none uses symmetry.                                                      *)
EXTENDS EvaluationRun
=============================================================================
