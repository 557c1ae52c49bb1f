----------------------------- MODULE MCAgentTask -----------------------------
(* Small instances of AgentTask for TLC: tasks and processes are model      *)
(* values, interchangeable where no liveness property is checked.           *)
EXTENDS AgentTask

Symmetry == Permutations(Tasks) \cup Permutations(Workers)
=============================================================================
