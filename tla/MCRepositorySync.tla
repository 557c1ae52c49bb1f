--------------------------- MODULE MCRepositorySync ---------------------------
(* Small instances of RepositorySync for TLC.                               *)
EXTENDS RepositorySync, TLC

Symmetry == Permutations(Documents) \cup Permutations(Sources)
              \cup Permutations(Contents) \cup Permutations(Callers)
=============================================================================
