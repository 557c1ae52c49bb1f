-------------------------- MODULE MCDirectoryImport --------------------------
(* Small instances of DirectoryImport for TLC.                              *)
EXTENDS DirectoryImport, TLC

Symmetry == Permutations(Documents) \cup Permutations(Sources)
              \cup Permutations(Contents) \cup Permutations(Jobs)
=============================================================================
