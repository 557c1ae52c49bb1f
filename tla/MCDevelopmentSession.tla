------------------------ MODULE MCDevelopmentSession ------------------------
(* Small instances of DevelopmentSession for TLC.                           *)
EXTENDS DevelopmentSession, TLC

Symmetry == Permutations(Sessions) \cup Permutations(People)
              \cup Permutations(Servers) \cup Permutations(Ids)
=============================================================================
