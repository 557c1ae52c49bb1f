----------------------------- MODULE MCPlanning -----------------------------
(* Small instances of Planning for TLC.  Roles and items are interchangeable; *)
(* the people are not, two of them being governors.                        *)
EXTENDS Planning, TLC

Symmetry == Permutations(Roles) \cup Permutations(Items)
=============================================================================
