------------------------- MODULE MCProjectPackages -------------------------
(* A small instance of ProjectPackages for TLC.  One text is enough: what  *)
(* is drafted from it is whole or is not: one definition, or another.      *)
EXTENDS ProjectPackages
=============================================================================
