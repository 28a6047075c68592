--------------------------- MODULE MCErrorChannel ---------------------------
(* ErrorChannel on small instances. *)
EXTENDS ErrorChannel, TLC

Symmetry == Permutations(Reporters)
=============================================================================
