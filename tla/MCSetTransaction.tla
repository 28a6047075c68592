-------------------------- MODULE MCSetTransaction --------------------------
(* SetTransaction on small instances. *)
EXTENDS SetTransaction, TLC

Symmetry == Permutations(Bindings) \cup Permutations(Tx)
=============================================================================
