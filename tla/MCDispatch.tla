----------------------------- MODULE MCDispatch -----------------------------
(* Dispatch on small instances. *)
EXTENDS Dispatch, TLC

Symmetry == Permutations(Sess)
=============================================================================
