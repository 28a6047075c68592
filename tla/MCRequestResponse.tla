------------------------- MODULE MCRequestResponse -------------------------
(* RequestResponse on small instances. *)
EXTENDS RequestResponse, TLC

Symmetry == Permutations(Calls)
=============================================================================
