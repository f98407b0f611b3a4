-------------------------- MODULE MCCardCollection --------------------------
(* TLC instances of CardCollection. *)
EXTENDS CardCollection, TLC

Symmetry == Permutations(Requests) \cup Permutations(Prints)
=============================================================================
