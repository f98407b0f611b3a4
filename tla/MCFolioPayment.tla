--------------------------- MODULE MCFolioPayment ---------------------------
(* TLC instances of FolioPayment. *)
EXTENDS FolioPayment, TLC

Symmetry == Permutations(Payments) \cup Permutations(Voids)
=============================================================================
