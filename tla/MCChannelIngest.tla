--------------------------- MODULE MCChannelIngest ---------------------------
(* TLC instances of ChannelIngest. *)
EXTENDS ChannelIngest, TLC

Symmetry == Permutations(Rows) \cup Permutations(Handlers) \cup Permutations(Importers)

\* Every version has a stamp of its own; both have one stamp.
Ordered == {<<1, 2>>}
OrderedOrSame == {<<1, 2>>, <<1, 1>>}
=============================================================================
