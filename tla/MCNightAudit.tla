---------------------------- MODULE MCNightAudit ----------------------------
EXTENDS NightAudit, TLC

\* Handlers are interchangeable.
Symmetry == Permutations(Handlers)
=============================================================================
