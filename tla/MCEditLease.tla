----------------------------- MODULE MCEditLease -----------------------------
(* TLC instances of EditLease. *)
EXTENDS EditLease
=============================================================================
