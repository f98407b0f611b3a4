-------------------------- MODULE MCRoomNightLocks --------------------------
(* Model-checking instances of RoomNightLocks. *)
EXTENDS RoomNightLocks, TLC

Symmetry == Permutations(Workers) \cup Permutations(Bookings) \cup Permutations(Rooms)
=============================================================================
