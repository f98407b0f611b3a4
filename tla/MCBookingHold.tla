---------------------------- MODULE MCBookingHold ----------------------------
(* TLC instances of BookingHold. *)
EXTENDS BookingHold, TLC

Symmetry == Permutations(Clients) \cup Permutations(Bookings) \cup Permutations(RoomNights)
=============================================================================
