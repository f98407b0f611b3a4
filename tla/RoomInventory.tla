---------------------------- MODULE RoomInventory ----------------------------
(***************************************************************************)
(* What the booking engine promises its callers: an inventory of room      *)
(* nights from which a booking takes its whole stay in one step or not at  *)
(* all, may exchange it for another free stay in one step, and gives it    *)
(* back.  RoomNightLocks implements it with one lock row per night.        *)
(***************************************************************************)
CONSTANTS Bookings, Rooms, AllNights, NoRoom

VARIABLE place    \* place[b]: the room and the nights booking b stands on

NoPlace == [room |-> NoRoom, nights |-> {}]

Init == place = [b \in Bookings |-> NoPlace]

Free(b, r, s) ==
    \A c \in Bookings \ {b} : place[c].room = r => place[c].nights \cap s = {}

\* A booking is created on, or moved to, free nights of one room.
Occupy(b, r, s) ==
    /\ Free(b, r, s)
    /\ place' = [place EXCEPT ![b] = [room |-> r, nights |-> s]]

\* Cancelled, no-show or checked out.
Vacate(b) ==
    /\ place[b] # NoPlace
    /\ place' = [place EXCEPT ![b] = NoPlace]

Next ==
    \E b \in Bookings :
        \/ \E r \in Rooms, s \in SUBSET AllNights : Occupy(b, r, s)
        \/ Vacate(b)

Spec == Init /\ [][Next]_place
=============================================================================
