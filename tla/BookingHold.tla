----------------------------- MODULE BookingHold -----------------------------
(***************************************************************************)
(* Temporary holds on room nights: core/booking_hold_service.py, called    *)
(* through routers/booking_holds.py, and its background sweeper.           *)
(*                                                                         *)
(* A room-night is one model value: the service only compares room and     *)
(* night for equality.  The nights of a hold are claimed in any order,     *)
(* which includes the calendar order of the code.  Each database call is   *)
(* one step.                                                               *)
(***************************************************************************)
EXTENDS Naturals, FiniteSets

CONSTANTS
    Clients,      \* handlers of hold requests
    Sweepers,     \* sweeper tasks, one per process, and the sweep endpoint
    Bookings,
    RoomNights,
    TTL,          \* hold time, in clock ticks
    MaxTime,      \* bound on the clock
    MaxFaults,    \* bound on crashed requests and failed sweeps
    SameBooking,  \* may a request meet a hold of its booking being created?
    Nobody

ASSUME HoldAssumption ==
    /\ TTL \in Nat \ {0}
    /\ MaxTime \in Nat
    /\ MaxFaults \in Nat
    /\ SameBooking \in BOOLEAN
    /\ Nobody \notin Bookings

VARIABLES
    locks,     \* the rows of room_night_locks, unique per room-night
    status,    \* status[b]: status of the booking document
    cl,        \* cl[c]: the hold request handler c is running
    sw,        \* sw[s]: the sweep task s is running
    granted,   \* granted[b]: the last hold of b that was answered with success
    faults,
    now

vars == <<locks, status, cl, sw, granted, faults, now>>

Free == [owner |-> Nobody, kind |-> "none", exp |-> 0]
Idle == [pc |-> "idle", bk |-> Nobody, todo |-> {}, claimed |-> {}, exp |-> 0]
NoGrant == [nights |-> {}, exp |-> 0, st |-> "none"]
Asleep == [pc |-> "idle", todo |-> {}, bk |-> Nobody, at |-> 0]

TypeOK ==
    /\ locks \in [RoomNights -> [owner : Bookings \cup {Nobody},
                                 kind : {"none", "hold", "booking"}, exp : Nat]]
    /\ status \in [Bookings -> {"pending", "confirmed", "hold_expired"}]
    /\ cl \in [Clients -> [pc : {"idle", "claim", "undo"}, bk : Bookings \cup {Nobody},
                           todo : SUBSET RoomNights, claimed : SUBSET RoomNights, exp : Nat]]
    /\ sw \in [Sweepers -> [pc : {"idle", "delete", "status"}, todo : SUBSET Bookings,
                            bk : Bookings \cup {Nobody}, at : Nat]]
    /\ granted \in [Bookings -> [nights : SUBSET RoomNights, exp : Nat,
                                 st : {"none", "held", "confirmed"}]]
    /\ faults \in 0 .. MaxFaults
    /\ now \in Nat

Init ==
    /\ locks = [n \in RoomNights |-> Free]
    /\ status = [b \in Bookings |-> "pending"]
    /\ cl = [c \in Clients |-> Idle]
    /\ sw = [s \in Sweepers |-> Asleep]
    /\ granted = [b \in Bookings |-> NoGrant]
    /\ faults = 0
    /\ now = 0

-----------------------------------------------------------------------------
(* create_booking_hold *)

\* Nothing else is under way for b, unless SameBooking allows it.
MayRun(b) == SameBooking \/ \A c \in Clients : cl[c].bk # b

HoldRows(b) == {n \in RoomNights : locks[n].owner = b /\ locks[n].kind = "hold"}

Deleted(rows) == [n \in RoomNights |-> IF n \in rows THEN Free ELSE locks[n]]

\* The expiry is computed once, before the first row is written.
StartHold(c, b, nights) ==
    /\ cl[c].pc = "idle"
    /\ nights # {}
    /\ now + TTL <= MaxTime
    /\ MayRun(b)
    /\ cl' = [cl EXCEPT ![c] = [pc |-> "claim", bk |-> b, todo |-> nights,
                                claimed |-> {}, exp |-> now + TTL]]
    /\ UNCHANGED <<locks, status, sw, granted, faults, now>>

\* insert_one of one row; the last one grants the hold.
ClaimNight(c, n) ==
    /\ cl[c].pc = "claim" /\ n \in cl[c].todo
    /\ locks[n] = Free
    /\ locks' = [locks EXCEPT ![n] = [owner |-> cl[c].bk, kind |-> "hold", exp |-> cl[c].exp]]
    /\ LET claimed == cl[c].claimed \cup {n}
       IN  IF cl[c].todo = {n}
           THEN /\ cl' = [cl EXCEPT ![c] = Idle]
                /\ granted' = [granted EXCEPT ![cl[c].bk] =
                                  [nights |-> claimed, exp |-> cl[c].exp, st |-> "held"]]
           ELSE /\ cl' = [cl EXCEPT ![c].todo = @ \ {n}, ![c].claimed = claimed]
                /\ UNCHANGED granted
    /\ UNCHANGED <<status, sw, faults, now>>

\* DuplicateKeyError: the hold is refused, and rolled back if it claimed rows.
ClaimConflict(c, n) ==
    /\ cl[c].pc = "claim" /\ n \in cl[c].todo
    /\ locks[n] # Free
    /\ cl' = [cl EXCEPT ![c] = IF cl[c].claimed = {} THEN Idle ELSE [@ EXCEPT !.pc = "undo"]]
    /\ UNCHANGED <<locks, status, sw, granted, faults, now>>

RollBack(c) ==
    /\ cl[c].pc = "undo"
    /\ locks' = Deleted({n \in cl[c].claimed : locks[n].owner = cl[c].bk})
    /\ cl' = [cl EXCEPT ![c] = Idle]
    /\ UNCHANGED <<status, sw, granted, faults, now>>

\* The process dies, or any other exception: nothing is rolled back.
Crash(c) ==
    /\ cl[c].pc # "idle"
    /\ faults < MaxFaults
    /\ faults' = faults + 1
    /\ cl' = [cl EXCEPT ![c] = Idle]
    /\ UNCHANGED <<locks, status, sw, granted, now>>

-----------------------------------------------------------------------------
(* confirm_hold, release_hold *)

\* Rows of type hold become rows of type booking; the answer is always success.
ConfirmHold(b) ==
    /\ MayRun(b)
    /\ HoldRows(b) # {}
    /\ locks' = [n \in RoomNights |->
                   IF n \in HoldRows(b) THEN [owner |-> b, kind |-> "booking", exp |-> 0]
                   ELSE locks[n]]
    /\ granted' = [granted EXCEPT ![b].st =
                     IF @ = "held" /\ granted[b].nights \subseteq HoldRows(b)
                     THEN "confirmed" ELSE @]
    /\ UNCHANGED <<status, cl, sw, faults, now>>

\* The reservation is confirmed by another endpoint.
ConfirmBooking(b) ==
    /\ status[b] = "pending"
    /\ status' = [status EXCEPT ![b] = "confirmed"]
    /\ UNCHANGED <<locks, cl, sw, granted, faults, now>>

ReleaseHold(b) ==
    /\ MayRun(b)
    /\ HoldRows(b) # {}
    /\ locks' = Deleted(HoldRows(b))
    /\ granted' = [granted EXCEPT ![b] = IF @.st = "confirmed" THEN @ ELSE NoGrant]
    /\ UNCHANGED <<status, cl, sw, faults, now>>

-----------------------------------------------------------------------------
(* sweep_expired_holds *)

\* Mutant: only holds of documents that are still pending are looked for.
ExpiredPending(b, at) ==
    {n \in HoldRows(b) : locks[n].exp <= at /\ status[b] = "pending"}

Expired(b, at) == {n \in HoldRows(b) : locks[n].exp <= at}

SweepFind(s) ==
    /\ sw[s].pc = "idle"
    /\ LET found == {b \in Bookings : Expired(b, now) # {}}
       IN  /\ found # {}
           /\ sw' = [sw EXCEPT ![s] = [pc |-> "delete", todo |-> found, bk |-> Nobody, at |-> now]]
    /\ UNCHANGED <<locks, status, cl, granted, faults, now>>

\* Mutant: the rows are deleted by booking, without asking for their expiry.
SweepDeleteByBooking(s, b) ==
    /\ sw[s].pc = "delete" /\ b \in sw[s].todo
    /\ locks' = Deleted(HoldRows(b))
    /\ sw' = [sw EXCEPT ![s].pc = "status", ![s].bk = b, ![s].todo = @ \ {b}]
    /\ UNCHANGED <<status, cl, granted, faults, now>>

\* delete_many asks again for type and expiry, with the clock of the find.
SweepDelete(s, b) ==
    /\ sw[s].pc = "delete" /\ b \in sw[s].todo
    /\ locks' = Deleted(Expired(b, sw[s].at))
    /\ sw' = [sw EXCEPT ![s].pc = "status", ![s].bk = b, ![s].todo = @ \ {b}]
    /\ UNCHANGED <<status, cl, granted, faults, now>>

\* Mutant: a status outside the ones the booking document knows.
SweepStatusReleased(s) ==
    /\ sw[s].pc = "status"
    /\ status' = [status EXCEPT ![sw[s].bk] = IF @ = "pending" THEN "released" ELSE @]
    /\ sw' = [sw EXCEPT ![s] = IF sw[s].todo = {} THEN Asleep ELSE [@ EXCEPT !.pc = "delete"]]
    /\ UNCHANGED <<locks, cl, granted, faults, now>>

\* The booking expires whether or not the delete found a row.
SweepStatus(s) ==
    /\ sw[s].pc = "status"
    /\ status' = [status EXCEPT ![sw[s].bk] = IF @ = "pending" THEN "hold_expired" ELSE @]
    /\ sw' = [sw EXCEPT ![s] = IF sw[s].todo = {} THEN Asleep ELSE [@ EXCEPT !.pc = "delete"]]
    /\ UNCHANGED <<locks, cl, granted, faults, now>>

\* An exception ends this sweep; the loop goes on with the next one.
SweepFails(s) ==
    /\ sw[s].pc # "idle"
    /\ faults < MaxFaults
    /\ faults' = faults + 1
    /\ sw' = [sw EXCEPT ![s] = Asleep]
    /\ UNCHANGED <<locks, status, cl, granted, now>>

Tick ==
    /\ now < MaxTime
    /\ now' = now + 1
    /\ UNCHANGED <<locks, status, cl, sw, granted, faults>>

-----------------------------------------------------------------------------

Request(c) ==
    \/ \E b \in Bookings, nights \in SUBSET RoomNights : StartHold(c, b, nights)
    \/ \E n \in RoomNights : ClaimNight(c, n) \/ ClaimConflict(c, n)
    \/ RollBack(c)
    \/ Crash(c)

Sweep(s) ==
    \/ SweepFind(s)
    \/ \E b \in Bookings : SweepDelete(s, b)
    \/ SweepStatus(s)

Next ==
    \/ \E c \in Clients : Request(c)
    \/ \E b \in Bookings : ConfirmHold(b) \/ ConfirmBooking(b) \/ ReleaseHold(b)
    \/ \E s \in Sweepers : Sweep(s) \/ SweepFails(s)
    \/ Tick

Spec == Init /\ [][Next]_vars

\* The sweeper loop never ends and time passes; requests may stop anywhere.
FairSpec == Spec /\ WF_vars(Tick) /\ \A s \in Sweepers : WF_vars(Sweep(s))

-----------------------------------------------------------------------------
(* Properties *)

\* A granted hold protects all of its nights until it expires, and for good once
\* it was confirmed: neither a sweep that works from an old read, nor the roll
\* back of another request, nor a release takes one of its rows (INV-2, all or
\* nothing, of docs/ADR_BOOKING_INVARIANTS.md).
GrantedHoldProtects ==
    \A b \in Bookings : granted[b].st = "confirmed" \/ now < granted[b].exp =>
        \A n \in granted[b].nights : locks[n].owner = b

\* "On expiry: locks deleted, booking status set to hold_expired"
\* (core/booking_hold_service.py): a booking the sweeper is about to expire owns
\* no confirmed row.
ExpiredBookingHoldsNothing ==
    \A s \in Sweepers : sw[s].pc = "status" /\ status[sw[s].bk] = "pending" =>
        \A n \in RoomNights : ~(locks[n].owner = sw[s].bk /\ locks[n].kind = "booking")

\* "Unconfirmed bookings don't permanently block rooms": every hold row goes away
\* or is confirmed, also the rows of a request that died half way.
HoldsEnd ==
    \A n \in RoomNights : locks[n].kind = "hold" ~> locks[n].kind # "hold"
=============================================================================
