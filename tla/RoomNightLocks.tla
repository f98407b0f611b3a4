--------------------------- MODULE RoomNightLocks ---------------------------
(***************************************************************************)
(* The room-night lock table of backend/core/atomic_booking.py and the     *)
(* requests that use it: creating a booking, assigning a room to an        *)
(* existing booking, cancelling or checking out, and blocking a room.      *)
(*                                                                         *)
(* Every database call is one step, because each is an `await` between     *)
(* which other requests run.  One tenant is modelled: every filter of the  *)
(* code carries tenant_id.  A booking's status is "absent" (no document),  *)
(* "active" (any status outside TERMINAL_BOOKING_STATUSES) or "terminal".  *)
(* Calendar dates are numbers.                                             *)
(***************************************************************************)
EXTENDS Naturals, FiniteSets

CONSTANTS
    Workers,     \* request handlers that may run at the same time
    Bookings,    \* booking ids
    Rooms,       \* physical rooms
    LastDate,    \* calendar dates are 0..LastDate
    NoRoom,      \* room_id = None
    Nobody,      \* owner field of a lock that is not there
    Block,       \* booking_id of an OOO:/OOS:/MAINT: lock
    MinAge,      \* STALE_LOCK_MIN_AGE_SECONDS, in clock ticks
    MaxTime,     \* bound on the clock
    Faults       \* which of FaultKinds the environment shows

(***************************************************************************)
(* "slow"         a request may outlive MinAge while it holds new locks    *)
(* "assign_crash" a room assignment may die, or a call of it raise, between *)
(*                two of its steps: it has no handler that rolls back      *)
(* "assign_race"  two assignments of one booking may run at the same time  *)
(* "lost_ack"     the insert of a booking may take effect and still raise  *)
(***************************************************************************)
FaultKinds == {"slow", "assign_crash", "assign_race", "lost_ack"}

ASSUME ConstantsAssumption ==
    /\ LastDate \in Nat
    /\ MaxTime \in Nat
    /\ MinAge \in Nat \ {0}
    /\ NoRoom \notin Rooms
    /\ Nobody \notin Bookings
    /\ Block \notin Bookings
    /\ Block # Nobody
    /\ Faults \subseteq FaultKinds

Dates == 0 .. LastDate
AllNights == {d \in Dates : d < LastDate}

\* Mutant: the departure date is counted as a night.
NightDatesInclusive(ci, co) == {d \in Dates : ci <= d /\ d <= co}

\* The nights a stay occupies: the departure date is not one of them.
NightDates(ci, co) == {d \in AllNights : ci <= d /\ d < co}

VARIABLES
    locks,       \* room_night_locks: locks[r][n], unique per room and night
    bookings,    \* the bookings collection
    op,          \* op[w]: the request that handler w is running
    stranded,    \* ids whose creation left rows behind: see Strand
    releasing,   \* cancelled bookings whose locks are not released yet
    now          \* the clock

vars == <<locks, bookings, op, stranded, releasing, now>>

NoLock == [owner |-> Nobody, created |-> 0]
Lock == [owner : Bookings \cup {Nobody, Block}, created : Nat]

Absent == [status |-> "absent", room |-> NoRoom, ci |-> 0, co |-> 0]
Booking == [status : {"absent", "active", "terminal"},
            room : Rooms \cup {NoRoom}, ci : Dates, co : Dates]

Idle == [pc |-> "idle", kind |-> "none", bk |-> Nobody, room |-> NoRoom,
         ci |-> 0, co |-> 0, todo |-> {}, claimed |-> {},
         seen |-> NoLock, old |-> FALSE]

Steps == {"overlap", "claim", "read", "owner", "retire", "reinsert", "reread",
          "undo", "obsolete", "write"}

Op == [pc : Steps \cup {"idle"}, kind : {"none", "create", "assign"},
       bk : Bookings \cup {Nobody}, room : Rooms \cup {NoRoom},
       ci : Dates, co : Dates, todo : SUBSET AllNights, claimed : SUBSET AllNights,
       seen : Lock, old : BOOLEAN]

TypeOK ==
    /\ locks \in [Rooms -> [AllNights -> Lock]]
    /\ bookings \in [Bookings -> Booking]
    /\ op \in [Workers -> Op]
    /\ stranded \subseteq Bookings
    /\ releasing \subseteq Bookings
    /\ now \in Nat

Init ==
    /\ locks = [r \in Rooms |-> [n \in AllNights |-> NoLock]]
    /\ bookings = [b \in Bookings |-> Absent]
    /\ op = [w \in Workers |-> Idle]
    /\ stranded = {}
    /\ releasing = {}
    /\ now = 0

-----------------------------------------------------------------------------
(* Helpers *)

InFlight(b) == \E w \in Workers : op[w].pc # "idle" /\ op[w].bk = b

Nights(w) == NightDates(op[w].ci, op[w].co)

\* `for night in nights`: the nights are taken in calendar order.
Night(w) == CHOOSE n \in op[w].todo : \A m \in op[w].todo : n <= m

Here(w) == locks[op[w].room][Night(w)]

Goto(w, step) == op' = [op EXCEPT ![w] = [@ EXCEPT !.pc = step]]

Finish(w) == op' = [op EXCEPT ![w] = Idle]

\* What follows once the nights of todo are all that is left to claim.
AfterClaims(kind, todo) ==
    CASE todo # {} -> "claim"
      [] todo = {} /\ kind = "create" -> "write"
      [] OTHER -> "obsolete"

\* The night is secured: go on with the next one.
NextNight(w, gained) ==
    LET rest == op[w].todo \ {Night(w)}
    IN  op' = [op EXCEPT ![w] =
                 [@ EXCEPT !.todo = rest,
                           !.claimed = op[w].claimed \cup gained,
                           !.pc = AfterClaims(op[w].kind, rest)]]

\* delete_many: the lock table without owner b's rows on the given room-nights.
Without(b, roomNights) ==
    [r \in Rooms |-> [n \in AllNights |->
        IF locks[r][n].owner = b /\ <<r, n>> \in roomNights
        THEN NoLock ELSE locks[r][n]]]

\* The creation of w can no longer roll back every row it wrote.
Strand(w) ==
    stranded' = IF op[w].kind = "create" THEN stranded \cup {op[w].bk} ELSE stranded

AllRoomNights == Rooms \X AllNights

LockIsOldEnough(l) == now >= l.created + MinAge

\* _find_overlapping_active_booking: half-open date intervals, self excluded.
OverlappingActiveBooking(b, r, ci, co) ==
    \E c \in Bookings \ {b} :
        /\ bookings[c].status = "active"
        /\ bookings[c].room = r
        /\ bookings[c].ci < co
        /\ bookings[c].co > ci

-----------------------------------------------------------------------------
(* Requests *)

\* create_booking_atomic: an unassigned booking skips every lock.
StartCreate(w, b, r, ci, co) ==
    /\ op[w].pc = "idle"
    /\ bookings[b].status = "absent"
    /\ b \notin stranded
    /\ ~InFlight(b)
    /\ ci <= co
    /\ op' = [op EXCEPT ![w] =
                [Idle EXCEPT !.pc = IF r = NoRoom THEN "write" ELSE "overlap",
                             !.kind = "create", !.bk = b, !.room = r,
                             !.ci = ci, !.co = co,
                             !.todo = IF r = NoRoom THEN {} ELSE NightDates(ci, co)]]
    /\ UNCHANGED <<locks, bookings, stranded, releasing, now>>

\* The assign-room endpoint reads the booking, refuses a terminal one
\* (ensure_reservation_mutable) and calls assign_room_atomic with its dates.
StartAssign(w, b, r) ==
    /\ op[w].pc = "idle"
    /\ bookings[b].status = "active"
    /\ ~InFlight(b) \/ "assign_race" \in Faults
    /\ op' = [op EXCEPT ![w] =
                [Idle EXCEPT !.pc = "overlap", !.kind = "assign", !.bk = b,
                             !.room = r, !.ci = bookings[b].ci, !.co = bookings[b].co,
                             !.todo = NightDates(bookings[b].ci, bookings[b].co)]]
    /\ UNCHANGED <<locks, bookings, stranded, releasing, now>>

\* The overlap query that runs before any lock is claimed.
CheckOverlap(w) ==
    /\ op[w].pc = "overlap"
    /\ IF OverlappingActiveBooking(op[w].bk, op[w].room, op[w].ci, op[w].co)
       THEN Finish(w)
       ELSE Goto(w, AfterClaims(op[w].kind, op[w].todo))
    /\ UNCHANGED <<locks, bookings, stranded, releasing, now>>

\* Mutant: the index on (room, night) is not unique.
InsertLockUnguarded(w, onDuplicate) ==
    /\ locks' = [locks EXCEPT ![op[w].room][Night(w)] = [owner |-> op[w].bk, created |-> now]]
    /\ NextNight(w, {Night(w)})
    /\ UNCHANGED <<bookings, stranded, releasing, now>>

\* insert_one of a lock row under the unique index: first try and retry.
InsertLock(w, onDuplicate) ==
    /\ IF Here(w) = NoLock
       THEN /\ locks' = [locks EXCEPT ![op[w].room][Night(w)] =
                           [owner |-> op[w].bk, created |-> now]]
            /\ NextNight(w, {Night(w)})
       ELSE Goto(w, onDuplicate) /\ UNCHANGED locks
    /\ UNCHANGED <<bookings, stranded, releasing, now>>

ClaimNight(w) == op[w].pc = "claim" /\ InsertLock(w, "read")

ReclaimNight(w) == op[w].pc = "reinsert" /\ InsertLock(w, "reread")

\* Mutant: an assignment takes any existing row for its own.
SettleDuplicateAny(w, existing) ==
    IF op[w].kind = "assign" THEN NextNight(w, {}) ELSE Goto(w, "undo")

\* The night belongs to somebody else (or its row vanished): an assignment
\* accepts its own row, everything else is a conflict.
SettleDuplicate(w, existing) ==
    IF op[w].kind = "assign" /\ existing.owner = op[w].bk
    THEN NextNight(w, {})
    ELSE Goto(w, "undo")

\* find_one of the row that caused the duplicate; its age is judged here.
ReadExisting(w) ==
    /\ op[w].pc = "read"
    /\ IF Here(w).owner \in {Nobody, Block, op[w].bk}
       THEN SettleDuplicate(w, Here(w))
       ELSE op' = [op EXCEPT ![w] = [@ EXCEPT !.pc = "owner", !.seen = Here(w),
                                              !.old = LockIsOldEnough(Here(w))]]
    /\ UNCHANGED <<locks, bookings, stranded, releasing, now>>

\* Why a lock row protects nothing any more.
StaleReason(owner, r, n, old) ==
    \/ owner.status = "terminal"
    \/ old /\ \/ owner.status = "absent"
              \/ owner.room # r
              \/ n \notin NightDates(owner.ci, owner.co)

\* find_one of the owner: decide whether the row may be retired.
ReadOwner(w) ==
    /\ op[w].pc = "owner"
    /\ IF StaleReason(bookings[op[w].seen.owner], op[w].room, Night(w), op[w].old)
       THEN Goto(w, "retire")
       ELSE SettleDuplicate(w, op[w].seen)
    /\ UNCHANGED <<locks, bookings, stranded, releasing, now>>

\* Mutant: delete_one by room and night only.
RetireAnyLock(w) ==
    /\ op[w].pc = "retire"
    /\ locks' = [locks EXCEPT ![op[w].room][Night(w)] = NoLock]
    /\ Goto(w, "reinsert")
    /\ UNCHANGED <<bookings, stranded, releasing, now>>

\* delete_one with the exact row that was read: owner and created_at included.
RetireStaleLock(w) ==
    /\ op[w].pc = "retire"
    /\ IF Here(w) = op[w].seen
       THEN /\ locks' = [locks EXCEPT ![op[w].room][Night(w)] = NoLock]
            /\ Goto(w, "reinsert")
       ELSE SettleDuplicate(w, op[w].seen) /\ UNCHANGED locks
    /\ UNCHANGED <<bookings, stranded, releasing, now>>

RereadExisting(w) ==
    /\ op[w].pc = "reread"
    /\ SettleDuplicate(w, Here(w))
    /\ UNCHANGED <<locks, bookings, stranded, releasing, now>>

\* Mutant: a failed request keeps the nights it claimed.
CompensateNothing(w) ==
    /\ op[w].pc = "undo"
    /\ Finish(w)
    /\ UNCHANGED <<locks, bookings, stranded, releasing, now>>

\* INV-2: a refused or failed request releases the nights it claimed.
Compensate(w) ==
    /\ op[w].pc = "undo"
    /\ locks' = Without(op[w].bk, {op[w].room} \X op[w].claimed)
    /\ Finish(w)
    /\ UNCHANGED <<bookings, stranded, releasing, now>>

\* Mutant: step 3 does not spare the rows of the new room.
ReleaseObsoleteAll(w) ==
    /\ op[w].pc = "obsolete"
    /\ locks' = Without(op[w].bk, AllRoomNights)
    /\ Goto(w, "write")
    /\ UNCHANGED <<bookings, stranded, releasing, now>>

\* Step 3 of assign_room_atomic: drop the rows outside the new room and stay.
ReleaseObsolete(w) ==
    /\ op[w].pc = "obsolete"
    /\ locks' = Without(op[w].bk, AllRoomNights \ ({op[w].room} \X Nights(w)))
    /\ Goto(w, "write")
    /\ UNCHANGED <<bookings, stranded, releasing, now>>

Inserted(w) ==
    [bookings EXCEPT ![op[w].bk] = [status |-> "active", room |-> op[w].room,
                                    ci |-> op[w].ci, co |-> op[w].co]]

InsertBooking(w) ==
    /\ op[w].pc = "write" /\ op[w].kind = "create"
    /\ bookings' = Inserted(w)
    /\ Finish(w)
    /\ UNCHANGED <<locks, stranded, releasing, now>>

\* update_one of room_id, whatever the booking has become meanwhile.
UpdateRoom(w) ==
    /\ op[w].pc = "write" /\ op[w].kind = "assign"
    /\ bookings' = [bookings EXCEPT ![op[w].bk].room = op[w].room]
    /\ Finish(w)
    /\ UNCHANGED <<locks, stranded, releasing, now>>

\* Any other exception inside the try block of create_booking_atomic.
CreateFails(w) ==
    /\ op[w].kind = "create"
    /\ op[w].pc \in Steps \ {"overlap", "undo"}
    /\ Goto(w, "undo")
    /\ UNCHANGED <<locks, bookings, stranded, releasing, now>>

\* The insert took effect but its acknowledgement was lost.
InsertLosesAck(w) ==
    /\ "lost_ack" \in Faults
    /\ op[w].pc = "write" /\ op[w].kind = "create"
    /\ bookings' = Inserted(w)
    /\ Goto(w, "undo")
    /\ UNCHANGED <<locks, stranded, releasing, now>>

\* insert_one of a lock row took effect but raised: the night is not in
\* claimed_nights.  For an assignment this is InsertLock followed by Crash.
InsertLockLosesAck(w) ==
    /\ op[w].kind = "create" /\ op[w].pc \in {"claim", "reinsert"}
    /\ Here(w) = NoLock
    /\ locks' = [locks EXCEPT ![op[w].room][Night(w)] =
                    [owner |-> op[w].bk, created |-> now]]
    /\ Goto(w, "undo")
    /\ Strand(w)
    /\ UNCHANGED <<bookings, releasing, now>>

\* The delete_many of the roll back raises, having deleted some of the rows.
\* (One raised by the conflict branch is repeated by the exception handler: the
\* request is in "undo" until the last one is over.)
CompensateFails(w) ==
    /\ op[w].pc = "undo"
    /\ op[w].kind = "create" \/ "assign_crash" \in Faults
    /\ \E gone \in SUBSET op[w].claimed :
          locks' = Without(op[w].bk, {op[w].room} \X gone)
    /\ Strand(w)
    /\ Finish(w)
    /\ UNCHANGED <<bookings, releasing, now>>

\* The process dies between two steps: nothing is compensated.
Crash(w) ==
    /\ op[w].pc # "idle"
    /\ op[w].kind = "create" \/ "assign_crash" \in Faults
    /\ Strand(w)
    /\ Finish(w)
    /\ UNCHANGED <<locks, bookings, releasing, now>>

-----------------------------------------------------------------------------
(* The end of a stay, blocks, time *)

\* handle_cancellation and handle_no_show write the status first ...
Cancel(b) ==
    /\ bookings[b].status = "active"
    /\ bookings' = [bookings EXCEPT ![b].status = "terminal"]
    /\ releasing' = releasing \cup {b}
    /\ UNCHANGED <<locks, op, stranded, now>>

\* ... and release the locks in a second call.
ReleaseBookingNights(b) ==
    /\ b \in releasing
    /\ locks' = Without(b, AllRoomNights)
    /\ releasing' = releasing \ {b}
    /\ UNCHANGED <<bookings, op, stranded, now>>

\* An exception of the release is logged and swallowed.
ReleaseFails(b) ==
    /\ b \in releasing
    /\ releasing' = releasing \ {b}
    /\ UNCHANGED <<locks, bookings, op, stranded, now>>

\* check_out_booking_atomic: status and locks in one transaction.
CheckOut(b) ==
    /\ bookings[b].status = "active"
    /\ bookings' = [bookings EXCEPT ![b].status = "terminal"]
    /\ locks' = Without(b, AllRoomNights)
    /\ UNCHANGED <<op, stranded, releasing, now>>

\* apply_room_block, one night: a taken night is reported and skipped.
ApplyRoomBlock(r, n) ==
    /\ locks[r][n] = NoLock
    /\ locks' = [locks EXCEPT ![r][n] = [owner |-> Block, created |-> now]]
    /\ UNCHANGED <<bookings, op, stranded, releasing, now>>

\* release_room_block: no dates, or dates without a night, mean the whole room.
ReleaseRoomBlock(r, ci, co) ==
    /\ \E n \in AllNights : locks[r][n].owner = Block
    /\ LET nights == NightDates(ci, co)
       IN  locks' = Without(Block, {r} \X (IF nights = {} THEN AllNights ELSE nights))
    /\ UNCHANGED <<bookings, op, stranded, releasing, now>>

\* Without the "slow" fault a request ends before a row it claimed grows old.
Tick ==
    /\ now < MaxTime
    /\ \/ "slow" \in Faults
       \/ \A w \in Workers : \A n \in op[w].claimed :
             LET l == locks[op[w].room][n]
             IN  l.owner = op[w].bk => now + 1 < l.created + MinAge
    /\ now' = now + 1
    /\ UNCHANGED <<locks, bookings, op, stranded, releasing>>

-----------------------------------------------------------------------------

Step(w) ==
    \/ CheckOverlap(w)
    \/ ClaimNight(w)
    \/ ReadExisting(w)
    \/ ReadOwner(w)
    \/ RetireStaleLock(w)
    \/ ReclaimNight(w)
    \/ RereadExisting(w)
    \/ Compensate(w)
    \/ ReleaseObsolete(w)
    \/ InsertBooking(w)
    \/ UpdateRoom(w)

Start(w) ==
    \/ \E b \in Bookings, r \in Rooms \cup {NoRoom}, ci, co \in Dates :
          StartCreate(w, b, r, ci, co)
    \/ \E b \in Bookings, r \in Rooms : StartAssign(w, b, r)

Fault(w) ==
    \/ CreateFails(w)
    \/ InsertLosesAck(w)
    \/ InsertLockLosesAck(w)
    \/ CompensateFails(w)
    \/ Crash(w)

StayEnds(b) ==
    Cancel(b) \/ ReleaseBookingNights(b) \/ ReleaseFails(b) \/ CheckOut(b)

Blocking ==
    \/ \E r \in Rooms, n \in AllNights : ApplyRoomBlock(r, n)
    \/ \E r \in Rooms, ci, co \in Dates : ci <= co /\ ReleaseRoomBlock(r, ci, co)

Next ==
    \/ \E w \in Workers : Start(w) \/ Step(w) \/ Fault(w)
    \/ \E b \in Bookings : StayEnds(b)
    \/ Blocking
    \/ Tick

Spec == Init /\ [][Next]_vars

-----------------------------------------------------------------------------
(* Properties *)

NoPlace == [room |-> NoRoom, nights |-> {}]

\* Where an active booking stands.  A room move takes effect when the obsolete
\* rows are released: from then on only the rows of the new room protect it,
\* although room_id still names the old one.
Place(b) ==
    IF bookings[b].status # "active" THEN NoPlace
    ELSE IF \E w \in Workers : op[w].bk = b /\ op[w].kind = "assign" /\ op[w].pc = "write"
    THEN LET w == CHOOSE w \in Workers : op[w].bk = b /\ op[w].pc = "write"
         IN  [room |-> op[w].room, nights |-> Nights(w)]
    ELSE IF bookings[b].room = NoRoom THEN NoPlace
    ELSE [room |-> bookings[b].room, nights |-> NightDates(bookings[b].ci, bookings[b].co)]

\* No two active bookings share a room-night (INV-1, the promise in the header
\* of atomic_booking.py), however their requests interleave, crash and retry.
NoDoubleBooking ==
    \A b, c \in Bookings : b # c /\ Place(b).room = Place(c).room =>
        Place(b).nights \cap Place(c).nights = {}

\* The same promise read off the bookings collection alone: two active bookings
\* that no request is working on never share a room-night.
DoubleBookingImpossible ==
    \A b, c \in Bookings :
        /\ b # c
        /\ bookings[b].status = "active" /\ bookings[c].status = "active"
        /\ bookings[b].room = bookings[c].room /\ bookings[b].room # NoRoom
        /\ ~InFlight(b) /\ ~InFlight(c)
        => NightDates(bookings[b].ci, bookings[b].co)
             \cap NightDates(bookings[c].ci, bookings[c].co) = {}

\* Every active booking owns the lock row of each of its room-nights: neither
\* the stale-row recovery of another request nor a compensation, a cancellation
\* or a block release takes a row from under it.
ActiveBookingHoldsLocks ==
    \A b \in Bookings : \A n \in Place(b).nights : locks[Place(b).room][n].owner = b

\* INV-2, all or nothing: once no request works on a booking id that has no
\* document, it owns no row, unless its creator died, lost the acknowledgement
\* of a row, or could not complete the roll back (those rows are for the
\* stale-row recovery).
NoPartialClaim ==
    \A b \in Bookings \ stranded :
        bookings[b].status = "absent" /\ ~InFlight(b) =>
            \A r \in Rooms, n \in AllNights : locks[r][n].owner # b

\* A request takes a row away from another owner only if that owner is terminal
\* or its creation left rows behind: never one of a creation or a move that can
\* still succeed, never one of an active booking, never one of a block.
TakesOnlyStaleLocks ==
    \A w \in Workers, r \in Rooms, n \in AllNights :
       LET b == locks[r][n].owner
       IN  /\ b \notin {Nobody, op[w].bk}
           /\ op'[w] # op[w]
           /\ locks'[r][n].owner # b
           => b \in stranded \/ (b \in Bookings /\ bookings[b].status = "terminal")

RecoveryTakesOnlyStaleLocks == [][TakesOnlyStaleLocks]_vars

\* The lock protocol implements the atomic inventory: every step takes, moves or
\* gives back one whole stay, or changes nothing a caller can see.
Inventory == INSTANCE RoomInventory WITH place <- [b \in Bookings |-> Place(b)]

ImplementsRoomInventory == Inventory!Spec

=============================================================================
