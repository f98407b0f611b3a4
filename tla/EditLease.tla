------------------------------ MODULE EditLease ------------------------------
(***************************************************************************)
(* The edit lease of one reservation: core/reservation_edit_lock.py and    *)
(* its router, the guard of middleware/reservation_edit_lock_guard.py that *)
(* lets reservation writes through, and the browser side of                *)
(* frontend/src/lib/reservationEditLockManager.js.                         *)
(*                                                                         *)
(* A view is one opening of the reservation in a browser; it has a lock id *)
(* of its own and is closed for good.  A call of a view reaches the server *)
(* and is given the server's clock reading, and takes effect or is lost    *)
(* later: in between its reading ages.  There is no absolute clock: the    *)
(* row of the lease keeps the time it has left, negative when it has       *)
(* expired, and a call the age of its clock reading.                       *)
(***************************************************************************)
EXTENDS Integers

CONSTANTS
    Views,
    LeaseTime,   \* LEASE_SECONDS, in clock ticks
    Beat,        \* HEARTBEAT_SECONDS
    CallTime,    \* a call takes effect in fewer ticks
    WriteTime,   \* a write the guard let through lands in fewer ticks
    NoView

ASSUME EditAssumption ==
    /\ LeaseTime \in Nat \ {0}
    /\ Beat \in Nat \ {0}
    /\ CallTime \in Nat \ {0}
    /\ WriteTime \in Nat \ {0}
    /\ NoView \notin Views

VARIABLES
    row,      \* the row of reservation_edit_locks: its owner, the time left
    view,     \* view[v]: current.status of the manager in the browser
    since,    \* since[v]: ticks since the heartbeat timer of v last fired
    calls     \* the calls under way: <<view, kind, age>>

vars == <<row, view, since, calls>>

Kinds == {"acquire", "heartbeat", "release", "write", "landing"}
Ages == 0 .. (CallTime + WriteTime)
NoRow == [owner |-> NoView, left |-> 0]

TypeOK ==
    /\ row \in [owner : Views \cup {NoView}, left : (0 - CallTime) .. LeaseTime]
    /\ view \in [Views -> {"idle", "acquiring", "acquired", "blocked", "lost", "closed"}]
    /\ since \in [Views -> 0 .. Beat]
    /\ calls \subseteq Views \X Kinds \X Ages

Init ==
    /\ row = NoRow
    /\ view = [v \in Views |-> "idle"]
    /\ since = [v \in Views |-> 0]
    /\ calls = {}

-----------------------------------------------------------------------------
(* The browser *)

InFlight(v, k) == \E c \in calls : c[1] = v /\ c[2] = k

Send(v, k) ==
    /\ ~InFlight(v, k)
    /\ calls' = calls \cup {<<v, k, 0>>}

SetStatus(v, status) == view' = [view EXCEPT ![v] = status]

\* acquire: the full detail is loaded, for the first time or again.
Open(v) ==
    /\ view[v] \in {"idle", "blocked", "lost"}
    /\ Send(v, "acquire")
    /\ SetStatus(v, "acquiring")
    /\ UNCHANGED <<row, since>>

\* Mutant: the timer is not cleared when the view is closed.
HeartbeatGoesOn(v) ==
    /\ view[v] = "closed" \/ (view[v] = "acquired" /\ since[v] = Beat)
    /\ Send(v, "heartbeat")
    /\ since' = [since EXCEPT ![v] = 0]
    /\ UNCHANGED <<row, view>>

\* The timer of startHeartbeat fires.
Heartbeat(v) ==
    /\ view[v] = "acquired"
    /\ since[v] = Beat
    /\ Send(v, "heartbeat")
    /\ since' = [since EXCEPT ![v] = 0]
    /\ UNCHANGED <<row, view>>

\* The interceptor sends a mutation only while the status is acquired.
Write(v) ==
    /\ view[v] = "acquired"
    /\ Send(v, "write")
    /\ UNCHANGED <<row, view, since>>

\* releaseCurrent and releaseOnPageExit: without a lease no call is sent.
Close(v) ==
    /\ view[v] \notin {"idle", "closed"}
    /\ IF view[v] = "acquired" THEN Send(v, "release") ELSE UNCHANGED calls
    /\ SetStatus(v, "closed")
    /\ since' = [since EXCEPT ![v] = 0]
    /\ UNCHANGED row

\* The answer, or its loss, reaches the manager, which ignores it when closed.
\* An acquire that succeeds starts the heartbeat timer.
Answer(v, status) ==
    IF view[v] = "closed"
    THEN UNCHANGED <<view, since>>
    ELSE SetStatus(v, status) /\ since' = [since EXCEPT ![v] = 0]

-----------------------------------------------------------------------------
(* The server *)

\* Mutant: the row is taken whoever owns it.
AcquirableAny(v, age) == TRUE

\* The filter of acquire_reservation_edit_lock: no row, an expired row, or the
\* row of the same view; otherwise the upsert hits the unique index.
Acquirable(v, age) == row.owner \in {NoView, v} \/ row.left + age <= 0

\* The filter of renew and assert: the exact owner, unexpired.
Valid(v, age) == row.owner = v /\ row.left + age > 0

Done(c) == calls' = calls \ {c}

\* Mutant: the lease runs on from the expiry of the clock reading.
TakeRowLater(v, age) == row' = [owner |-> v, left |-> LeaseTime + age]

\* The lease runs from the clock reading of the call.
TakeRow(v, age) == row' = [owner |-> v, left |-> LeaseTime - age]

Acquire(v, age) ==
    LET c == <<v, "acquire", age>> IN
    /\ c \in calls
    /\ Done(c)
    /\ \/ /\ Acquirable(v, age)
          /\ TakeRow(v, age)
          /\ \E status \in {"acquired", "lost"} : Answer(v, status)
       \/ /\ ~Acquirable(v, age)
          /\ UNCHANGED row
          /\ \E status \in {"blocked", "lost"} : Answer(v, status)

\* Mutant: a heartbeat notes its time but does not move expires_at.
RenewNotExtending(v, age) ==
    LET c == <<v, "heartbeat", age>> IN
    /\ c \in calls
    /\ Done(c)
    /\ UNCHANGED row
    /\ IF Valid(v, age) THEN UNCHANGED <<view, since>> ELSE Answer(v, "lost")

Renew(v, age) ==
    LET c == <<v, "heartbeat", age>> IN
    /\ c \in calls
    /\ Done(c)
    /\ \/ /\ Valid(v, age)
          /\ TakeRow(v, age)
          /\ \/ UNCHANGED <<view, since>>
             \/ Answer(v, "lost")
       \/ /\ ~Valid(v, age)
          /\ UNCHANGED row
          /\ Answer(v, "lost")

\* The find and the delete of release_reservation_edit_lock name the exact owner.
Release(v, age) ==
    LET c == <<v, "release", age>> IN
    /\ c \in calls
    /\ Done(c)
    /\ row' = IF row.owner = v THEN NoRow ELSE row
    /\ UNCHANGED <<view, since>>

\* The guard asserts the lease and calls the endpoint, or answers 423.
Guard(v, age) ==
    LET c == <<v, "write", age>> IN
    /\ c \in calls
    /\ ~InFlight(v, "landing")
    /\ calls' = (calls \ {c}) \cup (IF Valid(v, age) THEN {<<v, "landing", 0>>} ELSE {})
    /\ UNCHANGED <<row, view, since>>

\* The endpoint writes the reservation.
Land(v, age) ==
    LET c == <<v, "landing", age>> IN
    /\ c \in calls
    /\ Done(c)
    /\ UNCHANGED <<row, view, since>>

\* A call is lost on its way.
Drop(v, k, age) ==
    /\ <<v, k, age>> \in calls
    /\ k # "landing"
    /\ Done(<<v, k, age>>)
    /\ IF k \in {"acquire", "heartbeat"} THEN Answer(v, "lost") ELSE UNCHANGED <<view, since>>
    /\ UNCHANGED row

\* The TTL index removes an expired row.
Expire ==
    /\ row.owner # NoView
    /\ row.left <= 0
    /\ row' = NoRow
    /\ UNCHANGED <<view, since, calls>>

-----------------------------------------------------------------------------

Limit(k) == IF k = "landing" THEN WriteTime ELSE CallTime

\* Calls and writes end in time and heartbeat timers fire in time.
Tick ==
    /\ \A c \in calls : c[3] + 1 < Limit(c[2])
    /\ \A v \in Views : view[v] = "acquired" => since[v] < Beat
    /\ row' = IF row.owner = NoView \/ row.left = 0 - CallTime THEN row
              ELSE [row EXCEPT !.left = @ - 1]
    /\ since' = [v \in Views |-> IF view[v] = "acquired" THEN since[v] + 1 ELSE since[v]]
    /\ calls' = {<<c[1], c[2], c[3] + 1>> : c \in calls}
    /\ UNCHANGED view

Serve(v, age) ==
    \/ Acquire(v, age)
    \/ Renew(v, age)
    \/ Release(v, age)
    \/ Guard(v, age)
    \/ Land(v, age)

Next ==
    \/ \E v \in Views : Open(v) \/ Heartbeat(v) \/ Write(v) \/ Close(v)
    \/ \E v \in Views : \E age \in Ages :
           Serve(v, age) \/ \E k \in Kinds : Drop(v, k, age)
    \/ Expire
    \/ Tick

Spec == Init /\ [][Next]_vars

\* Timers fire, the server serves what reaches it, and time passes.
Fairness ==
    /\ WF_vars(Tick)
    /\ \A v \in Views :
          /\ WF_vars(Heartbeat(v))
          /\ WF_vars(\E age \in Ages : Acquire(v, age))
          /\ WF_vars(\E age \in Ages : Renew(v, age))
          /\ WF_vars(\E age \in Ages : Release(v, age))
          /\ WF_vars(\E age \in Ages : Guard(v, age))
          /\ WF_vars(\E age \in Ages : Land(v, age))

FairSpec == Spec /\ Fairness

-----------------------------------------------------------------------------
(* Properties *)

\* The view with an unexpired lease.
Holder == IF row.left > 0 THEN row.owner ELSE NoView

EditLock == INSTANCE Lease WITH Owners <- Views, NoOwner <- NoView, holder <- Holder

\* "One active edit lease is allowed per (tenant_id, booking_id)": delayed
\* acquires and heartbeats with old clock readings, lost answers, releases and
\* the TTL sweep never hand a lease that is still valid to another view.
ImplementsLease == EditLock!Spec

\* Nobody else gets the reservation while a write is under way that the guard
\* let through, although the guard does not extend the lease: as long as its
\* view is not closed, the view holds the lease until the write has landed.
WriteLandsUnderLease ==
    \A v \in Views : InFlight(v, "landing") /\ view[v] # "closed" => Holder = v

\* "An abandoned tab self-heals": once a view is closed it does not keep the
\* reservation, even if its release is lost or its acquire arrives afterwards.
AbandonedLeaseEnds ==
    \A v \in Views : (view[v] = "closed") ~> [](Holder # v)
=============================================================================
