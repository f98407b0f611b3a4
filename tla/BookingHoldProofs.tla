-------------------------- MODULE BookingHoldProofs --------------------------
(***************************************************************************)
(* Proofs about BookingHold for every set of handlers, sweepers, bookings  *)
(* and room-nights, every hold time and any number of faults.              *)
(***************************************************************************)
EXTENDS BookingHold, TLAPS

\* At most one request is under way for a booking: the client creates the hold of
\* a booking before it confirms or releases it.  The endpoints do not enforce it.
OneAtATime == SameBooking = FALSE

Busy(c) == cl[c].pc # "idle"

Protected(b) == granted[b].st = "confirmed" \/ now < granted[b].exp

Serial ==
    /\ \A c \in Clients : Busy(c) => cl[c].bk \in Bookings
    /\ \A c, d \in Clients : c # d /\ Busy(c) /\ Busy(d) => cl[c].bk # cl[d].bk

\* The rows a request claimed so far are its own until they expire.
ClaimsHeld ==
    \A c \in Clients : Busy(c) /\ now < cl[c].exp =>
        \A n \in cl[c].claimed :
            locks[n].owner = cl[c].bk /\ locks[n].exp = cl[c].exp

\* A second hold of a booking claims none of the nights of the first: its roll
\* back deletes rows by booking, so it must not reach them.
ClaimsApart ==
    \A c \in Clients, b \in Bookings : Busy(c) /\ cl[c].bk = b /\ Protected(b) =>
        cl[c].claimed \cap granted[b].nights = {}

\* The rows of a protected hold, with the expiry a sweep would ask for.
GrantedRows ==
    \A b \in Bookings : Protected(b) =>
        \A n \in granted[b].nights :
            /\ locks[n].owner = b
            /\ \/ locks[n].kind = "booking"
               \/ granted[b].st # "confirmed" /\ locks[n].exp = granted[b].exp

\* A sweep works with the clock of its find, which is never ahead.
SweepPast == \A s \in Sweepers : sw[s].at <= now

HInv == TypeOK /\ Serial /\ ClaimsHeld /\ ClaimsApart /\ GrantedRows /\ SweepPast

ClientState == [pc : {"idle", "claim", "undo"}, bk : Bookings \cup {Nobody},
                todo : SUBSET RoomNights, claimed : SUBSET RoomNights, exp : Nat]

-----------------------------------------------------------------------------
(* The type invariant *)

LEMMA RequestEdit ==
    ASSUME NEW f \in [Clients -> ClientState], NEW c \in Clients,
           NEW todo \in SUBSET RoomNights, NEW claimed \in SUBSET RoomNights
    PROVE  [f EXCEPT ![c].todo = todo, ![c].claimed = claimed] \in [Clients -> ClientState]
BY DEF ClientState

LEMMA TypeInit == Init => TypeOK
BY HoldAssumption DEF Init, TypeOK, Free, Idle, NoGrant, Asleep

LEMMA TypeNext == TypeOK /\ [Next]_vars => TypeOK'
<1> SUFFICES ASSUME TypeOK, [Next]_vars PROVE TypeOK'
  OBVIOUS
<1> USE HoldAssumption
<1>1. ASSUME NEW c \in Clients, NEW b \in Bookings, NEW nights \in SUBSET RoomNights,
             StartHold(c, b, nights)
      PROVE  TypeOK'
  BY <1>1 DEF StartHold, TypeOK
<1>2. ASSUME NEW c \in Clients, NEW n \in RoomNights, ClaimNight(c, n) PROVE TypeOK'
  <2>1. cl' \in [Clients -> ClientState]
    <3>1. CASE cl' = [cl EXCEPT ![c] = Idle]
      BY <3>1 DEF TypeOK, ClientState, Idle
    <3>2. CASE cl' = [cl EXCEPT ![c].todo = @ \ {n}, ![c].claimed = cl[c].claimed \cup {n}]
      <4>1. cl[c].todo \ {n} \in SUBSET RoomNights /\ cl[c].claimed \cup {n} \in SUBSET RoomNights
        BY DEF TypeOK
      <4>2. cl \in [Clients -> ClientState]
        BY DEF TypeOK, ClientState
      <4> QED
        BY <3>2, <4>1, <4>2, RequestEdit
    <3> QED
      BY <1>2, <3>1, <3>2 DEF ClaimNight
  <2>2. granted' \in [Bookings -> [nights : SUBSET RoomNights, exp : Nat,
                                   st : {"none", "held", "confirmed"}]]
    <3>1. [nights |-> cl[c].claimed \cup {n}, exp |-> cl[c].exp, st |-> "held"] \in
            [nights : SUBSET RoomNights, exp : Nat, st : {"none", "held", "confirmed"}]
      BY DEF TypeOK
    <3>2. \/ granted' = granted
          \/ granted' = [granted EXCEPT ![cl[c].bk] =
                           [nights |-> cl[c].claimed \cup {n}, exp |-> cl[c].exp, st |-> "held"]]
      BY <1>2, Zenon DEF ClaimNight
    <3> QED
      BY <3>1, <3>2, Zenon DEF TypeOK
  <2> QED
    BY <1>2, <2>1, <2>2 DEF ClaimNight, TypeOK, ClientState
<1>3. ASSUME NEW c \in Clients, NEW n \in RoomNights, ClaimConflict(c, n) PROVE TypeOK'
  BY <1>3, SMTT(30) DEF ClaimConflict, TypeOK, Idle
<1>4. ASSUME NEW c \in Clients, RollBack(c) PROVE TypeOK'
  BY <1>4 DEF RollBack, TypeOK, Idle, Deleted, Free
<1>5. ASSUME NEW c \in Clients, Crash(c) PROVE TypeOK'
  BY <1>5 DEF Crash, TypeOK, Idle
<1>6. ASSUME NEW b \in Bookings, ConfirmHold(b) PROVE TypeOK'
  BY <1>6 DEF ConfirmHold, TypeOK
<1>7. ASSUME NEW b \in Bookings, ConfirmBooking(b) PROVE TypeOK'
  BY <1>7 DEF ConfirmBooking, TypeOK
<1>8. ASSUME NEW b \in Bookings, ReleaseHold(b) PROVE TypeOK'
  BY <1>8 DEF ReleaseHold, TypeOK, Deleted, Free, NoGrant
<1>9. ASSUME NEW s \in Sweepers, SweepFind(s) PROVE TypeOK'
  BY <1>9 DEF SweepFind, TypeOK
<1>10. ASSUME NEW s \in Sweepers, NEW b \in Bookings, SweepDelete(s, b) PROVE TypeOK'
  <2>1. locks' \in [RoomNights -> [owner : Bookings \cup {Nobody},
                                   kind : {"none", "hold", "booking"}, exp : Nat]]
    BY <1>10 DEF SweepDelete, TypeOK, Deleted, Free
  <2> QED
    BY <1>10, <2>1 DEF SweepDelete, TypeOK
<1>11. ASSUME NEW s \in Sweepers, SweepStatus(s) PROVE TypeOK'
  <2>1. status' \in [Bookings -> {"pending", "confirmed", "hold_expired"}]
    BY <1>11 DEF SweepStatus, TypeOK
  <2>2. sw' \in [Sweepers -> [pc : {"idle", "delete", "status"}, todo : SUBSET Bookings,
                              bk : Bookings \cup {Nobody}, at : Nat]]
    BY <1>11 DEF SweepStatus, TypeOK, Asleep
  <2> QED
    BY <1>11, <2>1, <2>2 DEF SweepStatus, TypeOK
<1>12. ASSUME NEW s \in Sweepers, SweepFails(s) PROVE TypeOK'
  BY <1>12 DEF SweepFails, TypeOK, Asleep
<1>13. CASE Tick
  BY <1>13 DEF Tick, TypeOK
<1>14. CASE UNCHANGED vars
  BY <1>14 DEF vars, TypeOK
<1> QED
  BY <1>1, <1>2, <1>3, <1>4, <1>5, <1>6, <1>7, <1>8, <1>9, <1>10, <1>11, <1>12, <1>13, <1>14
  DEF Next, Request, Sweep

\* The rows, the requests, the sweeps and the grants keep their types.
THEOREM TypeCorrect == Spec => []TypeOK
BY TypeInit, TypeNext, PTL DEF Spec
-----------------------------------------------------------------------------
(* A granted hold protects its nights *)

LEMMA HInvInit == Init => HInv
<1> SUFFICES ASSUME Init PROVE HInv
  OBVIOUS
<1>1. TypeOK
  BY TypeInit
<1> QED
  BY <1>1 DEF Init, HInv, Serial, ClaimsHeld, ClaimsApart, GrantedRows, SweepPast, Busy,
              Protected, Idle, Asleep, NoGrant

\* The request of c ends, or nothing happens to it; every other one stays.
LEMMA RequestEnds ==
    ASSUME HInv, NEW c \in Clients, cl' = [cl EXCEPT ![c] = Idle],
           UNCHANGED <<locks, granted, sw, now>>
    PROVE  Serial' /\ ClaimsHeld' /\ ClaimsApart' /\ GrantedRows' /\ SweepPast'
<1>1. \A d \in Clients : Busy(d)' => d # c /\ Busy(d) /\ cl'[d] = cl[d]
  BY DEF HInv, TypeOK, Busy, Idle
<1>2. \A b \in Bookings : Protected(b)' <=> Protected(b)
  BY DEF Protected
<1> QED
  BY <1>1, <1>2 DEF HInv, TypeOK, Serial, ClaimsHeld, ClaimsApart, GrantedRows, SweepPast

LEMMA StartKeeps ==
    ASSUME OneAtATime, HInv, NEW c \in Clients, NEW b \in Bookings,
           NEW nights \in SUBSET RoomNights, StartHold(c, b, nights)
    PROVE  Serial' /\ ClaimsHeld' /\ ClaimsApart' /\ GrantedRows' /\ SweepPast'
<1>1. \A d \in Clients : cl[d].bk # b
  BY DEF OneAtATime, StartHold, MayRun
<1>2. \A d \in Clients \ {c} : cl'[d] = cl[d]
  BY DEF HInv, TypeOK, StartHold
<1>3. cl'[c].bk = b /\ cl'[c].claimed = {}
  BY DEF HInv, TypeOK, StartHold
<1>4. UNCHANGED <<locks, granted, sw, now>>
  BY DEF StartHold
<1>5. Serial'
  BY <1>1, <1>2, <1>3 DEF HInv, Serial, Busy
<1>6. ClaimsHeld'
  BY <1>2, <1>3, <1>4 DEF HInv, ClaimsHeld, Busy
<1>7. ClaimsApart'
  BY <1>2, <1>3, <1>4 DEF HInv, ClaimsApart, Busy, Protected
<1> QED
  BY <1>4, <1>5, <1>6, <1>7 DEF HInv, GrantedRows, SweepPast, Protected

LEMMA ClaimKeeps ==
    ASSUME HInv, NEW c \in Clients, NEW n \in RoomNights, ClaimNight(c, n)
    PROVE  Serial' /\ ClaimsHeld' /\ ClaimsApart' /\ GrantedRows' /\ SweepPast'
<1>1. Busy(c) /\ locks[n].owner = Nobody /\ UNCHANGED <<sw, now>>
  BY DEF ClaimNight, Busy, Free
<1>2. /\ locks'[n].owner = cl[c].bk /\ locks'[n].exp = cl[c].exp
      /\ \A m \in RoomNights \ {n} : locks'[m] = locks[m]
  BY DEF HInv, TypeOK, ClaimNight
<1>3. \A d \in Clients \ {c} : cl'[d] = cl[d]
  BY DEF HInv, TypeOK, ClaimNight
<1>4. \/ /\ ~Busy(c)'
         /\ granted' = [granted EXCEPT ![cl[c].bk] =
                          [nights |-> cl[c].claimed \cup {n}, exp |-> cl[c].exp, st |-> "held"]]
      \/ /\ cl'[c].bk = cl[c].bk /\ cl'[c].exp = cl[c].exp
         /\ cl'[c].claimed = cl[c].claimed \cup {n}
         /\ granted' = granted
  <2>1. CASE cl[c].todo = {n}
    BY <2>1 DEF HInv, TypeOK, ClaimNight, Idle, Busy
  <2>2. CASE cl[c].todo # {n}
    BY <2>2 DEF HInv, TypeOK, ClaimNight
  <2> QED
    BY <2>1, <2>2
<1>5. Serial'
  BY <1>1, <1>3, <1>4 DEF HInv, Serial, Busy
\* n was free, so no request and no protected grant has it.
<1>6. \A d \in Clients : Busy(d) /\ now < cl[d].exp => n \notin cl[d].claimed
  BY <1>1, HoldAssumption DEF HInv, Serial, ClaimsHeld
<1>7. \A b \in Bookings : Protected(b) => n \notin granted[b].nights
  BY <1>1, HoldAssumption DEF HInv, GrantedRows
<1>8. ClaimsHeld'
  <2> SUFFICES ASSUME NEW d \in Clients, Busy(d)', now < cl'[d].exp, NEW m \in cl'[d].claimed
               PROVE  locks'[m].owner = cl'[d].bk /\ locks'[m].exp = cl'[d].exp
    BY <1>1 DEF ClaimsHeld
  <2>1. cl[d].claimed \subseteq RoomNights
    BY DEF HInv, TypeOK
  <2>2. CASE d = c
    BY <1>1, <1>2, <1>4, <2>1, <2>2 DEF HInv, ClaimsHeld
  <2>3. CASE d # c
    BY <1>1, <1>2, <1>3, <1>6, <2>1, <2>3 DEF HInv, ClaimsHeld, Busy
  <2> QED
    BY <2>2, <2>3
<1>9. ClaimsApart'
  <2> SUFFICES ASSUME NEW d \in Clients, NEW b \in Bookings, Busy(d)', cl'[d].bk = b,
                      Protected(b)'
               PROVE  cl'[d].claimed \cap granted'[b].nights = {}
    BY DEF ClaimsApart
  <2>1. CASE d = c
    BY <1>1, <1>4, <1>7, <2>1 DEF HInv, ClaimsApart, Protected
  <2>2. CASE d # c
    <3>1. Busy(d) /\ cl'[d] = cl[d] /\ cl[d].bk # cl[c].bk
      BY <1>1, <1>3, <2>2 DEF HInv, Serial, Busy
    <3>2. granted'[b] = granted[b]
      BY <1>4, <3>1 DEF HInv, TypeOK
    <3> QED
      BY <1>1, <3>1, <3>2 DEF HInv, ClaimsApart, Protected
  <2> QED
    BY <2>1, <2>2
<1>10. GrantedRows'
  <2> SUFFICES ASSUME NEW b \in Bookings, Protected(b)', NEW m \in granted'[b].nights
               PROVE  /\ locks'[m].owner = b
                      /\ \/ locks'[m].kind = "booking"
                         \/ granted'[b].st # "confirmed" /\ locks'[m].exp = granted'[b].exp
    BY DEF GrantedRows
  <2>1. CASE granted'[b] = granted[b]
    <3>1. m # n /\ m \in RoomNights
      BY <1>1, <1>7, <2>1 DEF HInv, TypeOK, Protected
    <3> QED
      BY <1>1, <1>2, <2>1, <3>1 DEF HInv, GrantedRows, Protected
  <2>2. CASE /\ b = cl[c].bk
             /\ granted'[b] = [nights |-> cl[c].claimed \cup {n}, exp |-> cl[c].exp, st |-> "held"]
    <3>1. now < cl[c].exp /\ m \in cl[c].claimed \cup {n}
      BY <1>1, <2>2 DEF Protected
    <3>2. cl[c].claimed \subseteq RoomNights
      BY DEF HInv, TypeOK
    <3> QED
      BY <1>1, <1>2, <2>2, <3>1, <3>2 DEF HInv, ClaimsHeld
  <2> QED
    BY <1>4, <2>1, <2>2 DEF HInv, TypeOK
<1> QED
  BY <1>1, <1>5, <1>8, <1>9, <1>10 DEF HInv, SweepPast

LEMMA ConflictKeeps ==
    ASSUME HInv, NEW c \in Clients, NEW n \in RoomNights, ClaimConflict(c, n)
    PROVE  Serial' /\ ClaimsHeld' /\ ClaimsApart' /\ GrantedRows' /\ SweepPast'
<1>1. UNCHANGED <<locks, granted, sw, now>>
  BY DEF ClaimConflict
<1>2. CASE cl[c].claimed = {}
  BY <1>1, <1>2, RequestEnds DEF ClaimConflict
<1>3. CASE cl[c].claimed # {}
  <2>1. \A d \in Clients : /\ Busy(d)' <=> Busy(d)
                            /\ cl'[d].bk = cl[d].bk /\ cl'[d].exp = cl[d].exp
                            /\ cl'[d].claimed = cl[d].claimed
    BY <1>3 DEF HInv, TypeOK, ClaimConflict, Busy
  <2> QED
    BY <1>1, <2>1 DEF HInv, Serial, ClaimsHeld, ClaimsApart, GrantedRows, SweepPast, Protected
<1> QED
  BY <1>2, <1>3

LEMMA RollBackKeeps ==
    ASSUME HInv, NEW c \in Clients, RollBack(c)
    PROVE  Serial' /\ ClaimsHeld' /\ ClaimsApart' /\ GrantedRows' /\ SweepPast'
<1> DEFINE rows == {n \in cl[c].claimed : locks[n].owner = cl[c].bk}
<1>1. Busy(c) /\ UNCHANGED <<granted, sw, now>>
  BY DEF RollBack, Busy
<1>2. \A m \in RoomNights : m \notin rows => locks'[m] = locks[m]
  BY DEF RollBack, Deleted
<1>3. \A d \in Clients : Busy(d)' => Busy(d) /\ d # c /\ cl'[d] = cl[d]
  BY DEF HInv, TypeOK, RollBack, Busy, Idle
<1>4. Serial' /\ ClaimsApart' /\ SweepPast'
  BY <1>1, <1>3 DEF HInv, Serial, ClaimsApart, SweepPast, Protected
\* The rows of another request belong to another booking.
<1>5. ClaimsHeld'
  <2> SUFFICES ASSUME NEW d \in Clients, Busy(d)', now < cl'[d].exp, NEW m \in cl'[d].claimed
               PROVE  locks'[m].owner = cl'[d].bk /\ locks'[m].exp = cl'[d].exp
    BY <1>1 DEF ClaimsHeld
  <2>1. /\ locks[m].owner = cl[d].bk /\ locks[m].exp = cl[d].exp
        /\ cl[d].bk # cl[c].bk /\ m \in RoomNights
    BY <1>1, <1>3 DEF HInv, TypeOK, ClaimsHeld, Serial
  <2> QED
    BY <1>2, <1>3, <2>1
\* The rows of a grant belong to another booking, or were not claimed by c.
<1>6. GrantedRows'
  <2> SUFFICES ASSUME NEW b \in Bookings, Protected(b), NEW m \in granted[b].nights
               PROVE  locks'[m] = locks[m]
    BY <1>1 DEF HInv, GrantedRows, Protected
  <2>1. locks[m].owner = b /\ m \in RoomNights
    BY DEF HInv, TypeOK, GrantedRows
  <2>2. cl[c].bk = b => m \notin cl[c].claimed
    BY <1>1 DEF HInv, ClaimsApart
  <2> QED
    BY <1>2, <2>1, <2>2
<1> QED
  BY <1>4, <1>5, <1>6

\* Rows that no request and no protected grant needs may be deleted.
LEMMA DeleteKeeps ==
    ASSUME HInv, NEW rows \in SUBSET RoomNights, locks' = Deleted(rows), UNCHANGED <<cl, now>>,
           \A c \in Clients : Busy(c) /\ now < cl[c].exp => rows \cap cl[c].claimed = {},
           NEW b \in Bookings,
           granted' = granted \/ granted' = [granted EXCEPT ![b] = NoGrant],
           \A a \in Bookings : Protected(a) /\ granted'[a] = granted[a] =>
               rows \cap granted[a].nights = {}
    PROVE  Serial' /\ ClaimsHeld' /\ ClaimsApart' /\ GrantedRows'
<1>1. \A m \in RoomNights : m \notin rows => locks'[m] = locks[m]
  BY DEF Deleted
<1>2. \A a \in Bookings : Protected(a)' => Protected(a) /\ granted'[a] = granted[a]
  BY DEF HInv, TypeOK, Protected, NoGrant
<1>3. Serial' /\ ClaimsApart'
  BY <1>2 DEF HInv, Serial, ClaimsApart, Busy
<1>4. ClaimsHeld'
  <2> SUFFICES ASSUME NEW d \in Clients, Busy(d), now < cl[d].exp, NEW m \in cl[d].claimed
               PROVE  locks'[m] = locks[m]
    BY DEF HInv, ClaimsHeld, Busy
  <2> QED
    BY <1>1 DEF HInv, TypeOK
<1>5. GrantedRows'
  <2> SUFFICES ASSUME NEW a \in Bookings, Protected(a), granted'[a] = granted[a],
                      NEW m \in granted[a].nights
               PROVE  locks'[m] = locks[m]
    BY <1>2 DEF HInv, GrantedRows
  <2> QED
    BY <1>1 DEF HInv, TypeOK
<1> QED
  BY <1>3, <1>4, <1>5

LEMMA ReleaseKeeps ==
    ASSUME OneAtATime, HInv, NEW b \in Bookings, ReleaseHold(b)
    PROVE  Serial' /\ ClaimsHeld' /\ ClaimsApart' /\ GrantedRows' /\ SweepPast'
<1>1. /\ \A c \in Clients : cl[c].bk # b
      /\ locks' = Deleted(HoldRows(b)) /\ HoldRows(b) \in SUBSET RoomNights
      /\ UNCHANGED <<cl, sw, now>>
  BY DEF OneAtATime, ReleaseHold, MayRun, HoldRows
<1>2. \A c \in Clients : Busy(c) /\ now < cl[c].exp => HoldRows(b) \cap cl[c].claimed = {}
  BY <1>1 DEF HInv, ClaimsHeld, HoldRows
<1>3. \/ granted' = granted /\ granted[b].st = "confirmed"
      \/ granted' = [granted EXCEPT ![b] = NoGrant]
  BY DEF ReleaseHold, HInv, TypeOK
<1>4. ASSUME NEW a \in Bookings, Protected(a), granted'[a] = granted[a]
      PROVE  HoldRows(b) \cap granted[a].nights = {}
  <2>1. CASE a = b
    <3>1. granted[b].st = "confirmed"
      BY <1>3, <1>4, <2>1 DEF HInv, TypeOK, NoGrant, Protected
    <3> QED
      BY <1>4, <2>1, <3>1 DEF HInv, GrantedRows, HoldRows
  <2>2. CASE a # b
    BY <1>4, <2>2 DEF HInv, GrantedRows, HoldRows
  <2> QED
    BY <2>1, <2>2
<1>5. Serial' /\ ClaimsHeld' /\ ClaimsApart' /\ GrantedRows'
  BY <1>1, <1>2, <1>3, <1>4, DeleteKeeps
<1> QED
  BY <1>1, <1>5 DEF HInv, SweepPast

LEMMA SweepDeleteKeeps ==
    ASSUME HInv, NEW s \in Sweepers, NEW b \in Bookings, SweepDelete(s, b)
    PROVE  Serial' /\ ClaimsHeld' /\ ClaimsApart' /\ GrantedRows' /\ SweepPast'
<1>1. /\ locks' = Deleted(Expired(b, sw[s].at)) /\ Expired(b, sw[s].at) \in SUBSET RoomNights
      /\ UNCHANGED <<cl, granted, now>>
  BY DEF SweepDelete, Expired, HoldRows
<1>2. \A m \in Expired(b, sw[s].at) : locks[m].kind = "hold" /\ locks[m].exp <= now
  <2>1. sw[s].at \in Nat /\ sw[s].at <= now /\ now \in Nat
    BY DEF HInv, TypeOK, SweepPast
  <2>2. \A m \in RoomNights : locks[m].exp \in Nat
    BY DEF HInv, TypeOK
  <2> QED
    BY <2>1, <2>2 DEF Expired, HoldRows
<1>3. /\ \A c \in Clients : cl[c].exp \in Nat
      /\ \A a \in Bookings : granted[a].exp \in Nat
      /\ now \in Nat
  BY DEF HInv, TypeOK
<1>4. ASSUME NEW c \in Clients, Busy(c), now < cl[c].exp
      PROVE  Expired(b, sw[s].at) \cap cl[c].claimed = {}
  BY <1>2, <1>3, <1>4 DEF HInv, ClaimsHeld
<1>5. ASSUME NEW a \in Bookings, Protected(a)
      PROVE  Expired(b, sw[s].at) \cap granted[a].nights = {}
  BY <1>2, <1>3, <1>5 DEF HInv, GrantedRows, Protected
<1>6. Serial' /\ ClaimsHeld' /\ ClaimsApart' /\ GrantedRows'
  BY <1>1, <1>4, <1>5, DeleteKeeps
<1>7. SweepPast'
  BY DEF SweepDelete, HInv, TypeOK, SweepPast
<1> QED
  BY <1>6, <1>7

LEMMA ConfirmKeeps ==
    ASSUME OneAtATime, HInv, NEW b \in Bookings, ConfirmHold(b)
    PROVE  Serial' /\ ClaimsHeld' /\ ClaimsApart' /\ GrantedRows' /\ SweepPast'
<1>1. (\A c \in Clients : cl[c].bk # b) /\ UNCHANGED <<cl, sw, now>>
  BY DEF OneAtATime, ConfirmHold, MayRun
<1>2. \A m \in RoomNights :
        /\ m \in HoldRows(b) => locks'[m].owner = b /\ locks'[m].kind = "booking"
        /\ m \notin HoldRows(b) => locks'[m] = locks[m]
  BY DEF ConfirmHold
<1>3. /\ \A a \in Bookings \ {b} : granted'[a] = granted[a]
      /\ granted'[b].nights = granted[b].nights /\ granted'[b].exp = granted[b].exp
      /\ \/ granted'[b].st = granted[b].st
         \/ granted'[b].st = "confirmed" /\ granted[b].nights \subseteq HoldRows(b)
  BY DEF ConfirmHold, HInv, TypeOK
<1>4. Serial' /\ SweepPast'
  BY <1>1 DEF HInv, Serial, SweepPast, Busy
<1>5. ClaimsHeld'
  <2> SUFFICES ASSUME NEW d \in Clients, Busy(d), now < cl[d].exp, NEW m \in cl[d].claimed
               PROVE  locks'[m] = locks[m]
    BY <1>1 DEF HInv, ClaimsHeld, Busy
  <2> QED
    BY <1>1, <1>2 DEF HInv, TypeOK, ClaimsHeld, HoldRows
<1>6. ClaimsApart'
  <2> SUFFICES ASSUME NEW d \in Clients, NEW a \in Bookings, Busy(d), cl[d].bk = a,
                      Protected(a)'
               PROVE  cl[d].claimed \cap granted'[a].nights = {}
    BY <1>1 DEF ClaimsApart, Busy
  <2>1. granted'[a] = granted[a] /\ Protected(a)
    BY <1>1, <1>3 DEF Protected
  <2> QED
    BY <2>1 DEF HInv, ClaimsApart
<1>7. GrantedRows'
  <2> SUFFICES ASSUME NEW a \in Bookings, Protected(a)', NEW m \in granted'[a].nights
               PROVE  /\ locks'[m].owner = a
                      /\ \/ locks'[m].kind = "booking"
                         \/ granted'[a].st # "confirmed" /\ locks'[m].exp = granted'[a].exp
    BY DEF GrantedRows
  <2>1. m \in granted[a].nights /\ m \in RoomNights
    BY <1>3 DEF HInv, TypeOK
  <2>2. CASE m \in HoldRows(b)
    <3>1. a = b
      BY <1>1, <1>3, <2>1, <2>2 DEF HInv, GrantedRows, HoldRows, Protected
    <3> QED
      BY <1>2, <2>1, <2>2, <3>1
  <2>3. CASE m \notin HoldRows(b)
    <3>1. granted'[a].st = granted[a].st /\ granted'[a].exp = granted[a].exp
      BY <1>3, <2>1, <2>3
    <3> QED
      BY <1>1, <1>2, <2>1, <2>3, <3>1 DEF HInv, GrantedRows, Protected
  <2> QED
    BY <2>2, <2>3
<1> QED
  BY <1>4, <1>5, <1>6, <1>7

LEMMA SweepKeeps ==
    ASSUME HInv, NEW s \in Sweepers, SweepFind(s) \/ SweepStatus(s) \/ SweepFails(s)
    PROVE  Serial' /\ ClaimsHeld' /\ ClaimsApart' /\ GrantedRows' /\ SweepPast'
<1>1. UNCHANGED <<locks, cl, granted, now>>
  BY DEF SweepFind, SweepStatus, SweepFails
<1>2. \A t \in Sweepers : sw'[t].at \in {0, now, sw[t].at}
  <2>1. CASE SweepFind(s)
    BY <2>1 DEF SweepFind, HInv, TypeOK
  <2>2. CASE SweepStatus(s)
    BY <2>2 DEF SweepStatus, HInv, TypeOK, Asleep
  <2>3. CASE SweepFails(s)
    BY <2>3 DEF SweepFails, HInv, TypeOK, Asleep
  <2> QED
    BY <2>1, <2>2, <2>3
<1>3. SweepPast'
  BY <1>1, <1>2 DEF HInv, TypeOK, SweepPast
<1> QED
  BY <1>1, <1>3 DEF HInv, Serial, ClaimsHeld, ClaimsApart, GrantedRows, Busy, Protected

LEMMA TickKeeps ==
    ASSUME HInv, Tick
    PROVE  Serial' /\ ClaimsHeld' /\ ClaimsApart' /\ GrantedRows' /\ SweepPast'
<1>1. /\ now \in Nat /\ now' = now + 1
      /\ \A c \in Clients : cl[c].exp \in Nat
      /\ \A b \in Bookings : granted[b].exp \in Nat
      /\ \A s \in Sweepers : sw[s].at \in Nat
      /\ UNCHANGED <<locks, cl, sw, granted>>
  BY DEF Tick, HInv, TypeOK
<1>2. \A b \in Bookings : Protected(b)' => Protected(b)
  BY <1>1 DEF Protected
<1>3. ClaimsHeld'
  BY <1>1 DEF HInv, ClaimsHeld, Busy
<1> QED
  BY <1>1, <1>2, <1>3 DEF HInv, Serial, ClaimsApart, GrantedRows, SweepPast, Busy

LEMMA HInvNext == OneAtATime /\ HInv /\ [Next]_vars => HInv'
<1> SUFFICES ASSUME OneAtATime, HInv, [Next]_vars PROVE HInv'
  OBVIOUS
<1>1. TypeOK'
  BY TypeNext DEF HInv
<1>2. Serial' /\ ClaimsHeld' /\ ClaimsApart' /\ GrantedRows' /\ SweepPast'
  <2>1. ASSUME NEW c \in Clients, Crash(c)
        PROVE  Serial' /\ ClaimsHeld' /\ ClaimsApart' /\ GrantedRows' /\ SweepPast'
    BY <2>1, RequestEnds DEF Crash
  <2>2. ASSUME NEW c \in Clients, Request(c)
        PROVE  Serial' /\ ClaimsHeld' /\ ClaimsApart' /\ GrantedRows' /\ SweepPast'
    BY <2>1, <2>2, StartKeeps, ClaimKeeps, ConflictKeeps, RollBackKeeps DEF Request
  <2>3. ASSUME NEW b \in Bookings, ConfirmBooking(b)
        PROVE  Serial' /\ ClaimsHeld' /\ ClaimsApart' /\ GrantedRows' /\ SweepPast'
    BY <2>3 DEF ConfirmBooking, HInv, Serial, ClaimsHeld, ClaimsApart, GrantedRows, SweepPast,
                Busy, Protected
  <2>4. CASE UNCHANGED vars
    BY <2>4 DEF vars, HInv, Serial, ClaimsHeld, ClaimsApart, GrantedRows, SweepPast,
                Busy, Protected
  <2> QED
    BY <2>2, <2>3, <2>4, ConfirmKeeps, ReleaseKeeps, SweepKeeps, SweepDeleteKeeps, TickKeeps
    DEF Next, Sweep
<1> QED
  BY <1>1, <1>2 DEF HInv

\* When a booking has one hold request at a time, a granted hold keeps all of its
\* nights until it expires, and for good once it is confirmed, against every
\* interleaving with other requests, their roll backs and crashes, and with
\* sweeps that work from an old read.
THEOREM HoldProtects == ASSUME OneAtATime PROVE Spec => []GrantedHoldProtects
<1>1. Init => HInv
  BY HInvInit
<1>2. HInv /\ [Next]_vars => HInv'
  BY HInvNext
<1>3. HInv => GrantedHoldProtects
  BY DEF HInv, GrantedRows, GrantedHoldProtects, Protected
<1> QED
  BY <1>1, <1>2, <1>3, PTL DEF Spec
=============================================================================
