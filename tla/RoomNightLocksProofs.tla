------------------------ MODULE RoomNightLocksProofs ------------------------
(***************************************************************************)
(* What TLAPS proves of RoomNightLocks for every number of workers,        *)
(* bookings, rooms and nights.  TypeOK holds whatever the environment      *)
(* does; the other theorems assume NoFaults.                               *)
(***************************************************************************)
EXTENDS RoomNightLocks, NaturalsInduction, WellFoundedInduction, TLAPS

NoFaults == Faults = {}

Busy(w) == op[w].pc # "idle"

Status(b) == bookings[b].status

Claiming == {"claim", "read", "owner", "retire", "reinsert", "reread"}

\* What the record x of a request looks like at each of its steps.
OpShape(x) ==
    IF x.pc = "idle" THEN x = Idle
    ELSE /\ x.bk \in Bookings
         /\ x.kind \in {"create", "assign"}
         /\ x.room = NoRoom => /\ x.kind = "create" /\ x.pc \in {"write", "undo"}
                               /\ x.todo = {} /\ x.claimed = {}
         /\ x.todo \subseteq NightDates(x.ci, x.co)
         /\ x.claimed \subseteq NightDates(x.ci, x.co) \ x.todo
         /\ x.pc \in Claiming => x.todo # {}
         /\ x.pc = "overlap" => x.todo = NightDates(x.ci, x.co)
         /\ x.pc \in {"write", "obsolete"} => x.todo = {}
         /\ x.pc = "obsolete" => x.kind = "assign"
         /\ x.kind = "create" /\ x.pc # "undo" /\ x.room # NoRoom =>
              x.claimed = NightDates(x.ci, x.co) \ x.todo

\* One request per booking.
Serial == \A v, w \in Workers : v # w /\ Busy(v) /\ Busy(w) => op[v].bk # op[w].bk

\* A request and the document of its booking agree.
OpAgrees(w) ==
    Busy(w) =>
      /\ op[w].kind = "create" => /\ Status(op[w].bk) = "absent"
                                  /\ op[w].pc # "undo" => op[w].bk \notin stranded
      /\ op[w].kind = "assign" => /\ Status(op[w].bk) # "absent"
                                  /\ bookings[op[w].bk].ci = op[w].ci
                                  /\ bookings[op[w].bk].co = op[w].co
                                  /\ bookings[op[w].bk].room = op[w].room
                                     /\ Status(op[w].bk) = "active"
                                       => op[w].claimed = {}

StrandedAbsent == \A b \in stranded : Status(b) = "absent"

ReleasingTerminal == \A b \in releasing : Status(b) = "terminal"

\* The rows a request claimed are still its own, and young.
ClaimsKept(w) ==
    Busy(w) /\ Status(op[w].bk) # "terminal" =>
      /\ \A n \in op[w].claimed :
           /\ locks[op[w].room][n].owner = op[w].bk
           /\ now < locks[op[w].room][n].created + MinAge
      /\ op[w].kind = "assign" /\ op[w].pc # "undo" =>
           \A n \in Nights(w) \ op[w].todo : locks[op[w].room][n].owner = op[w].bk

\* The room assignment of b has released b's old rows and not yet moved it.
Moving(b) == \E w \in Workers : op[w].bk = b /\ op[w].kind = "assign" /\ op[w].pc = "write"

Held(b) ==
    Status(b) = "active" /\ bookings[b].room # NoRoom /\ ~Moving(b) =>
      \A n \in NightDates(bookings[b].ci, bookings[b].co) :
         locks[bookings[b].room][n].owner = b

AtPlace(b, r, n) ==
    bookings[b].room = r /\ n \in NightDates(bookings[b].ci, bookings[b].co)

ClaimedBy(w, b, r, n) ==
    Busy(w) /\ op[w].bk = b /\ op[w].room = r /\ n \in op[w].claimed

\* Every row of a living booking is accounted for.
Owned(r, n) ==
    LET b == locks[r][n].owner
    IN  b \in Bookings =>
          /\ Status(b) = "active" =>
               AtPlace(b, r, n) \/ \E w \in Workers : ClaimedBy(w, b, r, n)
          /\ Status(b) = "absent" /\ b \notin stranded =>
               \E w \in Workers : ClaimedBy(w, b, r, n)

\* What a recovery has read is still enough to justify what it will do.
RecoverySound(w) ==
    op[w].pc \in {"owner", "retire"} =>
      LET c == op[w].seen.owner
      IN  /\ c \in Bookings \ {op[w].bk}
          /\ op[w].old => op[w].seen.created + MinAge <= now
          /\ op[w].pc = "owner" /\ op[w].old =>
               \/ Status(c) = "terminal" \/ c \in stranded \/ Here(w) # op[w].seen
               \/ Status(c) = "active" /\ AtPlace(c, op[w].room, Night(w))
          /\ op[w].pc = "retire" =>
               \/ Status(c) = "terminal"
               \/ op[w].old /\ (c \in stranded \/ Here(w) # op[w].seen)

\* A booking about to move owns no row but the new ones.
MoveExclusive(w) ==
    op[w].pc = "write" /\ op[w].kind = "assign" /\ Status(op[w].bk) = "active" =>
      \A r \in Rooms, n \in AllNights :
         locks[r][n].owner = op[w].bk => r = op[w].room /\ n \in Nights(w)

\* The part of the invariant that needs NoFaults.
Protocol ==
    /\ Serial
    /\ \A w \in Workers : OpAgrees(w)
    /\ StrandedAbsent
    /\ ReleasingTerminal
    /\ \A w \in Workers : ClaimsKept(w)
    /\ \A b \in Bookings : Held(b)
    /\ \A r \in Rooms, n \in AllNights : Owned(r, n)
    /\ \A w \in Workers : RecoverySound(w)
    /\ \A w \in Workers : MoveExclusive(w)

\* Typing needs the shape of the requests: a handler at a claiming step has a
\* room and a night to work on.
Shape == TypeOK /\ \A w \in Workers : OpShape(op[w])

IInv == Shape /\ Protocol

-----------------------------------------------------------------------------
(* Facts about nights and rows *)

\* A non-empty set of naturals has a least element.
LEMMA MinExists ==
    ASSUME NEW S, S \subseteq Nat, S # {}
    PROVE  \E n \in S : \A m \in S : n <= m
<1>1. PICK n \in S : \A m \in S : <<m, n>> \notin OpToRel(<, Nat)
  BY WFMin, NatLessThanWellFounded, Zenon
<1>2. \A m \in S : ~(m < n)
  BY <1>1, Zenon DEF OpToRel
<1>3. \A m \in S : n <= m
  BY <1>2
<1> QED
  BY <1>3, Zenon

LEMMA NightsAreDates ==
    /\ AllNights \subseteq Dates
    /\ Dates \subseteq Nat
    /\ \A ci, co : NightDates(ci, co) \subseteq AllNights
BY ConstantsAssumption DEF AllNights, Dates, NightDates

\* The night a request is working on is one it still has to claim.
LEMMA NightInTodo ==
    ASSUME TypeOK, NEW w \in Workers, op[w].todo # {}
    PROVE  Night(w) \in op[w].todo /\ Night(w) \in AllNights
<1>1. op[w].todo \subseteq AllNights
  BY DEF TypeOK, Op
<1>2. op[w].todo \subseteq Nat
  BY <1>1, NightsAreDates
<1>3. \E n \in op[w].todo : \A m \in op[w].todo : n <= m
  BY <1>2, MinExists
<1> QED
  BY <1>1, <1>3 DEF Night

LEMMA WithoutType ==
    ASSUME TypeOK, NEW b, NEW s
    PROVE  Without(b, s) \in [Rooms -> [AllNights -> Lock]]
BY DEF TypeOK, Without, Lock, NoLock

-----------------------------------------------------------------------------
(* Type correctness, whatever the faults *)

\* Only the request of handler w changes.
Others(w) == \A v \in Workers \ {w} : op'[v] = op[v]

\* Handler w goes on with the same request.
SameRequest(w) ==
    /\ op'[w].kind = op[w].kind
    /\ op'[w].bk = op[w].bk
    /\ op'[w].room = op[w].room
    /\ op'[w].ci = op[w].ci
    /\ op'[w].co = op[w].co

\* ... at another step, having gained nothing.
SameClaims(w) ==
    SameRequest(w) /\ op'[w].todo = op[w].todo /\ op'[w].claimed = op[w].claimed

LEMMA GotoEffect ==
    ASSUME TypeOK, NEW w \in Workers, NEW step \in Steps, Goto(w, step)
    PROVE  /\ op' \in [Workers -> Op] /\ Others(w) /\ SameClaims(w)
           /\ op'[w].pc = step /\ op'[w].seen = op[w].seen /\ op'[w].old = op[w].old
<1>1. op \in [Workers -> Op] /\ op[w] \in Op
  BY DEF TypeOK
<1>2. op' = [op EXCEPT ![w] = [op[w] EXCEPT !.pc = step]]
  BY DEF Goto
<1>3. [op[w] EXCEPT !.pc = step] \in Op
  BY <1>1 DEF Op
<1>4. op' \in [Workers -> Op] /\ Others(w) /\ op'[w] = [op[w] EXCEPT !.pc = step]
  BY <1>1, <1>2, <1>3 DEF Others
<1> QED
  BY <1>1, <1>4 DEF Op, SameClaims, SameRequest

LEMMA IdleType == Idle \in Op /\ Idle.pc = "idle" /\ Idle.claimed = {}
BY ConstantsAssumption DEF Idle, Op, Lock, NoLock, Dates

LEMMA FinishEffect ==
    ASSUME TypeOK, NEW w \in Workers, Finish(w)
    PROVE  op' \in [Workers -> Op] /\ Others(w) /\ op'[w] = Idle
BY IdleType DEF TypeOK, Finish, Others

LEMMA AfterClaimsValue ==
    ASSUME NEW kind \in {"create", "assign"}, NEW todo
    PROVE  /\ todo # {} => AfterClaims(kind, todo) = "claim"
           /\ todo = {} /\ kind = "create" => AfterClaims(kind, todo) = "write"
           /\ todo = {} /\ kind = "assign" => AfterClaims(kind, todo) = "obsolete"
BY DEF AfterClaims

LEMMA NextNightEffect ==
    ASSUME TypeOK, NEW w \in Workers, op[w].kind \in {"create", "assign"},
           NEW gained, gained \subseteq AllNights, NextNight(w, gained)
    PROVE  /\ op' \in [Workers -> Op] /\ Others(w) /\ SameRequest(w)
           /\ op'[w].todo = op[w].todo \ {Night(w)}
           /\ op'[w].claimed = op[w].claimed \cup gained
           /\ op'[w].pc = AfterClaims(op[w].kind, op'[w].todo)
<1> DEFINE rest == op[w].todo \ {Night(w)}
           x == [op[w] EXCEPT !.todo = rest, !.claimed = op[w].claimed \cup gained,
                              !.pc = AfterClaims(op[w].kind, rest)]
<1>1. op \in [Workers -> Op] /\ op[w] \in Op
  BY DEF TypeOK
<1>2. op' = [op EXCEPT ![w] = x]
  BY DEF NextNight
<1>3. AfterClaims(op[w].kind, rest) \in Steps
  BY AfterClaimsValue DEF Steps
<1>4. x \in Op
  BY <1>1, <1>3 DEF Op
<1>5. op' \in [Workers -> Op] /\ Others(w) /\ op'[w] = x
  BY <1>1, <1>2, <1>4 DEF Others
<1>6. /\ x.kind = op[w].kind /\ x.bk = op[w].bk /\ x.room = op[w].room
      /\ x.ci = op[w].ci /\ x.co = op[w].co /\ x.todo = rest
      /\ x.claimed = op[w].claimed \cup gained
      /\ x.pc = AfterClaims(op[w].kind, rest)
  BY <1>1 DEF Op
<1> HIDE DEF x
<1> QED
  BY <1>5, <1>6 DEF SameRequest

LEMMA StartCreateEffect ==
    ASSUME TypeOK, NEW w \in Workers, NEW b \in Bookings, NEW r \in Rooms \cup {NoRoom},
           NEW ci \in Dates, NEW co \in Dates, StartCreate(w, b, r, ci, co)
    PROVE  /\ op' \in [Workers -> Op] /\ Others(w)
           /\ op'[w].kind = "create" /\ op'[w].bk = b /\ op'[w].room = r
           /\ op'[w].ci = ci /\ op'[w].co = co /\ op'[w].claimed = {}
           /\ op'[w].pc = IF r = NoRoom THEN "write" ELSE "overlap"
           /\ op'[w].todo = IF r = NoRoom THEN {} ELSE NightDates(ci, co)
<1> DEFINE x == [Idle EXCEPT !.pc = IF r = NoRoom THEN "write" ELSE "overlap",
                             !.kind = "create", !.bk = b, !.room = r, !.ci = ci, !.co = co,
                             !.todo = IF r = NoRoom THEN {} ELSE NightDates(ci, co)]
<1>1. op' = [op EXCEPT ![w] = x]
  BY DEF StartCreate
<1>2. /\ x \in Op /\ x.kind = "create" /\ x.bk = b /\ x.room = r /\ x.ci = ci /\ x.co = co
      /\ x.claimed = {} /\ x.pc = (IF r = NoRoom THEN "write" ELSE "overlap")
      /\ x.todo = (IF r = NoRoom THEN {} ELSE NightDates(ci, co))
  BY IdleType, NightsAreDates DEF Idle, Op, Steps
<1> HIDE DEF x
<1> QED
  BY <1>1, <1>2 DEF TypeOK, Others

LEMMA StartAssignEffect ==
    ASSUME TypeOK, NEW w \in Workers, NEW b \in Bookings, NEW r \in Rooms, StartAssign(w, b, r)
    PROVE  /\ op' \in [Workers -> Op] /\ Others(w)
           /\ op'[w].kind = "assign" /\ op'[w].bk = b /\ op'[w].room = r
           /\ op'[w].ci = bookings[b].ci /\ op'[w].co = bookings[b].co
           /\ op'[w].claimed = {} /\ op'[w].pc = "overlap"
           /\ op'[w].todo = NightDates(bookings[b].ci, bookings[b].co)
<1> DEFINE ci == bookings[b].ci
           co == bookings[b].co
           x == [Idle EXCEPT !.pc = "overlap", !.kind = "assign", !.bk = b, !.room = r,
                             !.ci = ci, !.co = co, !.todo = NightDates(ci, co)]
<1>1. op' = [op EXCEPT ![w] = x]
  BY DEF StartAssign
<1>2. ci \in Dates /\ co \in Dates
  BY DEF TypeOK, Booking
<1>3. /\ x \in Op /\ x.kind = "assign" /\ x.bk = b /\ x.room = r /\ x.ci = ci /\ x.co = co
      /\ x.claimed = {} /\ x.pc = "overlap" /\ x.todo = NightDates(ci, co)
  <2> HIDE DEF ci, co
  <2> QED BY <1>2, IdleType, NightsAreDates DEF Idle, Op, Steps
<1> HIDE DEF x
<1> QED
  BY <1>1, <1>3 DEF TypeOK, Others

\* ReadExisting goes on to the owner of the row it found.
LEMMA SeenEffect ==
    ASSUME TypeOK, NEW w \in Workers, NEW l \in Lock, NEW old \in BOOLEAN,
           op' = [op EXCEPT ![w] = [@ EXCEPT !.pc = "owner", !.seen = l, !.old = old]]
    PROVE  /\ op' \in [Workers -> Op] /\ Others(w) /\ SameClaims(w)
           /\ op'[w].pc = "owner" /\ op'[w].seen = l /\ op'[w].old = old
<1> DEFINE x == [op[w] EXCEPT !.pc = "owner", !.seen = l, !.old = old]
<1>1. op' = [op EXCEPT ![w] = x]
  OBVIOUS
<1>2. op[w] \in Op
  BY DEF TypeOK
<1>3. x \in Op /\ x.pc = "owner" /\ x.seen = l /\ x.old = old /\ x.kind = op[w].kind
      /\ x.bk = op[w].bk /\ x.room = op[w].room /\ x.ci = op[w].ci /\ x.co = op[w].co
      /\ x.todo = op[w].todo /\ x.claimed = op[w].claimed
  BY <1>2 DEF Op, Steps
<1> HIDE DEF x
<1> QED
  BY <1>1, <1>3 DEF TypeOK, Others, SameClaims, SameRequest

-----------------------------------------------------------------------------
(* The shape of a request after each kind of step *)

LEMMA OthersShape ==
    ASSUME Shape, NEW w \in Workers, Others(w), OpShape(op'[w])
    PROVE  \A v \in Workers : OpShape(op'[v])
BY DEF Shape, Others

\* Giving up keeps the nights claimed so far.
LEMMA UndoShape ==
    ASSUME Shape, NEW w \in Workers, op[w].pc # "idle", SameClaims(w), op'[w].pc = "undo"
    PROVE  OpShape(op'[w])
BY DEF Shape, OpShape, SameClaims, SameRequest, Claiming

\* From one claiming step to another.
LEMMA ClaimingShape ==
    ASSUME Shape, NEW w \in Workers, op[w].pc \in Claiming, SameClaims(w),
           op'[w].pc \in Claiming
    PROVE  OpShape(op'[w])
BY DEF Shape, OpShape, SameClaims, SameRequest, Claiming

\* A night is secured, by a new row or (for an assignment) by its own old one.
LEMMA NextNightShape ==
    ASSUME Shape, NEW w \in Workers, op[w].pc \in Claiming,
           NEW gained, gained \subseteq {Night(w)},
           op[w].kind = "create" => gained = {Night(w)},
           SameRequest(w), op'[w].todo = op[w].todo \ {Night(w)},
           op'[w].claimed = op[w].claimed \cup gained,
           op'[w].pc = AfterClaims(op[w].kind, op'[w].todo)
    PROVE  OpShape(op'[w])
<1>1. TypeOK /\ OpShape(op[w]) /\ op[w].todo # {} /\ op[w].kind \in {"create", "assign"}
  BY DEF Shape, OpShape, Claiming
<1>2. Night(w) \in op[w].todo
  BY <1>1, NightInTodo
<1>3. /\ op'[w].todo # {} => op'[w].pc = "claim"
      /\ op'[w].todo = {} /\ op[w].kind = "create" => op'[w].pc = "write"
      /\ op'[w].todo = {} /\ op[w].kind = "assign" => op'[w].pc = "obsolete"
  BY <1>1, AfterClaimsValue
<1> QED
  BY <1>1, <1>2, <1>3 DEF OpShape, SameRequest, Claiming

\* Both ways a duplicate row is settled.
LEMMA SettleDuplicateShape ==
    ASSUME Shape, NEW w \in Workers, op[w].pc \in Claiming, NEW existing,
           SettleDuplicate(w, existing)
    PROVE  op' \in [Workers -> Op] /\ Others(w) /\ OpShape(op'[w])
<1>1. TypeOK /\ op[w].pc # "idle" /\ op[w].kind \in {"create", "assign"}
  BY DEF Shape, OpShape, Claiming
<1>2. CASE op[w].kind = "assign" /\ existing.owner = op[w].bk
  <2>1. NextNight(w, {})
    BY <1>2 DEF SettleDuplicate
  <2> QED
    BY <1>1, <1>2, <2>1, NextNightEffect, NextNightShape
<1>3. CASE ~(op[w].kind = "assign" /\ existing.owner = op[w].bk)
  <2>1. Goto(w, "undo")
    BY <1>3 DEF SettleDuplicate
  <2> QED
    BY <1>1, <2>1, GotoEffect, UndoShape DEF Steps
<1> QED
  BY <1>2, <1>3

LEMMA InitShape == Init => Shape
<1> SUFFICES ASSUME Init PROVE Shape
  OBVIOUS
<1>1. op \in [Workers -> Op]
  BY IdleType DEF Init
<1>2. TypeOK
  BY <1>1, ConstantsAssumption
     DEF Init, TypeOK, Lock, NoLock, Booking, Absent, Dates
<1> QED
  BY <1>2, IdleType DEF Init, Shape, OpShape

\* One row is written, with an owner and a time of the right kind.
LEMMA InsertLockShape ==
    ASSUME Shape, NEW w \in Workers, op[w].pc \in Claiming,
           NEW dup \in Claiming, InsertLock(w, dup)
    PROVE  Shape'
<1>1. /\ TypeOK /\ op[w].pc # "idle" /\ op[w].kind \in {"create", "assign"}
      /\ op[w].todo # {} /\ op[w].bk \in Bookings
  BY DEF Shape, OpShape, Claiming
<1>2. UNCHANGED <<bookings, stranded, releasing, now>>
  BY DEF InsertLock
<1>3. CASE Here(w) = NoLock
  <2>1. /\ locks' = [locks EXCEPT ![op[w].room][Night(w)] = [owner |-> op[w].bk, created |-> now]]
        /\ NextNight(w, {Night(w)})
    BY <1>3 DEF InsertLock
  <2>2. op' \in [Workers -> Op] /\ Others(w) /\ OpShape(op'[w])
    BY <1>1, <2>1, NightInTodo, NextNightEffect, NextNightShape
  <2>3. locks' \in [Rooms -> [AllNights -> Lock]]
    BY <1>1, <2>1 DEF TypeOK, Lock
  <2> QED
    BY <1>1, <1>2, <2>2, <2>3, OthersShape DEF Shape, TypeOK
<1>4. CASE Here(w) # NoLock
  <2>1. Goto(w, dup) /\ locks' = locks
    BY <1>4 DEF InsertLock
  <2>2. op' \in [Workers -> Op] /\ Others(w) /\ OpShape(op'[w])
    BY <1>1, <2>1, GotoEffect, ClaimingShape DEF Steps, Claiming
  <2> QED
    BY <1>1, <1>2, <2>1, <2>2, OthersShape DEF Shape, TypeOK
<1> QED
  BY <1>3, <1>4

LEMMA StartShape ==
    ASSUME Shape, NEW w \in Workers, Start(w)
    PROVE  Shape'
<1>1. TypeOK
  BY DEF Shape
<1>2. ASSUME NEW b \in Bookings, NEW r \in Rooms \cup {NoRoom},
             NEW ci \in Dates, NEW co \in Dates, StartCreate(w, b, r, ci, co)
      PROVE  Shape'
  <2>1. UNCHANGED <<locks, bookings, stranded, releasing, now>>
    BY <1>2 DEF StartCreate
  <2>2. op' \in [Workers -> Op] /\ Others(w) /\ OpShape(op'[w])
    BY <1>1, <1>2, StartCreateEffect DEF OpShape, Claiming
  <2> QED
    BY <1>1, <2>1, <2>2, OthersShape DEF Shape, TypeOK
<1>3. ASSUME NEW b \in Bookings, NEW r \in Rooms, StartAssign(w, b, r)
      PROVE  Shape'
  <2>1. UNCHANGED <<locks, bookings, stranded, releasing, now>>
    BY <1>3 DEF StartAssign
  <2>2. op' \in [Workers -> Op] /\ Others(w) /\ OpShape(op'[w])
    BY <1>1, <1>3, StartAssignEffect, ConstantsAssumption DEF OpShape, Claiming
  <2> QED
    BY <1>1, <2>1, <2>2, OthersShape DEF Shape, TypeOK
<1> QED
  BY <1>2, <1>3 DEF Start

LEMMA StepShape ==
    ASSUME Shape, NEW w \in Workers, Step(w)
    PROVE  Shape'
<1>1. TypeOK /\ OpShape(op[w])
  BY DEF Shape
<1>2. ASSUME op' \in [Workers -> Op], Others(w), OpShape(op'[w]),
             locks' \in [Rooms -> [AllNights -> Lock]],
             bookings' \in [Bookings -> Booking], UNCHANGED <<stranded, releasing, now>>
      PROVE  Shape'
  BY <1>1, <1>2, OthersShape DEF Shape, TypeOK
<1>3. locks \in [Rooms -> [AllNights -> Lock]] /\ bookings \in [Bookings -> Booking]
  BY <1>1 DEF TypeOK
<1>4. ASSUME Finish(w) PROVE op' \in [Workers -> Op] /\ Others(w) /\ OpShape(op'[w])
  BY <1>1, <1>4, FinishEffect, IdleType DEF OpShape
<1>5. CASE CheckOverlap(w)
  <2>1. CASE Finish(w)
    BY <1>2, <1>3, <1>4, <1>5, <2>1 DEF CheckOverlap
  <2>2. CASE Goto(w, AfterClaims(op[w].kind, op[w].todo))
    <3>1. op[w].kind \in {"create", "assign"} /\ op[w].pc = "overlap"
      BY <1>1, <1>5 DEF OpShape, CheckOverlap
    <3> DEFINE next == AfterClaims(op[w].kind, op[w].todo)
    <3>2. /\ op[w].todo # {} => next = "claim"
          /\ op[w].todo = {} /\ op[w].kind = "create" => next = "write"
          /\ op[w].todo = {} /\ op[w].kind = "assign" => next = "obsolete"
      BY <3>1, AfterClaimsValue
    <3> HIDE DEF next
    <3>3. next \in Steps
      BY <3>1, <3>2 DEF Steps
    <3>4. op' \in [Workers -> Op] /\ Others(w) /\ SameClaims(w) /\ op'[w].pc = next
      BY <1>1, <2>2, <3>3, GotoEffect DEF next
    <3>5. OpShape(op'[w])
      BY <1>1, <3>1, <3>2, <3>4 DEF OpShape, SameClaims, SameRequest, Claiming
    <3> QED
      BY <1>2, <1>3, <1>5, <3>4, <3>5 DEF CheckOverlap
  <2> QED
    BY <1>5, <2>1, <2>2 DEF CheckOverlap
<1>6. CASE ClaimNight(w)
  BY <1>6, InsertLockShape DEF ClaimNight, Claiming
<1>7. CASE ReclaimNight(w)
  BY <1>7, InsertLockShape DEF ReclaimNight, Claiming
<1>8. CASE ReadExisting(w)
  <2>1. op[w].pc \in Claiming /\ op[w].pc = "read" /\ UNCHANGED <<locks, bookings, stranded, releasing, now>>
    BY <1>8 DEF ReadExisting, Claiming
  <2>2. CASE SettleDuplicate(w, Here(w))
    BY <1>2, <1>3, <2>1, <2>2, SettleDuplicateShape
  <2>3. CASE op' = [op EXCEPT ![w] = [@ EXCEPT !.pc = "owner", !.seen = Here(w),
                                               !.old = LockIsOldEnough(Here(w))]]
    <3>1. op[w].room \in Rooms /\ op[w].todo # {}
      BY <1>1, <2>1 DEF OpShape, TypeOK, Op, Claiming
    <3>2. Here(w) \in Lock
      BY <1>1, <3>1, NightInTodo DEF Here, TypeOK
    <3>3. LockIsOldEnough(Here(w)) \in BOOLEAN
      BY DEF LockIsOldEnough
    <3>4. op' \in [Workers -> Op] /\ Others(w) /\ SameClaims(w) /\ op'[w].pc = "owner"
      BY <1>1, <2>3, <3>2, <3>3, SeenEffect
    <3>5. OpShape(op'[w])
      BY <2>1, <3>4, ClaimingShape DEF Claiming
    <3> QED
      BY <1>2, <1>3, <2>1, <3>4, <3>5
  <2> QED
    BY <1>8, <2>2, <2>3 DEF ReadExisting
<1>9. CASE ReadOwner(w)
  <2>1. op[w].pc \in Claiming /\ UNCHANGED <<locks, bookings, stranded, releasing, now>>
    BY <1>9 DEF ReadOwner, Claiming
  <2>2. CASE Goto(w, "retire")
    BY <1>1, <1>2, <1>3, <2>1, <2>2, GotoEffect, ClaimingShape DEF Steps, Claiming
  <2>3. CASE SettleDuplicate(w, op[w].seen)
    BY <1>2, <1>3, <2>1, <2>3, SettleDuplicateShape
  <2> QED
    BY <1>9, <2>2, <2>3 DEF ReadOwner
<1>10. CASE RetireStaleLock(w)
  <2>1. op[w].pc \in Claiming /\ UNCHANGED <<bookings, stranded, releasing, now>>
    BY <1>10 DEF RetireStaleLock, Claiming
  <2>2. CASE Here(w) = op[w].seen
    <3>1. /\ locks' = [locks EXCEPT ![op[w].room][Night(w)] = NoLock]
          /\ Goto(w, "reinsert")
      BY <1>10, <2>2 DEF RetireStaleLock
    <3>2. NoLock \in Lock
      BY DEF NoLock, Lock
    <3>3. locks' \in [Rooms -> [AllNights -> Lock]]
      BY <1>3, <3>1, <3>2
    <3> QED
      BY <1>1, <1>2, <1>3, <2>1, <3>1, <3>3, GotoEffect, ClaimingShape DEF Steps, Claiming
  <2>3. CASE Here(w) # op[w].seen
    BY <1>2, <1>3, <1>10, <2>1, <2>3, SettleDuplicateShape DEF RetireStaleLock
  <2> QED
    BY <2>2, <2>3
<1>11. CASE RereadExisting(w)
  BY <1>2, <1>3, <1>11, SettleDuplicateShape DEF RereadExisting, Claiming
<1>12. CASE Compensate(w)
  BY <1>1, <1>2, <1>3, <1>4, <1>12, WithoutType DEF Compensate
<1>13. CASE ReleaseObsolete(w)
  <2>1. /\ op[w].pc = "obsolete" /\ Goto(w, "write")
        /\ UNCHANGED <<bookings, stranded, releasing, now>>
        /\ locks' \in [Rooms -> [AllNights -> Lock]]
    BY <1>1, <1>13, WithoutType DEF ReleaseObsolete
  <2>2. op' \in [Workers -> Op] /\ Others(w) /\ SameClaims(w) /\ op'[w].pc = "write"
    BY <1>1, <2>1, GotoEffect DEF Steps
  <2>3. OpShape(op'[w])
    BY <1>1, <2>1, <2>2 DEF OpShape, SameClaims, SameRequest, Claiming
  <2> QED
    BY <1>2, <1>3, <2>1, <2>2, <2>3
<1>14. CASE InsertBooking(w)
  <2>1. bookings' \in [Bookings -> Booking]
    BY <1>1, <1>14 DEF InsertBooking, Inserted, TypeOK, Op, Booking
  <2> QED
    BY <1>2, <1>3, <1>4, <1>14, <2>1 DEF InsertBooking
<1>15. CASE UpdateRoom(w)
  <2>1. op[w].room \in Rooms \cup {NoRoom}
    BY <1>1 DEF TypeOK, Op
  <2>2. bookings' = [bookings EXCEPT ![op[w].bk] = [bookings[op[w].bk] EXCEPT !.room = op[w].room]]
    BY <1>15 DEF UpdateRoom
  <2>3. \A x \in Booking : [x EXCEPT !.room = op[w].room] \in Booking
    BY <2>1 DEF Booking
  <2>4. bookings' \in [Bookings -> Booking]
    BY <1>3, <2>2, <2>3
  <2> QED
    BY <1>2, <1>3, <1>4, <1>15, <2>4 DEF UpdateRoom
<1> QED
  BY <1>5, <1>6, <1>7, <1>8, <1>9, <1>10, <1>11, <1>12, <1>13, <1>14, <1>15 DEF Step

LEMMA FaultShape ==
    ASSUME Shape, NEW w \in Workers, Fault(w)
    PROVE  Shape'
<1>1. TypeOK /\ OpShape(op[w])
  BY DEF Shape
<1>2. ASSUME op' \in [Workers -> Op], Others(w), OpShape(op'[w]),
             locks' \in [Rooms -> [AllNights -> Lock]],
             bookings' \in [Bookings -> Booking], stranded' \subseteq Bookings,
             UNCHANGED <<releasing, now>>
      PROVE  Shape'
  BY <1>1, <1>2, OthersShape DEF Shape, TypeOK
<1>3. /\ bookings \in [Bookings -> Booking] /\ stranded \subseteq Bookings
      /\ locks \in [Rooms -> [AllNights -> Lock]]
      /\ op[w].pc # "idle" /\ Strand(w) => stranded' \subseteq Bookings
  BY <1>1 DEF TypeOK, OpShape, Strand
<1>4. ASSUME op[w].pc # "idle", Goto(w, "undo")
      PROVE  op' \in [Workers -> Op] /\ Others(w) /\ OpShape(op'[w])
  BY <1>1, <1>4, GotoEffect, UndoShape DEF Steps
<1>5. CASE CreateFails(w)
  BY <1>2, <1>3, <1>4, <1>5 DEF CreateFails, Steps
<1>6. CASE InsertLosesAck(w)
  <2>1. bookings' \in [Bookings -> Booking]
    BY <1>1, <1>6 DEF InsertLosesAck, Inserted, TypeOK, Op, Booking
  <2> QED
    BY <1>2, <1>3, <1>4, <1>6, <2>1 DEF InsertLosesAck
<1>7. CASE Crash(w)
  BY <1>1, <1>2, <1>3, <1>7, FinishEffect, IdleType DEF Crash, OpShape
<1>8. CASE InsertLockLosesAck(w)
  <2>1. op[w].bk \in Bookings /\ op[w].pc # "idle"
    BY <1>1, <1>8 DEF InsertLockLosesAck, OpShape
  <2>2. locks' \in [Rooms -> [AllNights -> Lock]]
    BY <1>1, <1>8, <2>1 DEF InsertLockLosesAck, TypeOK, Lock
  <2> QED
    BY <1>2, <1>3, <1>4, <1>8, <2>1, <2>2 DEF InsertLockLosesAck
<1>9. CASE CompensateFails(w)
  <2>1. locks' \in [Rooms -> [AllNights -> Lock]] /\ op[w].pc # "idle"
    BY <1>1, <1>9, WithoutType DEF CompensateFails
  <2> QED
    BY <1>1, <1>2, <1>3, <1>9, <2>1, FinishEffect, IdleType DEF CompensateFails, OpShape
<1> QED
  BY <1>5, <1>6, <1>7, <1>8, <1>9 DEF Fault

\* The steps that no request handler takes.
LEMMA EnvironmentShape ==
    ASSUME Shape, (\E b \in Bookings : StayEnds(b)) \/ Blocking \/ Tick
    PROVE  Shape'
<1>1. TypeOK /\ \A w \in Workers : OpShape(op[w])
  BY DEF Shape
<1>2. ASSUME op' = op, TypeOK' PROVE Shape'
  BY <1>1, <1>2 DEF Shape
<1>3. ASSUME NEW b \in Bookings, StayEnds(b) PROVE Shape'
  <2>1. CASE Cancel(b)
    <3>1. bookings' \in [Bookings -> Booking]
      BY <1>1, <2>1 DEF Cancel, TypeOK, Booking
    <3> QED
      BY <1>1, <1>2, <2>1, <3>1 DEF Cancel, TypeOK
  <2>2. CASE ReleaseBookingNights(b)
    <3>1. locks' \in [Rooms -> [AllNights -> Lock]]
      BY <1>1, <2>2, WithoutType DEF ReleaseBookingNights
    <3> QED
      BY <1>1, <1>2, <2>2, <3>1 DEF ReleaseBookingNights, TypeOK
  <2>3. CASE ReleaseFails(b)
    BY <1>1, <1>2, <2>3 DEF ReleaseFails, TypeOK
  <2>4. CASE CheckOut(b)
    <3>1. locks' \in [Rooms -> [AllNights -> Lock]]
      BY <1>1, <2>4, WithoutType DEF CheckOut
    <3>2. bookings' \in [Bookings -> Booking]
      BY <1>1, <2>4 DEF CheckOut, TypeOK, Booking
    <3> QED
      BY <1>1, <1>2, <2>4, <3>1, <3>2 DEF CheckOut, TypeOK
  <2> QED
    BY <1>3, <2>1, <2>2, <2>3, <2>4 DEF StayEnds
<1>4. ASSUME NEW r \in Rooms, NEW n \in AllNights, ApplyRoomBlock(r, n) PROVE Shape'
  <2>1. locks' \in [Rooms -> [AllNights -> Lock]]
    BY <1>1, <1>4 DEF ApplyRoomBlock, TypeOK, Lock
  <2> QED
    BY <1>1, <1>2, <1>4, <2>1 DEF ApplyRoomBlock, TypeOK
<1>5. ASSUME NEW r \in Rooms, NEW ci \in Dates, NEW co \in Dates, ReleaseRoomBlock(r, ci, co)
      PROVE  Shape'
  <2>1. locks' \in [Rooms -> [AllNights -> Lock]]
    BY <1>1, <1>5, WithoutType DEF ReleaseRoomBlock
  <2> QED
    BY <1>1, <1>2, <1>5, <2>1 DEF ReleaseRoomBlock, TypeOK
<1>6. CASE Tick
  BY <1>1, <1>2, <1>6 DEF Tick, TypeOK
<1> QED
  BY <1>3, <1>4, <1>5, <1>6 DEF Blocking

LEMMA NextShape == Shape /\ [Next]_vars => Shape'
<1> SUFFICES ASSUME Shape, [Next]_vars PROVE Shape'
  OBVIOUS
<1>1. CASE UNCHANGED vars
  BY <1>1 DEF vars, Shape, TypeOK
<1>2. CASE Next
  BY <1>2, StartShape, StepShape, FaultShape, EnvironmentShape DEF Next
<1> QED
  BY <1>1, <1>2

\* Every reachable state is well typed, whatever faults the environment shows:
\* in particular a handler claims only nights of its stay, on a real room.
THEOREM TypeCorrect == Spec => []TypeOK
<1>1. Shape => TypeOK
  BY DEF Shape
<1> QED
  BY <1>1, InitShape, NextShape, PTL DEF Spec
-----------------------------------------------------------------------------
(* The lock protocol, without faults *)

\* What a step may do to rows: leave them, delete them, write them now.
LocksStep ==
    \A r \in Rooms, n \in AllNights :
       \/ locks'[r][n] = locks[r][n]
       \/ locks'[r][n].owner = Nobody
       \/ locks'[r][n].created = now

LEMMA BusyFacts ==
    ASSUME Shape, NEW w \in Workers, op[w].pc # "idle"
    PROVE  /\ op[w] \in Op /\ OpShape(op[w])
           /\ op[w].bk \in Bookings /\ op[w].kind \in {"create", "assign"}
           /\ Nights(w) \subseteq AllNights
           /\ op[w].todo \subseteq Nights(w) /\ op[w].claimed \subseteq Nights(w)
           /\ op[w].pc \in Claiming => /\ op[w].room \in Rooms
                                       /\ Night(w) \in op[w].todo
                                       /\ Night(w) \in AllNights
           /\ op[w].kind = "assign" => op[w].room \in Rooms
           /\ op[w].claimed # {} => op[w].room \in Rooms
<1>1. op[w] \in Op /\ OpShape(op[w]) /\ TypeOK
  BY DEF Shape, TypeOK
<1>2. op[w].room \in Rooms \cup {NoRoom}
  BY <1>1 DEF Op
<1>3. op[w].pc \in Claiming => Night(w) \in op[w].todo /\ Night(w) \in AllNights
  BY <1>1, NightInTodo DEF OpShape
<1> QED
  BY <1>1, <1>2, <1>3, NightsAreDates DEF OpShape, Nights, Claiming

\* What a step may do to a recovery that another handler is in the middle of:
\* an active owner that keeps its row also keeps its place, or ends.
RecoveryFrame ==
    /\ LocksStep
    /\ stranded \subseteq stranded'
    /\ now' \in Nat /\ now <= now'
    /\ \A c \in Bookings :
         /\ bookings[c].status = "terminal" => bookings'[c].status = "terminal"
         /\ \A r \in Rooms, n \in AllNights :
              /\ bookings[c].status = "active" /\ locks'[r][n].owner = c
              /\ bookings[c].room = r /\ n \in NightDates(bookings[c].ci, bookings[c].co)
              => \/ bookings'[c].status = "terminal"
                 \/ /\ bookings'[c].status = "active" /\ bookings'[c].room = r
                    /\ n \in NightDates(bookings'[c].ci, bookings'[c].co)

LEMMA RecoveryKept ==
    ASSUME Shape, NEW v \in Workers, RecoverySound(v), op'[v] = op[v], RecoveryFrame
    PROVE  RecoverySound(v)'
<1> SUFFICES ASSUME op[v].pc \in {"owner", "retire"} PROVE RecoverySound(v)'
  BY DEF RecoverySound
<1>0. PICK c, r, n : c = op[v].seen.owner /\ r = op[v].room /\ n = Night(v)
  OBVIOUS
<1>1. r \in Rooms /\ n \in AllNights
  BY <1>0, BusyFacts DEF Claiming
<1>2. Night(v)' = n /\ Here(v)' = locks'[r][n] /\ Here(v) = locks[r][n]
  BY <1>0 DEF Here, Night
<1>3. c \in Bookings \ {op[v].bk} /\ (op[v].old => op[v].seen.created + MinAge <= now)
  BY <1>0 DEF RecoverySound
<1>4. op[v].seen.created \in Nat /\ now \in Nat
  BY DEF Shape, TypeOK, Op, Lock
<1>5. op[v].old => op[v].seen.created + MinAge <= now'
  BY <1>3, <1>4, ConstantsAssumption DEF RecoveryFrame
<1>6. op[v].old /\ locks[r][n] # op[v].seen => locks'[r][n] # op[v].seen
  <2>1. op[v].old => op[v].seen.created # now
    BY <1>3, <1>4, ConstantsAssumption
  <2>2. op[v].seen.owner # Nobody
    BY <1>0, <1>3, ConstantsAssumption
  <2> QED
    BY <1>1, <2>1, <2>2 DEF LocksStep, RecoveryFrame
<1>7. CASE op[v].pc = "owner"
  <2>1. op[v].old =>
          \/ Status(c) = "terminal" \/ c \in stranded \/ locks[r][n] # op[v].seen
          \/ Status(c) = "active" /\ AtPlace(c, r, n)
    BY <1>0, <1>2, <1>7 DEF RecoverySound
  <2>2. op[v].old =>
          \/ Status(c)' = "terminal" \/ c \in stranded' \/ locks'[r][n] # op[v].seen
          \/ Status(c)' = "active" /\ AtPlace(c, r, n)'
    BY <1>0, <1>1, <1>3, <1>6, <2>1 DEF RecoveryFrame, Status, AtPlace
  <2> QED
    BY <1>0, <1>2, <1>3, <1>5, <1>7, <2>2 DEF RecoverySound, Status, AtPlace
<1>8. CASE op[v].pc = "retire"
  <2>1. Status(c) = "terminal" \/ (op[v].old /\ (c \in stranded \/ locks[r][n] # op[v].seen))
    BY <1>0, <1>2, <1>8 DEF RecoverySound
  <2>2. Status(c)' = "terminal" \/ (op[v].old /\ (c \in stranded' \/ locks'[r][n] # op[v].seen))
    BY <1>3, <1>6, <2>1 DEF RecoveryFrame, Status
  <2> QED
    BY <1>0, <1>2, <1>3, <1>5, <1>8, <2>2 DEF RecoverySound, Status
<1> QED
  BY <1>7, <1>8

\* Handler v stands still, or goes to another step of the same request and has
\* the right to.
Benign(v) ==
    \/ op'[v] = op[v]
    \/ /\ op[v].pc # "idle" /\ op'[v].pc # "idle"
       /\ SameClaims(v)
       /\ op[v].kind = "assign" => "write" \notin {op[v].pc, op'[v].pc}
       /\ op[v].pc = "undo" => op'[v].pc = "undo"
       /\ RecoverySound(v)'

\* Rows go only if their owner has ended, or if they are the old ones of a
\* creation that left rows behind; nobody's rows come.
QuietLocks ==
    \A r \in Rooms, n \in AllNights :
       \/ locks'[r][n] = locks[r][n]
       \/ /\ \A b \in Bookings : locks[r][n].owner = b =>
                \/ Status(b)' = "terminal"
                \/ b \in stranded /\ locks[r][n].created + MinAge <= now
          /\ locks'[r][n].owner \notin Bookings
          /\ locks'[r][n].owner = Nobody \/ locks'[r][n].created = now

\* Bookings only end.
QuietBookings ==
    \A b \in Bookings :
       /\ bookings'[b].room = bookings[b].room
       /\ bookings'[b].ci = bookings[b].ci /\ bookings'[b].co = bookings[b].co
       /\ Status(b)' = Status(b) \/ (Status(b) = "active" /\ Status(b)' = "terminal")

LEMMA QuietStep ==
    ASSUME IInv, \A v \in Workers : Benign(v), QuietLocks, QuietBookings,
           stranded' = stranded, now' = now, ReleasingTerminal'
    PROVE  Protocol'
<1>1. Shape /\ Protocol /\ TypeOK
  BY DEF IInv, Shape
<1>2. \A v \in Workers : /\ (op'[v].pc = "idle" <=> op[v].pc = "idle")
                          /\ SameClaims(v)
                          /\ (op'[v].kind = "assign" =>
                                (op'[v].pc = "write" <=> op[v].pc = "write"))
                          /\ (op'[v].pc # "undo" => op[v].pc # "undo")
  BY DEF Benign, SameClaims, SameRequest
<1>3. \A v \in Workers : Nights(v)' = Nights(v) /\ (Busy(v)' <=> Busy(v))
  BY <1>2 DEF Nights, SameClaims, SameRequest, Busy
<1>4. Serial'
  BY <1>1, <1>2, <1>3 DEF Protocol, Serial, SameClaims, SameRequest
<1>5. \A w \in Workers : OpAgrees(w)'
  <2> SUFFICES ASSUME NEW w \in Workers, Busy(w) PROVE OpAgrees(w)'
    BY <1>3 DEF OpAgrees
  <2>1. op[w].bk \in Bookings
    BY <1>1, BusyFacts DEF Busy
  <2>2. OpAgrees(w)
    BY <1>1 DEF Protocol
  <2> QED
    BY <1>2, <2>1, <2>2 DEF OpAgrees, SameClaims, SameRequest, QuietBookings, Status
<1>6. StrandedAbsent'
  BY <1>1 DEF Protocol, StrandedAbsent, QuietBookings, Status, TypeOK
<1>7. \A b \in Bookings, r \in Rooms, n \in AllNights :
         /\ locks'[r][n].owner = b => locks'[r][n] = locks[r][n]
         /\ locks[r][n].owner = b /\ Status(b)' # "terminal" /\ b \notin stranded =>
               locks'[r][n] = locks[r][n]
         /\ locks[r][n].owner = b /\ Status(b)' # "terminal"
               /\ now < locks[r][n].created + MinAge => locks'[r][n] = locks[r][n]
  <2>1. now \in Nat /\ \A r \in Rooms, n \in AllNights : locks[r][n].created \in Nat
    BY <1>1 DEF TypeOK, Lock
  <2> QED
    BY <2>1, ConstantsAssumption DEF QuietLocks
<1>8. \A w \in Workers : ClaimsKept(w)'
  <2> SUFFICES ASSUME NEW w \in Workers, Busy(w), bookings'[op[w].bk].status # "terminal"
               PROVE  ClaimsKept(w)'
    BY <1>2, <1>3 DEF ClaimsKept, SameClaims, SameRequest, Status
  <2>1. op[w].bk \in Bookings /\ OpAgrees(w) /\ ClaimsKept(w)
    BY <1>1, BusyFacts DEF Busy, Protocol
  <2>2. /\ Status(op[w].bk) # "terminal"
        /\ op[w].kind = "assign" => op[w].bk \notin stranded
    BY <1>1, <2>1, BusyFacts DEF Busy, OpAgrees, Protocol, StrandedAbsent, QuietBookings, Status
  <2>3. /\ op[w].claimed \subseteq AllNights /\ Nights(w) \subseteq AllNights
        /\ op[w].claimed # {} => op[w].room \in Rooms
        /\ op[w].kind = "assign" => op[w].room \in Rooms
    BY <1>1, BusyFacts DEF Busy
  <2>4. \A n \in op[w].claimed : locks'[op[w].room][n] = locks[op[w].room][n]
    BY <1>7, <2>1, <2>2, <2>3 DEF ClaimsKept, Status
  <2>5. op[w].kind = "assign" /\ op[w].pc # "undo" =>
          \A n \in Nights(w) \ op[w].todo :
             locks'[op[w].room][n] = locks[op[w].room][n]
    BY <1>7, <2>1, <2>2, <2>3 DEF ClaimsKept, Status
  <2> QED
    BY <1>2, <1>3, <2>1, <2>2, <2>4, <2>5 DEF ClaimsKept, SameClaims, SameRequest
<1>9. \A b \in Bookings : Moving(b) => Moving(b)'
  BY <1>2 DEF Moving, SameClaims, SameRequest
<1>10. \A b \in Bookings : Held(b)'
  <2> SUFFICES ASSUME NEW b \in Bookings, Status(b)' = "active",
                      bookings[b].room # NoRoom, ~Moving(b)',
                      NEW n \in NightDates(bookings[b].ci, bookings[b].co)
               PROVE  locks'[bookings[b].room][n].owner = b
    BY DEF Held, QuietBookings
  <2>1. Status(b) = "active" /\ ~Moving(b) /\ Held(b)
    BY <1>1, <1>9 DEF QuietBookings, Protocol
  <2>2. bookings[b].room \in Rooms /\ n \in AllNights
    BY <1>1, NightsAreDates DEF TypeOK, Booking
  <2>3. b \notin stranded
    BY <1>1, <2>1 DEF Protocol, StrandedAbsent
  <2> QED
    BY <1>7, <2>1, <2>2, <2>3 DEF Held
<1>11. \A r \in Rooms, n \in AllNights : Owned(r, n)'
  <2> SUFFICES ASSUME NEW r \in Rooms, NEW n \in AllNights, locks'[r][n].owner \in Bookings
               PROVE  Owned(r, n)'
    BY DEF Owned
  <2>1. locks'[r][n] = locks[r][n] /\ Owned(r, n)
    BY <1>1, <1>7 DEF Protocol
  <2>2. \A w \in Workers : \A b : ClaimedBy(w, b, r, n) => ClaimedBy(w, b, r, n)'
    BY <1>2, <1>3 DEF ClaimedBy, SameClaims, SameRequest
  <2>3. \A b \in Bookings : AtPlace(b, r, n) => AtPlace(b, r, n)'
    BY DEF AtPlace, QuietBookings
  <2> QED
    BY <2>1, <2>2, <2>3 DEF Owned, QuietBookings
<1>12. \A w \in Workers : RecoverySound(w)'
  <2>1. LocksStep
    BY DEF QuietLocks, LocksStep
  <2>2. RecoveryFrame
    BY <1>1, <2>1 DEF RecoveryFrame, QuietBookings, Status, TypeOK
  <2> QED
    BY <1>1, <2>2, RecoveryKept DEF Benign, Protocol
<1>13. \A w \in Workers : MoveExclusive(w)'
  <2> SUFFICES ASSUME NEW w \in Workers, op'[w].pc = "write", op'[w].kind = "assign",
                      bookings'[op[w].bk].status = "active", NEW r \in Rooms, NEW n \in AllNights,
                      locks'[r][n].owner = op[w].bk
               PROVE  r = op[w].room /\ n \in Nights(w)
    BY <1>2, <1>3 DEF MoveExclusive, SameClaims, SameRequest, Status
  <2>1. op[w].pc = "write" /\ op[w].kind = "assign" /\ op[w].bk \in Bookings
    BY <1>1, <1>2, BusyFacts DEF SameClaims, SameRequest
  <2>2. Status(op[w].bk) = "active"
    BY <2>1 DEF QuietBookings, Status
  <2>3. locks[r][n].owner = op[w].bk
    BY <1>7, <2>1
  <2> QED
    BY <1>1, <2>1, <2>2, <2>3 DEF Protocol, MoveExclusive
<1> QED
  BY <1>4, <1>5, <1>6, <1>8, <1>10, <1>11, <1>12, <1>13 DEF Protocol

\* A night is secured, by writing its row or by finding it there already.
LEMMA SecureStep ==
    ASSUME IInv, NEW w \in Workers, op[w].pc \in Claiming, NEW gained,
           Others(w), SameRequest(w),
           op'[w].todo = op[w].todo \ {Night(w)},
           op'[w].claimed = op[w].claimed \cup gained,
           op'[w].pc = AfterClaims(op[w].kind, op'[w].todo),
           locks'[op[w].room][Night(w)].owner = op[w].bk,
           \/ gained = {} /\ locks' = locks /\ op[w].kind = "assign"
           \/ /\ gained = {Night(w)}
              /\ locks[op[w].room][Night(w)].owner = Nobody
              /\ locks'[op[w].room][Night(w)].created = now,
           \A r \in Rooms, n \in AllNights :
              r # op[w].room \/ n # Night(w) => locks'[r][n] = locks[r][n],
           UNCHANGED <<bookings, stranded, releasing, now>>
    PROVE  Protocol'
<1>1. Shape /\ Protocol /\ TypeOK
  BY DEF IInv, Shape
<1>2. PICK b, x, m : b = op[w].bk /\ x = op[w].room /\ m = Night(w)
  OBVIOUS
<1>3. /\ op[w].pc # "idle" /\ op[w].kind \in {"create", "assign"}
      /\ b \in Bookings /\ x \in Rooms /\ m \in op[w].todo /\ m \in AllNights
      /\ op[w].todo \subseteq Nights(w) /\ OpShape(op[w])
  BY <1>1, <1>2, BusyFacts DEF Claiming
<1>4. /\ op'[w].pc \in {"claim", "write", "obsolete"}
      /\ op[w].kind = "assign" => op'[w].pc # "write"
  BY <1>3, AfterClaimsValue
<1>5. Nights(w)' = Nights(w)
  BY DEF Nights, SameRequest
<1>6. \A v \in Workers : (Busy(v)' <=> Busy(v)) /\ op'[v].bk = op[v].bk
  BY <1>3, <1>4 DEF Busy, Others, SameRequest
<1>7. Serial'
  BY <1>1, <1>6 DEF Protocol, Serial
<1>8. \A r \in Rooms, n \in AllNights :
        /\ locks[r][n].owner \in Bookings \/ r # x \/ n # m => locks'[r][n] = locks[r][n]
  BY <1>2, ConstantsAssumption
<1>9. ~Moving(b)
  BY <1>1, <1>2, <1>3 DEF Moving, Protocol, Serial, Busy, Claiming
<1>10. \A c \in Bookings : Moving(c) => Moving(c)'
  BY <1>3, <1>9, <1>2 DEF Moving, Others
<1>11. \A v \in Workers : OpAgrees(v)'
  <2>1. \A v \in Workers \ {w} : OpAgrees(v)'
    BY <1>1 DEF Protocol, OpAgrees, Others, Busy, Status
  <2>2. OpAgrees(w)
    BY <1>1 DEF Protocol
  <2>3. ASSUME op[w].kind = "assign", bookings[b].room = x, Status(b) = "active"
        PROVE  gained = {}
    <3>1. m \in NightDates(bookings[b].ci, bookings[b].co)
      BY <1>2, <1>3, <2>2, <2>3 DEF OpAgrees, Busy, Nights
    <3>2. locks[x][m].owner = b
      BY <1>1, <1>3, <1>9, <2>3, <3>1, ConstantsAssumption DEF Protocol, Held
    <3> QED
      BY <1>2, <1>3, <3>2, ConstantsAssumption
  <2>4. op[w].pc # "undo"
    BY DEF Claiming
  <2>5. OpAgrees(w)'
    BY <1>2, <1>3, <2>2, <2>3, <2>4 DEF OpAgrees, SameRequest, Busy, Status
  <2> QED
    BY <2>1, <2>5
<1>12. StrandedAbsent' /\ ReleasingTerminal'
  BY <1>1 DEF Protocol, StrandedAbsent, ReleasingTerminal, Status
<1>13. \A v \in Workers : ClaimsKept(v)'
  <2>1. ASSUME NEW v \in Workers, v # w PROVE ClaimsKept(v)'
    <3> SUFFICES ASSUME Busy(v), Status(op[v].bk) # "terminal" PROVE ClaimsKept(v)'
      BY <2>1 DEF ClaimsKept, Others, Busy, Status
    <3>1. op'[v] = op[v] /\ Nights(v)' = Nights(v)
      BY <2>1 DEF Others, Nights
    <3>2. ClaimsKept(v) /\ op[v].bk \in Bookings
      BY <1>1, BusyFacts DEF Protocol, Busy
    <3>3. /\ op[v].claimed \subseteq AllNights /\ Nights(v) \subseteq AllNights
          /\ op[v].claimed # {} => op[v].room \in Rooms
          /\ op[v].kind = "assign" => op[v].room \in Rooms
      BY <1>1, BusyFacts DEF Busy
    <3>4. \A n \in op[v].claimed : locks'[op[v].room][n] = locks[op[v].room][n]
      BY <1>8, <3>2, <3>3 DEF ClaimsKept
    <3>5. op[v].kind = "assign" /\ op[v].pc # "undo" =>
            \A n \in Nights(v) \ op[v].todo : locks'[op[v].room][n] = locks[op[v].room][n]
      BY <1>8, <3>2, <3>3 DEF ClaimsKept
    <3>6. \A n \in op[v].claimed :
            /\ locks'[op[v].room][n].owner = op[v].bk
            /\ now < locks'[op[v].room][n].created + MinAge
      BY <3>2, <3>4 DEF ClaimsKept
    <3>7. op[v].kind = "assign" /\ op[v].pc # "undo" =>
            \A n \in Nights(v) \ op[v].todo : locks'[op[v].room][n].owner = op[v].bk
      BY <3>2, <3>5 DEF ClaimsKept
    <3> QED
      BY <3>1, <3>6, <3>7, SMTT(30) DEF ClaimsKept
  <2>2. ClaimsKept(w)'
    <3> SUFFICES ASSUME Status(b) # "terminal" PROVE ClaimsKept(w)'
      BY <1>2 DEF ClaimsKept, SameRequest, Status
    <3>1. ClaimsKept(w) /\ Busy(w) /\ op[w].pc # "undo"
      BY <1>1, <1>3 DEF Protocol, Busy, Claiming
    <3>2. op[w].claimed \subseteq AllNights /\ Nights(w) \subseteq AllNights
      BY <1>1, <1>3, BusyFacts
    <3>3. now \in Nat /\ now < now + MinAge
      BY <1>1, ConstantsAssumption DEF TypeOK
    <3>4. \A n \in op'[w].claimed : /\ locks'[x][n].owner = b
                                    /\ now < locks'[x][n].created + MinAge
      <4>1. \A n \in op[w].claimed : locks'[x][n] = locks[x][n]
        BY <1>2, <1>3, <1>8, <3>1, <3>2 DEF ClaimsKept
      <4> QED
        BY <1>2, <1>3, <3>1, <3>3, <4>1 DEF ClaimsKept
    <3>5. op[w].kind = "assign" => \A n \in Nights(w) \ op'[w].todo : locks'[x][n].owner = b
      <4>1. op[w].kind = "assign" => \A n \in Nights(w) \ op[w].todo : locks'[x][n] = locks[x][n]
        BY <1>2, <1>3, <1>8, <3>1, <3>2 DEF ClaimsKept
      <4> QED
        BY <1>2, <1>3, <3>1, <4>1 DEF ClaimsKept
    <3> QED
      BY <1>2, <1>5, <3>4, <3>5 DEF ClaimsKept, SameRequest
  <2> QED
    BY <2>1, <2>2
<1>14. \A c \in Bookings : Held(c)'
  <2> SUFFICES ASSUME NEW c \in Bookings, Status(c) = "active",
                      bookings[c].room # NoRoom, ~Moving(c)',
                      NEW n \in NightDates(bookings[c].ci, bookings[c].co)
               PROVE  locks'[bookings[c].room][n].owner = c
    BY DEF Held, Status
  <2>1. locks[bookings[c].room][n].owner = c
    BY <1>1, <1>10 DEF Protocol, Held
  <2>2. bookings[c].room \in Rooms /\ n \in AllNights
    BY <1>1, NightsAreDates DEF TypeOK, Booking
  <2> QED
    BY <1>8, <2>1, <2>2
<1>15. \A r \in Rooms, n \in AllNights : Owned(r, n)'
  <2> SUFFICES ASSUME NEW r \in Rooms, NEW n \in AllNights PROVE Owned(r, n)'
    OBVIOUS
  <2>1. CASE locks'[r][n] = locks[r][n]
    <3>1. \A v \in Workers : \A c : ClaimedBy(v, c, r, n) => ClaimedBy(v, c, r, n)'
      BY <1>6 DEF ClaimedBy, Others, SameRequest
    <3> QED
      BY <1>1, <2>1, <3>1 DEF Protocol, Owned, Status, AtPlace
  <2>2. CASE locks'[r][n] # locks[r][n]
    <3>1. r = x /\ n = m /\ gained = {m} /\ locks'[r][n].owner = b
      BY <1>2, <1>8, <2>2
    <3>2. ClaimedBy(w, b, r, n)'
      BY <1>2, <1>3, <1>6, <3>1 DEF ClaimedBy, SameRequest, Busy
    <3> QED
      BY <3>1, <3>2 DEF Owned
  <2> QED
    BY <2>1, <2>2
<1>16. \A v \in Workers : RecoverySound(v)'
  <2>1. LocksStep
    BY <1>2, <1>3 DEF LocksStep
  <2>2. RecoveryFrame
    BY <1>1, <2>1 DEF RecoveryFrame, TypeOK
  <2>3. RecoverySound(w)'
    BY <1>4 DEF RecoverySound
  <2> QED
    BY <1>1, <2>2, <2>3, RecoveryKept DEF Others, Protocol
<1>17. \A v \in Workers : MoveExclusive(v)'
  <2>1. MoveExclusive(w)'
    BY <1>4 DEF MoveExclusive, SameRequest
  <2>2. ASSUME NEW v \in Workers, v # w, op[v].pc = "write", op[v].kind = "assign",
               Status(op[v].bk) = "active", NEW r \in Rooms, NEW n \in AllNights,
               locks'[r][n].owner = op[v].bk
        PROVE  r = op[v].room /\ n \in Nights(v)
    <3>1. op[v].bk # b
      BY <1>1, <1>2, <1>3, <2>2 DEF Protocol, Serial, Busy
    <3>2. locks[r][n].owner = op[v].bk
      BY <1>2, <2>2, <3>1
    <3> QED
      BY <1>1, <2>2, <3>2 DEF Protocol, MoveExclusive
  <2>3. ASSUME NEW v \in Workers, v # w PROVE MoveExclusive(v)'
    BY <2>2, <2>3 DEF MoveExclusive, Others, Nights, Status
  <2> QED
    BY <2>1, <2>3
<1> QED
  BY <1>7, <1>11, <1>12, <1>13, <1>14, <1>15, <1>16, <1>17 DEF Protocol

\* The request of booking b ends; only b and rows of b may have changed.
LEMMA FinishStep ==
    ASSUME IInv, NEW w \in Workers, op[w].pc # "idle", NEW b, b = op[w].bk,
           Others(w), op'[w] = Idle,
           \A c \in Bookings \ {b} : bookings'[c] = bookings[c],
           stranded' \subseteq stranded \cup {b}, now' = now, StrandedAbsent', ReleasingTerminal',
           \A r \in Rooms, n \in AllNights :
              locks[r][n].owner # b => locks'[r][n] = locks[r][n],
           \A r \in Rooms, n \in AllNights :
              locks'[r][n] # locks[r][n] => locks'[r][n].owner = Nobody,
           Held(b)', RecoveryFrame,
           \A r \in Rooms, n \in AllNights : locks'[r][n].owner = b => Owned(r, n)'
    PROVE  Protocol'
<1>1. Shape /\ Protocol /\ TypeOK
  BY DEF IInv, Shape
<1>2. \A v \in Workers \ {w} : op'[v] = op[v] /\ (op[v].pc # "idle" => op[v].bk # b)
  BY <1>1 DEF Others, Protocol, Serial, Busy
<1>3. op'[w].pc = "idle"
  BY IdleType
<1>4. b \in Bookings
  BY <1>1, BusyFacts
<1>5. Serial'
  BY <1>1, <1>2, <1>3 DEF Protocol, Serial, Busy
<1>6. ASSUME NEW v \in Workers PROVE OpAgrees(v)'
  <2>1. CASE v = w
    BY <1>3, <2>1 DEF OpAgrees, Busy
  <2>2. CASE v # w /\ op[v].pc # "idle"
    <3>1. op[v].bk \in Bookings \ {b} /\ OpAgrees(v)
      BY <1>1, <1>2, <2>2, BusyFacts DEF Protocol
    <3>2. bookings'[op[v].bk] = bookings[op[v].bk] /\ (op[v].bk \in stranded' => op[v].bk \in stranded)
      BY <3>1
    <3> QED
      BY <1>2, <2>2, <3>1, <3>2 DEF OpAgrees, Busy, Status
  <2>3. CASE v # w /\ op[v].pc = "idle"
    BY <1>2, <2>3 DEF OpAgrees, Busy
  <2> QED
    BY <2>1, <2>2, <2>3
<1>7. ASSUME NEW v \in Workers PROVE ClaimsKept(v)'
  <2>1. CASE v = w
    BY <1>3, <2>1 DEF ClaimsKept, Busy
  <2>2. CASE v # w /\ op[v].pc # "idle"
    <3> SUFFICES ASSUME Status(op[v].bk) # "terminal" PROVE ClaimsKept(v)'
      BY <1>1, <1>2, <2>2, BusyFacts DEF ClaimsKept, Status, Busy
    <3>1. op[v].bk \in Bookings \ {b} /\ ClaimsKept(v)
      BY <1>1, <1>2, <2>2, BusyFacts DEF Protocol
    <3>2. /\ op[v].claimed \subseteq AllNights /\ Nights(v) \subseteq AllNights
          /\ op[v].claimed # {} => op[v].room \in Rooms
          /\ op[v].kind = "assign" => op[v].room \in Rooms
      BY <1>1, <2>2, BusyFacts
    <3>3. \A n \in op[v].claimed : locks'[op[v].room][n] = locks[op[v].room][n]
      BY <2>2, <3>1, <3>2 DEF ClaimsKept, Busy
    <3>4. op[v].kind = "assign" /\ op[v].pc # "undo" =>
            \A n \in Nights(v) \ op[v].todo : locks'[op[v].room][n] = locks[op[v].room][n]
      BY <2>2, <3>1, <3>2 DEF ClaimsKept, Busy
    <3>5. op'[v] = op[v] /\ Nights(v)' = Nights(v)
      BY <1>2, <2>2 DEF Nights
    <3> QED
      BY <2>2, <3>1, <3>3, <3>4, <3>5 DEF ClaimsKept, Status, Busy
  <2>3. CASE v # w /\ op[v].pc = "idle"
    BY <1>2, <2>3 DEF ClaimsKept, Busy
  <2> QED
    BY <2>1, <2>2, <2>3
<1>8. ASSUME NEW c \in Bookings PROVE Held(c)'
  <2> SUFFICES ASSUME c # b, bookings[c].status = "active",
                      bookings[c].room # NoRoom, ~Moving(c)',
                      NEW n \in NightDates(bookings[c].ci, bookings[c].co)
               PROVE  locks'[bookings[c].room][n].owner = c
    BY DEF Held, Status
  <2>1. ~Moving(c)
    BY <1>2 DEF Moving
  <2>2. locks[bookings[c].room][n].owner = c
    BY <1>1, <2>1 DEF Protocol, Held, Status
  <2>3. bookings[c].room \in Rooms /\ n \in AllNights
    BY <1>1, NightsAreDates DEF TypeOK, Booking
  <2> QED
    BY <2>2, <2>3
<1>9. ASSUME NEW r \in Rooms, NEW n \in AllNights PROVE Owned(r, n)'
  <2> SUFFICES ASSUME locks'[r][n].owner \in Bookings \ {b} PROVE Owned(r, n)'
    BY DEF Owned
  <2>1. locks'[r][n] = locks[r][n] /\ Owned(r, n)
    BY <1>1, ConstantsAssumption DEF Protocol
  <2>2. PICK c \in Bookings \ {b} : locks[r][n].owner = c /\ locks'[r][n].owner = c
    BY <2>1
  <2>3. bookings'[c] = bookings[c] /\ (c \in stranded' => c \in stranded)
    BY <2>2
  <2>4. \A v \in Workers : ClaimedBy(v, c, r, n) => ClaimedBy(v, c, r, n)'
    BY <1>2, <2>2 DEF ClaimedBy, Busy
  <2>5. /\ bookings[c].status = "active" =>
             AtPlace(c, r, n) \/ \E v \in Workers : ClaimedBy(v, c, r, n)
        /\ bookings[c].status = "absent" /\ c \notin stranded =>
             \E v \in Workers : ClaimedBy(v, c, r, n)
    BY <2>1, <2>2 DEF Owned, Status
  <2>6. /\ bookings'[c].status = "active" =>
             AtPlace(c, r, n)' \/ \E v \in Workers : ClaimedBy(v, c, r, n)'
        /\ bookings'[c].status = "absent" /\ c \in Bookings \ stranded' =>
             \E v \in Workers : ClaimedBy(v, c, r, n)'
    BY <2>3, <2>4, <2>5 DEF AtPlace, RecoveryFrame
  <2> QED
    BY <2>2, <2>6 DEF Owned, Status
<1>10. ASSUME NEW v \in Workers PROVE RecoverySound(v)'
  <2>1. CASE v = w
    BY <1>3, <2>1 DEF RecoverySound
  <2>2. CASE v # w
    BY <1>1, <1>2, <2>2, RecoveryKept DEF Protocol
  <2> QED
    BY <2>1, <2>2
<1>11. ASSUME NEW v \in Workers PROVE MoveExclusive(v)'
  <2>1. CASE v = w
    BY <1>3, <2>1 DEF MoveExclusive
  <2>2. CASE v # w
    <3> SUFFICES ASSUME op[v].pc = "write", op[v].kind = "assign",
                        bookings'[op[v].bk].status = "active",
                        NEW r \in Rooms, NEW n \in AllNights, locks'[r][n].owner = op[v].bk
                 PROVE  r = op[v].room /\ n \in Nights(v)
      BY <1>2, <2>2 DEF MoveExclusive, Nights, Status
    <3>1. op[v].bk \in Bookings \ {b}
      BY <1>1, <1>2, <2>2, BusyFacts
    <3>2. locks[r][n].owner = op[v].bk /\ Status(op[v].bk) = "active"
      BY <3>1, ConstantsAssumption DEF Status
    <3> QED
      BY <1>1, <3>2 DEF Protocol, MoveExclusive
  <2> QED
    BY <2>1, <2>2
<1> QED
  BY <1>5, <1>6, <1>7, <1>8, <1>9, <1>10, <1>11 DEF Protocol

\* Rows of an active or unborn booking that a request works on.
LEMMA RowsOfRequest ==
    ASSUME IInv, NEW w \in Workers, op[w].pc # "idle", NEW r \in Rooms, NEW n \in AllNights,
           locks[r][n].owner = op[w].bk
    PROVE  /\ Status(op[w].bk) = "active" =>
                AtPlace(op[w].bk, r, n) \/ (r = op[w].room /\ n \in op[w].claimed)
           /\ Status(op[w].bk) = "absent" /\ op[w].bk \notin stranded =>
                r = op[w].room /\ n \in op[w].claimed
<1>1. Shape /\ Serial /\ Owned(r, n)
  BY DEF IInv, Protocol
<1>2. op[w].bk \in Bookings
  BY <1>1, BusyFacts
<1>3. \A v \in Workers : ClaimedBy(v, op[w].bk, r, n) => v = w
  BY <1>1 DEF ClaimedBy, Serial, Busy
<1> QED
  BY <1>1, <1>2, <1>3 DEF Owned, ClaimedBy

\* delete_many, pointwise.
LEMMA WithoutRow ==
    ASSUME NEW b, NEW s, NEW r \in Rooms, NEW n \in AllNights
    PROVE  Without(b, s)[r][n] =
             IF locks[r][n].owner = b /\ <<r, n>> \in s THEN NoLock ELSE locks[r][n]
BY DEF Without

\* CheckOverlap finds an overlapping booking.
LEMMA RefusedProtocol ==
    ASSUME IInv, NEW w \in Workers, op[w].pc = "overlap", Finish(w),
           UNCHANGED <<locks, bookings, stranded, releasing, now>>
    PROVE  Protocol'
<1>1. Shape /\ Protocol /\ TypeOK
  BY DEF IInv, Shape
<1>2. PICK b : b = op[w].bk
  OBVIOUS
<1>3. Others(w) /\ op'[w] = Idle
  BY <1>1, FinishEffect
<1>4. /\ b \in Bookings /\ OpAgrees(w) /\ op[w].kind \in {"create", "assign"}
      /\ op[w].claimed = {}
  BY <1>1, <1>2, BusyFacts DEF Protocol, OpShape, Nights
<1>5. StrandedAbsent' /\ ReleasingTerminal'
  BY <1>1 DEF Protocol, StrandedAbsent, ReleasingTerminal, Status
<1>6. RecoveryFrame
  BY <1>1 DEF RecoveryFrame, LocksStep, TypeOK
<1>7. Held(b)'
  <2>1. Moving(b) => Moving(b)'
    BY <1>3 DEF Moving, Others
  <2> QED
    BY <1>1, <1>4, <2>1 DEF Protocol, Held, Status
<1>8. ASSUME NEW r \in Rooms, NEW n \in AllNights, locks'[r][n].owner = b PROVE Owned(r, n)'
  <2>1. /\ Status(b) = "active" => AtPlace(b, r, n)
        /\ ~(Status(b) = "absent" /\ b \notin stranded)
    BY <1>2, <1>4, <1>8, RowsOfRequest
  <2> QED
    BY <1>8, <2>1 DEF Owned, Status, AtPlace
<1> QED
  BY <1>2, <1>3, <1>5, <1>6, <1>7, <1>8, FinishStep

LEMMA CompensateProtocol ==
    ASSUME IInv, NEW w \in Workers, Compensate(w)
    PROVE  Protocol'
<1>1. Shape /\ Protocol /\ TypeOK
  BY DEF IInv, Shape
<1>2. PICK b, s : b = op[w].bk /\ s = {op[w].room} \X op[w].claimed
  OBVIOUS
<1>3. /\ Others(w) /\ op'[w] = Idle /\ op[w].pc = "undo"
      /\ locks' = Without(b, s) /\ UNCHANGED <<bookings, stranded, releasing, now>>
  BY <1>1, <1>2, FinishEffect DEF Compensate
<1>4. b \in Bookings /\ OpAgrees(w) /\ op[w].kind \in {"create", "assign"}
  BY <1>1, <1>2, <1>3, BusyFacts DEF Protocol
<1>5. StrandedAbsent' /\ ReleasingTerminal'
  BY <1>1, <1>3 DEF Protocol, StrandedAbsent, ReleasingTerminal, Status
<1>6. \A r \in Rooms, n \in AllNights :
        locks'[r][n] = IF locks[r][n].owner = b /\ r = op[w].room /\ n \in op[w].claimed
                       THEN NoLock ELSE locks[r][n]
  <2> TAKE r \in Rooms, n \in AllNights
  <2>1. <<r, n>> \in s <=> r = op[w].room /\ n \in op[w].claimed
    BY <1>2
  <2>2. locks'[r][n] = IF locks[r][n].owner = b /\ <<r, n>> \in s THEN NoLock ELSE locks[r][n]
    BY <1>3, WithoutRow
  <2> QED
    BY <2>1, <2>2
<1>7. NoLock.owner = Nobody /\ b # Nobody
  BY <1>4, ConstantsAssumption DEF NoLock
<1>8. LocksStep
  BY <1>6, <1>7 DEF LocksStep
<1>9. RecoveryFrame
  BY <1>1, <1>3, <1>8 DEF RecoveryFrame, TypeOK
<1>10. Held(b)'
  <2> SUFFICES ASSUME bookings[b].status = "active", bookings[b].room # NoRoom,
                      NEW n \in NightDates(bookings[b].ci, bookings[b].co)
               PROVE  locks'[bookings[b].room][n].owner = b
    BY <1>3 DEF Held, Status
  <2>1. ~Moving(b)
    BY <1>1, <1>2, <1>3 DEF Moving, Protocol, Serial, Busy
  <2>2. locks[bookings[b].room][n].owner = b
    BY <1>1, <1>4, <2>1 DEF Protocol, Held, Status
  <2>3. bookings[b].room \in Rooms /\ n \in AllNights
    BY <1>1, <1>4, NightsAreDates DEF TypeOK, Booking
  <2>4. bookings[b].room = op[w].room => op[w].claimed = {}
    BY <1>2, <1>3, <1>4 DEF OpAgrees, Busy, Status
  <2> QED
    BY <1>6, <2>2, <2>3, <2>4
<1>11. ASSUME NEW r \in Rooms, NEW n \in AllNights, locks'[r][n].owner = b PROVE Owned(r, n)'
  <2>1. locks[r][n].owner = b /\ ~(r = op[w].room /\ n \in op[w].claimed)
    BY <1>6, <1>7, <1>11
  <2>2. /\ Status(b) = "active" => AtPlace(b, r, n)
        /\ ~(Status(b) = "absent" /\ b \notin stranded)
    BY <1>2, <1>3, <2>1, RowsOfRequest
  <2> QED
    BY <1>3, <1>11, <2>2 DEF Owned, Status, AtPlace
<1> QED
  BY <1>2, <1>3, <1>5, <1>6, <1>7, <1>9, <1>10, <1>11, FinishStep

LEMMA InsertBookingProtocol ==
    ASSUME IInv, NEW w \in Workers, InsertBooking(w)
    PROVE  Protocol'
<1>1. Shape /\ Protocol /\ TypeOK
  BY DEF IInv, Shape
<1>2. PICK b : b = op[w].bk
  OBVIOUS
<1>3. /\ Others(w) /\ op'[w] = Idle /\ op[w].pc = "write" /\ op[w].kind = "create"
      /\ UNCHANGED <<locks, stranded, releasing, now>>
  BY <1>1, FinishEffect DEF InsertBooking
<1>4. b \in Bookings /\ OpAgrees(w) /\ OpShape(op[w])
  BY <1>1, <1>2, <1>3, BusyFacts DEF Protocol
<1>5. /\ bookings'[b] = [status |-> "active", room |-> op[w].room,
                          ci |-> op[w].ci, co |-> op[w].co]
      /\ \A c \in Bookings \ {b} : bookings'[c] = bookings[c]
  BY <1>1, <1>2, <1>4 DEF InsertBooking, Inserted, TypeOK
<1>6. Status(b) = "absent" /\ b \notin stranded /\ b \notin releasing
  BY <1>1, <1>2, <1>3, <1>4 DEF OpAgrees, Busy, Protocol, ReleasingTerminal, Status
<1>7. StrandedAbsent' /\ ReleasingTerminal'
  BY <1>1, <1>3, <1>5, <1>6 DEF Protocol, StrandedAbsent, ReleasingTerminal, Status, TypeOK
<1>8. RecoveryFrame
  <2>1. LocksStep /\ now' \in Nat /\ now <= now' /\ stranded \subseteq stranded'
    BY <1>1, <1>3 DEF LocksStep, TypeOK
  <2> QED
    BY <1>5, <1>6, <2>1 DEF RecoveryFrame, Status
<1>9. Held(b)'
  <2> SUFFICES ASSUME op[w].room # NoRoom, NEW n \in NightDates(op[w].ci, op[w].co)
               PROVE  locks[op[w].room][n].owner = b
    BY <1>3, <1>5 DEF Held
  <2>1. n \in op[w].claimed
    BY <1>3, <1>4 DEF OpShape
  <2> QED
    BY <1>1, <1>2, <1>3, <1>6, <2>1 DEF Protocol, ClaimsKept, Busy
<1>10. ASSUME NEW r \in Rooms, NEW n \in AllNights, locks'[r][n].owner = b PROVE Owned(r, n)'
  <2>1. r = op[w].room /\ n \in op[w].claimed
    BY <1>2, <1>3, <1>6, <1>10, RowsOfRequest
  <2>2. n \in NightDates(op[w].ci, op[w].co)
    BY <1>3, <1>4, <2>1 DEF OpShape
  <2> QED
    BY <1>5, <1>10, <2>1, <2>2 DEF Owned, AtPlace, Status
<1> QED
  BY <1>2, <1>3, <1>5, <1>7, <1>8, <1>9, <1>10, FinishStep

LEMMA UpdateRoomProtocol ==
    ASSUME IInv, NEW w \in Workers, UpdateRoom(w)
    PROVE  Protocol'
<1>1. Shape /\ Protocol /\ TypeOK
  BY DEF IInv, Shape
<1>2. PICK b : b = op[w].bk
  OBVIOUS
<1>3. /\ Others(w) /\ op'[w] = Idle /\ op[w].pc = "write" /\ op[w].kind = "assign"
      /\ UNCHANGED <<locks, stranded, releasing, now>>
  BY <1>1, FinishEffect DEF UpdateRoom
<1>4. b \in Bookings /\ OpAgrees(w) /\ OpShape(op[w]) /\ op[w].room \in Rooms
  BY <1>1, <1>2, <1>3, BusyFacts DEF Protocol
<1>5. /\ bookings'[b].status = bookings[b].status /\ bookings'[b].room = op[w].room
      /\ bookings'[b].ci = op[w].ci /\ bookings'[b].co = op[w].co
      /\ \A c \in Bookings \ {b} : bookings'[c] = bookings[c]
  <2>1. bookings[b] \in Booking /\ bookings \in [Bookings -> Booking]
    BY <1>1, <1>4 DEF TypeOK
  <2>2. bookings' = [bookings EXCEPT ![b] = [bookings[b] EXCEPT !.room = op[w].room]]
    BY <1>2 DEF UpdateRoom
  <2>3. bookings[b].ci = op[w].ci /\ bookings[b].co = op[w].co
    BY <1>2, <1>3, <1>4 DEF OpAgrees, Busy
  <2> QED
    BY <1>4, <2>1, <2>2, <2>3 DEF Booking
<1>6. StrandedAbsent' /\ ReleasingTerminal'
  BY <1>1, <1>3, <1>5 DEF Protocol, StrandedAbsent, ReleasingTerminal, Status, TypeOK
<1>7. Status(b) = "active" =>
        /\ \A n \in Nights(w) : locks[op[w].room][n].owner = b
        /\ \A r \in Rooms, n \in AllNights :
              locks[r][n].owner = b => r = op[w].room /\ n \in Nights(w)
  <2>1. ClaimsKept(w) /\ MoveExclusive(w)
    BY <1>1 DEF Protocol
  <2>2. op[w].todo = {}
    BY <1>3, <1>4 DEF OpShape
  <2> QED
    BY <1>2, <1>3, <2>1, <2>2 DEF ClaimsKept, MoveExclusive, Busy
<1>8. RecoveryFrame
  <2>1. LocksStep /\ now' \in Nat /\ now <= now' /\ stranded \subseteq stranded'
    BY <1>1, <1>3 DEF LocksStep, TypeOK
  <2> QED
    BY <1>3, <1>5, <1>7, <2>1 DEF RecoveryFrame, Status, Nights
<1>9. Held(b)'
  BY <1>3, <1>5, <1>7 DEF Held, Status, Nights
<1>10. ASSUME NEW r \in Rooms, NEW n \in AllNights, locks'[r][n].owner = b PROVE Owned(r, n)'
  <2>1. Status(b) # "absent"
    BY <1>2, <1>3, <1>4 DEF OpAgrees, Busy
  <2>2. Status(b) = "active" => r = op[w].room /\ n \in NightDates(op[w].ci, op[w].co)
    BY <1>3, <1>7, <1>10 DEF Nights
  <2> QED
    BY <1>5, <1>10, <2>1, <2>2 DEF Owned, AtPlace, Status
<1> QED
  BY <1>2, <1>3, <1>5, <1>6, <1>8, <1>9, <1>10, FinishStep

\* A creator dies: its rows stay, and its id does not come back.
LEMMA CrashProtocol ==
    ASSUME IInv, NEW w \in Workers, Crash(w), op[w].kind = "create"
    PROVE  Protocol'
<1>1. Shape /\ Protocol /\ TypeOK
  BY DEF IInv, Shape
<1>2. PICK b : b = op[w].bk
  OBVIOUS
<1>3. /\ Others(w) /\ op'[w] = Idle /\ op[w].pc # "idle" /\ stranded' = stranded \cup {b}
      /\ UNCHANGED <<locks, bookings, releasing, now>>
  BY <1>1, <1>2, FinishEffect DEF Crash, Strand
<1>4. b \in Bookings /\ Status(b) = "absent"
  BY <1>1, <1>2, <1>3, BusyFacts DEF Protocol, OpAgrees, Busy
<1>5. StrandedAbsent' /\ ReleasingTerminal'
  BY <1>1, <1>3, <1>4 DEF Protocol, StrandedAbsent, ReleasingTerminal, Status
<1>6. RecoveryFrame
  BY <1>1, <1>3 DEF RecoveryFrame, LocksStep, TypeOK
<1>7. Held(b)' /\ \A r \in Rooms, n \in AllNights : locks'[r][n].owner = b => Owned(r, n)'
  BY <1>3, <1>4 DEF Held, Owned, Status
<1> QED
  BY <1>2, <1>3, <1>5, <1>6, <1>7, FinishStep

\* A roll back raises half way: what it did not delete stays.
LEMMA CompensateFailsProtocol ==
    ASSUME IInv, NoFaults, NEW w \in Workers, CompensateFails(w)
    PROVE  Protocol'
<1>1. Shape /\ Protocol /\ TypeOK
  BY DEF IInv, Shape
<1>2. PICK b : b = op[w].bk
  OBVIOUS
<1>3. /\ Others(w) /\ op'[w] = Idle /\ op[w].pc = "undo" /\ op[w].kind = "create"
      /\ stranded' = stranded \cup {b} /\ UNCHANGED <<bookings, releasing, now>>
  BY <1>1, <1>2, FinishEffect DEF CompensateFails, Strand, NoFaults
<1>4. b \in Bookings /\ Status(b) = "absent" /\ b # Nobody
  BY <1>1, <1>2, <1>3, BusyFacts, ConstantsAssumption DEF Protocol, OpAgrees, Busy
<1>5. StrandedAbsent' /\ ReleasingTerminal'
  BY <1>1, <1>3, <1>4 DEF Protocol, StrandedAbsent, ReleasingTerminal, Status
<1>6. PICK s : locks' = Without(b, s)
  BY <1>2 DEF CompensateFails
<1>7. \A r \in Rooms, n \in AllNights :
        \/ locks'[r][n] = locks[r][n]
        \/ locks[r][n].owner = b /\ locks'[r][n].owner = Nobody
  <2> TAKE r \in Rooms, n \in AllNights
  <2>1. locks'[r][n] = IF locks[r][n].owner = b /\ <<r, n>> \in s THEN NoLock ELSE locks[r][n]
    BY <1>6, WithoutRow
  <2> QED
    BY <2>1 DEF NoLock
<1>8. RecoveryFrame
  <2>1. LocksStep
    BY <1>7 DEF LocksStep
  <2> QED
    BY <1>1, <1>3, <2>1 DEF RecoveryFrame, TypeOK
<1>9. Held(b)' /\ \A r \in Rooms, n \in AllNights : locks'[r][n].owner = b => Owned(r, n)'
  BY <1>3, <1>4 DEF Held, Owned, Status
<1> QED
  BY <1>2, <1>3, <1>5, <1>7, <1>8, <1>9, FinishStep

\* A creation writes a row that it does not learn of.
LEMMA LostRowProtocol ==
    ASSUME IInv, NEW w \in Workers, InsertLockLosesAck(w)
    PROVE  Protocol'
<1>1. Shape /\ Protocol /\ TypeOK
  BY DEF IInv, Shape
<1>2. PICK b, x, m : b = op[w].bk /\ x = op[w].room /\ m = Night(w)
  OBVIOUS
<1>3. /\ op[w].pc \in Claiming /\ op[w].pc # "idle" /\ op[w].kind = "create"
      /\ b \in Bookings /\ x \in Rooms /\ m \in AllNights
      /\ locks[x][m] = NoLock /\ Nobody \notin Bookings
  BY <1>1, <1>2, BusyFacts, ConstantsAssumption DEF InsertLockLosesAck, Claiming, Here
<1>4. /\ Others(w) /\ SameClaims(w) /\ op'[w].pc = "undo"
      /\ stranded' = stranded \cup {b} /\ UNCHANGED <<bookings, releasing, now>>
  BY <1>1, <1>2, <1>3, GotoEffect DEF InsertLockLosesAck, Strand, Steps
<1>5. /\ locks'[x][m] = [owner |-> b, created |-> now]
      /\ \A r \in Rooms, n \in AllNights :
            \/ locks'[r][n] = locks[r][n]
            \/ r = x /\ n = m
  BY <1>1, <1>2, <1>3 DEF InsertLockLosesAck, TypeOK
<1>6. \A r \in Rooms, n \in AllNights :
        locks[r][n].owner \in Bookings => locks'[r][n] = locks[r][n]
  BY <1>3, <1>5 DEF NoLock
<1>7. \A v \in Workers : /\ (Busy(v)' <=> Busy(v)) /\ op'[v].bk = op[v].bk
                          /\ op'[v].room = op[v].room /\ op'[v].claimed = op[v].claimed
  BY <1>3, <1>4 DEF Busy, Others, SameClaims, SameRequest
<1>8. \A v \in Workers \ {w} : op'[v] = op[v] /\ (Busy(v) => op[v].bk # b)
  BY <1>1, <1>2, <1>3, <1>4 DEF Others, Protocol, Serial, Busy
<1>9. Status(b) = "absent" /\ OpAgrees(w)
  BY <1>1, <1>2, <1>3 DEF Protocol, OpAgrees, Busy
<1>10. Serial'
  BY <1>1, <1>7 DEF Protocol, Serial
<1>11. ASSUME NEW v \in Workers PROVE OpAgrees(v)'
  <2>1. CASE v = w
    BY <1>2, <1>3, <1>4, <1>9, <2>1 DEF OpAgrees, Status, SameClaims, SameRequest
  <2>2. CASE v # w
    BY <1>1, <1>4, <1>8, <2>2 DEF Protocol, OpAgrees, Status, Busy
  <2> QED
    BY <2>1, <2>2
<1>12. StrandedAbsent' /\ ReleasingTerminal'
  BY <1>1, <1>4, <1>9 DEF Protocol, StrandedAbsent, ReleasingTerminal, Status
<1>13. ASSUME NEW v \in Workers PROVE ClaimsKept(v)'
  <2> SUFFICES ASSUME Busy(v), Status(op[v].bk) # "terminal" PROVE ClaimsKept(v)'
    BY <1>4, <1>7 DEF ClaimsKept, Status
  <2>1. ClaimsKept(v) /\ op[v].bk \in Bookings
    BY <1>1, BusyFacts DEF Protocol, Busy
  <2>2. /\ op[v].claimed \subseteq AllNights /\ Nights(v) \subseteq AllNights
        /\ op[v].claimed # {} => op[v].room \in Rooms
        /\ op[v].kind = "assign" => op[v].room \in Rooms
    BY <1>1, BusyFacts DEF Busy
  <2>3. \A n \in op[v].claimed : locks'[op[v].room][n] = locks[op[v].room][n]
    BY <1>6, <2>1, <2>2 DEF ClaimsKept
  <2>4. op[v].kind = "assign" /\ op[v].pc # "undo" =>
          \A n \in Nights(v) \ op[v].todo : locks'[op[v].room][n] = locks[op[v].room][n]
    BY <1>6, <2>1, <2>2 DEF ClaimsKept
  <2>5. /\ op'[v].kind = op[v].kind /\ Nights(v)' = Nights(v)
        /\ op[v].kind = "assign" => op'[v] = op[v]
    BY <1>3, <1>4, <1>8 DEF SameClaims, SameRequest, Nights
  <2>6. \A n \in op'[v].claimed : /\ locks'[op'[v].room][n].owner = op'[v].bk
                                  /\ now' < locks'[op'[v].room][n].created + MinAge
    BY <1>4, <1>7, <2>1, <2>3 DEF ClaimsKept, Status
  <2>7. op'[v].kind = "assign" /\ op'[v].pc # "undo" =>
          \A n \in Nights(v)' \ op'[v].todo : locks'[op'[v].room][n].owner = op'[v].bk
    BY <2>1, <2>4, <2>5 DEF ClaimsKept, Status
  <2> QED
    BY <2>6, <2>7 DEF ClaimsKept
<1>14. ASSUME NEW c \in Bookings PROVE Held(c)'
  <2> SUFFICES ASSUME Status(c) = "active", bookings[c].room # NoRoom, ~Moving(c)',
                      NEW n \in NightDates(bookings[c].ci, bookings[c].co)
               PROVE  locks'[bookings[c].room][n].owner = c
    BY <1>4 DEF Held, Status
  <2>1. ~Moving(c)
    BY <1>3, <1>8 DEF Moving
  <2>2. locks[bookings[c].room][n].owner = c
    BY <1>1, <2>1 DEF Protocol, Held
  <2>3. bookings[c].room \in Rooms /\ n \in AllNights
    BY <1>1, NightsAreDates DEF TypeOK, Booking
  <2> QED
    BY <1>6, <2>2, <2>3
<1>15. ASSUME NEW r \in Rooms, NEW n \in AllNights PROVE Owned(r, n)'
  <2>1. CASE locks'[r][n] = locks[r][n]
    <3>1. \A v \in Workers : \A c : ClaimedBy(v, c, r, n) => ClaimedBy(v, c, r, n)'
      BY <1>7 DEF ClaimedBy
    <3> QED
      BY <1>1, <1>4, <2>1, <3>1 DEF Protocol, Owned, AtPlace, Status
  <2>2. CASE r = x /\ n = m
    BY <1>4, <1>5, <1>9, <2>2 DEF Owned, Status
  <2> QED
    BY <1>5, <2>1, <2>2
<1>16. ASSUME NEW v \in Workers PROVE RecoverySound(v)'
  <2>1. CASE v = w
    BY <1>4, <2>1 DEF RecoverySound
  <2>2. RecoveryFrame
    <3>1. LocksStep
      BY <1>5 DEF LocksStep
    <3> QED
      BY <1>1, <1>4, <3>1 DEF RecoveryFrame, TypeOK
  <2> QED
    BY <1>1, <1>8, <2>1, <2>2, RecoveryKept DEF Protocol
<1>17. ASSUME NEW v \in Workers PROVE MoveExclusive(v)'
  <2>1. CASE v = w
    BY <1>4, <2>1 DEF MoveExclusive
  <2>2. CASE v # w
    <3> SUFFICES ASSUME op[v].pc = "write", op[v].kind = "assign",
                        Status(op[v].bk) = "active",
                        NEW r \in Rooms, NEW n \in AllNights, locks'[r][n].owner = op[v].bk
                 PROVE  r = op[v].room /\ n \in Nights(v)
      BY <1>4, <1>8, <2>2 DEF MoveExclusive, Status, Nights
    <3>1. op[v].bk # b
      BY <1>8, <2>2 DEF Busy
    <3>2. locks[r][n].owner = op[v].bk
      BY <1>5, <3>1
    <3> QED
      BY <1>1, <3>2 DEF Protocol, MoveExclusive
  <2> QED
    BY <2>1, <2>2
<1> QED
  BY <1>10, <1>11, <1>12, <1>13, <1>14, <1>15, <1>16, <1>17 DEF Protocol

\* Step 3 of a room assignment: the old rows go, the new ones stay.
LEMMA ReleaseObsoleteProtocol ==
    ASSUME IInv, NEW w \in Workers, ReleaseObsolete(w)
    PROVE  Protocol'
<1>1. Shape /\ Protocol /\ TypeOK
  BY DEF IInv, Shape
<1>2. PICK b, x, s : b = op[w].bk /\ x = op[w].room /\ s = Nights(w)
  OBVIOUS
<1>3. /\ Others(w) /\ SameClaims(w) /\ op[w].pc = "obsolete" /\ op'[w].pc = "write"
      /\ UNCHANGED <<bookings, stranded, releasing, now>>
  BY <1>1, <1>2, GotoEffect DEF ReleaseObsolete, Steps
<1>4. /\ b \in Bookings /\ op[w].kind = "assign" /\ op[w].todo = {} /\ x \in Rooms
      /\ s \subseteq AllNights /\ op[w].claimed \subseteq s
  BY <1>1, <1>2, <1>3, BusyFacts DEF OpShape
<1>5. \A r \in Rooms, n \in AllNights :
        locks'[r][n] = IF locks[r][n].owner = b /\ ~(r = x /\ n \in s)
                       THEN NoLock ELSE locks[r][n]
  <2> TAKE r \in Rooms, n \in AllNights
  <2>1. <<r, n>> \in AllRoomNights \ ({x} \X s) <=> ~(r = x /\ n \in s)
    BY DEF AllRoomNights
  <2>2. locks'[r][n] = IF locks[r][n].owner = b /\ <<r, n>> \in AllRoomNights \ ({x} \X s)
                       THEN NoLock ELSE locks[r][n]
    BY <1>2, WithoutRow DEF ReleaseObsolete
  <2> QED
    BY <2>1, <2>2
<1>6. NoLock.owner = Nobody /\ Nobody \notin Bookings
  BY ConstantsAssumption DEF NoLock
<1>7. \A v \in Workers : /\ (Busy(v)' <=> Busy(v)) /\ op'[v].bk = op[v].bk
                          /\ op'[v].room = op[v].room /\ op'[v].claimed = op[v].claimed
  BY <1>3 DEF Busy, Others, SameClaims, SameRequest
<1>8. Serial'
  BY <1>1, <1>7 DEF Protocol, Serial
<1>9. \A v \in Workers \ {w} : op'[v] = op[v] /\ (Busy(v) => op[v].bk # b)
  BY <1>1, <1>2, <1>3 DEF Others, Protocol, Serial, Busy
<1>10. ASSUME NEW v \in Workers PROVE OpAgrees(v)'
  <2>1. OpAgrees(v)
    BY <1>1 DEF Protocol
  <2> QED
    BY <1>3, <1>9, <2>1 DEF OpAgrees, SameClaims, SameRequest, Busy, Status
<1>11. StrandedAbsent' /\ ReleasingTerminal'
  BY <1>1, <1>3 DEF Protocol, StrandedAbsent, ReleasingTerminal, Status
<1>12. ASSUME NEW v \in Workers PROVE ClaimsKept(v)'
  <2>1. ClaimsKept(v)
    BY <1>1 DEF Protocol
  <2>2. CASE v = w
    <3> SUFFICES ASSUME bookings[b].status # "terminal" PROVE ClaimsKept(w)'
      BY <1>2, <1>3, <2>2 DEF ClaimsKept, SameClaims, SameRequest, Status
    <3>1. /\ \A n \in op[w].claimed : /\ locks[x][n].owner = b
                                       /\ now < locks[x][n].created + MinAge
          /\ \A n \in s : locks[x][n].owner = b
      BY <1>2, <1>3, <1>4, <2>1, <2>2 DEF ClaimsKept, Busy, Status
    <3>2. \A n \in s : locks'[x][n] = locks[x][n]
      BY <1>4, <1>5
    <3>3. Nights(w)' = s
      BY <1>2, <1>3 DEF Nights, SameClaims, SameRequest
    <3> QED
      BY <1>2, <1>3, <1>4, <2>2, <3>1, <3>2, <3>3 DEF ClaimsKept, SameClaims, SameRequest
  <2>3. CASE v # w /\ Busy(v) /\ Status(op[v].bk) # "terminal"
    <3>1. /\ op[v].claimed \subseteq AllNights /\ Nights(v) \subseteq AllNights
          /\ op[v].claimed # {} => op[v].room \in Rooms
          /\ op[v].kind = "assign" => op[v].room \in Rooms
      BY <1>1, <2>3, BusyFacts DEF Busy
    <3>2. \A r \in Rooms, n \in AllNights : locks[r][n].owner = op[v].bk => locks'[r][n] = locks[r][n]
      BY <1>5, <1>9, <2>3
    <3>3. \A n \in op[v].claimed : locks'[op[v].room][n] = locks[op[v].room][n]
      BY <2>1, <2>3, <3>1, <3>2 DEF ClaimsKept
    <3>4. op[v].kind = "assign" /\ op[v].pc # "undo" =>
            \A n \in Nights(v) \ op[v].todo : locks'[op[v].room][n] = locks[op[v].room][n]
      BY <2>1, <2>3, <3>1, <3>2 DEF ClaimsKept
    <3>5. op'[v] = op[v] /\ Nights(v)' = Nights(v)
      BY <1>9, <2>3 DEF Nights
    <3> QED
      BY <1>3, <2>1, <2>3, <3>3, <3>4, <3>5 DEF ClaimsKept, Status
  <2>4. CASE v # w /\ ~(Busy(v) /\ Status(op[v].bk) # "terminal")
    BY <1>3, <1>9, <2>4 DEF ClaimsKept, Status, Busy
  <2> QED
    BY <2>2, <2>3, <2>4
<1>13. ASSUME NEW c \in Bookings PROVE Held(c)'
  <2>1. Moving(b)'
    BY <1>2, <1>3, <1>4 DEF Moving, SameClaims, SameRequest
  <2> SUFFICES ASSUME c # b, bookings[c].status = "active", bookings[c].room # NoRoom,
                      ~Moving(c)', NEW n \in NightDates(bookings[c].ci, bookings[c].co)
               PROVE  locks'[bookings[c].room][n].owner = c
    BY <1>3, <2>1 DEF Held, Status
  <2>2. ~Moving(c)
    BY <1>2, <1>9 DEF Moving
  <2>3. locks[bookings[c].room][n].owner = c
    BY <1>1, <2>2 DEF Protocol, Held, Status
  <2>4. bookings[c].room \in Rooms /\ n \in AllNights
    BY <1>1, NightsAreDates DEF TypeOK, Booking
  <2> QED
    BY <1>5, <2>3, <2>4
<1>14. ASSUME NEW r \in Rooms, NEW n \in AllNights PROVE Owned(r, n)'
  <2> SUFFICES ASSUME locks'[r][n].owner \in Bookings PROVE Owned(r, n)'
    BY DEF Owned
  <2>1. locks'[r][n] = locks[r][n]
    BY <1>5, <1>6
  <2>2. \A v \in Workers : \A c : ClaimedBy(v, c, r, n) => ClaimedBy(v, c, r, n)'
    BY <1>7 DEF ClaimedBy
  <2> QED
    BY <1>1, <1>3, <2>1, <2>2 DEF Protocol, Owned, AtPlace, Status
<1>15. ASSUME NEW v \in Workers PROVE RecoverySound(v)'
  <2>1. CASE v = w
    BY <1>3, <2>1 DEF RecoverySound
  <2>2. LocksStep
    BY <1>5, <1>6 DEF LocksStep
  <2>3. RecoveryFrame
    BY <1>1, <1>3, <2>2 DEF RecoveryFrame, TypeOK
  <2> QED
    BY <1>1, <1>9, <2>1, <2>3, RecoveryKept DEF Protocol
<1>16. ASSUME NEW v \in Workers PROVE MoveExclusive(v)'
  <2>1. \A r \in Rooms, n \in AllNights : locks'[r][n].owner = b => r = x /\ n \in s
    BY <1>4, <1>5, <1>6
  <2>2. \A c \in Bookings, r \in Rooms, n \in AllNights :
           locks'[r][n].owner = c => locks[r][n].owner = c
    BY <1>5, <1>6
  <2>3. CASE v = w
    BY <1>2, <1>3, <2>1, <2>3 DEF MoveExclusive, SameClaims, SameRequest, Nights
  <2>4. CASE v # w
    <3>1. op'[v] = op[v] /\ (op[v].pc = "write" => op[v].bk \in Bookings) /\ MoveExclusive(v)
      BY <1>1, <1>9, <2>4, BusyFacts DEF Protocol
    <3> QED
      BY <1>3, <2>2, <3>1 DEF MoveExclusive, Nights, Status
  <2> QED
    BY <2>3, <2>4
<1> QED
  BY <1>8, <1>10, <1>11, <1>12, <1>13, <1>14, <1>15, <1>16 DEF Protocol

\* A request begins; nobody else works on its booking.
LEMMA StartStep ==
    ASSUME IInv, NEW w \in Workers, NEW b \in Bookings, op[w].pc = "idle", Others(w),
           op'[w].bk = b, op'[w].claimed = {}, op'[w].pc \in {"overlap", "write"},
           op'[w].kind = "assign" =>
              op'[w].pc = "overlap" /\ op'[w].todo = NightDates(op'[w].ci, op'[w].co),
           ~InFlight(b), OpAgrees(w)', UNCHANGED <<locks, bookings, stranded, releasing, now>>
    PROVE  Protocol'
<1>1. Shape /\ Protocol /\ TypeOK
  BY DEF IInv, Shape
<1>2. \A v \in Workers \ {w} : op'[v] = op[v] /\ (Busy(v) => op[v].bk # b)
  BY DEF Others, InFlight, Busy
<1>3. Serial'
  BY <1>1, <1>2 DEF Protocol, Serial, Busy
<1>4. ASSUME NEW v \in Workers PROVE OpAgrees(v)'
  BY <1>1, <1>2 DEF Protocol, OpAgrees, Busy, Status
<1>5. StrandedAbsent' /\ ReleasingTerminal'
  BY <1>1 DEF Protocol, StrandedAbsent, ReleasingTerminal, Status
<1>6. ASSUME NEW v \in Workers PROVE ClaimsKept(v)'
  <2>1. CASE v = w
    BY <2>1 DEF ClaimsKept, Nights
  <2>2. CASE v # w
    <3>1. ClaimsKept(v) /\ op'[v] = op[v]
      BY <1>1, <1>2, <2>2 DEF Protocol
    <3> QED
      BY <3>1 DEF ClaimsKept, Nights, Busy, Status
  <2> QED
    BY <2>1, <2>2
<1>7. ASSUME NEW c \in Bookings PROVE Held(c)'
  <2>1. Moving(c) => Moving(c)'
    BY <1>2 DEF Moving
  <2> QED
    BY <1>1, <2>1 DEF Protocol, Held, Status
<1>8. ASSUME NEW r \in Rooms, NEW n \in AllNights PROVE Owned(r, n)'
  <2>1. \A v \in Workers : \A c : ClaimedBy(v, c, r, n) => ClaimedBy(v, c, r, n)'
    BY <1>2 DEF ClaimedBy, Busy
  <2> QED
    BY <1>1, <2>1 DEF Protocol, Owned, AtPlace, Status
<1>9. ASSUME NEW v \in Workers PROVE RecoverySound(v)'
  <2>1. CASE v = w
    BY <2>1 DEF RecoverySound
  <2>2. RecoveryFrame
    BY <1>1 DEF RecoveryFrame, LocksStep, TypeOK
  <2> QED
    BY <1>1, <1>2, <2>1, <2>2, RecoveryKept DEF Protocol
<1>10. ASSUME NEW v \in Workers PROVE MoveExclusive(v)'
  <2>1. CASE v = w
    BY <2>1 DEF MoveExclusive
  <2>2. CASE v # w
    <3>1. MoveExclusive(v) /\ op'[v] = op[v]
      BY <1>1, <1>2, <2>2 DEF Protocol
    <3> QED
      BY <3>1 DEF MoveExclusive, Nights, Status
  <2> QED
    BY <2>1, <2>2
<1> QED
  BY <1>3, <1>4, <1>5, <1>6, <1>7, <1>8, <1>9, <1>10 DEF Protocol

\* Time passes, but not so much that a claimed row of a live request ages.
LEMMA TickProtocol ==
    ASSUME IInv, NoFaults, Tick
    PROVE  Protocol'
<1>1. Shape /\ Protocol /\ TypeOK
  BY DEF IInv, Shape
<1>2. UNCHANGED <<locks, bookings, op, stranded, releasing>> /\ now' = now + 1 /\ now \in Nat
  BY <1>1 DEF Tick, TypeOK
<1>3. ASSUME NEW v \in Workers PROVE ClaimsKept(v)'
  <2>1. \A n \in op[v].claimed : locks[op[v].room][n].owner = op[v].bk =>
          now + 1 < locks[op[v].room][n].created + MinAge
    BY DEF Tick, NoFaults
  <2>2. ClaimsKept(v)
    BY <1>1 DEF Protocol
  <2> QED
    BY <1>2, <2>1, <2>2 DEF ClaimsKept, Busy, Nights, Status
<1>4. ASSUME NEW v \in Workers PROVE RecoverySound(v)'
  <2>1. RecoveryFrame
    BY <1>2 DEF RecoveryFrame, LocksStep
  <2> QED
    BY <1>1, <1>2, <2>1, RecoveryKept DEF Protocol
<1>5. /\ Serial' /\ StrandedAbsent' /\ ReleasingTerminal'
      /\ \A v \in Workers : OpAgrees(v)' /\ MoveExclusive(v)'
  BY <1>1, <1>2 DEF Protocol, Serial, StrandedAbsent, ReleasingTerminal, OpAgrees,
                    MoveExclusive, Busy, Nights, Status
<1>6. /\ \A c \in Bookings : Held(c)'
      /\ \A r \in Rooms, n \in AllNights : Owned(r, n)'
  BY <1>1, <1>2 DEF Protocol, Held, Owned, Moving, ClaimedBy, AtPlace, Busy, Status
<1> QED
  BY <1>3, <1>4, <1>5, <1>6 DEF Protocol

-----------------------------------------------------------------------------
(* Each action keeps the protocol *)

\* A handler goes to another step and touches nothing.
LEMMA ProgressStep ==
    ASSUME IInv, NEW w \in Workers, op[w].pc \notin {"idle", "undo"}, op'[w].pc # "idle",
           Others(w), SameClaims(w),
           op[w].kind = "assign" => "write" \notin {op[w].pc, op'[w].pc},
           RecoverySound(w)', UNCHANGED <<locks, bookings, stranded, releasing, now>>
    PROVE  Protocol'
<1>1. \A v \in Workers : Benign(v)
  BY DEF Benign, Others
<1>2. QuietLocks /\ QuietBookings
  BY DEF QuietLocks, QuietBookings, Status
<1>3. ReleasingTerminal'
  BY DEF IInv, Protocol, ReleasingTerminal, Status
<1> QED
  BY <1>1, <1>2, <1>3, QuietStep

LEMMA SettleProtocol ==
    ASSUME IInv, NEW w \in Workers, op[w].pc \in Claiming, NEW existing,
           existing.owner = op[w].bk => Here(w).owner = op[w].bk,
           SettleDuplicate(w, existing), UNCHANGED <<locks, bookings, stranded, releasing, now>>
    PROVE  Protocol'
<1>1. Shape /\ TypeOK /\ op[w].pc # "idle" /\ op[w].kind \in {"create", "assign"}
  BY BusyFacts DEF IInv, Shape, Claiming
<1>2. CASE op[w].kind = "assign" /\ existing.owner = op[w].bk
  <2>1. NextNight(w, {}) /\ locks'[op[w].room][Night(w)].owner = op[w].bk
    BY <1>2 DEF SettleDuplicate, Here
  <2>2. /\ Others(w) /\ SameRequest(w) /\ op'[w].todo = op[w].todo \ {Night(w)}
        /\ op'[w].claimed = op[w].claimed \cup {}
        /\ op'[w].pc = AfterClaims(op[w].kind, op'[w].todo)
    BY <1>1, <2>1, NextNightEffect
  <2> QED
    BY <1>2, <2>1, <2>2, SecureStep
<1>3. CASE ~(op[w].kind = "assign" /\ existing.owner = op[w].bk)
  <2>1. Others(w) /\ SameClaims(w) /\ op'[w].pc = "undo"
    BY <1>1, <1>3, GotoEffect DEF SettleDuplicate, Steps
  <2>2. RecoverySound(w)'
    BY <2>1 DEF RecoverySound
  <2> QED
    BY <1>1, <2>1, <2>2, ProgressStep DEF Claiming
<1> QED
  BY <1>2, <1>3

LEMMA InsertLockProtocol ==
    ASSUME IInv, NEW w \in Workers, op[w].pc \in {"claim", "reinsert"},
           NEW dup \in {"read", "reread"}, InsertLock(w, dup)
    PROVE  Protocol'
<1>1. /\ Shape /\ TypeOK /\ op[w].pc # "idle" /\ op[w].pc \in Claiming
      /\ op[w].kind \in {"create", "assign"} /\ op[w].room \in Rooms /\ Night(w) \in AllNights
      /\ UNCHANGED <<bookings, stranded, releasing, now>>
  BY BusyFacts DEF IInv, Shape, Claiming, InsertLock
<1>2. CASE Here(w) = NoLock
  <2>1. /\ locks' = [locks EXCEPT ![op[w].room][Night(w)] = [owner |-> op[w].bk, created |-> now]]
        /\ NextNight(w, {Night(w)})
    BY <1>2 DEF InsertLock
  <2>2. /\ Others(w) /\ SameRequest(w) /\ op'[w].todo = op[w].todo \ {Night(w)}
        /\ op'[w].claimed = op[w].claimed \cup {Night(w)}
        /\ op'[w].pc = AfterClaims(op[w].kind, op'[w].todo)
    BY <1>1, <2>1, NextNightEffect
  <2>3. /\ locks'[op[w].room][Night(w)].owner = op[w].bk
        /\ locks'[op[w].room][Night(w)].created = now
        /\ \A r \in Rooms, n \in AllNights :
             r # op[w].room \/ n # Night(w) => locks'[r][n] = locks[r][n]
    BY <1>1, <2>1 DEF TypeOK
  <2>4. locks[op[w].room][Night(w)].owner = Nobody
    BY <1>2 DEF Here, NoLock
  <2> QED
    BY <1>1, <2>2, <2>3, <2>4, SecureStep
<1>3. CASE Here(w) # NoLock
  <2>1. Goto(w, dup) /\ locks' = locks
    BY <1>3 DEF InsertLock
  <2>2. Others(w) /\ SameClaims(w) /\ op'[w].pc = dup
    BY <1>1, <2>1, GotoEffect DEF Steps
  <2>3. RecoverySound(w)'
    BY <2>2 DEF RecoverySound
  <2> QED
    BY <1>1, <2>1, <2>2, <2>3, ProgressStep
<1> QED
  BY <1>2, <1>3

LEMMA CheckOverlapProtocol ==
    ASSUME IInv, NEW w \in Workers, CheckOverlap(w)
    PROVE  Protocol'
<1>1. /\ Shape /\ TypeOK /\ op[w].pc = "overlap" /\ op[w].kind \in {"create", "assign"}
      /\ UNCHANGED <<locks, bookings, stranded, releasing, now>>
  BY BusyFacts DEF IInv, Shape, CheckOverlap
<1>2. CASE Finish(w)
  BY <1>1, <1>2, RefusedProtocol
<1>3. CASE Goto(w, AfterClaims(op[w].kind, op[w].todo))
  <2>1. PICK next : next = AfterClaims(op[w].kind, op[w].todo)
    OBVIOUS
  <2>2. next \in {"claim", "write", "obsolete"} /\ (op[w].kind = "assign" => next # "write")
    BY <1>1, <2>1, AfterClaimsValue
  <2>3. next \in Steps
    BY <2>2 DEF Steps
  <2>4. Others(w) /\ SameClaims(w) /\ op'[w].pc = next
    BY <1>1, <1>3, <2>1, <2>3, GotoEffect
  <2>5. RecoverySound(w)'
    BY <2>2, <2>4 DEF RecoverySound
  <2> QED
    BY <1>1, <2>2, <2>4, <2>5, ProgressStep
<1> QED
  BY <1>2, <1>3 DEF CheckOverlap

\* The row read is old only if no live request claimed it: whoever owns it has
\* ended, died, or stands on it.
LEMMA ReadExistingProtocol ==
    ASSUME IInv, NEW w \in Workers, ReadExisting(w)
    PROVE  Protocol'
<1>1. /\ Shape /\ Protocol /\ TypeOK /\ op[w].pc = "read"
      /\ UNCHANGED <<locks, bookings, stranded, releasing, now>>
  BY DEF IInv, Shape, ReadExisting
<1>2. CASE SettleDuplicate(w, Here(w))
  BY <1>1, <1>2, SettleProtocol DEF Claiming
<1>3. CASE /\ Here(w).owner \notin {Nobody, Block, op[w].bk}
           /\ op' = [op EXCEPT ![w] = [@ EXCEPT !.pc = "owner", !.seen = Here(w),
                                                !.old = LockIsOldEnough(Here(w))]]
  <2>1. PICK l, r, n : l = Here(w) /\ r = op[w].room /\ n = Night(w)
    OBVIOUS
  <2>2. r \in Rooms /\ n \in AllNights /\ l = locks[r][n] /\ l \in Lock
    BY <1>1, <2>1, BusyFacts DEF Claiming, Here, TypeOK
  <2>3. LockIsOldEnough(Here(w)) \in BOOLEAN
    BY DEF LockIsOldEnough
  <2>4. /\ Others(w) /\ SameClaims(w) /\ op'[w].pc = "owner"
        /\ op'[w].seen = l /\ op'[w].old = LockIsOldEnough(Here(w))
    <3>1. Here(w) \in Lock
      BY <2>1, <2>2
    <3>2. /\ Others(w) /\ SameClaims(w) /\ op'[w].pc = "owner"
          /\ op'[w].seen = Here(w) /\ op'[w].old = LockIsOldEnough(Here(w))
      BY <1>1, <1>3, <2>3, <3>1, SeenEffect, Zenon
    <3> QED
      BY <2>1, <3>2, Zenon
  <2>5. PICK c : c = l.owner
    OBVIOUS
  <2>6. c \in Bookings /\ c # op[w].bk
    BY <1>3, <2>1, <2>2, <2>5 DEF Lock
  <2>7. ASSUME LockIsOldEnough(Here(w)), NEW v \in Workers PROVE ~ClaimedBy(v, c, r, n) \/ Status(c) = "terminal"
    <3> SUFFICES ASSUME ClaimedBy(v, c, r, n), Status(c) # "terminal" PROVE FALSE
      OBVIOUS
    <3>1. now < l.created + MinAge
      BY <1>1, <2>2 DEF ClaimedBy, Protocol, ClaimsKept
    <3>2. l.created \in Nat /\ now \in Nat
      BY <1>1, <2>2 DEF Lock, TypeOK
    <3> QED
      BY <2>1, <2>7, <3>1, <3>2, ConstantsAssumption DEF LockIsOldEnough
  <2>8. Status(c) \in {"absent", "active", "terminal"}
    BY <1>1, <2>6 DEF TypeOK, Booking, Status
  <2>9. LockIsOldEnough(Here(w)) =>
          \/ Status(c) = "terminal" \/ c \in stranded
          \/ Status(c) = "active" /\ AtPlace(c, r, n)
    <3>1. Owned(r, n) /\ locks[r][n].owner = c
      BY <1>1, <2>2, <2>5 DEF Protocol
    <3> QED
      BY <2>6, <2>7, <2>8, <3>1 DEF Owned
  <2>10. Night(w)' = n
    BY <2>1, <2>4 DEF Night, SameClaims, SameRequest
  <2>11. RecoverySound(w)'
    <3>1. LockIsOldEnough(Here(w)) => l.created + MinAge <= now
      BY <1>1, <2>1, <2>2, ConstantsAssumption DEF Lock, TypeOK, LockIsOldEnough
    <3> QED
      BY <1>1, <2>1, <2>4, <2>5, <2>6, <2>9, <2>10, <3>1
         DEF RecoverySound, SameClaims, SameRequest, Status, AtPlace
  <2> QED
    BY <1>1, <2>4, <2>11, ProgressStep
<1> QED
  BY <1>2, <1>3 DEF ReadExisting

LEMMA ReadOwnerProtocol ==
    ASSUME IInv, NEW w \in Workers, ReadOwner(w)
    PROVE  Protocol'
<1>1. /\ Shape /\ Protocol /\ TypeOK /\ op[w].pc = "owner" /\ RecoverySound(w)
      /\ UNCHANGED <<locks, bookings, stranded, releasing, now>>
  BY DEF IInv, Shape, Protocol, ReadOwner
<1>2. op[w].seen.owner \in Bookings \ {op[w].bk}
  BY <1>1 DEF RecoverySound
<1>3. CASE SettleDuplicate(w, op[w].seen)
  BY <1>1, <1>2, <1>3, SettleProtocol DEF Claiming
<1>4. CASE /\ StaleReason(bookings[op[w].seen.owner], op[w].room, Night(w), op[w].old)
           /\ Goto(w, "retire")
  <2>1. /\ Others(w) /\ SameClaims(w) /\ op'[w].pc = "retire"
        /\ op'[w].seen = op[w].seen /\ op'[w].old = op[w].old
    BY <1>1, <1>4, GotoEffect DEF Steps
  <2>2. Here(w)' = Here(w)
    BY <1>1, <2>1 DEF Here, Night, SameClaims, SameRequest
  <2>3. \/ Status(op[w].seen.owner) = "terminal"
        \/ op[w].old /\ (op[w].seen.owner \in stranded \/ Here(w) # op[w].seen)
    BY <1>1, <1>4 DEF RecoverySound, StaleReason, Status, AtPlace
  <2>4. RecoverySound(w)'
    BY <1>1, <1>2, <2>1, <2>2, <2>3 DEF RecoverySound, SameClaims, SameRequest, Status
  <2> QED
    BY <1>1, <2>1, <2>4, ProgressStep
<1> QED
  BY <1>3, <1>4 DEF ReadOwner

LEMMA RetireStaleLockProtocol ==
    ASSUME IInv, NEW w \in Workers, RetireStaleLock(w)
    PROVE  Protocol'
<1>1. /\ Shape /\ Protocol /\ TypeOK /\ op[w].pc = "retire" /\ RecoverySound(w)
      /\ UNCHANGED <<bookings, stranded, releasing, now>>
  BY DEF IInv, Shape, Protocol, RetireStaleLock
<1>2. op[w].seen.owner \in Bookings \ {op[w].bk}
  BY <1>1 DEF RecoverySound
<1>3. CASE Here(w) # op[w].seen
  BY <1>1, <1>2, <1>3, SettleProtocol DEF RetireStaleLock, Claiming
<1>4. CASE Here(w) = op[w].seen
  <2>1. PICK r, n, c : r = op[w].room /\ n = Night(w) /\ c = op[w].seen.owner
    OBVIOUS
  <2>2. Goto(w, "reinsert") /\ locks' = [locks EXCEPT ![r][n] = NoLock]
    BY <1>4, <2>1 DEF RetireStaleLock
  <2>3. Others(w) /\ SameClaims(w) /\ op'[w].pc = "reinsert"
    BY <1>1, <2>2, GotoEffect DEF Steps
  <2>4. r \in Rooms /\ n \in AllNights /\ locks[r][n].owner = c
    BY <1>1, <1>4, <2>1, BusyFacts DEF Claiming, Here
  <2>5. Status(c) = "terminal" \/ (c \in stranded /\ locks[r][n].created + MinAge <= now)
    BY <1>1, <1>4, <2>1 DEF RecoverySound, Here
  <2>6. QuietBookings
    BY <1>1 DEF QuietBookings, Status
  <2>7. QuietLocks
    <3>1. NoLock.owner = Nobody /\ Nobody \notin Bookings
      BY ConstantsAssumption DEF NoLock
    <3>2. locks'[r][n] = NoLock
      BY <1>1, <2>2, <2>4 DEF TypeOK
    <3>3. \A x \in Rooms, m \in AllNights : x # r \/ m # n => locks'[x][m] = locks[x][m]
      BY <1>1, <2>2, <2>4 DEF TypeOK
    <3> QED
      BY <1>1, <2>4, <2>5, <3>1, <3>2, <3>3 DEF QuietLocks, Status
  <2>8. \A v \in Workers : Benign(v)
    <3>1. RecoverySound(w)'
      BY <2>3 DEF RecoverySound
    <3> QED
      BY <1>1, <2>3, <3>1 DEF Benign, Others
  <2>9. ReleasingTerminal'
    BY <1>1 DEF Protocol, ReleasingTerminal, Status
  <2> QED
    BY <1>1, <2>6, <2>7, <2>8, <2>9, QuietStep
<1> QED
  BY <1>3, <1>4

LEMMA StepProtocol ==
    ASSUME IInv, NEW w \in Workers, Step(w)
    PROVE  Protocol'
<1>1. CASE ClaimNight(w)
  BY <1>1, InsertLockProtocol DEF ClaimNight
<1>2. CASE ReclaimNight(w)
  BY <1>2, InsertLockProtocol DEF ReclaimNight
<1>3. CASE RereadExisting(w)
  BY <1>3, SettleProtocol DEF RereadExisting, Claiming
<1> QED
  BY <1>1, <1>2, <1>3, CheckOverlapProtocol, ReadExistingProtocol, ReadOwnerProtocol,
     RetireStaleLockProtocol, CompensateProtocol, ReleaseObsoleteProtocol,
     InsertBookingProtocol, UpdateRoomProtocol DEF Step

LEMMA StartProtocol ==
    ASSUME IInv, NoFaults, NEW w \in Workers, Start(w)
    PROVE  Protocol'
<1>1. TypeOK
  BY DEF IInv, Shape
<1>2. ASSUME NEW b \in Bookings, NEW r \in Rooms \cup {NoRoom},
             NEW ci \in Dates, NEW co \in Dates, StartCreate(w, b, r, ci, co)
      PROVE  Protocol'
  <2>1. /\ op[w].pc = "idle" /\ bookings[b].status = "absent" /\ b \notin stranded /\ ~InFlight(b)
        /\ UNCHANGED <<locks, bookings, stranded, releasing, now>>
    BY <1>2 DEF StartCreate
  <2>2. /\ Others(w) /\ op'[w].kind = "create" /\ op'[w].bk = b /\ op'[w].claimed = {}
        /\ op'[w].pc \in {"overlap", "write"}
    BY <1>1, <1>2, StartCreateEffect
  <2>3. OpAgrees(w)'
    BY <2>1, <2>2 DEF OpAgrees, Status
  <2> QED
    BY <2>1, <2>2, <2>3, StartStep
<1>3. ASSUME NEW b \in Bookings, NEW r \in Rooms, StartAssign(w, b, r)
      PROVE  Protocol'
  <2>1. /\ op[w].pc = "idle" /\ bookings[b].status = "active" /\ ~InFlight(b)
        /\ UNCHANGED <<locks, bookings, stranded, releasing, now>>
    BY <1>3 DEF StartAssign, NoFaults
  <2>2. /\ Others(w) /\ op'[w].kind = "assign" /\ op'[w].bk = b /\ op'[w].claimed = {}
        /\ op'[w].ci = bookings[b].ci /\ op'[w].co = bookings[b].co
        /\ op'[w].pc = "overlap" /\ op'[w].todo = NightDates(op'[w].ci, op'[w].co)
    BY <1>1, <1>3, StartAssignEffect
  <2>3. OpAgrees(w)'
    BY <2>1, <2>2 DEF OpAgrees, Status
  <2> QED
    BY <2>1, <2>2, <2>3, StartStep
<1> QED
  BY <1>2, <1>3 DEF Start

LEMMA FaultProtocol ==
    ASSUME IInv, NoFaults, NEW w \in Workers, Fault(w)
    PROVE  Protocol'
<1>1. CASE CreateFails(w)
  <2>1. /\ op[w].pc \notin {"idle", "undo"} /\ op[w].kind = "create" /\ Goto(w, "undo") /\ TypeOK
        /\ UNCHANGED <<locks, bookings, stranded, releasing, now>>
    BY <1>1 DEF CreateFails, Steps, IInv, Shape
  <2>2. Others(w) /\ SameClaims(w) /\ op'[w].pc = "undo"
    BY <2>1, GotoEffect DEF Steps
  <2>3. RecoverySound(w)'
    BY <2>2 DEF RecoverySound
  <2> QED
    BY <2>1, <2>2, <2>3, ProgressStep
<1>2. CASE Crash(w)
  BY <1>2, CrashProtocol DEF Crash, NoFaults
<1> QED
  BY <1>1, <1>2, LostRowProtocol, CompensateFailsProtocol DEF Fault, InsertLosesAck, NoFaults

LEMMA EnvironmentProtocol ==
    ASSUME IInv, NoFaults, (\E b \in Bookings : StayEnds(b)) \/ Blocking \/ Tick
    PROVE  Protocol'
<1>1. Shape /\ Protocol /\ TypeOK
  BY DEF IInv, Shape
<1>2. NoLock.owner = Nobody /\ Nobody \notin Bookings /\ Block \notin Bookings
  BY ConstantsAssumption DEF NoLock
<1>3. ASSUME op' = op, stranded' = stranded, now' = now, QuietLocks, QuietBookings, ReleasingTerminal'
      PROVE  Protocol'
  BY <1>3, QuietStep DEF Benign
<1>4. ASSUME bookings' = bookings PROVE QuietBookings
  BY <1>4 DEF QuietBookings, Status
<1>5. ASSUME NEW b \in Bookings,
             Status(b) = "active", bookings' = [bookings EXCEPT ![b].status = "terminal"]
      PROVE  /\ QuietBookings /\ Status(b)' = "terminal"
             /\ \A c \in Bookings : bookings[c].status = "terminal" => bookings'[c].status = "terminal"
  <2>1. bookings' = [bookings EXCEPT ![b] = [bookings[b] EXCEPT !.status = "terminal"]]
    BY <1>5
  <2>2. bookings[b] \in Booking /\ bookings \in [Bookings -> Booking]
    BY <1>1 DEF TypeOK
  <2>3. /\ bookings'[b].status = "terminal" /\ bookings'[b].room = bookings[b].room
        /\ bookings'[b].ci = bookings[b].ci /\ bookings'[b].co = bookings[b].co
        /\ \A c \in Bookings \ {b} : bookings'[c] = bookings[c]
    BY <2>1, <2>2 DEF Booking
  <2> QED
    BY <1>5, <2>3 DEF QuietBookings, Status
<1>6. ASSUME NEW b, NEW s, locks' = Without(b, s),
             b \in Bookings => bookings'[b].status = "terminal"
      PROVE  QuietLocks
  <2>1. \A r \in Rooms, n \in AllNights :
          \/ locks'[r][n] = locks[r][n]
          \/ locks'[r][n] = NoLock /\ locks[r][n].owner = b
    BY <1>6 DEF Without
  <2> QED
    BY <1>2, <1>6, <2>1 DEF QuietLocks, Status
<1>7. ASSUME locks' = locks PROVE QuietLocks
  BY <1>7 DEF QuietLocks
<1>8. ASSUME NEW b \in Bookings, StayEnds(b) PROVE Protocol'
  <2>1. CASE Cancel(b)
    <3>1. QuietBookings /\ ReleasingTerminal'
      BY <1>1, <1>5, <2>1 DEF Cancel, Protocol, ReleasingTerminal, Status, TypeOK
    <3> QED
      BY <1>3, <1>7, <2>1, <3>1 DEF Cancel
  <2>2. CASE ReleaseBookingNights(b)
    <3>1. ReleasingTerminal' /\ bookings'[b].status = "terminal"
      BY <1>1, <2>2 DEF ReleaseBookingNights, Protocol, ReleasingTerminal, Status
    <3>2. QuietLocks
      BY <1>6, <2>2, <3>1 DEF ReleaseBookingNights
    <3> QED
      BY <1>3, <1>4, <2>2, <3>1, <3>2 DEF ReleaseBookingNights
  <2>3. CASE ReleaseFails(b)
    <3>1. ReleasingTerminal'
      BY <1>1, <2>3 DEF ReleaseFails, Protocol, ReleasingTerminal, Status
    <3> QED
      BY <1>3, <1>4, <1>7, <2>3, <3>1 DEF ReleaseFails
  <2>4. CASE CheckOut(b)
    <3>1. /\ QuietBookings /\ ReleasingTerminal' /\ bookings'[b].status = "terminal"
      BY <1>1, <1>5, <2>4 DEF CheckOut, Protocol, ReleasingTerminal, Status, TypeOK
    <3>2. QuietLocks
      BY <1>6, <2>4, <3>1 DEF CheckOut
    <3> QED
      BY <1>3, <2>4, <3>1, <3>2 DEF CheckOut
  <2> QED
    BY <1>8, <2>1, <2>2, <2>3, <2>4 DEF StayEnds
<1>9. ASSUME UNCHANGED <<bookings, op, stranded, releasing, now>>, QuietLocks PROVE Protocol'
  <2>1. ReleasingTerminal'
    BY <1>1, <1>9 DEF Protocol, ReleasingTerminal, Status
  <2> QED
    BY <1>3, <1>4, <1>9, <2>1
<1>10. ASSUME NEW r \in Rooms, NEW n \in AllNights, ApplyRoomBlock(r, n) PROVE Protocol'
  <2>1. /\ locks[r][n].owner = Nobody
        /\ locks'[r][n].owner = Block /\ locks'[r][n].created = now
        /\ \A x \in Rooms, m \in AllNights : x # r \/ m # n => locks'[x][m] = locks[x][m]
    BY <1>1, <1>2, <1>10 DEF ApplyRoomBlock, TypeOK
  <2>2. QuietLocks
    BY <1>2, <2>1 DEF QuietLocks
  <2> QED
    BY <1>9, <1>10, <2>2 DEF ApplyRoomBlock
<1>11. ASSUME NEW r \in Rooms, NEW ci \in Dates, NEW co \in Dates, ReleaseRoomBlock(r, ci, co)
       PROVE  Protocol'
  <2>1. PICK s : locks' = Without(Block, s)
    BY <1>11 DEF ReleaseRoomBlock
  <2>2. QuietLocks
    BY <1>2, <1>6, <2>1
  <2> QED
    BY <1>9, <1>11, <2>2 DEF ReleaseRoomBlock
<1> QED
  BY <1>8, <1>10, <1>11, TickProtocol DEF Blocking

LEMMA InitIInv == Init => IInv
<1> SUFFICES ASSUME Init PROVE IInv
  OBVIOUS
<1>1. Shape
  BY InitShape
<1>2. /\ \A w \in Workers : op[w].pc = "idle"
      /\ \A b \in Bookings : bookings[b].status = "absent"
      /\ \A r \in Rooms, n \in AllNights : locks[r][n].owner = Nobody
      /\ stranded = {} /\ releasing = {}
  BY IdleType DEF Init, Absent, NoLock
<1>3. Protocol
  BY <1>2, ConstantsAssumption
     DEF Protocol, Serial, OpAgrees, StrandedAbsent, ReleasingTerminal, ClaimsKept, Held, Owned,
         RecoverySound, MoveExclusive, Busy, Status
<1> QED
  BY <1>1, <1>3 DEF IInv

LEMMA NextIInv == NoFaults /\ IInv /\ [Next]_vars => IInv'
<1> SUFFICES ASSUME NoFaults, IInv, [Next]_vars PROVE IInv'
  OBVIOUS
<1>1. Shape'
  BY NextShape DEF IInv
<1>2. CASE Next
  <2>1. Protocol'
    BY <1>2, StartProtocol, StepProtocol, FaultProtocol, EnvironmentProtocol DEF Next
  <2> QED
    BY <1>1, <2>1 DEF IInv
<1>3. CASE UNCHANGED vars
  <2>1. /\ \A v \in Workers : Benign(v)
        /\ QuietLocks /\ QuietBookings /\ ReleasingTerminal' /\ stranded' = stranded /\ now' = now
    BY <1>3 DEF vars, Benign, QuietLocks, QuietBookings, IInv, Protocol, ReleasingTerminal, Status
  <2> QED
    BY <1>1, <2>1, QuietStep DEF IInv
<1> QED
  BY <1>2, <1>3

-----------------------------------------------------------------------------
(* What the invariant gives *)

\* Place, without its CHOOSE.
LEMMA PlaceValue ==
    ASSUME IInv, NEW b \in Bookings
    PROVE  /\ Status(b) # "active" => Place(b) = NoPlace
           /\ Status(b) = "active" =>
                /\ \A w \in Workers : op[w].bk = b /\ op[w].kind = "assign" /\ op[w].pc = "write" =>
                      Place(b) = [room |-> op[w].room, nights |-> Nights(w)]
                /\ ~Moving(b) /\ bookings[b].room = NoRoom => Place(b) = NoPlace
                /\ ~Moving(b) /\ bookings[b].room # NoRoom =>
                      Place(b) = [room |-> bookings[b].room,
                                  nights |-> NightDates(bookings[b].ci, bookings[b].co)]
<1>1. \A v, w \in Workers : /\ op[v].bk = b /\ op[v].pc = "write"
                             /\ op[w].bk = b /\ op[w].pc = "write" => v = w
  BY DEF IInv, Protocol, Serial, Busy
<1>2. ASSUME Status(b) = "active", NEW w \in Workers,
             op[w].bk = b, op[w].kind = "assign", op[w].pc = "write"
      PROVE  Place(b) = [room |-> op[w].room, nights |-> Nights(w)]
  <2>1. (CHOOSE v \in Workers : op[v].bk = b /\ op[v].pc = "write") = w
    BY <1>1, <1>2
  <2> QED
    BY <1>2, <2>1 DEF Place, Status
<1> QED
  BY <1>2 DEF Place, Moving, Status

LEMMA IInvHoldsLocks == IInv => ActiveBookingHoldsLocks
<1> SUFFICES ASSUME IInv, NEW b \in Bookings, NEW n \in Place(b).nights
             PROVE  locks[Place(b).room][n].owner = b
  BY DEF ActiveBookingHoldsLocks
<1>1. Shape /\ Protocol
  BY DEF IInv
<1>2. Status(b) = "active"
  BY PlaceValue DEF NoPlace
<1>3. CASE Moving(b)
  <2>1. PICK w \in Workers : op[w].bk = b /\ op[w].kind = "assign" /\ op[w].pc = "write"
    BY <1>3 DEF Moving
  <2>2. Place(b) = [room |-> op[w].room, nights |-> Nights(w)]
    BY <1>2, <2>1, PlaceValue
  <2>3. op[w].todo = {} /\ ClaimsKept(w)
    BY <1>1, <2>1, BusyFacts DEF OpShape, Protocol
  <2> QED
    BY <1>2, <2>1, <2>2, <2>3 DEF ClaimsKept, Busy
<1>4. CASE ~Moving(b)
  BY <1>1, <1>2, <1>4, PlaceValue DEF Protocol, Held, NoPlace
<1> QED
  BY <1>3, <1>4

LEMMA HoldsLocksNoDouble == ActiveBookingHoldsLocks => NoDoubleBooking
BY DEF ActiveBookingHoldsLocks, NoDoubleBooking

LEMMA Invariance == ASSUME NoFaults PROVE Spec => []IInv
<1>1. IInv /\ [Next]_vars => IInv'
  BY NextIInv
<1> QED
  BY <1>1, InitIInv, PTL DEF Spec

\* Without faults, an active booking owns the lock row of each of its nights,
\* for any number of concurrent creations, assignments, recoveries and crashes.
THEOREM HoldsLocks == ASSUME NoFaults PROVE Spec => []ActiveBookingHoldsLocks
BY Invariance, IInvHoldsLocks, PTL

\* Without faults, no two active bookings share a room-night.
THEOREM NeverDoubleBooked == ASSUME NoFaults PROVE Spec => []NoDoubleBooking
BY Invariance, IInvHoldsLocks, HoldsLocksNoDouble, PTL

\* Without faults, a booking that was never written and that no request works on
\* owns no row, unless its creator died, lost the acknowledgement of a row, or
\* could not complete the roll back.
THEOREM AllOrNothing == ASSUME NoFaults PROVE Spec => []NoPartialClaim
<1>1. IInv => NoPartialClaim
  BY DEF IInv, Protocol, Owned, ClaimedBy, NoPartialClaim, InFlight, Busy, Status
<1> QED
  BY <1>1, Invariance, PTL

\* Without faults, a request takes a row from another owner only if that owner
\* is terminal or its creation left rows behind.
THEOREM TakesOnlyStale == ASSUME NoFaults PROVE Spec => RecoveryTakesOnlyStaleLocks
<1>1. IInv /\ [Next]_vars => [TakesOnlyStaleLocks]_vars
  <2> SUFFICES ASSUME IInv, Next, NEW v \in Workers, NEW r \in Rooms, NEW n \in AllNights,
                      op'[v] # op[v], locks[r][n].owner \notin {Nobody, op[v].bk},
                      locks'[r][n].owner # locks[r][n].owner
               PROVE  \/ locks[r][n].owner \in stranded
                      \/ /\ locks[r][n].owner \in Bookings
                         /\ bookings[locks[r][n].owner].status = "terminal"
    BY DEF TakesOnlyStaleLocks
  <2>1. Shape /\ Protocol /\ TypeOK
    BY DEF IInv, Shape
  <2>2. CASE \E w \in Workers : \/ Start(w) \/ CreateFails(w)
                                \/ InsertLosesAck(w) \/ Crash(w)
    BY <2>2, ZenonT(30) DEF Start, StartCreate, StartAssign, CreateFails, InsertLosesAck, Crash
  <2>5. ASSUME NEW w \in Workers, InsertLockLosesAck(w) PROVE FALSE
    <3>1. op[w].pc \in Claiming /\ op[w].pc # "idle" /\ Here(w).owner = Nobody
      BY <2>5 DEF InsertLockLosesAck, Claiming, NoLock
    <3>2. op[w].room \in Rooms /\ Night(w) \in AllNights
      BY <2>1, <3>1, BusyFacts
    <3> QED
      BY <2>1, <2>5, <3>1, <3>2 DEF InsertLockLosesAck, Here, TypeOK
  <2>6. ASSUME NEW w \in Workers, CompensateFails(w) PROVE FALSE
    <3>1. v = w
      BY <2>1, <2>6, FinishEffect DEF CompensateFails, Others
    <3>2. PICK s : locks' = Without(op[w].bk, s)
      BY <2>6 DEF CompensateFails
    <3> QED
      BY <3>1, <3>2 DEF Without
  <2>3. CASE (\E b \in Bookings : StayEnds(b)) \/ Blocking \/ Tick
    BY <2>3 DEF StayEnds, Blocking, Tick, Cancel, ReleaseBookingNights, ReleaseFails, CheckOut,
                ApplyRoomBlock, ReleaseRoomBlock
  <2>4. ASSUME NEW w \in Workers, Step(w), locks' # locks
        PROVE  \/ locks[r][n].owner \in stranded
               \/ /\ locks[r][n].owner \in Bookings
                  /\ bookings[locks[r][n].owner].status = "terminal"
    <3>1. \A d : InsertLock(w, d) /\ op[w].pc \in Claiming => locks[r][n].owner = locks'[r][n].owner
                                                             \/ locks[r][n].owner = Nobody
      <4> SUFFICES ASSUME NEW d, InsertLock(w, d), op[w].pc \in Claiming, Here(w) = NoLock
                   PROVE  locks[r][n].owner = locks'[r][n].owner \/ locks[r][n].owner = Nobody
        BY <2>4 DEF InsertLock
      <4>1. /\ op[w].room \in Rooms /\ Night(w) \in AllNights
            /\ locks[op[w].room][Night(w)].owner = Nobody
        BY <2>1, BusyFacts DEF Claiming, Here, NoLock
      <4>2. locks' = [locks EXCEPT ![op[w].room][Night(w)] = [owner |-> op[w].bk, created |-> now]]
        BY DEF InsertLock
      <4> QED
        BY <2>1, <4>1, <4>2 DEF TypeOK
    <3>2. CASE ClaimNight(w) \/ ReclaimNight(w)
      BY <3>1, <3>2 DEF ClaimNight, ReclaimNight, Claiming
    <3>3. CASE RetireStaleLock(w)
      <4>1. Here(w) = op[w].seen /\ locks' = [locks EXCEPT ![op[w].room][Night(w)] = NoLock]
        BY <2>4, <3>3 DEF RetireStaleLock
      <4>2. op[w].pc = "retire" /\ RecoverySound(w)
        BY <2>1, <3>3 DEF RetireStaleLock, Protocol
      <4>3. op[w].room \in Rooms /\ Night(w) \in AllNights
        BY <2>1, <4>2, BusyFacts DEF Claiming
      <4>4. r = op[w].room /\ n = Night(w)
        BY <2>1, <4>1, <4>3 DEF TypeOK
      <4>5. locks[r][n].owner = op[w].seen.owner
        BY <4>1, <4>4 DEF Here
      <4> QED
        BY <4>1, <4>2, <4>5 DEF RecoverySound, Status
    <3>4. CASE Compensate(w) \/ ReleaseObsolete(w)
      <4>1. op[w].pc # "idle" /\ op[w] # op'[w] /\ v = w
        <5>1. Compensate(w) => op'[w] = Idle /\ Others(w)
          BY <2>1, FinishEffect DEF Compensate
        <5>2. ReleaseObsolete(w) => op'[w].pc = "write" /\ Others(w)
          BY <2>1, GotoEffect DEF ReleaseObsolete, Steps
        <5> QED
          BY <3>4, <5>1, <5>2, IdleType DEF Compensate, ReleaseObsolete, Others
      <4>2. locks[r][n].owner # op[w].bk
        BY <4>1
      <4>3. PICK s : locks' = Without(op[w].bk, s)
        BY <3>4 DEF Compensate, ReleaseObsolete
      <4> QED
        BY <4>2, <4>3 DEF Without
    <3> QED
      BY <2>4, <3>2, <3>3, <3>4 DEF Step, CheckOverlap, ReadExisting, ReadOwner, RereadExisting,
                                    InsertBooking, UpdateRoom
  <2> QED
    BY <2>2, <2>3, <2>4, <2>5, <2>6 DEF Next, Fault
<1> QED
  BY <1>1, Invariance, PTL DEF Spec, RecoveryTakesOnlyStaleLocks

-----------------------------------------------------------------------------
(* The lock protocol implements the inventory *)

PlaceForm(b) ==
    Place(b) # NoPlace =>
        \E r \in Rooms, s \in SUBSET AllNights : Place(b) = [room |-> r, nights |-> s]

PlaceOK(b) ==
    /\ Status(b) # "active" => Place(b) = NoPlace
    /\ Status(b) = "active" =>
         /\ \A w \in Workers : op[w].bk = b /\ op[w].kind = "assign" /\ op[w].pc = "write" =>
               Place(b) = [room |-> op[w].room, nights |-> Nights(w)]
         /\ ~Moving(b) /\ bookings[b].room = NoRoom => Place(b) = NoPlace
         /\ ~Moving(b) /\ bookings[b].room # NoRoom =>
               Place(b) = [room |-> bookings[b].room,
                           nights |-> NightDates(bookings[b].ci, bookings[b].co)]

PlacesOK == \A b \in Bookings : PlaceOK(b) /\ PlaceForm(b)

LEMMA PlacesAreOK == IInv => PlacesOK /\ NoDoubleBooking
<1> SUFFICES ASSUME IInv PROVE PlacesOK
  BY IInvHoldsLocks, HoldsLocksNoDouble
<1> SUFFICES ASSUME NEW b \in Bookings PROVE PlaceOK(b) /\ PlaceForm(b)
  BY DEF PlacesOK
<1>1. PlaceOK(b)
  BY PlaceValue DEF PlaceOK
<1>2. ASSUME Status(b) = "active", NEW w \in Workers,
             op[w].bk = b, op[w].kind = "assign", op[w].pc = "write"
      PROVE  PlaceForm(b)
  <2>1. op[w].room \in Rooms
    BY <1>2 DEF IInv, Shape, TypeOK, Op, OpShape
  <2>2. Nights(w) \in SUBSET AllNights
    BY NightsAreDates DEF Nights
  <2>3. Place(b) = [room |-> op[w].room, nights |-> Nights(w)]
    BY <1>1, <1>2 DEF PlaceOK
  <2> QED
    BY <2>1, <2>2, <2>3 DEF PlaceForm
<1>3. ASSUME Status(b) = "active", ~Moving(b), bookings[b].room # NoRoom
      PROVE  PlaceForm(b)
  <2>1. bookings[b].room \in Rooms
    BY <1>3 DEF IInv, Shape, TypeOK, Booking
  <2>2. NightDates(bookings[b].ci, bookings[b].co) \in SUBSET AllNights
    BY NightsAreDates
  <2>3. Place(b) = [room |-> bookings[b].room,
                    nights |-> NightDates(bookings[b].ci, bookings[b].co)]
    BY <1>1, <1>3 DEF PlaceOK
  <2> QED
    BY <2>1, <2>2, <2>3 DEF PlaceForm
<1>4. Place(b) = NoPlace => PlaceForm(b)
  BY DEF PlaceForm
<1> QED
  BY <1>1, <1>2, <1>3, <1>4 DEF PlaceOK, Moving

LEMMA PlacesAreOKNext == IInv' => PlacesOK' /\ NoDoubleBooking'
BY PlacesAreOK, PTL

\* The request of v is about to write the room of b.
Mover(v, b) == op[v].bk = b /\ op[v].kind = "assign" /\ op[v].pc = "write"

\* A step that says nothing about b.
Untouched(b) ==
    /\ bookings'[b] = bookings[b]
    /\ \A v \in Workers : op'[v] = op[v] \/ (~Mover(v, b) /\ ~Mover(v, b)')

LEMMA SamePlace ==
    ASSUME PlacesOK, PlacesOK', NEW b \in Bookings, Untouched(b)
    PROVE  Place(b)' = Place(b)
<1>1. PlaceOK(b) /\ PlaceOK(b)' /\ Status(b)' = Status(b)
  BY DEF PlacesOK, Untouched, Status
<1>2. CASE \E v \in Workers : Mover(v, b) \/ Mover(v, b)'
  <2>1. PICK v \in Workers : Mover(v, b) /\ Mover(v, b)' /\ op'[v] = op[v]
    BY <1>2 DEF Untouched, Mover
  <2>2. Nights(v)' = Nights(v)
    BY <2>1 DEF Nights
  <2> QED
    BY <1>1, <2>1, <2>2 DEF PlaceOK, Mover
<1>3. CASE ~\E v \in Workers : Mover(v, b) \/ Mover(v, b)'
  <2>1. ~Moving(b) /\ ~Moving(b)'
    BY <1>3 DEF Moving, Mover
  <2> QED
    BY <1>1, <2>1 DEF PlaceOK, Untouched
<1> QED
  BY <1>2, <1>3

\* A request stays with its booking, or ends.
LEMMA RequestIsLocal ==
    ASSUME IInv, NEW w \in Workers, Step(w) \/ Fault(w), NoFaults
    PROVE  /\ op[w].bk \in Bookings
           /\ \A c \in Bookings \ {op[w].bk} : Untouched(c)
<1>1. Shape /\ TypeOK
  BY DEF IInv, Shape
<1>2. op[w].pc # "idle"
  BY <1>1, IdleType DEF Step, Fault, CheckOverlap, ClaimNight, ReadExisting, ReadOwner, RetireStaleLock,
     ReclaimNight, RereadExisting, Compensate, ReleaseObsolete, InsertBooking, UpdateRoom,
     CreateFails, InsertLosesAck, InsertLockLosesAck, CompensateFails, Crash, Steps
<1>3. op[w].bk \in Bookings /\ op[w].kind \in {"create", "assign"}
  BY <1>1, <1>2 DEF Shape, OpShape
<1>4. \A c \in Bookings \ {op[w].bk} : bookings'[c] = bookings[c]
  BY <1>1 DEF Step, Fault, CheckOverlap, ClaimNight, ReadExisting, ReadOwner, RetireStaleLock,
     ReclaimNight, RereadExisting, Compensate, ReleaseObsolete, InsertBooking, UpdateRoom,
     CreateFails, InsertLosesAck, InsertLockLosesAck, CompensateFails, Crash, InsertLock,
     Inserted, TypeOK
<1>5. \A s : Goto(w, s) => Others(w) /\ op'[w].bk = op[w].bk
  BY <1>1 DEF Goto, TypeOK, Others, Op
<1>6. Finish(w) => Others(w) /\ op'[w].kind = "none"
  BY <1>1, FinishEffect DEF Idle
<1>7. \A s : NextNight(w, s) => Others(w) /\ op'[w].bk = op[w].bk
  BY <1>1 DEF NextNight, TypeOK, Others, Op
<1>8. \A e : SettleDuplicate(w, e) => Others(w) /\ op'[w].bk = op[w].bk
  BY <1>5, <1>7 DEF SettleDuplicate
<1>9. ReadExisting(w) => Others(w) /\ op'[w].bk = op[w].bk
  BY <1>1, <1>8 DEF ReadExisting, TypeOK, Others, Op
<1>10. \A d : InsertLock(w, d) => Others(w) /\ op'[w].bk = op[w].bk
  BY <1>5, <1>7 DEF InsertLock
<1>11. Step(w) => Others(w) /\ (op'[w].bk = op[w].bk \/ op'[w].kind = "none")
  BY <1>5, <1>6, <1>8, <1>9, <1>10 DEF Step, CheckOverlap, ClaimNight, ReadOwner,
     RetireStaleLock, ReclaimNight, RereadExisting, Compensate, ReleaseObsolete, InsertBooking,
     UpdateRoom
<1>12. Fault(w) => Others(w) /\ (op'[w].bk = op[w].bk \/ op'[w].kind = "none")
  BY <1>5, <1>6 DEF Fault, CreateFails, InsertLosesAck, InsertLockLosesAck, CompensateFails, Crash
<1> QED
  BY <1>3, <1>4, <1>11, <1>12 DEF Untouched, Mover, Others

\* Every step says something about one booking at most.
LEMMA OneIsTouched ==
    ASSUME NoFaults, IInv, [Next]_vars
    PROVE  \/ \A c \in Bookings : Untouched(c)
           \/ \E b \in Bookings : \A c \in Bookings \ {b} : Untouched(c)
<1>1. Shape /\ TypeOK
  BY DEF IInv, Shape
<1>2. CASE UNCHANGED vars
  BY <1>2 DEF vars, Untouched
<1>3. ASSUME NEW w \in Workers, Start(w) PROVE \A c \in Bookings : Untouched(c)
  <2>1. CASE \E b \in Bookings, r \in Rooms \cup {NoRoom}, ci, co \in Dates :
                StartCreate(w, b, r, ci, co)
    <3>1. PICK b \in Bookings, r \in Rooms \cup {NoRoom}, ci \in Dates, co \in Dates :
               StartCreate(w, b, r, ci, co)
      BY <2>1
    <3>2. Others(w) /\ op'[w].kind = "create"
      BY <1>1, <3>1, StartCreateEffect
    <3>3. bookings' = bookings /\ op[w].pc = "idle"
      BY <3>1 DEF StartCreate
    <3> QED
      BY <3>2, <3>3 DEF Untouched, Mover, Others
  <2>2. CASE \E b \in Bookings, r \in Rooms : StartAssign(w, b, r)
    <3>1. PICK b \in Bookings, r \in Rooms : StartAssign(w, b, r)
      BY <2>2
    <3>2. Others(w) /\ op'[w].pc = "overlap"
      BY <1>1, <3>1, StartAssignEffect
    <3>3. bookings' = bookings /\ op[w].pc = "idle"
      BY <3>1 DEF StartAssign
    <3> QED
      BY <3>2, <3>3 DEF Untouched, Mover, Others
  <2> QED
    BY <1>3, <2>1, <2>2 DEF Start
<1>4. ASSUME NEW b \in Bookings, StayEnds(b) PROVE \A c \in Bookings \ {b} : Untouched(c)
  BY <1>1, <1>4 DEF StayEnds, Cancel, ReleaseBookingNights, ReleaseFails, CheckOut, Untouched, TypeOK
<1>5. CASE Blocking \/ Tick
  BY <1>5 DEF Blocking, ApplyRoomBlock, ReleaseRoomBlock, Tick, Untouched
<1>6. ASSUME NEW w \in Workers, Step(w) \/ Fault(w)
      PROVE  \E b \in Bookings : \A c \in Bookings \ {b} : Untouched(c)
  BY <1>6, RequestIsLocal
<1> QED
  BY <1>2, <1>3, <1>4, <1>5, <1>6 DEF Next

\* The step of the inventory that takes booking b from its old place to its new one.
LEMMA PlaceStep ==
    ASSUME PlacesOK', NoDoubleBooking', NEW b \in Bookings,
           \A c \in Bookings \ {b} : Place(c)' = Place(c)
    PROVE  [Inventory!Next]_([c \in Bookings |-> Place(c)])
<1> DEFINE place == [c \in Bookings |-> Place(c)]
<1>1. place' = [place EXCEPT ![b] = Place(b)']
  OBVIOUS
<1>2. CASE Place(b)' = Place(b)
  BY <1>2
<1>3. CASE Place(b)' # Place(b) /\ Place(b)' = NoPlace
  <2>1. Inventory!NoPlace = NoPlace
    BY DEF Inventory!NoPlace, NoPlace
  <2>2. Inventory!Vacate(b)
    BY <1>1, <1>3, <2>1 DEF Inventory!Vacate
  <2> QED
    BY <2>2 DEF Inventory!Next
<1>4. CASE Place(b)' # NoPlace
  <2>1. PICK r \in Rooms, s \in SUBSET AllNights : Place(b)' = [room |-> r, nights |-> s]
    BY <1>4 DEF PlacesOK, PlaceForm, NoPlace
  <2>2. ASSUME NEW c \in Bookings \ {b}, Place(c).room = r PROVE Place(c).nights \cap s = {}
    <3>1. Place(c)' = Place(c)
      BY <2>2
    <3>2. Place(c)'.room = Place(b)'.room => Place(c)'.nights \cap Place(b)'.nights = {}
      BY <2>2 DEF NoDoubleBooking
    <3> QED
      BY <2>1, <2>2, <3>1, <3>2
  <2>3. Inventory!Free(b, r, s)
    BY <2>2 DEF Inventory!Free
  <2>4. Inventory!Occupy(b, r, s)
    BY <1>1, <2>1, <2>3 DEF Inventory!Occupy
  <2> QED
    BY <2>4 DEF Inventory!Next
<1> QED
  BY <1>2, <1>3, <1>4

\* Without faults, the requests that take a stay night by night, move it, give
\* it back, recover rows and die half way implement the inventory in which a
\* whole stay is taken, exchanged or given back at once.
THEOREM Refinement == ASSUME NoFaults PROVE Spec => ImplementsRoomInventory
<1> DEFINE place == [b \in Bookings |-> Place(b)]
<1>1. Init => Inventory!Init
  <2> SUFFICES ASSUME Init, NEW b \in Bookings PROVE Place(b) = NoPlace
    BY DEF Inventory!Init, Inventory!NoPlace, NoPlace
  <2> QED
    BY DEF Init, Place, Absent
<1>2. ASSUME IInv, IInv', [Next]_vars PROVE [Inventory!Next]_place
  <2>1. PlacesOK /\ PlacesOK' /\ NoDoubleBooking'
    BY <1>2, PlacesAreOK, PlacesAreOKNext
  <2>2. \A c \in Bookings : Untouched(c) => Place(c)' = Place(c)
    BY <2>1, SamePlace
  <2>3. CASE \A c \in Bookings : Untouched(c)
    BY <2>2, <2>3
  <2>4. CASE \E b \in Bookings : \A c \in Bookings \ {b} : Untouched(c)
    BY <2>1, <2>2, <2>4, PlaceStep
  <2> QED
    BY <1>2, <2>3, <2>4, OneIsTouched
<1> QED
  BY <1>1, <1>2, Invariance, PTL DEF Spec, ImplementsRoomInventory, Inventory!Spec

=============================================================================
