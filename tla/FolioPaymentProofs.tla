------------------------- MODULE FolioPaymentProofs -------------------------
(***************************************************************************)
(* Proofs about FolioPayment and its CashDrawer for any number of          *)
(* submissions, voids and shifts: a replay names a payment that exists,    *)
(* the drawer follows the books, and, when calls are fast enough for the   *)
(* rows that guard them, a double submit pays once.                        *)
(***************************************************************************)
EXTENDS FolioPayment, FiniteSetTheorems, TLAPS

RequestState ==
    [pc : Steps \cup {"idle", "done", "crashed"}, keyed : BOOLEAN,
     at : Nat, seen : Nat, shift : Shifts \cup {NoShift}]

VoidState ==
    [pc : {"idle", "cas", "find", "push", "lookup", "undo"},
     pay : Payments \cup {NoPayment}, shift : Shifts \cup {NoShift}]

Outcomes == {"none", "paid", "replay", "in_flight", "duplicate", "refused", "error"}

\* A cashier works on an open shift, and an open shift has a number.
DrawerOK ==
    /\ shift.open => shift.no \in Shifts
    /\ till.pc # "idle" => shift.open

\* A void under way knows its payment.
VoidOK == \A v \in Voids : void[v].pc # "idle" => void[v].pay \in Payments

TInv == TypeOK /\ DrawerOK /\ VoidOK

\* Only the request itself deletes a payment, on its way out.
GoneLate(q) == pay[q] = "gone" => req[q].pc \in {"free", "done", "crashed"}

\* Only a request with a key works on one, and only one without on the guard.
OnPath(q) ==
    /\ req[q].pc \in {"claim", "read", "complete"} => req[q].keyed
    /\ req[q].pc \in {"dedup", "observe", "again", "reclaim"} => ~req[q].keyed

\* The body of a completed key is the payment of a keyed request that got past
\* the completion; if the payment was deleted, the row is about to be.
SlotNamesPayment ==
    slot.st = "completed" =>
        /\ slot.pay \in Payments /\ req[slot.pay].keyed
        /\ req[slot.pay].pc \in {"find", "push", "lookup", "undo", "free", "done", "crashed"}
        /\ pay[slot.pay] = "gone" => slot.pay \in cut \/ req[slot.pay].pc = "free"

\* Void v has marked payment p and owes the refund record.
Owes(v, p) == void[v].pay = p /\ void[v].pc \in {"find", "push", "lookup", "undo"}

OwedExists(p) == (\E v \in Voids : Owes(v, p)) => pay[p] # "none"

\* A payment in the books has its records, or somebody is about to write them.
\* The request does not look at the voided mark, so both are said separately.
BooksOK(p) ==
    p \notin cut \cup unsaid =>
        /\ pay[p] \in {"live", "voided"} =>
              \/ Recorded(p, "in")
              \/ req[p].pc \in {"balance", "complete", "find", "push", "lookup", "undo"}
        /\ pay[p] = "voided" => Recorded(p, "out") \/ \E v \in Voids : Owes(v, p)

BInv == /\ TInv
        /\ \A q \in Payments : GoneLate(q) /\ OnPath(q) /\ OwedExists(q) /\ BooksOK(q)
        /\ SlotNamesPayment

-----------------------------------------------------------------------------

\* A call ends before the row of its key can expire, whether it is being
\* processed (Grace) or completed (Retention), and before an identical click can
\* find the row of the guard stale; the rows of the guard outlive the window.
\* With IDEMPOTENCY_PROCESSING_GRACE_SECONDS = 300, IDEMPOTENCY_RETENTION_SECONDS
\* one day and the default window of 10 seconds: a call takes at most 10 seconds.
Timely ==
    /\ CallTime <= Grace
    /\ CallTime <= Retention
    /\ CallTime <= Window + 1
    /\ Window < Grace

\* The request has the row of the key or of the guard.
Holding == {"check", "stamp", "insert", "balance", "complete", "find", "push", "lookup", "undo",
            "free", "release"}
Holds(q) == req[q].pc \in Holding

\* The row of the guard that q has observed is outside the window.
SeesStale(q) == req[q].at > req[q].seen + Window

\* A request under way is within its time; one that will take the row of the
\* guard away has seen that it is stale.
InTime(q) ==
    /\ req[q].pc \in Steps => req[q].at <= now /\ now < req[q].at + CallTime
    /\ req[q].pc = "reclaim" => SeesStale(q)

\* The row of a request that completed its key, and outlives the retention.
KeyKept(q) == slot.st = "completed" /\ slot.pay = q /\ slot.exp >= req[q].at + Retention

GuardKept(q) == dedup.held /\ dedup.at = req[q].at /\ dedup.exp >= req[q].at + Grace

\* The row is there while the request holds it, and is nobody else's.
RowKept(q) ==
    /\ Holds(q) /\ req[q].keyed =>
          /\ slot.st # "none"
          /\ slot.st = "processing" => slot.exp >= req[q].at + Grace
          /\ slot.st = "completed" => KeyKept(q)
          /\ req[q].pc \in {"find", "push", "lookup", "undo", "free"} => KeyKept(q)
    /\ Holds(q) /\ ~req[q].keyed => GuardKept(q)

\* The time in which payment p shuts out an identical one has passed.
Past(p) == IF req[p].keyed THEN now >= req[p].at + Retention ELSE now > req[p].at + Window

\* A confirmed payment keeps its row, or its time has passed.
PaidKept(p) ==
    answer[p] = "paid" =>
        /\ req[p].pc = "done"
        /\ Past(p) \/ (IF req[p].keyed THEN KeyKept(p) ELSE GuardKept(p))

SameRow(p, q) == p # q /\ req[p].keyed = req[q].keyed

\* q started late enough after p.
Apart(p, q) ==
    IF req[p].keyed THEN req[q].at + CallTime > req[p].at + Retention
                    ELSE req[q].at + CallTime > req[p].at + Window + 1

\* Two requests hold the row only one after the other, and the second one only
\* when the time of the first has passed.
Pairwise(p, q) ==
    SameRow(p, q) =>
        /\ ~(Holds(p) /\ Holds(q))
        /\ answer[p] = "paid" /\ Holds(q) => Past(p)
        /\ answer[p] = "paid" /\ answer[q] = "paid" => Apart(p, q) \/ Apart(q, p)

PInv == /\ \A q \in Payments : InTime(q) /\ RowKept(q) /\ PaidKept(q)
        /\ \A p, q \in Payments : Pairwise(p, q)

-----------------------------------------------------------------------------
(* What the steps of a request do to its record *)

LEMMA Bounds ==
    /\ Window \in Nat /\ Grace \in Nat /\ Retention \in Nat /\ CallTime \in Nat
    /\ Grace > 0 /\ Retention > 0 /\ CallTime > 0 /\ MaxShifts \in Nat /\ MaxTime \in Nat
    /\ NoPayment \notin Payments
BY PaymentAssumption, DrawerAssumption

\* The guard's row lives at least as long as the window and the grace period.
LEMMA GuardLifetime ==
    /\ Max({Window, Grace}) \in Nat
    /\ Max({Window, Grace}) >= Window
    /\ Max({Window, Grace}) >= Grace
<1>1. \E x \in {Window, Grace} : \A y \in {Window, Grace} : x >= y
  BY Bounds
<1>2. /\ Max({Window, Grace}) \in {Window, Grace}
      /\ \A y \in {Window, Grace} : Max({Window, Grace}) >= y
  BY <1>1 DEF Max
<1> QED
  BY <1>2, Bounds

\* The other requests stay where they are.
Frame(q) == \A p \in Payments \ {q} : req'[p] = req[p] /\ answer'[p] = answer[p]

\* A request keeps its key and its clock reading.
SameCall(q) == req'[q].keyed = req[q].keyed /\ req'[q].at = req[q].at

Moved(q, step) == /\ req' \in [Payments -> RequestState]
                  /\ answer' \in [Payments -> Outcomes]
                  /\ Frame(q) /\ SameCall(q) /\ req'[q].pc = step

LEMMA Typed == TypeOK => /\ req \in [Payments -> RequestState]
                         /\ answer \in [Payments -> Outcomes]
                         /\ void \in [Voids -> VoidState]
BY DEF TypeOK, RequestState, Outcomes, VoidState

LEMMA GotoEffect ==
    ASSUME TypeOK, NEW q \in Payments, NEW step \in Steps \cup {"idle", "done", "crashed"},
           Goto(q, step), UNCHANGED answer
    PROVE  Moved(q, step) /\ req'[q].shift = req[q].shift /\ req'[q].seen = req[q].seen
<1>1. req \in [Payments -> RequestState] /\ answer \in [Payments -> Outcomes]
  BY Typed
<1>2. req' \in [Payments -> RequestState]
  BY <1>1 DEF Goto, RequestState
<1> QED
  BY <1>1, <1>2 DEF Goto, Moved, Frame, SameCall, RequestState

LEMMA ReturnEffect ==
    ASSUME TypeOK, NEW q \in Payments, NEW outcome \in Outcomes, Return(q, outcome)
    PROVE  Moved(q, "done") /\ answer'[q] = outcome
<1>1. req \in [Payments -> RequestState] /\ answer \in [Payments -> Outcomes]
  BY Typed
<1>2. [pc |-> "done", keyed |-> req[q].keyed, at |-> req[q].at, seen |-> 0, shift |-> NoShift]
         \in RequestState
  BY <1>1 DEF RequestState
<1>3. req' \in [Payments -> RequestState]
  BY <1>1, <1>2 DEF Return
<1>4. answer' \in [Payments -> Outcomes] /\ answer'[q] = outcome
  BY <1>1 DEF Return
<1> QED
  BY <1>1, <1>3, <1>4 DEF Return, Moved, Frame, SameCall

LEMMA SeenEffect ==
    ASSUME TypeOK, NEW q \in Payments, NEW t \in Nat, UNCHANGED answer,
           req' = [req EXCEPT ![q].pc = "reclaim", ![q].seen = t]
    PROVE  Moved(q, "reclaim") /\ req'[q].seen = t
<1>1. req \in [Payments -> RequestState] /\ answer \in [Payments -> Outcomes]
  BY Typed
<1>2. "reclaim" \in Steps
  BY DEF Steps
<1>3. req' \in [Payments -> RequestState]
  BY <1>1, <1>2, ZenonT(30) DEF RequestState
<1> QED
  BY <1>1, <1>3 DEF Moved, Frame, SameCall, RequestState

LEMMA ShiftEffect ==
    ASSUME TypeOK, NEW q \in Payments, NEW s \in Shifts \cup {NoShift}, NEW step \in Steps,
           UNCHANGED answer, req' = [req EXCEPT ![q].pc = step, ![q].shift = s]
    PROVE  Moved(q, step)
<1>1. req \in [Payments -> RequestState] /\ answer \in [Payments -> Outcomes]
  BY Typed
<1>2. req' \in [Payments -> RequestState]
  BY <1>1, ZenonT(30) DEF RequestState
<1> QED
  BY <1>1, <1>2 DEF Moved, Frame, SameCall, RequestState

\* A push puts at most its own record into the open shift, and keeps the others.
LEMMA PushEffect ==
    ASSUME TypeOK, DrawerOK, NEW p \in Payments, NEW d \in Directions, NEW s, Push(p, d, s)
    PROVE  /\ tx' \subseteq Payments \X Directions \X Shifts
           /\ tx \subseteq tx'
           /\ PushMatches(p, d, s) => \E t \in Shifts : <<p, d, t>> \in tx'
<1>1. tx \subseteq Payments \X Directions \X Shifts
  BY DEF TypeOK, DrawerTypeOK
<1>2. CASE PushMatches(p, d, s)
  <2>1. s \in Shifts
    BY <1>2 DEF PushMatches, DrawerOK
  <2>2. tx' = tx \cup {<<p, d, s>>}
    BY <1>2 DEF Push
  <2> QED
    BY <1>1, <2>1, <2>2
<1>3. CASE ~PushMatches(p, d, s)
  <2>1. tx' = tx
    BY <1>3 DEF Push
  <2> QED
    BY <1>1, <1>3, <2>1
<1> QED
  BY <1>2, <1>3

LEMMA ActiveShiftTyped == TypeOK => ActiveShift \in Shifts \cup {NoShift}
BY DEF TypeOK, DrawerTypeOK, ActiveShift

-----------------------------------------------------------------------------
(* The type invariant *)

LEMMA TInvInit == Init => TInv
<1> SUFFICES ASSUME Init PROVE TInv
  OBVIOUS
<1> USE Bounds DEF Init, DrawerInit
<1>1. DrawerTypeOK /\ DrawerOK
  BY DEF DrawerTypeOK, DrawerOK, IdleTill, NoShift, Shifts
<1>2. slot \in [st : {"none", "processing", "completed"}, exp : Nat, pay : Payments \cup {NoPayment}]
  BY DEF NoSlot
<1>3. dedup \in [held : BOOLEAN, at : Nat, exp : Nat]
  <2>1. LeftOver \in [held : BOOLEAN, at : Nat, exp : Nat]
    BY GuardLifetime DEF LeftOver
  <2>2. NoDedup \in [held : BOOLEAN, at : Nat, exp : Nat]
    BY DEF NoDedup
  <2> QED
    BY <2>1, <2>2
<1>4. req \in [Payments -> RequestState]
  BY DEF IdleRequest, RequestState
<1>5. void \in [Voids -> VoidState] /\ VoidOK
  BY DEF IdleVoid, VoidState, VoidOK
<1> QED
  BY <1>1, <1>2, <1>3, <1>4, <1>5 DEF TInv, TypeOK, RequestState, VoidState

\* The rows of the key and of the guard keep their form.
RowsTyped ==
    /\ slot \in [st : {"none", "processing", "completed"}, exp : Nat, pay : Payments \cup {NoPayment}]
    /\ dedup \in [held : BOOLEAN, at : Nat, exp : Nat]

BooksTyped ==
    /\ pay \in [Payments -> {"none", "live", "voided", "gone"}]
    /\ born \in [Payments -> Shifts \cup {NoShift}]
    /\ tx \subseteq Payments \X Directions \X Shifts

\* What every step of request q keeps.
RequestStep(q) ==
    /\ req' \in [Payments -> RequestState] /\ answer' \in [Payments -> Outcomes] /\ Frame(q)
    /\ RowsTyped' /\ BooksTyped'
    /\ tx \subseteq tx' /\ req'[q].pc # "idle"
    /\ UNCHANGED <<shift, till, void, now>>
    /\ req[q].pc # "idle" => SameCall(q)

LEMMA TypedParts == TypeOK => RowsTyped /\ BooksTyped
BY DEF TypeOK, DrawerTypeOK, RowsTyped, BooksTyped

LEMMA FreshTyped ==
    ASSUME TypeOK, NEW q \in Payments
    PROVE  /\ FreshDedup(q) \in [held : BOOLEAN, at : Nat, exp : Nat]
           /\ [st |-> "processing", exp |-> req[q].at + Grace, pay |-> NoPayment] \in
                 [st : {"none", "processing", "completed"}, exp : Nat, pay : Payments \cup {NoPayment}]
           /\ [st |-> "completed", exp |-> now + Retention, pay |-> q] \in
                 [st : {"none", "processing", "completed"}, exp : Nat, pay : Payments \cup {NoPayment}]
<1>1. req[q].at \in Nat /\ now \in Nat
  BY DEF TypeOK
<1>2. /\ req[q].at + Max({Window, Grace}) \in Nat
      /\ req[q].at + Grace \in Nat /\ now + Retention \in Nat
  BY <1>1, GuardLifetime, Bounds
<1> QED
  BY <1>1, <1>2 DEF FreshDedup

LEMMA EmptyRows ==
    /\ NoDedup \in [held : BOOLEAN, at : Nat, exp : Nat]
    /\ NoSlot \in [st : {"none", "processing", "completed"}, exp : Nat, pay : Payments \cup {NoPayment}]
BY DEF NoDedup, NoSlot

LEMMA StartStep ==
    ASSUME TypeOK, NEW q \in Payments, NEW keyed \in BOOLEAN, Start(q, keyed)
    PROVE  /\ RequestStep(q) /\ UNCHANGED <<slot, dedup, answer, pay, tx, cut, unsaid>>
           /\ req[q].pc = "idle" /\ req'[q].pc \in {"claim", "dedup"} /\ req'[q].at = now
           /\ req'[q].pc = "claim" <=> req'[q].keyed
<1> DEFINE new == [pc |-> IF keyed THEN "claim" ELSE "dedup", keyed |-> keyed, at |-> now,
                   seen |-> 0, shift |-> NoShift]
<1>1. new \in RequestState
  BY DEF RequestState, Steps, TypeOK
<1>2. req \in [Payments -> RequestState] /\ req' = [req EXCEPT ![q] = new]
  BY Typed DEF Start
<1>3. req' \in [Payments -> RequestState] /\ req'[q] = new /\ \A p \in Payments \ {q} : req'[p] = req[p]
  <2> HIDE DEF new
  <2> QED
    BY <1>1, <1>2
<1>4. /\ req'[q].pc \in {"claim", "dedup"} /\ req'[q].at = now
      /\ req'[q].pc = "claim" <=> req'[q].keyed
  BY <1>3
<1>5. UNCHANGED <<pay, born, shift, tx, till, void, cut, unsaid, now, slot, dedup, answer>>
      /\ req[q].pc = "idle"
  BY DEF Start, BeforeWrite
<1> QED
  BY <1>3, <1>4, <1>5, Typed, TypedParts DEF RequestStep, Frame, RowsTyped, BooksTyped
\* A step of q that goes on to `step` and answers nobody.
GoesOn(q, step) == Moved(q, step) /\ UNCHANGED answer

Ends(q, outcome) == Moved(q, "done") /\ answer'[q] = outcome

\* What the steps of a request before its payment leave alone.
NoPay == UNCHANGED <<pay, tx, cut, unsaid>>

LEMMA StepByMove ==
    ASSUME TypeOK, NEW q \in Payments, NEW step, Moved(q, step), step # "idle",
           RowsTyped', BooksTyped', tx \subseteq tx', UNCHANGED <<shift, till, void, now>>
    PROVE  RequestStep(q)
BY DEF Moved, RequestStep

LEMMA QuietTyped ==
    ASSUME TypeOK
    PROVE  /\ UNCHANGED <<slot, dedup>> => RowsTyped'
           /\ UNCHANGED <<pay, born, tx>> => BooksTyped' /\ tx \subseteq tx'
BY TypedParts DEF RowsTyped, BooksTyped

LEMMA ClaimKeyStep ==
    ASSUME TypeOK, NEW q \in Payments, ClaimKey(q)
    PROVE  /\ RequestStep(q) /\ req[q].pc = "claim" /\ NoPay /\ UNCHANGED dedup
           /\ \/ /\ slot.st = "none" /\ GoesOn(q, "check")
                 /\ slot' = [st |-> "processing", exp |-> req[q].at + Grace, pay |-> NoPayment]
              \/ GoesOn(q, "read") /\ UNCHANGED slot
<1>1. /\ req[q].pc = "claim" /\ UNCHANGED <<dedup, answer>>
      /\ UNCHANGED <<pay, born, shift, tx, till, void, cut, unsaid, now>>
  BY DEF ClaimKey, BeforeWrite
<1>2. {"check", "read"} \subseteq Steps
  BY DEF Steps
<1>3. \/ /\ slot.st = "none" /\ Goto(q, "check")
         /\ slot' = [st |-> "processing", exp |-> req[q].at + Grace, pay |-> NoPayment]
      \/ Goto(q, "read") /\ UNCHANGED slot
  BY DEF ClaimKey
<1>4. \/ /\ slot.st = "none" /\ GoesOn(q, "check")
         /\ slot' = [st |-> "processing", exp |-> req[q].at + Grace, pay |-> NoPayment]
      \/ GoesOn(q, "read") /\ UNCHANGED slot
  BY <1>1, <1>2, <1>3, GotoEffect DEF GoesOn
<1>5. RowsTyped'
  BY <1>1, <1>4, FreshTyped, TypedParts DEF RowsTyped
<1>6. RequestStep(q)
  BY <1>1, <1>4, <1>5, StepByMove, QuietTyped DEF GoesOn
<1> QED
  BY <1>1, <1>4, <1>6 DEF NoPay

LEMMA ReadKeyStep ==
    ASSUME TypeOK, NEW q \in Payments, ReadKey(q)
    PROVE  /\ RequestStep(q) /\ req[q].pc = "read" /\ NoPay /\ UNCHANGED <<slot, dedup>>
           /\ Moved(q, "done") /\ answer'[q] \in {"replay", "in_flight"}
<1>1. /\ req[q].pc = "read" /\ UNCHANGED <<slot, dedup>>
      /\ UNCHANGED <<pay, born, shift, tx, till, void, cut, unsaid, now>>
  BY DEF ReadKey, BeforeWrite, guardVars
<1>2. PICK a \in {"replay", "in_flight"} : Return(q, a)
  BY DEF ReadKey
<1>3. Ends(q, a)
  BY <1>2, ReturnEffect DEF Ends, Outcomes
<1>4. RequestStep(q)
  BY <1>1, <1>3, StepByMove, QuietTyped DEF Ends
<1> QED
  BY <1>1, <1>3, <1>4 DEF NoPay, Ends

\* An attempt to insert the row of the guard.
Guarded(q) == ~dedup.held /\ dedup' = FreshDedup(q) /\ GoesOn(q, "check")

LEMMA ClaimDedupStep ==
    ASSUME TypeOK, NEW q \in Payments, ClaimDedup(q)
    PROVE  /\ RequestStep(q) /\ req[q].pc = "dedup" /\ NoPay /\ UNCHANGED slot
           /\ Guarded(q) \/ (UNCHANGED dedup /\ GoesOn(q, "observe"))
<1>1. /\ req[q].pc = "dedup" /\ UNCHANGED slot
      /\ UNCHANGED <<pay, born, shift, tx, till, void, cut, unsaid, now>>
  BY DEF ClaimDedup, BeforeWrite
<1>2. {"check", "observe"} \subseteq Steps
  BY DEF Steps
<1>3. \/ ~dedup.held /\ dedup' = FreshDedup(q) /\ Goto(q, "check") /\ UNCHANGED answer
      \/ UNCHANGED dedup /\ Goto(q, "observe") /\ UNCHANGED answer
  BY DEF ClaimDedup, InsertDedup
<1>4. Guarded(q) \/ (UNCHANGED dedup /\ GoesOn(q, "observe"))
  BY <1>2, <1>3, GotoEffect DEF GoesOn, Guarded
<1>5. RowsTyped'
  BY <1>1, <1>4, FreshTyped, TypedParts DEF RowsTyped, Guarded
<1>6. RequestStep(q)
  BY <1>1, <1>4, <1>5, StepByMove, QuietTyped DEF GoesOn, Guarded
<1> QED
  BY <1>1, <1>4, <1>6 DEF NoPay

LEMMA InsertAgainStep ==
    ASSUME TypeOK, NEW q \in Payments, InsertDedupAgain(q)
    PROVE  /\ RequestStep(q) /\ req[q].pc = "again" /\ NoPay /\ UNCHANGED slot
           /\ Guarded(q) \/ (UNCHANGED dedup /\ Ends(q, "duplicate"))
<1>1. /\ req[q].pc = "again" /\ UNCHANGED slot
      /\ UNCHANGED <<pay, born, shift, tx, till, void, cut, unsaid, now>>
  BY DEF InsertDedupAgain, BeforeWrite
<1>2. "check" \in Steps /\ "duplicate" \in Outcomes
  BY DEF Steps, Outcomes
<1>3. \/ ~dedup.held /\ dedup' = FreshDedup(q) /\ Goto(q, "check") /\ UNCHANGED answer
      \/ UNCHANGED dedup /\ Return(q, "duplicate")
  BY DEF InsertDedupAgain, InsertDedup
<1>4. Guarded(q) \/ (UNCHANGED dedup /\ Ends(q, "duplicate"))
  BY <1>2, <1>3, GotoEffect, ReturnEffect DEF GoesOn, Guarded, Ends
<1>5. RowsTyped'
  BY <1>1, <1>4, FreshTyped, TypedParts DEF RowsTyped, Guarded
<1>6. RequestStep(q)
  BY <1>1, <1>4, <1>5, StepByMove, QuietTyped DEF GoesOn, Guarded, Ends
<1> QED
  BY <1>1, <1>4, <1>6 DEF NoPay

LEMMA ObserveStep ==
    ASSUME TypeOK, NEW q \in Payments, ObserveDedup(q)
    PROVE  /\ RequestStep(q) /\ req[q].pc = "observe" /\ NoPay /\ UNCHANGED <<slot, dedup>>
           /\ \/ GoesOn(q, "again") \/ Ends(q, "duplicate")
              \/ GoesOn(q, "reclaim") /\ SeesStale(q)'
<1>1. /\ req[q].pc = "observe" /\ UNCHANGED <<slot, dedup>>
      /\ UNCHANGED <<pay, born, shift, tx, till, void, cut, unsaid, now>>
  BY DEF ObserveDedup, BeforeWrite, guardVars
<1>2. "again" \in Steps /\ "duplicate" \in Outcomes /\ dedup.at \in Nat
  BY DEF Steps, Outcomes, TypeOK
<1>3. \/ Goto(q, "again") /\ UNCHANGED answer
      \/ Return(q, "duplicate")
      \/ /\ req[q].at > dedup.at + Window /\ UNCHANGED answer
         /\ req' = [req EXCEPT ![q].pc = "reclaim", ![q].seen = dedup.at]
  BY DEF ObserveDedup
<1>4. \/ GoesOn(q, "again") \/ Ends(q, "duplicate")
      \/ GoesOn(q, "reclaim") /\ SeesStale(q)'
  <2>1. CASE Goto(q, "again") /\ UNCHANGED answer
    BY <1>2, <2>1, GotoEffect DEF GoesOn
  <2>2. CASE Return(q, "duplicate")
    BY <1>2, <2>2, ReturnEffect DEF Ends
  <2>3. CASE /\ req[q].at > dedup.at + Window /\ UNCHANGED answer
             /\ req' = [req EXCEPT ![q].pc = "reclaim", ![q].seen = dedup.at]
    <3>1. Moved(q, "reclaim") /\ req'[q].seen = dedup.at
      BY <1>2, <2>3, SeenEffect
    <3> QED
      BY <2>3, <3>1 DEF GoesOn, Moved, SameCall, SeesStale
  <2> QED
    BY <1>3, <2>1, <2>2, <2>3
<1>5. RequestStep(q)
  BY <1>1, <1>4, StepByMove, QuietTyped DEF GoesOn, Ends
<1> QED
  BY <1>1, <1>4, <1>5 DEF NoPay

LEMMA ReclaimStep ==
    ASSUME TypeOK, NEW q \in Payments, ReclaimDedup(q)
    PROVE  /\ RequestStep(q) /\ req[q].pc = "reclaim" /\ NoPay /\ UNCHANGED slot
           /\ \/ dedup.at = req[q].seen /\ dedup' = NoDedup /\ GoesOn(q, "again")
              \/ UNCHANGED dedup /\ Ends(q, "duplicate")
<1>1. /\ req[q].pc = "reclaim" /\ UNCHANGED slot
      /\ UNCHANGED <<pay, born, shift, tx, till, void, cut, unsaid, now>>
  BY DEF ReclaimDedup, BeforeWrite
<1>2. "again" \in Steps /\ "duplicate" \in Outcomes
  BY DEF Steps, Outcomes
<1>3. \/ /\ dedup.at = req[q].seen /\ dedup' = NoDedup
         /\ Goto(q, "again") /\ UNCHANGED answer
      \/ UNCHANGED dedup /\ Return(q, "duplicate")
  BY DEF ReclaimDedup
<1>4. \/ dedup.at = req[q].seen /\ dedup' = NoDedup /\ GoesOn(q, "again")
      \/ UNCHANGED dedup /\ Ends(q, "duplicate")
  BY <1>2, <1>3, GotoEffect, ReturnEffect DEF GoesOn, Ends
<1>5. RowsTyped'
  BY <1>1, <1>4, EmptyRows, TypedParts DEF RowsTyped
<1>6. RequestStep(q)
  BY <1>1, <1>4, <1>5, StepByMove, QuietTyped DEF GoesOn, Ends
<1> QED
  BY <1>1, <1>4, <1>6 DEF NoPay
\* The rest of a request, from the check of the shift to its end.
NoRows == UNCHANGED <<slot, dedup>>
NoBooks == UNCHANGED <<pay, born, tx, cut, unsaid>>

LEMMA CheckStep ==
    ASSUME TypeOK, NEW q \in Payments, CheckShift(q)
    PROVE  /\ RequestStep(q) /\ req[q].pc = "check" /\ NoRows /\ NoPay
           /\ GoesOn(q, "stamp") \/ GoesOn(q, "release")
<1>1. /\ req[q].pc = "check"
      /\ UNCHANGED <<pay, born, shift, tx, till, slot, dedup, void, answer, cut, unsaid, now>>
      /\ Goto(q, "stamp") \/ Goto(q, "release")
  BY DEF CheckShift
<1>2. {"stamp", "release"} \subseteq Steps
  BY DEF Steps
<1>3. GoesOn(q, "stamp") \/ GoesOn(q, "release")
  BY <1>1, <1>2, GotoEffect DEF GoesOn
<1>4. RequestStep(q)
  BY <1>1, <1>3, StepByMove, QuietTyped DEF GoesOn
<1> QED
  BY <1>1, <1>3, <1>4 DEF NoRows, NoPay

LEMMA StampStep ==
    ASSUME TypeOK, NEW q \in Payments, StampPayment(q)
    PROVE  RequestStep(q) /\ req[q].pc = "stamp" /\ NoRows /\ NoPay /\ GoesOn(q, "insert")
<1>1. /\ req[q].pc = "stamp" /\ Goto(q, "insert")
      /\ UNCHANGED <<pay, shift, tx, till, slot, dedup, void, answer, cut, unsaid, now>>
  BY DEF StampPayment
<1>2. born' \in [Payments -> Shifts \cup {NoShift}]
  BY DEF StampPayment, TypeOK, DrawerTypeOK
<1>3. GoesOn(q, "insert")
  BY <1>1, GotoEffect DEF GoesOn, Steps
<1>4. BooksTyped' /\ RowsTyped'
  BY <1>1, <1>2, QuietTyped, TypedParts DEF BooksTyped
<1>5. RequestStep(q)
  BY <1>1, <1>3, <1>4, StepByMove DEF GoesOn
<1> QED
  BY <1>1, <1>3, <1>5 DEF NoRows, NoPay

LEMMA InsertStep ==
    ASSUME TypeOK, NEW q \in Payments, InsertPayment(q)
    PROVE  /\ RequestStep(q) /\ req[q].pc = "insert" /\ NoRows /\ GoesOn(q, "balance")
           /\ pay' = [pay EXCEPT ![q] = "live"] /\ UNCHANGED <<tx, cut, unsaid>>
<1>1. /\ req[q].pc = "insert" /\ pay' = [pay EXCEPT ![q] = "live"] /\ Goto(q, "balance")
      /\ UNCHANGED <<born, shift, tx, till, slot, dedup, void, answer, cut, unsaid, now>>
  BY DEF InsertPayment
<1>2. GoesOn(q, "balance")
  BY <1>1, GotoEffect DEF GoesOn, Steps
<1>3. BooksTyped' /\ RowsTyped'
  BY <1>1, QuietTyped, TypedParts DEF BooksTyped
<1>4. RequestStep(q)
  BY <1>1, <1>2, <1>3, StepByMove DEF GoesOn
<1> QED
  BY <1>1, <1>2, <1>4 DEF NoRows

LEMMA BalanceStep ==
    ASSUME TypeOK, NEW q \in Payments, UpdateBalance(q)
    PROVE  /\ RequestStep(q) /\ req[q].pc = "balance" /\ NoRows /\ NoPay
           /\ (req[q].keyed /\ GoesOn(q, "complete")) \/ (~req[q].keyed /\ GoesOn(q, "find"))
<1>1. /\ req[q].pc = "balance"
      /\ UNCHANGED <<pay, born, shift, tx, till, slot, dedup, void, answer, cut, unsaid, now>>
  BY DEF UpdateBalance
<1>2. {"complete", "find"} \subseteq Steps /\ req[q].keyed \in BOOLEAN
  BY DEF Steps, TypeOK
<1>3. (req[q].keyed /\ GoesOn(q, "complete")) \/ (~req[q].keyed /\ GoesOn(q, "find"))
  BY <1>1, <1>2, GotoEffect DEF UpdateBalance, GoesOn
<1>4. RequestStep(q)
  BY <1>1, <1>3, StepByMove, QuietTyped DEF GoesOn
<1> QED
  BY <1>1, <1>3, <1>4 DEF NoRows, NoPay

LEMMA CompleteStep ==
    ASSUME TypeOK, NEW q \in Payments, Complete(q)
    PROVE  /\ RequestStep(q) /\ req[q].pc = "complete" /\ UNCHANGED dedup /\ NoPay /\ GoesOn(q, "find")
           /\ \/ slot.st = "none" /\ UNCHANGED slot
              \/ slot.st # "none" /\ slot' = [st |-> "completed", exp |-> now + Retention, pay |-> q]
<1>1. /\ req[q].pc = "complete" /\ Goto(q, "find")
      /\ UNCHANGED <<pay, born, shift, tx, till, dedup, void, answer, cut, unsaid, now>>
      /\ \/ slot.st = "none" /\ UNCHANGED slot
         \/ slot.st # "none" /\ slot' = [st |-> "completed", exp |-> now + Retention, pay |-> q]
  BY DEF Complete
<1>2. GoesOn(q, "find")
  BY <1>1, GotoEffect DEF GoesOn, Steps
<1>3. RowsTyped'
  BY <1>1, FreshTyped, TypedParts DEF RowsTyped
<1>4. RequestStep(q)
  BY <1>1, <1>2, <1>3, StepByMove, QuietTyped DEF GoesOn
<1> QED
  BY <1>1, <1>2, <1>4 DEF NoPay

LEMMA FindStep ==
    ASSUME TypeOK, NEW q \in Payments, FindShift(q)
    PROVE  /\ RequestStep(q) /\ req[q].pc = "find" /\ NoRows /\ NoPay
           /\ GoesOn(q, "push") \/ GoesOn(q, "undo")
<1>1. /\ req[q].pc = "find"
      /\ UNCHANGED <<pay, born, shift, tx, till, slot, dedup, void, answer, cut, unsaid, now>>
  BY DEF FindShift
<1>2. PICK step \in {"push", "undo"} : req' = [req EXCEPT ![q].pc = step, ![q].shift = ActiveShift]
  BY DEF FindShift
<1>3. step \in Steps
  BY DEF Steps
<1>4. GoesOn(q, step)
  BY <1>1, <1>2, <1>3, ShiftEffect, ActiveShiftTyped DEF GoesOn
<1>5. RequestStep(q)
  BY <1>1, <1>4, StepByMove, QuietTyped DEF GoesOn
<1> QED
  BY <1>1, <1>4, <1>5 DEF NoRows, NoPay

LEMMA PushStep ==
    ASSUME TypeOK, DrawerOK, NEW q \in Payments, PushPayment(q)
    PROVE  /\ RequestStep(q) /\ req[q].pc = "push" /\ NoRows /\ UNCHANGED <<pay, cut, unsaid>>
           /\ (Ends(q, "paid") /\ Recorded(q, "in")') \/ GoesOn(q, "lookup")
<1>1. /\ req[q].pc = "push" /\ Push(q, "in", req[q].shift)
      /\ UNCHANGED <<pay, born, shift, till, slot, dedup, void, cut, unsaid, now>>
      /\ \/ PushMatches(q, "in", req[q].shift) /\ Return(q, "paid")
         \/ Goto(q, "lookup") /\ UNCHANGED answer
  BY DEF PushPayment
<1>2. "lookup" \in Steps /\ "paid" \in Outcomes /\ "in" \in Directions
  BY DEF Steps, Outcomes, Directions
<1>3. /\ tx' \subseteq Payments \X Directions \X Shifts /\ tx \subseteq tx'
      /\ PushMatches(q, "in", req[q].shift) => \E t \in Shifts : <<q, "in", t>> \in tx'
  BY <1>1, <1>2, PushEffect
<1>4. (Ends(q, "paid") /\ Recorded(q, "in")') \/ GoesOn(q, "lookup")
  BY <1>1, <1>2, <1>3, GotoEffect, ReturnEffect DEF GoesOn, Ends, Recorded
<1>5. BooksTyped' /\ RowsTyped'
  BY <1>1, <1>3, QuietTyped, TypedParts DEF BooksTyped
<1>6. RequestStep(q)
  BY <1>1, <1>3, <1>4, <1>5, StepByMove DEF GoesOn, Ends
<1> QED
  BY <1>1, <1>4, <1>6 DEF NoRows

LEMMA LookUpStep ==
    ASSUME TypeOK, NEW q \in Payments, LookUpPayment(q)
    PROVE  /\ RequestStep(q) /\ req[q].pc = "lookup" /\ NoRows /\ NoPay
           /\ (Ends(q, "paid") /\ Recorded(q, "in")') \/ GoesOn(q, "undo")
<1>1. /\ req[q].pc = "lookup"
      /\ UNCHANGED <<pay, born, shift, tx, till, slot, dedup, void, cut, unsaid, now>>
      /\ \/ Recorded(q, "in") /\ Return(q, "paid")
         \/ Goto(q, "undo") /\ UNCHANGED answer
  BY DEF LookUpPayment
<1>2. "undo" \in Steps /\ "paid" \in Outcomes
  BY DEF Steps, Outcomes
<1>3. (Ends(q, "paid") /\ Recorded(q, "in")') \/ GoesOn(q, "undo")
  BY <1>1, <1>2, GotoEffect, ReturnEffect DEF GoesOn, Ends, Recorded
<1>4. RequestStep(q)
  BY <1>1, <1>3, StepByMove, QuietTyped DEF GoesOn, Ends
<1> QED
  BY <1>1, <1>3, <1>4 DEF NoRows, NoPay

LEMMA UndoStep ==
    ASSUME TypeOK, NEW q \in Payments, UndoPayment(q)
    PROVE  /\ RequestStep(q) /\ req[q].pc = "undo" /\ NoRows /\ GoesOn(q, "free")
           /\ pay' = [pay EXCEPT ![q] = "gone"] /\ UNCHANGED <<tx, cut, unsaid>>
<1>1. /\ req[q].pc = "undo" /\ pay' = [pay EXCEPT ![q] = "gone"] /\ Goto(q, "free")
      /\ UNCHANGED <<born, shift, tx, till, slot, dedup, void, answer, cut, unsaid, now>>
  BY DEF UndoPayment
<1>2. GoesOn(q, "free")
  BY <1>1, GotoEffect DEF GoesOn, Steps
<1>3. BooksTyped' /\ RowsTyped'
  BY <1>1, QuietTyped, TypedParts DEF BooksTyped
<1>4. RequestStep(q)
  BY <1>1, <1>2, <1>3, StepByMove DEF GoesOn
<1> QED
  BY <1>1, <1>2, <1>4 DEF NoRows

\* The row of the request is deleted.
Freed(q) ==
    /\ req[q].keyed => slot' = NoSlot /\ UNCHANGED dedup
    /\ ~req[q].keyed => dedup' = NoDedup /\ UNCHANGED slot

LEMMA FreeStep ==
    ASSUME TypeOK, NEW q \in Payments, FreeAfterUndo(q) \/ ReleaseOnError(q)
    PROVE  /\ RequestStep(q) /\ req[q].pc \in {"free", "release"} /\ Freed(q) /\ NoPay
           /\ Moved(q, "done") /\ answer'[q] \in {"refused", "error"}
<1>1. PICK a \in {"refused", "error"} : FreeSlot(q, a)
  BY DEF FreeAfterUndo, ReleaseOnError
<1>2. /\ req[q].pc \in {"free", "release"}
      /\ UNCHANGED <<pay, born, shift, tx, till, void, cut, unsaid, now>>
  BY DEF FreeAfterUndo, ReleaseOnError
<1>3. Freed(q) /\ Return(q, a)
  BY <1>1 DEF FreeSlot, Freed
<1>4. Ends(q, a)
  BY <1>3, ReturnEffect DEF Ends, Outcomes
<1>5. RowsTyped'
  <2>1. req[q].keyed \in BOOLEAN
    BY DEF TypeOK
  <2> QED
    BY <1>3, <2>1, EmptyRows, TypedParts DEF RowsTyped, Freed
<1>6. RequestStep(q)
  BY <1>2, <1>4, <1>5, StepByMove, QuietTyped DEF Ends
<1> QED
  BY <1>2, <1>3, <1>4, <1>6 DEF NoPay, Ends
\* A request is cut off, or its push fails.
LEMMA CrashStep ==
    ASSUME TypeOK, NEW q \in Payments, Crash(q)
    PROVE  /\ RequestStep(q) /\ req[q].pc \in Steps /\ NoRows /\ GoesOn(q, "crashed")
           /\ UNCHANGED <<pay, tx, unsaid>> /\ cut' = cut \cup {q}
<1>1. /\ req[q].pc \in Steps /\ cut' = cut \cup {q} /\ Goto(q, "crashed")
      /\ UNCHANGED <<pay, born, shift, tx, till, slot, dedup, void, answer, unsaid, now>>
  BY DEF Crash
<1>2. GoesOn(q, "crashed")
  BY <1>1, GotoEffect DEF GoesOn
<1>3. RequestStep(q)
  BY <1>1, <1>2, StepByMove, QuietTyped DEF GoesOn
<1> QED
  BY <1>1, <1>2, <1>3 DEF NoRows

LEMMA RaiseStep ==
    ASSUME TypeOK, NEW q \in Payments, Raise(q)
    PROVE  /\ RequestStep(q) /\ req[q].pc \in {"insert", "balance", "complete"} /\ NoRows
           /\ GoesOn(q, "release") /\ UNCHANGED <<tx, unsaid>> /\ cut' = cut \cup {q}
           /\ pay' \in {pay, [pay EXCEPT ![q] = "live"]}
<1>1. /\ req[q].pc \in {"insert", "balance", "complete"} /\ cut' = cut \cup {q} /\ Goto(q, "release")
      /\ UNCHANGED <<born, shift, tx, till, slot, dedup, void, answer, unsaid, now>>
      /\ pay' \in {pay, [pay EXCEPT ![q] = "live"]}
  BY DEF Raise
<1>2. GoesOn(q, "release")
  BY <1>1, GotoEffect DEF GoesOn, Steps
<1>3. BooksTyped' /\ RowsTyped'
  BY <1>1, QuietTyped, TypedParts DEF BooksTyped
<1>4. RequestStep(q)
  BY <1>1, <1>2, <1>3, StepByMove DEF GoesOn
<1> QED
  BY <1>1, <1>2, <1>4 DEF NoRows

LEMMA RaiseInUndoStep ==
    ASSUME TypeOK, NEW q \in Payments, RaiseInUndo(q)
    PROVE  /\ RequestStep(q) /\ req[q].pc \in {"undo", "free"} /\ NoRows /\ Ends(q, "refused")
           /\ UNCHANGED <<tx, unsaid>> /\ cut' = cut \cup {q}
           /\ pay' \in {pay, [pay EXCEPT ![q] = "gone"]}
<1>1. /\ req[q].pc \in {"undo", "free"} /\ cut' = cut \cup {q} /\ Return(q, "refused")
      /\ UNCHANGED <<born, shift, tx, till, slot, dedup, void, unsaid, now>>
      /\ pay' \in {pay, [pay EXCEPT ![q] = "gone"]}
  BY DEF RaiseInUndo
<1>2. Ends(q, "refused")
  BY <1>1, ReturnEffect DEF Ends, Outcomes
<1>3. BooksTyped' /\ RowsTyped'
  BY <1>1, QuietTyped, TypedParts DEF BooksTyped
<1>4. RequestStep(q)
  BY <1>1, <1>2, <1>3, StepByMove DEF Ends
<1> QED
  BY <1>1, <1>2, <1>4 DEF NoRows

LEMMA PushLostStep ==
    ASSUME TypeOK, NEW q \in Payments, PushLost(q)
    PROVE  /\ RequestStep(q) /\ req[q].pc \in {"find", "push", "lookup"} /\ NoRows /\ Ends(q, "paid")
           /\ UNCHANGED <<pay, tx, cut>> /\ unsaid' = unsaid \cup {q}
<1>1. /\ req[q].pc \in {"find", "push", "lookup"} /\ unsaid' = unsaid \cup {q} /\ Return(q, "paid")
      /\ UNCHANGED <<pay, born, shift, tx, till, slot, dedup, void, cut, now>>
  BY DEF PushLost
<1>2. Ends(q, "paid")
  BY <1>1, ReturnEffect DEF Ends, Outcomes
<1>3. RequestStep(q)
  BY <1>1, <1>2, StepByMove, QuietTyped DEF Ends
<1> QED
  BY <1>1, <1>2, <1>3 DEF NoRows

-----------------------------------------------------------------------------

\* Everything request q may do.
Act(q) == Request(q) \/ Crash(q) \/ Raise(q) \/ RaiseInUndo(q) \/ PushLost(q)

\* A step of request q marks no payment but its own.
Marks(q) == cut' \in {cut, cut \cup {q}} /\ unsaid' \in {unsaid, unsaid \cup {q}}

LEMMA ActStep ==
    ASSUME TInv, NEW q \in Payments, Act(q)
    PROVE  RequestStep(q) /\ Marks(q)
<1> USE DEF TInv
<1>1. CASE \E keyed \in BOOLEAN : Start(q, keyed)
  BY <1>1, StartStep DEF Marks
<1>2. CASE ClaimKey(q) \/ ReadKey(q) \/ ClaimDedup(q) \/ InsertDedupAgain(q)
  BY <1>2, ClaimKeyStep, ReadKeyStep, ClaimDedupStep, InsertAgainStep DEF NoPay, Marks
<1>3. CASE ObserveDedup(q) \/ ReclaimDedup(q) \/ CheckShift(q) \/ StampPayment(q) \/ UpdateBalance(q)
  BY <1>3, ObserveStep, ReclaimStep, CheckStep, StampStep, BalanceStep DEF NoPay, Marks
<1>4. CASE InsertPayment(q) \/ Complete(q) \/ FindShift(q) \/ PushPayment(q) \/ LookUpPayment(q)
  BY <1>4, InsertStep, CompleteStep, FindStep, PushStep, LookUpStep DEF NoPay, Marks
<1>5. CASE UndoPayment(q) \/ FreeAfterUndo(q) \/ ReleaseOnError(q)
  BY <1>5, UndoStep, FreeStep DEF NoPay, Marks
<1>6. CASE Crash(q) \/ Raise(q) \/ RaiseInUndo(q) \/ PushLost(q)
  BY <1>6, CrashStep, RaiseStep, RaiseInUndoStep, PushLostStep DEF Marks
<1> QED
  BY <1>1, <1>2, <1>3, <1>4, <1>5, <1>6 DEF Act, Request

LEMMA RequestTyped ==
    ASSUME TInv, NEW q \in Payments, Act(q)
    PROVE  TInv'
<1>1. RequestStep(q) /\ Marks(q)
  BY ActStep
<1>2. cut' \subseteq Payments /\ unsaid' \subseteq Payments
  BY <1>1 DEF Marks, TInv, TypeOK
<1> QED
  BY <1>1, <1>2, Typed
  DEF RequestStep, TInv, TypeOK, DrawerTypeOK, RowsTyped, BooksTyped, RequestState, VoidState,
      Outcomes, DrawerOK, VoidOK

\* A void and the cashier leave requests and their rows alone.
Aside == UNCHANGED <<slot, dedup, req, answer, now>>

VoidLeaves ==
    /\ void' \in [Voids -> VoidState] /\ VoidOK'
    /\ pay' \in [Payments -> {"none", "live", "voided", "gone"}]
    /\ tx' \subseteq Payments \X Directions \X Shifts
    /\ cut' \subseteq Payments /\ unsaid' \subseteq Payments
    /\ UNCHANGED <<born, shift, till>> /\ Aside

\* Void v found a shift, or none.
Finds(v, step) == void' = [void EXCEPT ![v].pc = step, ![v].shift = ActiveShift]

LEMMA VoidEdit ==
    ASSUME TypeOK, NEW v \in Voids, NEW step \in {"push", "undo"}, Finds(v, step)
    PROVE  /\ void' \in [Voids -> VoidState] /\ void'[v].pc = step
           /\ \A w \in Voids : void'[w].pay = void[w].pay
           /\ \A w \in Voids \ {v} : void'[w] = void[w]
<1>1. void \in [Voids -> VoidState] /\ ActiveShift \in Shifts \cup {NoShift}
  BY Typed, ActiveShiftTyped
<1>2. void' \in [Voids -> VoidState]
  BY <1>1 DEF Finds, VoidState
<1> QED
  BY <1>1, <1>2 DEF Finds, VoidState

LEMMA VoidGotoEdit ==
    ASSUME TypeOK, NEW v \in Voids, NEW step \in {"find", "lookup", "undo"}, VoidGoto(v, step)
    PROVE  /\ void' \in [Voids -> VoidState] /\ void'[v].pc = step
           /\ \A w \in Voids : void'[w].pay = void[w].pay
           /\ \A w \in Voids \ {v} : void'[w] = void[w]
<1>1. void \in [Voids -> VoidState]
  BY Typed
<1>2. void' \in [Voids -> VoidState]
  BY <1>1 DEF VoidGoto, VoidState
<1> QED
  BY <1>1, <1>2 DEF VoidGoto, VoidState

LEMMA VoidTyped ==
    ASSUME TInv, NEW v \in Voids, Void(v) \/ CrashVoid(v) \/ VoidRaises(v) \/ VoidPushLost(v)
    PROVE  TInv' /\ Aside
<1>1. /\ IdleVoid \in VoidState /\ IdleVoid.pc = "idle"
      /\ \A p \in Payments : [pc |-> "cas", pay |-> p, shift |-> NoShift] \in VoidState
  BY DEF IdleVoid, VoidState
<1>2. /\ void \in [Voids -> VoidState] /\ ActiveShift \in Shifts \cup {NoShift}
      /\ cut \subseteq Payments /\ unsaid \subseteq Payments
      /\ pay \in [Payments -> {"none", "live", "voided", "gone"}]
      /\ tx \subseteq Payments \X Directions \X Shifts
  BY Typed, ActiveShiftTyped DEF TInv, TypeOK, DrawerTypeOK
<1>3. SUFFICES VoidLeaves
  BY DEF TInv, TypeOK, DrawerTypeOK, VoidState, DrawerOK, Aside, VoidLeaves
<1> USE DEF Aside, VoidOK, TInv, VoidLeaves
<1>4. ASSUME NEW p \in Payments, StartVoid(v, p) PROVE VoidLeaves
  BY <1>1, <1>2, <1>4 DEF StartVoid
<1>5. CASE VoidCas(v)
  <2>1. /\ void[v].pc = "cas" /\ Aside
        /\ UNCHANGED <<born, shift, tx, till, cut, unsaid>>
    BY <1>5 DEF VoidCas
  <2>2. CASE VoidGoto(v, "find") /\ pay' = [pay EXCEPT ![void[v].pay] = "voided"]
    <3>1. /\ void' \in [Voids -> VoidState]
          /\ \A w \in Voids : void'[w].pay = void[w].pay
          /\ \A w \in Voids \ {v} : void'[w] = void[w]
      BY <2>2, VoidGotoEdit
    <3>2. pay' \in [Payments -> {"none", "live", "voided", "gone"}]
      BY <1>2, <2>2
    <3> QED
      BY <1>2, <2>1, <3>1, <3>2
  <2>3. CASE void' = [void EXCEPT ![v] = IdleVoid] /\ UNCHANGED pay
    BY <1>1, <1>2, <2>1, <2>3
  <2> QED
    BY <1>5, <2>2, <2>3 DEF VoidCas
<1>6. CASE VoidFindShift(v)
  <2>1. PICK step \in {"push", "undo"} : Finds(v, step)
    BY <1>6 DEF VoidFindShift, Finds
  <2>2. /\ void' \in [Voids -> VoidState] /\ void'[v].pc = step
        /\ \A w \in Voids : void'[w].pay = void[w].pay
        /\ \A w \in Voids \ {v} : void'[w] = void[w]
    BY <2>1, VoidEdit
  <2>3. \A w \in Voids : void'[w].pc # "idle" => void[w].pc # "idle"
    BY <1>6, <2>2 DEF VoidFindShift
  <2> QED
    BY <1>2, <1>6, <2>2, <2>3 DEF VoidFindShift
<1>7. CASE VoidPush(v)
  <2>1. void[v].pay \in Payments /\ "out" \in Directions
    BY <1>7 DEF VoidPush, Directions
  <2>2. tx' \subseteq Payments \X Directions \X Shifts
    BY <1>7, <2>1, PushEffect DEF VoidPush
  <2> QED
    BY <1>1, <1>2, <1>7, <2>2 DEF VoidPush, VoidGoto, VoidState
<1>8. CASE VoidUndo(v)
  BY <1>1, <1>2, <1>8 DEF VoidUndo, VoidState
<1>9. CASE CrashVoid(v)
  BY <1>1, <1>2, <1>9 DEF CrashVoid, VoidState
<1>10. CASE VoidPushLost(v)
  BY <1>1, <1>2, <1>10 DEF VoidPushLost, VoidState
<1>11. CASE VoidLookUp(v)
  BY <1>1, <1>2, <1>11 DEF VoidLookUp, VoidGoto, VoidState
<1>12. CASE VoidRaises(v)
  BY <1>1, <1>2, <1>12 DEF VoidRaises, VoidGoto, VoidState
<1> QED
  BY <1>4, <1>5, <1>6, <1>7, <1>8, <1>9, <1>10, <1>11, <1>12 DEF Void
LEMMA DrawerTyped ==
    ASSUME TInv, Drawer
    PROVE  /\ TInv' /\ Aside /\ UNCHANGED <<pay, void, cut, unsaid>> /\ tx \subseteq tx'
<1>1. /\ Aside /\ UNCHANGED <<void, cut, unsaid>> /\ DrawerNext
  BY DEF Drawer, Aside
<1>2. /\ shift \in [no : Shifts \cup {NoShift}, open : BOOLEAN]
      /\ till \in [pc : {"idle", "sweep", "close"}, todo : SUBSET Payments, totals : Nat \X Nat]
      /\ tx \subseteq Payments \X Directions \X Shifts
  BY DEF TInv, TypeOK, DrawerTypeOK
<1> DEFINE Leaves ==
      /\ shift' \in [no : Shifts \cup {NoShift}, open : BOOLEAN]
      /\ till' \in [pc : {"idle", "sweep", "close"}, todo : SUBSET Payments, totals : Nat \X Nat]
      /\ tx' \subseteq Payments \X Directions \X Shifts /\ tx \subseteq tx'
      /\ UNCHANGED <<pay, born>> /\ DrawerOK'
<1>3. SUFFICES Leaves
  BY <1>1 DEF Aside, TInv, TypeOK, DrawerTypeOK, VoidOK
<1>4. IdleTill \in [pc : {"idle", "sweep", "close"}, todo : SUBSET Payments, totals : Nat \X Nat]
      /\ IdleTill.pc = "idle"
  BY DEF IdleTill
<1> USE DEF TInv, DrawerOK
<1>5. CASE OpenShift
  <2>1. shift.no + 1 \in Shifts
    BY <1>2, <1>5, Bounds DEF OpenShift, Shifts, NoShift
  <2> QED
    BY <1>2, <1>5, <2>1 DEF OpenShift
<1>6. CASE StartSweep
  <2>1. Missing \subseteq Payments
    BY DEF Missing
  <2>2. till' = [pc |-> "sweep", todo |-> Missing, totals |-> <<0, 0>>]
    BY <1>6 DEF StartSweep, IdleTill
  <2>3. UNCHANGED <<pay, born, shift, tx>> /\ shift.open
    BY <1>6 DEF StartSweep
  <2> QED
    BY <1>2, <2>1, <2>2, <2>3
<1>7. ASSUME NEW p \in Payments, SweepOne(p) PROVE Leaves
  <2>1. tx' \subseteq Payments \X Directions \X Shifts /\ tx \subseteq tx'
    BY <1>7, PushEffect DEF SweepOne, Directions
  <2>2. /\ till' = [till EXCEPT !.todo = till.todo \ {p}] /\ UNCHANGED <<pay, born, shift>>
        /\ till.pc = "sweep"
    BY <1>7 DEF SweepOne
  <2> QED
    BY <1>2, <2>1, <2>2
<1>8. CASE ReadTotals
  <2>1. Totals \in Nat \X Nat
    <3>1. \A d \in Directions : IsFiniteSet({p \in Payments : <<p, d, shift.no>> \in tx})
      BY DrawerAssumption, FS_Subset
    <3>2. \A d \in Directions : Cardinality({p \in Payments : <<p, d, shift.no>> \in tx}) \in Nat
      BY <3>1, FS_CardinalityType
    <3> QED
      BY <3>2 DEF Totals, Directions
  <2>2. till' = [till EXCEPT !.pc = "close", !.totals = Totals]
    BY <1>8 DEF ReadTotals
  <2>3. /\ till'.pc = "close" /\ till'.todo = till.todo /\ till'.totals = Totals
        /\ till' \in [pc : {"idle", "sweep", "close"}, todo : SUBSET Payments, totals : Nat \X Nat]
    BY <1>2, <2>1, <2>2
  <2>4. UNCHANGED <<pay, born, shift, tx>> /\ till.pc = "sweep"
    BY <1>8 DEF ReadTotals
  <2> QED
    BY <1>2, <2>3, <2>4
<1>9. CASE CloseShift
  <2>1. PICK o \in BOOLEAN : shift' = [shift EXCEPT !.open = o]
    BY <1>9 DEF CloseShift
  <2>2. till' = IdleTill /\ till.pc = "close" /\ UNCHANGED <<pay, born, tx>>
    BY <1>9 DEF CloseShift
  <2> QED
    BY <1>2, <1>4, <2>1, <2>2
<1>10. CASE LeaveTill
  BY <1>2, <1>4, <1>10 DEF LeaveTill
<1> QED
  BY <1>1, <1>5, <1>6, <1>7, <1>8, <1>9, <1>10 DEF DrawerNext

LEMMA TInvNext == TInv /\ [Next]_vars => TInv'
<1> SUFFICES ASSUME TInv, [Next]_vars PROVE TInv'
  OBVIOUS
<1>1. ASSUME NEW q \in Payments, Act(q) PROVE TInv'
  BY <1>1, RequestTyped
<1>2. ASSUME NEW v \in Voids, Void(v) \/ CrashVoid(v) \/ VoidRaises(v) \/ VoidPushLost(v) PROVE TInv'
  BY <1>2, VoidTyped
<1>3. CASE Drawer
  BY <1>3, DrawerTyped
<1>4. CASE Expire
  BY <1>4, EmptyRows DEF Expire, TInv, TypeOK, DrawerTypeOK, DrawerOK, VoidOK
<1>5. CASE Tick
  BY <1>5, Bounds DEF Tick, TInv, TypeOK, DrawerTypeOK, DrawerOK, VoidOK
<1>6. CASE UNCHANGED vars
  BY <1>6 DEF vars, TInv, TypeOK, DrawerTypeOK, DrawerOK, VoidOK
<1> QED
  BY <1>1, <1>2, <1>3, <1>4, <1>5, <1>6 DEF Next, Act

\* Payments, shifts and the rows that guard a payment keep their form.
THEOREM TypeCorrect == Spec => []TypeOK
<1>1. TInv => TypeOK
  BY DEF TInv
<1> QED
  BY TInvInit, TInvNext, <1>1, PTL DEF Spec

-----------------------------------------------------------------------------
(* The books, the replays and the drawer *)

LEMMA BInvInit == Init => BInv
<1> SUFFICES ASSUME Init PROVE BInv
  OBVIOUS
<1>1. TInv /\ slot.st = "none" /\ \A p \in Payments : pay[p] = "none"
  BY TInvInit DEF Init, DrawerInit, NoSlot
<1>2. \A p \in Payments : req[p].pc = "idle"
  BY DEF Init, IdleRequest
<1>3. \A v \in Voids : void[v].pc = "idle"
  BY DEF Init, IdleVoid
<1> QED
  BY <1>1, <1>2, <1>3 DEF BInv, GoneLate, OnPath, OwedExists, Owes, BooksOK, SlotNamesPayment

\* The rows of the other payments.
PayFrame(q) == /\ \A p \in Payments \ {q} : pay'[p] = pay[p]
               /\ pay'[q] = "none" => pay[q] = "none"

Late == {"find", "push", "lookup", "undo", "free", "done", "crashed"}

\* A completed key of q's own payment stays true.
OwnSlotTrue(q) ==
    slot'.st = "completed" /\ slot'.pay = q =>
        /\ req'[q].keyed /\ req'[q].pc \in Late
        /\ pay'[q] = "gone" => q \in cut' \/ req'[q].pc = "free"

LEMMA KeyedFirst ==
    ASSUME TInv, NEW q \in Payments, Act(q), OnPath(q)
    PROVE  OnPath(q)'
<1> USE DEF TInv, OnPath, SameCall, Moved, GoesOn, Ends, Guarded
<1>1. CASE \E keyed \in BOOLEAN : Start(q, keyed)
  BY <1>1, StartStep
<1>2. CASE ClaimKey(q) \/ ReadKey(q) \/ ClaimDedup(q) \/ InsertDedupAgain(q)
  BY <1>2, ClaimKeyStep, ReadKeyStep, ClaimDedupStep, InsertAgainStep
<1>3. CASE ObserveDedup(q) \/ ReclaimDedup(q) \/ CheckShift(q) \/ StampPayment(q)
  BY <1>3, ObserveStep, ReclaimStep, CheckStep, StampStep
<1>4. CASE UpdateBalance(q)
  BY <1>4, BalanceStep
<1>5. CASE InsertPayment(q) \/ Complete(q) \/ FindShift(q) \/ PushPayment(q) \/ LookUpPayment(q)
  BY <1>5, InsertStep, CompleteStep, FindStep, PushStep, LookUpStep
<1>6. CASE UndoPayment(q) \/ FreeAfterUndo(q) \/ ReleaseOnError(q)
  BY <1>6, UndoStep, FreeStep
<1>7. CASE Crash(q) \/ Raise(q) \/ RaiseInUndo(q) \/ PushLost(q)
  BY <1>7, CrashStep, RaiseStep, RaiseInUndoStep, PushLostStep
<1> QED
  BY <1>1, <1>2, <1>3, <1>4, <1>5, <1>6, <1>7 DEF Act, Request

\* What is left to show of a step of q: its own row, and its own slot.
LEMMA BooksByRequest ==
    ASSUME BInv, NEW q \in Payments, Act(q), PayFrame(q), GoneLate(q)', BooksOK(q)',
           OwnSlotTrue(q), slot' = slot \/ slot'.st # "completed" \/ slot'.pay = q
    PROVE  BInv'
<1>1. TInv' /\ RequestStep(q) /\ Marks(q)
  BY RequestTyped, ActStep DEF BInv
<1>2. \A p \in Payments \ {q} : req'[p] = req[p] /\ pay'[p] = pay[p]
  BY <1>1 DEF RequestStep, Frame, PayFrame
<1>3. cut \subseteq cut' /\ unsaid \subseteq unsaid' /\ tx \subseteq tx' /\ UNCHANGED void
  BY <1>1 DEF Marks, RequestStep
<1>4. ASSUME NEW p \in Payments \ {q} 
      PROVE GoneLate(p)' /\ OnPath(p)' /\ OwedExists(p)' /\ BooksOK(p)'
  <2>1. /\ GoneLate(p) /\ OnPath(p) /\ OwedExists(p) /\ BooksOK(p)
        /\ req'[p] = req[p] /\ pay'[p] = pay[p]
    BY <1>2 DEF BInv
  <2>2. GoneLate(p)' /\ OnPath(p)'
    BY <2>1 DEF GoneLate, OnPath
  <2>3. BooksOK(p)' /\ OwedExists(p)'
    BY <1>3, <2>1 DEF BooksOK, OwedExists, Recorded, Owes
  <2> QED
    BY <2>2, <2>3
<1>5. SlotNamesPayment'
  <2>1. ASSUME slot'.st = "completed", slot'.pay # q, slot' = slot
        PROVE  /\ slot.pay \in Payments \ {q} /\ req'[slot.pay].keyed /\ req'[slot.pay].pc \in Late
               /\ pay'[slot.pay] = "gone" => slot.pay \in cut' \/ req'[slot.pay].pc = "free"
    BY <1>2, <1>3, <2>1 DEF BInv, SlotNamesPayment, Late
  <2> QED
    BY <2>1 DEF SlotNamesPayment, OwnSlotTrue, Late
<1>6. OnPath(q)' /\ OwedExists(q)'
  BY <1>3, KeyedFirst DEF BInv, OwedExists, Owes, PayFrame
<1> QED
  BY <1>1, <1>4, <1>5, <1>6 DEF BInv

\* A request whose key is completed keeps it while it goes on from there.
LEMMA SlotStays ==
    ASSUME BInv, NEW q \in Payments, RequestStep(q), slot' = slot,
           req[q].pc \in Late => req'[q].pc \in Late,
           pay'[q] = "gone" =>
               \/ q \in cut' \/ req'[q].pc = "free"
               \/ pay[q] = "gone" /\ req[q].pc # "free" /\ cut' = cut
    PROVE  OwnSlotTrue(q)
BY DEF BInv, SlotNamesPayment, RequestStep, SameCall, OwnSlotTrue, Late

\* Before the payment is in the books, nothing is owed.
LEMMA EarlyBooks ==
    ASSUME BInv, NEW q \in Payments, Act(q), NoPay,
           req[q].pc \notin Late \cup {"balance", "complete"}, req'[q].pc \notin {"free", "crashed"},
           slot' = slot \/ slot'.st # "completed"
    PROVE  BInv'
<1>1. RequestStep(q)
  BY ActStep DEF BInv
<1>2. UNCHANGED <<void, tx, pay, cut, unsaid>>
  BY <1>1 DEF RequestStep, NoPay
<1>3. pay[q] # "gone"
  BY DEF BInv, GoneLate, Late
<1>4. GoneLate(q)' /\ BooksOK(q)'
  BY <1>2, <1>3 DEF BInv, GoneLate, BooksOK, Recorded, Owes, Late
<1>5. OwnSlotTrue(q)
  BY <1>1, <1>2, <1>3, SlotStays DEF OwnSlotTrue
<1> QED
  BY <1>2, <1>4, <1>5, BooksByRequest DEF PayFrame
LEMMA EarlyKeep ==
    ASSUME BInv, NEW q \in Payments,
           \/ \E keyed \in BOOLEAN : Start(q, keyed)
           \/ ClaimKey(q) \/ ReadKey(q) \/ ClaimDedup(q) \/ ObserveDedup(q)
           \/ InsertDedupAgain(q) \/ ReclaimDedup(q) \/ CheckShift(q) \/ StampPayment(q)
           \/ ReleaseOnError(q)
    PROVE  BInv'
<1>1. TypeOK /\ Act(q)
  BY DEF BInv, TInv, Act, Request
<1>2. CASE \E keyed \in BOOLEAN : Start(q, keyed)
  BY <1>1, <1>2, StartStep, EarlyBooks DEF NoPay, Late
<1>3. CASE ClaimKey(q)
  BY <1>1, <1>3, ClaimKeyStep, EarlyBooks DEF Late, GoesOn, Moved
<1>4. CASE ReadKey(q)
  BY <1>1, <1>4, ReadKeyStep, EarlyBooks DEF Late, Moved
<1>5. CASE ClaimDedup(q)
  BY <1>1, <1>5, ClaimDedupStep, EarlyBooks DEF Late, GoesOn, Guarded, Moved
<1>6. CASE ObserveDedup(q)
  BY <1>1, <1>6, ObserveStep, EarlyBooks DEF Late, GoesOn, Ends, Moved
<1>7. CASE InsertDedupAgain(q)
  BY <1>1, <1>7, InsertAgainStep, EarlyBooks DEF Late, GoesOn, Guarded, Ends, Moved
<1>8. CASE ReclaimDedup(q)
  BY <1>1, <1>8, ReclaimStep, EarlyBooks DEF Late, GoesOn, Ends, Moved
<1>9. CASE CheckShift(q)
  BY <1>1, <1>9, CheckStep, EarlyBooks DEF Late, GoesOn, Moved, NoRows
<1>10. CASE ReleaseOnError(q)
  <2>1. req[q].pc = "release" /\ Freed(q) /\ NoPay /\ Moved(q, "done")
    BY <1>1, <1>10, FreeStep DEF ReleaseOnError
  <2>2. slot' = slot \/ slot'.st # "completed"
    BY <1>1, <2>1 DEF Freed, NoSlot, TypeOK
  <2> QED
    BY <1>1, <2>1, <2>2, EarlyBooks DEF Late, Moved
<1>11. CASE StampPayment(q)
  BY <1>1, <1>11, StampStep, EarlyBooks DEF Late, GoesOn, Moved, NoRows
<1> QED
  BY <1>2, <1>3, <1>4, <1>5, <1>6, <1>7, <1>8, <1>9, <1>10, <1>11

LEMMA PaidKeep ==
    ASSUME BInv, NEW q \in Payments,
           \/ InsertPayment(q) \/ UpdateBalance(q) \/ Complete(q) \/ FindShift(q)
           \/ PushPayment(q) \/ LookUpPayment(q) \/ UndoPayment(q) \/ FreeAfterUndo(q)
    PROVE  BInv'
<1>1. TInv /\ TypeOK /\ DrawerOK /\ Act(q) /\ GoneLate(q) /\ BooksOK(q)
  BY DEF BInv, TInv, Act, Request
<1>2. pay \in [Payments -> {"none", "live", "voided", "gone"}]
  BY <1>1 DEF TypeOK, DrawerTypeOK
<1>3. SUFFICES /\ PayFrame(q) /\ GoneLate(q)' /\ BooksOK(q)' /\ OwnSlotTrue(q)
               /\ slot' = slot \/ slot'.st # "completed" \/ slot'.pay = q
  BY <1>1, BooksByRequest
<1>4. RequestStep(q) /\ tx \subseteq tx' /\ UNCHANGED void
  BY <1>1, ActStep DEF RequestStep
<1> USE <1>4 DEF PayFrame, GoneLate, BooksOK, Recorded, Owes, Late, GoesOn, Ends, Moved, NoRows, NoPay
<1>5. CASE InsertPayment(q)
  BY <1>1, <1>2, <1>5, InsertStep, SlotStays
<1>6. CASE UpdateBalance(q)
  BY <1>1, <1>6, BalanceStep, SlotStays
<1>7. CASE Complete(q)
  <2>1. req[q].pc = "complete" /\ NoPay /\ GoesOn(q, "find") /\ pay[q] # "gone"
    BY <1>1, <1>7, CompleteStep
  <2>2. GoneLate(q)' /\ BooksOK(q)'
    BY <1>1, <2>1
  <2>3. CASE UNCHANGED slot
    BY <2>1, <2>2, <2>3, SlotStays
  <2>4. CASE slot' = [st |-> "completed", exp |-> now + Retention, pay |-> q]
    <3>1. SUFFICES req[q].keyed
      BY <2>1, <2>2, <2>4 DEF OwnSlotTrue, SameCall
    <3> QED
      BY <2>1 DEF BInv, OnPath
  <2> QED
    BY <1>1, <1>7, <2>3, <2>4, CompleteStep
<1>8. CASE FindShift(q)
  BY <1>1, <1>8, FindStep, SlotStays
<1>9. CASE PushPayment(q)
  BY <1>1, <1>9, PushStep, SlotStays
<1>10. CASE UndoPayment(q)
  BY <1>1, <1>2, <1>10, UndoStep, SlotStays
<1>11. CASE FreeAfterUndo(q)
  <2>1. req[q].pc = "free" /\ Freed(q) /\ NoPay /\ Moved(q, "done") /\ req[q].keyed \in BOOLEAN
    BY <1>1, <1>11, FreeStep DEF FreeAfterUndo, TypeOK
  <2>2. OwnSlotTrue(q) /\ (slot' = slot \/ slot'.st # "completed")
    BY <2>1 DEF Freed, NoSlot, OwnSlotTrue, BInv, SlotNamesPayment
  <2> QED
    BY <1>1, <2>1, <2>2
<1>12. CASE LookUpPayment(q)
  BY <1>1, <1>12, LookUpStep, SlotStays
<1> QED
  BY <1>5, <1>6, <1>7, <1>8, <1>9, <1>10, <1>11, <1>12
LEMMA CutKeep ==
    ASSUME BInv, NEW q \in Payments, Crash(q) \/ Raise(q) \/ RaiseInUndo(q) \/ PushLost(q)
    PROVE  BInv'
<1>1. TInv /\ TypeOK /\ DrawerOK /\ Act(q) /\ GoneLate(q) /\ BooksOK(q)
  BY DEF BInv, TInv, Act
<1>2. pay \in [Payments -> {"none", "live", "voided", "gone"}]
  BY <1>1 DEF TypeOK, DrawerTypeOK
<1>3. SUFFICES PayFrame(q) /\ GoneLate(q)' /\ BooksOK(q)' /\ OwnSlotTrue(q) /\ slot' = slot
  BY <1>1, BooksByRequest
<1>4. RequestStep(q) /\ tx \subseteq tx' /\ UNCHANGED void
  BY <1>1, ActStep DEF RequestStep
<1> USE <1>4 DEF PayFrame, GoneLate, BooksOK, Late, GoesOn, Ends, Moved, NoRows
<1>5. CASE Crash(q)
  BY <1>1, <1>5, CrashStep, SlotStays
<1>6. CASE Raise(q)
  <2>1. /\ req[q].pc \in {"insert", "balance", "complete"} /\ UNCHANGED slot /\ q \in cut'
        /\ pay' \in {pay, [pay EXCEPT ![q] = "live"]} /\ pay[q] # "gone"
    BY <1>1, <1>6, RaiseStep
  <2>2. PayFrame(q) /\ GoneLate(q)' /\ BooksOK(q)'
    BY <1>2, <2>1
  <2> QED
    BY <2>1, <2>2, SlotStays
<1>7. CASE RaiseInUndo(q)
  <2>1. /\ req[q].pc \in {"undo", "free"} /\ UNCHANGED slot /\ q \in cut' /\ req'[q].pc = "done"
        /\ pay' \in {pay, [pay EXCEPT ![q] = "gone"]}
    BY <1>1, <1>7, RaiseInUndoStep
  <2>2. PayFrame(q) /\ GoneLate(q)' /\ BooksOK(q)'
    BY <1>2, <2>1
  <2> QED
    BY <2>1, <2>2, SlotStays
<1>8. CASE PushLost(q)
  BY <1>1, <1>8, PushLostStep, SlotStays
<1> QED
  BY <1>5, <1>6, <1>7, <1>8

\* A step that leaves the requests alone, and deletes no payment.
LEMMA BooksAside ==
    ASSUME BInv, TInv', UNCHANGED <<req>>, slot' = slot \/ slot'.st # "completed",
           \A p \in Payments : pay'[p] = "gone" => pay[p] = "gone",
           cut \subseteq cut', \A p \in Payments : OwedExists(p)' /\ BooksOK(p)'
    PROVE  BInv'
BY DEF BInv, GoneLate, OnPath, SlotNamesPayment

\* A void never makes a payment appear, and starts with one that is there.
LEMMA OwedKeep ==
    ASSUME BInv, NEW v \in Voids, Void(v) \/ CrashVoid(v) \/ VoidRaises(v) \/ VoidPushLost(v), NEW p \in Payments
    PROVE  OwedExists(p)'
<1>1. /\ TypeOK /\ OwedExists(p) /\ void \in [Voids -> VoidState]
      /\ pay \in [Payments -> {"none", "live", "voided", "gone"}]
  BY Typed DEF BInv, TInv, TypeOK, DrawerTypeOK
<1>2. pay'[p] = "none" => pay[p] = "none"
  BY <1>1 DEF Void, StartVoid, VoidCas, VoidFindShift, VoidPush, VoidLookUp, VoidUndo, CrashVoid,
              VoidRaises, VoidPushLost
<1>3. IdleVoid.pc = "idle"
  BY DEF IdleVoid
<1>4. SUFFICES ASSUME NEW w \in Voids, Owes(w, p)' PROVE pay[p] # "none"
  BY <1>2 DEF OwedExists
<1>5. SUFFICES ASSUME ~Owes(w, p) PROVE pay[p] # "none"
  BY <1>1 DEF OwedExists
<1> USE DEF Owes
<1>6. ASSUME NEW r \in Payments, StartVoid(v, r) PROVE pay[p] # "none"
  BY <1>1, <1>4, <1>5, <1>6 DEF StartVoid
<1>7. CASE VoidCas(v)
  BY <1>1, <1>3, <1>4, <1>5, <1>7 DEF VoidCas, VoidGoto, VoidState
<1>8. CASE VoidFindShift(v)
  <2>1. PICK step \in {"push", "undo"} : Finds(v, step)
    BY <1>8 DEF VoidFindShift, Finds
  <2> QED
    BY <1>1, <1>4, <1>5, <1>8, <2>1, VoidEdit DEF VoidFindShift
<1>9. CASE VoidPush(v)
  BY <1>1, <1>3, <1>4, <1>5, <1>9 DEF VoidPush, VoidGoto, VoidState
<1>10. CASE VoidUndo(v) \/ CrashVoid(v) \/ VoidPushLost(v)
  BY <1>1, <1>3, <1>4, <1>5, <1>10 DEF VoidUndo, CrashVoid, VoidPushLost
<1>11. CASE VoidLookUp(v) \/ VoidRaises(v)
  BY <1>1, <1>3, <1>4, <1>5, <1>11 DEF VoidLookUp, VoidRaises, VoidGoto, VoidState
<1> QED
  BY <1>6, <1>7, <1>8, <1>9, <1>10, <1>11 DEF Void

LEMMA VoidKeep ==
    ASSUME BInv, NEW v \in Voids, Void(v) \/ CrashVoid(v) \/ VoidRaises(v) \/ VoidPushLost(v)
    PROVE  BInv'
<1>1. TInv /\ TypeOK /\ DrawerOK /\ TInv' /\ Aside /\ \A p \in Payments : OwedExists(p) /\ BooksOK(p)
  BY VoidTyped DEF BInv, TInv
<1>2. /\ pay \in [Payments -> {"none", "live", "voided", "gone"}] /\ void \in [Voids -> VoidState]
      /\ void[v].pc # "idle" => void[v].pay \in Payments
  BY <1>1, Typed DEF TypeOK, DrawerTypeOK, TInv, VoidOK
<1>3. SUFFICES /\ \A p \in Payments : pay'[p] = "gone" => pay[p] = "gone"
               /\ cut \subseteq cut' /\ \A p \in Payments : BooksOK(p)'
  BY <1>1, BooksAside, OwedKeep DEF Aside
<1> DEFINE Rest(p) ==
      /\ pay'[p] = "gone" => pay[p] = "gone"
      /\ cut \subseteq cut' /\ BooksOK(p)'
<1>4. ASSUME NEW p \in Payments PROVE Rest(p)
  <2>1. OwedExists(p) /\ BooksOK(p) /\ UNCHANGED req
    BY <1>1 DEF Aside
  <2>2. ASSUME NEW r \in Payments, StartVoid(v, r) PROVE Rest(p)
    <3>1. /\ void[v].pc = "idle" /\ void'[v].pc = "cas" /\ \A w \in Voids \ {v} : void'[w] = void[w]
          /\ UNCHANGED <<pay, tx, cut, unsaid>>
      BY <1>2, <2>2 DEF StartVoid
    <3>2. \A w \in Voids : Owes(w, p) => Owes(w, p)'
      BY <3>1 DEF Owes
    <3> QED
      BY <2>1, <3>1, <3>2 DEF BooksOK, Recorded
  <2>3. CASE VoidCas(v)
    <3>1. /\ void[v].pc = "cas" /\ void[v].pay \in Payments /\ UNCHANGED <<tx, cut, unsaid>>
          /\ \/ /\ pay[void[v].pay] = "live" /\ pay' = [pay EXCEPT ![void[v].pay] = "voided"]
                /\ void' = [void EXCEPT ![v].pc = "find"]
             \/ void' = [void EXCEPT ![v] = IdleVoid] /\ UNCHANGED pay
      BY <1>2, <2>3 DEF VoidCas, VoidGoto
    <3>2. \A w \in Voids : Owes(w, p) => Owes(w, p)'
      BY <1>2, <3>1 DEF Owes, VoidState
    <3>3. CASE void[v].pay = p /\ pay[p] = "live" /\ void' = [void EXCEPT ![v].pc = "find"]
               /\ pay' = [pay EXCEPT ![p] = "voided"]
      <4>1. Owes(v, p)' /\ pay'[p] = "voided"
        BY <1>2, <3>3 DEF Owes, VoidState
      <4> QED
        BY <2>1, <3>1, <3>3, <4>1 DEF BooksOK, Recorded
    <3>4. CASE pay'[p] = pay[p]
      BY <2>1, <3>1, <3>2, <3>4 DEF BooksOK, Recorded
    <3> QED
      BY <1>2, <3>1, <3>3, <3>4
  <2>4. CASE VoidFindShift(v)
    <3>1. PICK step \in {"push", "undo"} : Finds(v, step)
      BY <2>4 DEF VoidFindShift, Finds
    <3>2. /\ void'[v].pc \in {"push", "undo"} /\ \A w \in Voids : void'[w].pay = void[w].pay
          /\ \A w \in Voids \ {v} : void'[w] = void[w]
          /\ UNCHANGED <<pay, tx, cut, unsaid>>
      BY <1>1, <2>4, <3>1, VoidEdit DEF VoidFindShift
    <3>3. \A w \in Voids : Owes(w, p) => Owes(w, p)'
      BY <3>2 DEF Owes
    <3> QED
      BY <2>1, <3>2, <3>3 DEF BooksOK, Recorded
  <2>5. CASE VoidPush(v)
    <3>1. void[v].pay \in Payments /\ void[v].pc = "push" /\ UNCHANGED <<pay, cut, unsaid>>
      BY <1>2, <2>5 DEF VoidPush
    <3>2. /\ tx \subseteq tx'
          /\ PushMatches(void[v].pay, "out", void[v].shift) =>
                \E t \in Shifts : <<void[v].pay, "out", t>> \in tx'
      BY <1>1, <2>5, <3>1, PushEffect DEF VoidPush, Directions
    <3>3. \A w \in Voids : Owes(w, p) => Owes(w, p)' \/ Recorded(p, "out")'
      <4>1. CASE PushMatches(void[v].pay, "out", void[v].shift)
        <5>1. void' = [void EXCEPT ![v] = IdleVoid]
          BY <2>5, <4>1 DEF VoidPush
        <5> QED
          BY <1>2, <3>2, <4>1, <5>1 DEF Owes, Recorded
      <4>2. CASE ~PushMatches(void[v].pay, "out", void[v].shift)
        <5>1. void' = [void EXCEPT ![v].pc = "lookup"]
          BY <2>5, <4>2 DEF VoidPush, VoidGoto
        <5> QED
          BY <1>2, <5>1 DEF Owes, VoidState
      <4> QED
        BY <4>1, <4>2
    <3> QED
      BY <2>1, <3>1, <3>2, <3>3 DEF BooksOK, Recorded
  <2>6. CASE VoidUndo(v)
    <3>1. /\ void[v].pc = "undo" /\ void[v].pay \in Payments /\ UNCHANGED <<tx, cut, unsaid>>
          /\ pay' = [pay EXCEPT ![void[v].pay] = IF @ = "gone" THEN @ ELSE "live"]
          /\ void' = [void EXCEPT ![v] = IdleVoid]
      BY <1>2, <2>6 DEF VoidUndo
    <3>2. \A w \in Voids \ {v} : Owes(w, p) => Owes(w, p)'
      BY <1>2, <3>1 DEF Owes
    <3>3. CASE void[v].pay = p
      <4>1. pay'[p] = IF pay[p] = "gone" THEN "gone" ELSE "live"
        BY <1>2, <3>1, <3>3
      <4>2. pay[p] \in {"live", "voided"} \/ pay'[p] = "gone"
        BY <1>2, <2>1, <3>1, <3>3, <4>1 DEF OwedExists, Owes
      <4> QED
        BY <2>1, <3>1, <4>1, <4>2 DEF BooksOK, Recorded
    <3>4. CASE void[v].pay # p
      <4>1. pay'[p] = pay[p]
        BY <1>2, <3>1, <3>4
      <4> QED
        BY <2>1, <3>1, <3>2, <3>4, <4>1 DEF BooksOK, Recorded, Owes
    <3> QED
      BY <3>3, <3>4
  <2>7. CASE CrashVoid(v) \/ VoidPushLost(v)
    <3>1. /\ void' = [void EXCEPT ![v] = IdleVoid] /\ UNCHANGED <<pay, tx>>
          /\ cut \subseteq cut' /\ unsaid \subseteq unsaid' /\ void[v].pay \in cut' \cup unsaid'
      BY <2>7 DEF CrashVoid, VoidPushLost
    <3>2. \A w \in Voids : Owes(w, p) => Owes(w, p)' \/ p \in cut' \cup unsaid'
      BY <1>2, <3>1 DEF Owes
    <3> QED
      BY <2>1, <3>1, <3>2 DEF BooksOK, Recorded
  <2>8. CASE VoidLookUp(v) \/ VoidRaises(v)
    <3>1. /\ UNCHANGED <<pay, tx, unsaid>> /\ cut \subseteq cut' /\ void[v].pc \in {"find", "lookup"}
          /\ \/ void' = [void EXCEPT ![v].pc = "undo"]
             \/ void' = [void EXCEPT ![v] = IdleVoid] /\ Recorded(void[v].pay, "out")
      BY <2>8 DEF VoidLookUp, VoidRaises, VoidGoto
    <3>2. \A w \in Voids : Owes(w, p) => Owes(w, p)' \/ Recorded(p, "out")
      BY <1>2, <3>1 DEF Owes, VoidState
    <3> QED
      BY <2>1, <3>1, <3>2 DEF BooksOK, Recorded
  <2> QED
    BY <2>2, <2>3, <2>4, <2>5, <2>6, <2>7, <2>8 DEF Void
<1>5. cut \subseteq cut'
  BY DEF Void, StartVoid, VoidCas, VoidFindShift, VoidPush, VoidLookUp, VoidUndo, CrashVoid,
         VoidRaises, VoidPushLost
<1> QED
  BY <1>4, <1>5
LEMMA BInvNext == BInv /\ [Next]_vars => BInv'
<1> SUFFICES ASSUME BInv, [Next]_vars PROVE BInv'
  OBVIOUS
<1>1. TInv' /\ TInv
  BY TInvNext DEF BInv
<1>2. ASSUME NEW q \in Payments, Act(q) PROVE BInv'
  BY <1>2, EarlyKeep, PaidKeep, CutKeep DEF Act, Request
<1>3. ASSUME NEW v \in Voids, Void(v) \/ CrashVoid(v) \/ VoidRaises(v) \/ VoidPushLost(v) PROVE BInv'
  BY <1>3, VoidKeep
<1>4. CASE Drawer
  <2>1. Aside /\ UNCHANGED <<pay, void, cut, unsaid>> /\ tx \subseteq tx'
    BY <1>1, <1>4, DrawerTyped
  <2>2. ASSUME NEW p \in Payments PROVE OwedExists(p)' /\ BooksOK(p)'
    <3>1. OwedExists(p) /\ BooksOK(p)
      BY DEF BInv
    <3> QED
      BY <2>1, <3>1 DEF Aside, OwedExists, BooksOK, Recorded, Owes
  <2> QED
    BY <1>1, <2>1, <2>2, BooksAside DEF Aside
<1>5. CASE Expire \/ Tick \/ UNCHANGED vars
  <2>1. /\ UNCHANGED <<pay, tx, req, void, cut, unsaid>>
        /\ slot' = slot \/ slot'.st # "completed"
    BY <1>5 DEF Expire, Tick, vars, NoSlot
  <2>2. ASSUME NEW p \in Payments PROVE OwedExists(p)' /\ BooksOK(p)'
    <3>1. OwedExists(p) /\ BooksOK(p)
      BY DEF BInv
    <3> QED
      BY <2>1, <3>1 DEF OwedExists, BooksOK, Recorded, Owes
  <2> QED
    BY <1>1, <2>1, <2>2, BooksAside
<1> QED
  BY <1>2, <1>3, <1>4, <1>5 DEF Next, Act

LEMMA BooksImply == BInv => ReplayedPaymentExists /\ DrawerFollowsBooks
<1> SUFFICES ASSUME BInv PROVE ReplayedPaymentExists /\ DrawerFollowsBooks
  OBVIOUS
<1>1. ReplayedPaymentExists
  BY DEF BInv, SlotNamesPayment, ReplayedPaymentExists, AtRest, Steps
<1>2. ASSUME NEW p \in Payments \ (cut \cup unsaid), AtRest(p)
      PROVE  (pay[p] = "live" => Recorded(p, "in")) /\ (pay[p] = "voided" => Recorded(p, "out"))
  BY <1>2 DEF BInv, BooksOK, Owes, AtRest, Steps
<1> QED
  BY <1>1, <1>2 DEF DrawerFollowsBooks

\* Whatever is submitted, retried, voided or cut off, a completed key never keeps
\* replaying a payment that post_payment_to_folio deleted.
THEOREM ReplaysExist == Spec => []ReplayedPaymentExists
<1> QED
  BY BInvInit, BInvNext, BooksImply, PTL DEF Spec

\* In any number of shifts, and whoever sweeps, closes or hands over in between,
\* a payment has its cash record and a void its refund record once nobody works
\* on it any more.
THEOREM BooksFollowed == Spec => []DrawerFollowsBooks
<1> QED
  BY BInvInit, BInvNext, BooksImply, PTL DEF Spec

-----------------------------------------------------------------------------
(* A double submit pays once *)

TimedInv == BInv /\ PInv

LEMMA PInvInit == ASSUME Timely, Init PROVE PInv
<1>1. \A q \in Payments : req[q].pc = "idle" /\ answer[q] = "none"
  BY DEF Init, IdleRequest
<1> QED
  BY <1>1 DEF PInv, InTime, RowKept, PaidKept, Pairwise, Holds, Holding, Steps

\* The integers that the invariant compares.
LEMMA Times ==
    ASSUME TypeOK
    PROVE  /\ now \in Nat /\ slot.exp \in Nat /\ dedup.at \in Nat /\ dedup.exp \in Nat
           /\ \A q \in Payments : req[q].at \in Nat /\ req[q].seen \in Nat /\ req[q].keyed \in BOOLEAN
BY DEF TypeOK

\* Who has a confirmed payment of the same kind is past it when q gets the row.
ShutOut(q) ==
    \A p \in Payments : SameRow(p, q) =>
        /\ ~Holds(p)
        /\ answer[p] = "paid" => Past(p)

\* A step that takes no row away and gives none: every other request keeps what
\* it has.  What is to show is about q.
RowsStand(q) ==
    \A p \in Payments \ {q} :
        /\ RowKept(p) => RowKept(p)'
        /\ PaidKept(p) => PaidKept(p)'

\* What is left to show of a step of q.
LEMMA TimedByRequest ==
    ASSUME TimedInv, NEW q \in Payments, Act(q), RowsStand(q),
           InTime(q)', RowKept(q)', PaidKept(q)',
           Holds(q)' => req[q].pc # "idle" /\ (Holds(q) \/ ShutOut(q)),
           answer'[q] = "paid" => Holds(q)
    PROVE  PInv'
<1>1. TypeOK /\ RequestStep(q) /\ UNCHANGED now
  BY ActStep DEF TimedInv, BInv, TInv, RequestStep
<1>2. \A p \in Payments \ {q} : req'[p] = req[p] /\ answer'[p] = answer[p]
  BY <1>1 DEF RequestStep, Frame
<1> DEFINE Settled(p) ==
      /\ ~(Holds(p) /\ Holds(q))
      /\ answer[p] = "paid" /\ Holds(q) => Past(p)
      /\ answer[q] = "paid" /\ Holds(p) => Past(q)
      /\ answer[p] = "paid" /\ answer[q] = "paid" => Apart(p, q) \/ Apart(q, p)
<1>3. ASSUME NEW p \in Payments \ {q} PROVE InTime(p)' /\ RowKept(p)' /\ PaidKept(p)'
  <2>1. InTime(p) /\ RowKept(p) /\ PaidKept(p)
    BY DEF TimedInv, PInv
  <2> QED
    BY <1>1, <1>2, <2>1 DEF InTime, SeesStale, RowsStand
<1>4. ASSUME NEW p \in Payments \ {q}, NEW r \in Payments \ {q} PROVE Pairwise(p, r)'
  <2>1. Pairwise(p, r) /\ req'[p] = req[p] /\ req'[r] = req[r] /\ answer'[p] = answer[p]
        /\ answer'[r] = answer[r]
    BY <1>2 DEF TimedInv, PInv
  <2> QED
    BY <1>1, <2>1 DEF Pairwise, SameRow, Holds, Past, Apart
<1>5. ASSUME NEW p \in Payments \ {q}, SameRow(p, q)'
      PROVE  Settled(p)'
  <2>1. Pairwise(p, q) /\ Pairwise(q, p) /\ req'[p] = req[p] /\ answer'[p] = answer[p]
    BY <1>2 DEF TimedInv, PInv
  <2>2. InTime(q) /\ (Holds(q) => req[q].pc \in Steps)
    BY DEF TimedInv, PInv, Holds, Holding, Steps
  <2>3. SUFFICES ASSUME Holds(q)' \/ answer'[q] = "paid" PROVE Settled(p)'
    OBVIOUS
  <2>4. SameCall(q) /\ SameRow(p, q) /\ SameRow(q, p) /\ (Holds(p)' <=> Holds(p))
    BY <1>1, <1>5, <2>1, <2>2, <2>3 DEF RequestStep, SameCall, SameRow, Holds, Steps
  <2>5. Past(p) => Past(p)'
    BY <1>1, <2>1 DEF Past
  <2>6. Holds(q)' => ~Holds(p) /\ (answer[p] = "paid" => Past(p))
    BY <2>1, <2>4 DEF Pairwise, ShutOut
  <2>7. answer'[q] = "paid" => ~Holds(p) /\ (answer[p] = "paid" => Past(p) /\ InTime(q) /\ Holds(q))
    BY <2>1, <2>2, <2>4 DEF Pairwise
  <2>8. Past(p) /\ InTime(q) /\ Holds(q) => Apart(p, q)'
    BY <1>1, <2>1, <2>2, <2>4, Times, Bounds DEF Past, InTime, Apart, SameCall, SameRow
  <2> QED
    BY <2>1, <2>4, <2>5, <2>6, <2>7, <2>8
<1>6. ASSUME NEW p \in Payments, NEW r \in Payments PROVE Pairwise(p, r)'
  BY <1>4, <1>5 DEF Pairwise, SameRow
<1> QED
  BY <1>3, <1>6 DEF PInv

LEMMA StandStill ==
    ASSUME TypeOK, NEW q \in Payments, RequestStep(q), NoRows
    PROVE  RowsStand(q)
BY DEF RequestStep, Frame, NoRows, RowsStand, RowKept, PaidKept, KeyKept, GuardKept, Holds, Past

\* Who has the row shuts the others out.
LEMMA HolderAlone ==
    ASSUME TimedInv, NEW q \in Payments, Holds(q)
    PROVE  ShutOut(q)
BY DEF TimedInv, PInv, Pairwise, ShutOut, SameRow

\* Then its row is no one else's concern.
LEMMA StandByShutOut ==
    ASSUME TypeOK, NEW q \in Payments, RequestStep(q), ShutOut(q), req[q].pc # "idle",
           req[q].keyed => UNCHANGED dedup, ~req[q].keyed => UNCHANGED slot
    PROVE  RowsStand(q)
<1>1. SUFFICES ASSUME NEW p \in Payments \ {q}
               PROVE  (RowKept(p) => RowKept(p)') /\ (PaidKept(p) => PaidKept(p)')
  BY DEF RowsStand
<1>2. req'[p] = req[p] /\ answer'[p] = answer[p] /\ now' = now /\ p # q
      /\ req[p].keyed \in BOOLEAN /\ req[q].keyed \in BOOLEAN
  BY DEF RequestStep, Frame, TypeOK
<1>3. CASE req[p].keyed = req[q].keyed
  <2>1. ~Holds(p) /\ (answer[p] = "paid" => Past(p))
    BY <1>2, <1>3 DEF ShutOut, SameRow
  <2> QED
    BY <1>2, <2>1 DEF RowKept, PaidKept, Holds, Past
<1>4. CASE req[p].keyed # req[q].keyed
  <2>1. IF req[p].keyed THEN UNCHANGED slot ELSE UNCHANGED dedup
    BY <1>2, <1>4
  <2> QED
    BY <1>2, <2>1 DEF RowKept, PaidKept, Holds, Past, KeyKept, GuardKept
<1> QED
  BY <1>3, <1>4

\* The positions at which the payment has been completed under its key.
Settling == {"find", "push", "lookup", "undo", "free"}

LEMMA NotPaidYet ==
    ASSUME TimedInv, NEW q \in Payments, req[q].pc # "done"
    PROVE  answer[q] # "paid"
BY DEF TimedInv, PInv, PaidKept

\* A step that touches no row.
LEMMA QuietTimed ==
    ASSUME TimedInv, NEW q \in Payments, Act(q), NoRows, req[q].pc \in Steps,
           req'[q].pc # "reclaim",
           answer'[q] = "paid" => req[q].pc \in {"find", "push", "lookup"} /\ req'[q].pc = "done",
           Holds(q)' => Holds(q) /\ (req[q].keyed /\ req'[q].pc \in Settling => req[q].pc \in Settling)
    PROVE  PInv'
<1>1. TypeOK /\ RequestStep(q) /\ UNCHANGED <<now, slot, dedup>> /\ SameCall(q)
  BY ActStep DEF TimedInv, BInv, TInv, RequestStep, NoRows, Steps
<1>2. InTime(q) /\ RowKept(q)
  BY DEF TimedInv, PInv
<1>3. InTime(q)'
  BY <1>1, <1>2 DEF InTime, SameCall
<1>4. RowKept(q)'
  BY <1>1, <1>2 DEF RowKept, KeyKept, GuardKept, Holds, SameCall, Settling
<1>5. PaidKept(q)'
  <2>1. CASE answer'[q] = "paid"
    <3>1. Holds(q)
      BY <2>1 DEF Holds, Holding
    <3>2. IF req[q].keyed THEN KeyKept(q) ELSE GuardKept(q)
      BY <1>2, <2>1, <3>1 DEF RowKept
    <3>3. IF req'[q].keyed THEN KeyKept(q)' ELSE GuardKept(q)'
      BY <1>1, <3>2 DEF KeyKept, GuardKept, SameCall
    <3> QED
      BY <2>1, <3>3 DEF PaidKept
  <2> QED
    BY <2>1 DEF PaidKept
<1>6. RowsStand(q)
  BY <1>1, StandStill DEF NoRows
<1>7. answer'[q] = "paid" => Holds(q)
  BY DEF Holds, Holding
<1>8. Holds(q)' => req[q].pc # "idle" /\ (Holds(q) \/ ShutOut(q))
  BY DEF Steps
<1> QED
  BY <1>3, <1>4, <1>5, <1>6, <1>7, <1>8, TimedByRequest

LEMMA QuietSteps ==
    ASSUME TimedInv, NEW q \in Payments,
           \/ ReadKey(q) \/ CheckShift(q) \/ StampPayment(q) \/ InsertPayment(q) \/ UpdateBalance(q)
           \/ FindShift(q) \/ PushPayment(q) \/ LookUpPayment(q) \/ UndoPayment(q)
           \/ Crash(q) \/ Raise(q) \/ RaiseInUndo(q) \/ PushLost(q)
    PROVE  PInv'
<1>1. TypeOK /\ DrawerOK /\ Act(q) /\ (req[q].pc # "done" => answer[q] # "paid")
  BY NotPaidYet DEF TimedInv, BInv, TInv, Act, Request
<1> USE <1>1 DEF GoesOn, Ends, Moved, NoRows, Holds, Holding, Settling, Steps
<1>2. CASE ReadKey(q)
  BY <1>2, ReadKeyStep, QuietTimed
<1>3. CASE CheckShift(q)
  BY <1>3, CheckStep, QuietTimed
<1>4. CASE InsertPayment(q)
  BY <1>4, InsertStep, QuietTimed
<1>5. CASE UpdateBalance(q)
  BY <1>5, BalanceStep, QuietTimed
<1>6. CASE FindShift(q)
  BY <1>6, FindStep, QuietTimed
<1>7. CASE PushPayment(q)
  BY <1>7, PushStep, QuietTimed
<1>8. CASE UndoPayment(q)
  BY <1>8, UndoStep, QuietTimed
<1>9. CASE Crash(q)
  BY <1>9, CrashStep, QuietTimed
<1>10. CASE Raise(q)
  BY <1>10, RaiseStep, QuietTimed
<1>11. CASE RaiseInUndo(q)
  BY <1>11, RaiseInUndoStep, QuietTimed
<1>12. CASE PushLost(q)
  BY <1>12, PushLostStep, QuietTimed
<1>13. CASE StampPayment(q)
  BY <1>13, StampStep, QuietTimed
<1>14. CASE LookUpPayment(q)
  BY <1>14, LookUpStep, QuietTimed
<1> QED
  BY <1>2, <1>3, <1>4, <1>5, <1>6, <1>7, <1>8, <1>9, <1>10, <1>11, <1>12, <1>13, <1>14

\* A step of q that gives it the row, keeps it, or leaves it: nobody else is
\* concerned, and q itself is not told that it has paid.
LEMMA RowTimed ==
    ASSUME TimedInv, NEW q \in Payments, Act(q), req[q].pc \in Steps, req'[q].pc # "reclaim",
           RowsStand(q), RowKept(q)', answer'[q] # "paid",
           Holds(q)' => Holds(q) \/ ShutOut(q)
    PROVE  PInv'
<1>1. TypeOK /\ RequestStep(q) /\ UNCHANGED now /\ SameCall(q)
  BY ActStep DEF TimedInv, BInv, TInv, RequestStep, Steps
<1>2. InTime(q)'
  BY <1>1 DEF TimedInv, PInv, InTime, SameCall
<1>3. PaidKept(q)'
  BY DEF PaidKept
<1> QED
  BY <1>2, <1>3, TimedByRequest DEF Steps

LEMMA StartTimed ==
    ASSUME TimedInv, NEW q \in Payments, NEW keyed \in BOOLEAN, Start(q, keyed)
    PROVE  PInv'
<1>1. TypeOK /\ Act(q)
  BY DEF TimedInv, BInv, TInv, Act, Request
<1>2. /\ RequestStep(q) /\ NoRows /\ UNCHANGED answer /\ req[q].pc = "idle"
      /\ req'[q].pc \in {"claim", "dedup"} /\ req'[q].at = now /\ now' = now
  BY <1>1, StartStep DEF NoRows, RequestStep
<1>3. InTime(q)'
  BY <1>1, <1>2, Times, Bounds DEF InTime
<1>4. ~Holds(q)' /\ answer'[q] # "paid"
  BY <1>2, NotPaidYet DEF Holds, Holding
<1>5. RowKept(q)' /\ PaidKept(q)'
  BY <1>4 DEF RowKept, PaidKept
<1> QED
  BY <1>1, <1>2, <1>3, <1>4, <1>5, StandStill, TimedByRequest

\* A click finds the row gone, inside the window, or stale.
LEMMA ObserveTimed ==
    ASSUME TimedInv, NEW q \in Payments, ObserveDedup(q)
    PROVE  PInv'
<1>1. TypeOK /\ Act(q)
  BY DEF TimedInv, BInv, TInv, Act, Request
<1>2. /\ RequestStep(q) /\ req[q].pc = "observe" /\ NoRows
      /\ \/ GoesOn(q, "again") \/ Ends(q, "duplicate")
         \/ GoesOn(q, "reclaim") /\ SeesStale(q)'
  BY <1>1, ObserveStep DEF NoRows
<1>3. answer'[q] # "paid" /\ ~Holds(q)'
  BY <1>2, NotPaidYet DEF GoesOn, Ends, Moved, Holds, Holding
<1>4. InTime(q)'
  BY <1>2 DEF TimedInv, PInv, InTime, RequestStep, SameCall, GoesOn, Ends, Moved, Steps
<1>5. RowKept(q)' /\ PaidKept(q)'
  BY <1>3 DEF RowKept, PaidKept
<1> QED
  BY <1>1, <1>2, <1>3, <1>4, <1>5, StandStill, TimedByRequest

\* The row of the key can be inserted: whoever had it is gone, or its time is.
LEMMA ClaimKeyTimed ==
    ASSUME TimedInv, NEW q \in Payments, ClaimKey(q)
    PROVE  PInv'
<1>1. TypeOK /\ Act(q) /\ req[q].pc \in Steps /\ req[q].pc = "claim" /\ req[q].keyed
  BY ClaimKeyStep DEF TimedInv, BInv, TInv, OnPath, Act, Request, Steps
<1>2. /\ RequestStep(q) /\ UNCHANGED <<dedup, now>> /\ SameCall(q)
      /\ \/ /\ slot.st = "none" /\ GoesOn(q, "check")
            /\ slot' = [st |-> "processing", exp |-> req[q].at + Grace, pay |-> NoPayment]
         \/ GoesOn(q, "read") /\ UNCHANGED slot
  BY <1>1, ClaimKeyStep DEF RequestStep
<1>3. answer'[q] # "paid" /\ req'[q].pc \in {"check", "read"}
  BY <1>1, <1>2, NotPaidYet DEF GoesOn, Moved
<1>4. CASE GoesOn(q, "read") /\ UNCHANGED slot
  <2>1. ~Holds(q)'
    BY <1>4 DEF GoesOn, Moved, Holds, Holding
  <2> QED
    BY <1>1, <1>2, <1>3, <1>4, <2>1, StandStill, RowTimed DEF NoRows, RowKept
<1>5. CASE /\ slot.st = "none" /\ GoesOn(q, "check")
           /\ slot' = [st |-> "processing", exp |-> req[q].at + Grace, pay |-> NoPayment]
  <2>1. ShutOut(q)
    BY <1>1, <1>5 DEF TimedInv, PInv, RowKept, PaidKept, KeyKept, ShutOut, SameRow
  <2>2. RowsStand(q)
    BY <1>1, <1>2, <2>1, StandByShutOut
  <2>3. RowKept(q)'
    BY <1>1, <1>2, <1>5, Times, Bounds DEF RowKept, SameCall, GoesOn, Moved
  <2> QED
    BY <1>1, <1>3, <2>1, <2>2, <2>3, RowTimed
<1> QED
  BY <1>2, <1>4, <1>5

\* The same for the row of the guard.
LEMMA GuardTimed ==
    ASSUME TimedInv, NEW q \in Payments, ClaimDedup(q) \/ InsertDedupAgain(q)
    PROVE  PInv'
<1>1. /\ TypeOK /\ Act(q) /\ req[q].pc \in Steps /\ req[q].pc \in {"dedup", "again"}
      /\ ~req[q].keyed
  BY ClaimDedupStep, InsertAgainStep DEF TimedInv, BInv, TInv, OnPath, Act, Request, Steps
<1>2. /\ RequestStep(q) /\ UNCHANGED <<slot, now>> /\ SameCall(q)
      /\ \/ Guarded(q)
         \/ UNCHANGED dedup /\ (GoesOn(q, "observe") \/ Ends(q, "duplicate"))
  BY <1>1, ClaimDedupStep, InsertAgainStep DEF RequestStep
<1>3. answer'[q] # "paid" /\ req'[q].pc # "reclaim"
  BY <1>1, <1>2, NotPaidYet DEF Guarded, GoesOn, Ends, Moved
<1>4. CASE UNCHANGED dedup /\ (GoesOn(q, "observe") \/ Ends(q, "duplicate"))
  <2>1. ~Holds(q)'
    BY <1>4 DEF GoesOn, Ends, Moved, Holds, Holding
  <2> QED
    BY <1>1, <1>2, <1>3, <1>4, <2>1, StandStill, RowTimed DEF NoRows, RowKept
<1>5. CASE Guarded(q)
  <2>1. ShutOut(q)
    BY <1>1, <1>5 DEF Guarded, TimedInv, PInv, RowKept, PaidKept, GuardKept, ShutOut, SameRow
  <2>2. RowsStand(q)
    BY <1>1, <1>2, <2>1, StandByShutOut
  <2>3. GuardKept(q)'
    <3>1. dedup'.held /\ dedup'.at = req[q].at /\ dedup'.exp = req[q].at + Max({Window, Grace})
      BY <1>5 DEF Guarded, FreshDedup
    <3> QED
      BY <1>1, <1>2, <3>1, Times, Bounds, GuardLifetime DEF GuardKept, SameCall
  <2>4. RowKept(q)'
    BY <1>1, <1>2, <2>3 DEF RowKept, SameCall
  <2> QED
    BY <1>1, <1>3, <2>1, <2>2, <2>4, RowTimed
<1> QED
  BY <1>2, <1>4, <1>5

\* A stale row is taken away from nobody who still needs it.
LEMMA ReclaimTimed ==
    ASSUME Timely, TimedInv, NEW q \in Payments, ReclaimDedup(q)
    PROVE  PInv'
<1>1. TypeOK /\ Act(q) /\ req[q].pc \in Steps /\ req[q].pc = "reclaim"
  BY ReclaimStep DEF TimedInv, BInv, TInv, Act, Request, Steps
<1>2. /\ RequestStep(q) /\ UNCHANGED <<slot, now>>
      /\ \/ dedup.at = req[q].seen /\ dedup' = NoDedup /\ GoesOn(q, "again")
         \/ UNCHANGED dedup /\ Ends(q, "duplicate")
  BY <1>1, ReclaimStep DEF RequestStep
<1>3. answer'[q] # "paid" /\ req'[q].pc # "reclaim" /\ ~Holds(q)'
  BY <1>1, <1>2, NotPaidYet DEF GoesOn, Ends, Moved, Holds, Holding
<1>4. RowKept(q)'
  BY <1>3 DEF RowKept
<1>5. CASE UNCHANGED dedup
  BY <1>1, <1>2, <1>3, <1>4, <1>5, StandStill, RowTimed DEF NoRows
<1>6. CASE dedup.at = req[q].seen
  <2>1. ASSUME NEW p \in Payments \ {q}
        PROVE  (RowKept(p) => RowKept(p)') /\ (PaidKept(p) => PaidKept(p)')
    <3>1. /\ req'[p] = req[p] /\ answer'[p] = answer[p] /\ now' = now /\ slot' = slot
      BY <1>2 DEF RequestStep, Frame
    <3>2. dedup.at + Window < now /\ (Holds(p) => now < req[p].at + CallTime)
      BY <1>1, <1>6, Times, Bounds DEF TimedInv, PInv, InTime, SeesStale, Holds, Holding, Steps
    <3>3. ~(Holds(p) /\ GuardKept(p))
      BY <1>1, <3>2, Times, Bounds DEF GuardKept, Timely
    <3>4. GuardKept(p) /\ ~req[p].keyed => Past(p)
      BY <3>2 DEF GuardKept, Past
    <3> QED
      BY <3>1, <3>3, <3>4 DEF RowKept, PaidKept, Holds, Past, KeyKept
  <2> QED
    BY <1>1, <1>3, <1>4, <2>1, RowTimed DEF RowsStand
<1> QED
  BY <1>2, <1>5, <1>6

LEMMA CompleteTimed ==
    ASSUME TimedInv, NEW q \in Payments, Complete(q)
    PROVE  PInv'
<1>1. TypeOK /\ Act(q) /\ req[q].pc \in Steps /\ req[q].pc = "complete" /\ req[q].keyed /\ Holds(q)
  BY CompleteStep DEF TimedInv, BInv, TInv, OnPath, Act, Request, Steps, Holds, Holding
<1>2. slot.st # "none" /\ req[q].at <= now
  BY <1>1 DEF TimedInv, PInv, RowKept, InTime
<1>3. /\ RequestStep(q) /\ UNCHANGED <<dedup, now>> /\ SameCall(q) /\ GoesOn(q, "find")
      /\ slot' = [st |-> "completed", exp |-> now + Retention, pay |-> q]
  BY <1>1, <1>2, CompleteStep DEF RequestStep
<1>4. RowsStand(q)
  BY <1>1, <1>3, HolderAlone, StandByShutOut
<1>5. KeyKept(q)'
  BY <1>1, <1>2, <1>3, Times, Bounds DEF KeyKept, SameCall
<1>6. RowKept(q)'
  BY <1>1, <1>3, <1>5 DEF RowKept, SameCall
<1> QED
  BY <1>1, <1>3, <1>4, <1>6, NotPaidYet, RowTimed DEF GoesOn, Moved

LEMMA FreeTimed ==
    ASSUME TimedInv, NEW q \in Payments, FreeAfterUndo(q) \/ ReleaseOnError(q)
    PROVE  PInv'
<1>1. TypeOK /\ Act(q)
  BY DEF TimedInv, BInv, TInv, Act, Request
<1>2. /\ RequestStep(q) /\ req[q].pc \in {"free", "release"} /\ Freed(q)
      /\ Moved(q, "done") /\ answer'[q] # "paid"
  BY <1>1, FreeStep
<1>3. Holds(q) /\ ~Holds(q)' /\ req[q].pc \in Steps
  BY <1>2 DEF Holds, Holding, Moved, Steps
<1>4. RowsStand(q)
  BY <1>1, <1>2, <1>3, HolderAlone, StandByShutOut DEF Freed
<1>5. RowKept(q)'
  BY <1>3 DEF RowKept
<1> QED
  BY <1>1, <1>2, <1>3, <1>4, <1>5, RowTimed DEF Moved

\* A row goes by itself only after the time in which it matters.
LEMMA ExpireTimed ==
    ASSUME Timely, TimedInv, Expire
    PROVE  PInv'
<1>1. /\ UNCHANGED <<req, answer, now>> /\ TypeOK
      /\ \/ slot.st # "none" /\ slot.exp <= now /\ slot' = NoSlot /\ UNCHANGED dedup
         \/ dedup.held /\ dedup.exp <= now /\ dedup' = NoDedup /\ UNCHANGED slot
  BY DEF Expire, TimedInv, BInv, TInv
<1>2. ASSUME NEW p \in Payments PROVE RowKept(p)' /\ PaidKept(p)'
  <2>1. RowKept(p) /\ PaidKept(p) /\ InTime(p) /\ slot.st \in {"none", "processing", "completed"}
    BY <1>1 DEF TimedInv, PInv, TypeOK
  <2>2. Holds(p) => now < req[p].at + CallTime
    BY <2>1 DEF InTime, Holds, Holding, Steps
  <2>3. CASE slot.exp <= now /\ slot' = NoSlot /\ UNCHANGED dedup /\ slot.st # "none"
    <3>1. ~(Holds(p) /\ req[p].keyed)
      BY <1>1, <2>1, <2>2, <2>3, Times, Bounds DEF RowKept, KeyKept, Timely
    <3>2. KeyKept(p) /\ req[p].keyed => Past(p)
      BY <1>1, <2>3, Times, Bounds DEF KeyKept, Past
    <3> QED
      BY <1>1, <2>1, <2>3, <3>1, <3>2 DEF RowKept, PaidKept, Holds, Past, GuardKept
  <2>4. CASE dedup.exp <= now /\ dedup' = NoDedup /\ UNCHANGED slot
    <3>1. ~(Holds(p) /\ ~req[p].keyed)
      BY <1>1, <2>1, <2>2, <2>4, Times, Bounds DEF RowKept, GuardKept, Timely
    <3>2. GuardKept(p) /\ ~req[p].keyed => Past(p)
      BY <1>1, <2>4, Times, Bounds DEF GuardKept, Past, Timely
    <3> QED
      BY <1>1, <2>1, <2>4, <3>1, <3>2 DEF RowKept, PaidKept, Holds, Past, KeyKept
  <2> QED
    BY <1>1, <2>3, <2>4
<1>3. ASSUME NEW p \in Payments, NEW q \in Payments PROVE InTime(p)' /\ Pairwise(p, q)'
  BY <1>1 DEF TimedInv, PInv, InTime, SeesStale, Pairwise, SameRow, Holds, Past, Apart
<1> QED
  BY <1>2, <1>3 DEF PInv

LEMMA TickTimed ==
    ASSUME TimedInv, Tick
    PROVE  PInv'
<1>1. /\ UNCHANGED <<req, answer, slot, dedup>> /\ now' = now + 1 /\ TypeOK
      /\ \A q \in Payments : req[q].pc \in Steps => now + 1 < req[q].at + CallTime
  BY DEF Tick, TimedInv, BInv, TInv
<1>2. ASSUME NEW p \in Payments PROVE Past(p) => Past(p)'
  BY <1>1, Times, Bounds DEF Past
<1>3. ASSUME NEW p \in Payments PROVE InTime(p)'
  BY <1>1, Times DEF TimedInv, PInv, InTime, SeesStale
<1>4. ASSUME NEW p \in Payments PROVE RowKept(p)' /\ PaidKept(p)'
  BY <1>1, <1>2 DEF TimedInv, PInv, RowKept, PaidKept, KeyKept, GuardKept, Holds
<1>5. ASSUME NEW p \in Payments, NEW q \in Payments PROVE Pairwise(p, q)'
  BY <1>1, <1>2 DEF TimedInv, PInv, Pairwise, SameRow, Holds, Apart
<1> QED
  BY <1>3, <1>4, <1>5 DEF PInv

LEMMA TimedInvNext == ASSUME Timely PROVE TimedInv /\ [Next]_vars => TimedInv'
<1> SUFFICES ASSUME TimedInv, [Next]_vars PROVE PInv'
  BY BInvNext DEF TimedInv
<1>1. ASSUME NEW q \in Payments, Act(q) PROVE PInv'
  BY <1>1, StartTimed, ObserveTimed, ClaimKeyTimed, GuardTimed, ReclaimTimed, CompleteTimed,
     FreeTimed, QuietSteps DEF Act, Request
<1>2. CASE Aside
  BY <1>2 DEF Aside, TimedInv, PInv, InTime, SeesStale, RowKept, PaidKept, KeyKept, GuardKept, Pairwise,
              SameRow, Holds, Past, Apart
<1>3. ASSUME NEW v \in Voids, Void(v) \/ CrashVoid(v) \/ VoidRaises(v) \/ VoidPushLost(v) PROVE PInv'
  BY <1>2, <1>3, VoidTyped DEF TimedInv, BInv
<1>4. CASE Drawer
  BY <1>2, <1>4, DrawerTyped DEF TimedInv, BInv
<1>5. CASE Expire
  BY <1>5, ExpireTimed
<1>6. CASE Tick
  BY <1>6, TickTimed
<1>7. CASE UNCHANGED vars
  BY <1>2, <1>7 DEF vars, Aside
<1> QED
  BY <1>1, <1>3, <1>4, <1>5, <1>6, <1>7 DEF Next, Act

LEMMA TimedImplies == TimedInv => DoubleSubmitPaysOnce
<1> SUFFICES ASSUME TimedInv PROVE DoubleSubmitPaysOnce
  OBVIOUS
<1>1. TypeOK /\ Confirmed \subseteq Payments /\ \A p \in Confirmed : answer[p] = "paid"
  BY DEF Confirmed, TimedInv, BInv, TInv
<1>2. ASSUME NEW p \in Confirmed, NEW q \in Confirmed, p # q, req[p].at <= req[q].at,
             req[p].keyed = req[q].keyed
      PROVE  Apart(p, q)
  <2>1. Apart(p, q) \/ Apart(q, p)
    BY <1>1, <1>2 DEF TimedInv, PInv, Pairwise, SameRow
  <2> QED
    BY <1>1, <1>2, <2>1, Times, Bounds DEF Apart
<1>3. \A p \in Confirmed : req[p].keyed \in BOOLEAN
  BY <1>1, Times
<1>4. ASSUME NEW p \in Confirmed, NEW q \in Confirmed, p # q, req[p].at <= req[q].at
      PROVE  /\ req[p].keyed /\ req[q].keyed => req[q].at + CallTime > req[p].at + Retention
             /\ ~req[p].keyed /\ ~req[q].keyed =>
                    req[q].at + CallTime > req[p].at + Window + 1
  <2>1. req[p].keyed = req[q].keyed => Apart(p, q)
    BY <1>2, <1>4
  <2> QED
    BY <1>3, <2>1 DEF Apart
<1> QED
  BY <1>4 DEF DoubleSubmitPaysOnce

\* "two concurrent double-clicks can never BOTH acquire" (idempotency.py): when
\* calls are faster than the rows that guard them expire or turn stale, any
\* number of submissions of one payment, by key or by double click, with crashes,
\* raised exceptions and refused pushes, pays once.
THEOREM PaidOnce ==
    ASSUME Timely
    PROVE  Spec => []DoubleSubmitPaysOnce
<1>1. Init => TimedInv
  BY BInvInit, PInvInit DEF TimedInv
<1> QED
  BY <1>1, TimedInvNext, TimedImplies, PTL DEF Spec
=============================================================================
