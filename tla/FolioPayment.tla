---------------------------- MODULE FolioPayment ----------------------------
(***************************************************************************)
(* Cash payments to one folio and their voids: post_payment_to_folio and   *)
(* void_payment of routers/finance/folio.py, with the idempotency slot and *)
(* the short-window guard of shared_kernel/idempotency.py, on top of the   *)
(* cash drawer.                                                            *)
(*                                                                         *)
(* The requests carry the same payment: double clicks and retries, some    *)
(* with the one Idempotency-Key and some without a key.  A request inserts *)
(* at most one payment row, which has the request's name.  Every database  *)
(* call is one step; reads that only feed formatting are left out, and so  *)
(* are the stored folio balance and the paid counter of the booking.       *)
(***************************************************************************)
EXTENDS CashDrawer, FiniteSetsExt

CONSTANTS
    Voids,       \* calls of void_payment that may run at the same time
    Window,      \* payment_dedup_window_seconds, in clock ticks
    Grace,       \* IDEMPOTENCY_PROCESSING_GRACE_SECONDS
    Retention,   \* IDEMPOTENCY_RETENTION_SECONDS
    CallTime,    \* a request ends in fewer ticks after it read the clock
    MaxTime,     \* bound on the clock
    MaxFaults,   \* bound on crashes, raised exceptions and lost pushes
    NoPayment

ASSUME PaymentAssumption ==
    /\ Window \in Nat
    /\ Grace \in Nat \ {0}
    /\ Retention \in Nat \ {0}
    /\ CallTime \in Nat \ {0}
    /\ MaxTime \in Nat
    /\ MaxFaults \in Nat
    /\ NoPayment \notin Payments

VARIABLES
    slot,      \* the row of the key: status, expires_at, payment of the response body
    dedup,     \* the row of the guard: is it there, created_at, expires_at
    req,       \* req[q]: where q is, its clock reading, the created_at and shift it saw
    void,      \* void[v]: where v is, its payment, the shift it saw
    answer,    \* answer[q]: what q was told
    cut,       \* payments whose request or void crashed or raised half way
    unsaid,    \* payments of which a push failed and was only logged
    now

guardVars == <<slot, dedup>>
vars == <<pay, born, shift, tx, till, slot, dedup, req, void, answer, cut, unsaid, now>>

NoSlot == [st |-> "none", exp |-> 0, pay |-> NoPayment]
NoDedup == [held |-> FALSE, at |-> 0, exp |-> 0]
\* The row of an earlier payment that is now outside the window.
LeftOver == [held |-> TRUE, at |-> 0, exp |-> Max({Window, Grace})]
IdleRequest == [pc |-> "idle", keyed |-> FALSE, at |-> 0, seen |-> 0, shift |-> NoShift]
IdleVoid == [pc |-> "idle", pay |-> NoPayment, shift |-> NoShift]

Steps == {"claim", "read", "dedup", "observe", "again", "reclaim", "check", "stamp", "insert",
          "balance", "complete", "find", "push", "lookup", "undo", "free", "release"}

TypeOK ==
    /\ DrawerTypeOK
    /\ slot \in [st : {"none", "processing", "completed"}, exp : Nat,
                 pay : Payments \cup {NoPayment}]
    /\ dedup \in [held : BOOLEAN, at : Nat, exp : Nat]
    /\ req \in [Payments -> [pc : Steps \cup {"idle", "done", "crashed"}, keyed : BOOLEAN,
                             at : Nat, seen : Nat, shift : Shifts \cup {NoShift}]]
    /\ void \in [Voids -> [pc : {"idle", "cas", "find", "push", "lookup", "undo"},
                           pay : Payments \cup {NoPayment}, shift : Shifts \cup {NoShift}]]
    /\ answer \in [Payments -> {"none", "paid", "replay", "in_flight", "duplicate",
                                "refused", "error"}]
    /\ cut \subseteq Payments
    /\ unsaid \subseteq Payments
    /\ now \in Nat

Init ==
    /\ DrawerInit
    /\ slot = NoSlot
    /\ dedup \in {NoDedup, LeftOver}
    /\ req = [q \in Payments |-> IdleRequest]
    /\ void = [v \in Voids |-> IdleVoid]
    /\ answer = [q \in Payments |-> "none"]
    /\ cut = {}
    /\ unsaid = {}
    /\ now = Window + 1

-----------------------------------------------------------------------------

Goto(q, step) == req' = [req EXCEPT ![q].pc = step]

Return(q, outcome) ==
    /\ req' = [req EXCEPT ![q] = [pc |-> "done", keyed |-> req[q].keyed, at |-> req[q].at,
                                  seen |-> 0, shift |-> NoShift]]
    /\ answer' = [answer EXCEPT ![q] = outcome]

FaultsLeft == Cardinality(cut) + Cardinality(unsaid) < MaxFaults

\* What the steps before the first durable write leave alone.
BeforeWrite == UNCHANGED <<pay, born, shift, tx, till, void, cut, unsaid, now>>

Start(q, keyed) ==
    /\ req[q].pc = "idle"
    /\ req' = [req EXCEPT ![q] = [pc |-> IF keyed THEN "claim" ELSE "dedup", keyed |-> keyed,
                                  at |-> now, seen |-> 0, shift |-> NoShift]]
    /\ UNCHANGED <<slot, dedup, answer>> /\ BeforeWrite

-----------------------------------------------------------------------------
(* claim_idempotency *)

ClaimKey(q) ==
    /\ req[q].pc = "claim"
    /\ IF slot.st = "none"
       THEN /\ slot' = [st |-> "processing", exp |-> req[q].at + Grace, pay |-> NoPayment]
            /\ Goto(q, "check")
       ELSE UNCHANGED slot /\ Goto(q, "read")
    /\ UNCHANGED <<dedup, answer>> /\ BeforeWrite

\* Mutant: the status of the row is returned as it stands.
ReadKeyRaw(q) ==
    /\ req[q].pc = "read"
    /\ Return(q, slot.st)
    /\ UNCHANGED guardVars /\ BeforeWrite

ReadKey(q) ==
    /\ req[q].pc = "read"
    /\ Return(q, IF slot.st = "completed" THEN "replay" ELSE "in_flight")
    /\ UNCHANGED guardVars /\ BeforeWrite

-----------------------------------------------------------------------------
(* claim_short_window_dedup *)

FreshDedup(q) ==
    [held |-> TRUE, at |-> req[q].at,
     exp |-> req[q].at + Max({Window, Grace})]

\* insert_one under the unique _id; a duplicate ends as `otherwise` says.
InsertDedup(q, otherwise) ==
    \/ /\ ~dedup.held
       /\ dedup' = FreshDedup(q)
       /\ Goto(q, "check")
       /\ UNCHANGED answer
    \/ /\ dedup.held
       /\ otherwise
       /\ UNCHANGED dedup

ClaimDedup(q) ==
    /\ req[q].pc = "dedup"
    /\ InsertDedup(q, Goto(q, "observe") /\ UNCHANGED answer)
    /\ UNCHANGED slot /\ BeforeWrite

\* The row has gone, is inside the window, or is stale.
ObserveDedup(q) ==
    /\ req[q].pc = "observe"
    /\ \/ ~dedup.held /\ Goto(q, "again") /\ UNCHANGED answer
       \/ dedup.held /\ req[q].at <= dedup.at + Window /\ Return(q, "duplicate")
       \/ /\ dedup.held /\ req[q].at > dedup.at + Window
          /\ req' = [req EXCEPT ![q].pc = "reclaim", ![q].seen = dedup.at]
          /\ UNCHANGED answer
    /\ UNCHANGED guardVars /\ BeforeWrite

InsertDedupAgain(q) ==
    /\ req[q].pc = "again"
    /\ InsertDedup(q, Return(q, "duplicate"))
    /\ UNCHANGED slot /\ BeforeWrite

\* Mutant: the stale row is deleted by its id.
ReclaimAny(q) ==
    /\ req[q].pc = "reclaim"
    /\ dedup' = NoDedup /\ Goto(q, "again")
    /\ UNCHANGED <<slot, answer>> /\ BeforeWrite

\* The delete is conditional on the created_at that was observed.
ReclaimDedup(q) ==
    /\ req[q].pc = "reclaim"
    /\ IF dedup.held /\ dedup.at = req[q].seen
       THEN dedup' = NoDedup /\ Goto(q, "again") /\ UNCHANGED answer
       ELSE Return(q, "duplicate") /\ UNCHANGED dedup
    /\ UNCHANGED slot /\ BeforeWrite

-----------------------------------------------------------------------------
(* The payment *)

\* ensure_active_shift
CheckShift(q) ==
    /\ req[q].pc = "check"
    /\ Goto(q, IF shift.open THEN "stamp" ELSE "release")
    /\ UNCHANGED <<pay, born, shift, tx, till, slot, dedup, void, answer, cut, unsaid, now>>

\* processed_at is set, when the shift may be closed again or be another one.
StampPayment(q) ==
    /\ req[q].pc = "stamp"
    /\ born' = [born EXCEPT ![q] = shift.no]
    /\ Goto(q, "insert")
    /\ UNCHANGED <<pay, shift, tx, till, slot, dedup, void, answer, cut, unsaid, now>>

InsertPayment(q) ==
    /\ req[q].pc = "insert"
    /\ pay' = [pay EXCEPT ![q] = "live"]
    /\ Goto(q, "balance")
    /\ UNCHANGED <<born, shift, tx, till, slot, dedup, void, answer, cut, unsaid, now>>

\* calculate_folio_balance and the update of the folio; only then is the row
\* of the key or of the guard out of reach of the outer except clauses.
UpdateBalance(q) ==
    /\ req[q].pc = "balance"
    /\ Goto(q, IF req[q].keyed THEN "complete" ELSE "find")
    /\ UNCHANGED <<pay, born, shift, tx, till, slot, dedup, void, answer, cut, unsaid, now>>

\* complete_idempotency: an update by id, without effect when the row has gone.
Complete(q) ==
    /\ req[q].pc = "complete"
    /\ slot' = IF slot.st = "none" THEN slot
               ELSE [st |-> "completed", exp |-> now + Retention, pay |-> q]
    /\ Goto(q, "find")
    /\ UNCHANGED <<pay, born, shift, tx, till, dedup, void, answer, cut, unsaid, now>>

\* record_cash_transaction: the active shift is read; without one, 409.
FindShift(q) ==
    /\ req[q].pc = "find"
    /\ req' = [req EXCEPT ![q].pc = IF shift.open THEN "push" ELSE "undo",
                          ![q].shift = ActiveShift]
    /\ UNCHANGED <<pay, born, shift, tx, till, slot, dedup, void, answer, cut, unsaid, now>>

\* Mutant: a refused push does not drop the payment, as for a card.
PushPaymentKept(q) ==
    /\ req[q].pc = "push"
    /\ Push(q, "in", req[q].shift)
    /\ Return(q, "paid")
    /\ UNCHANGED <<pay, born, shift, till, slot, dedup, void, cut, unsaid, now>>

PushPayment(q) ==
    /\ req[q].pc = "push"
    /\ Push(q, "in", req[q].shift)
    /\ IF PushMatches(q, "in", req[q].shift)
       THEN Return(q, "paid")
       ELSE Goto(q, "lookup") /\ UNCHANGED answer
    /\ UNCHANGED <<pay, born, shift, till, slot, dedup, void, cut, unsaid, now>>

\* A push that matched nothing is a success when some shift holds the key.
LookUpPayment(q) ==
    /\ req[q].pc = "lookup"
    /\ IF Recorded(q, "in")
       THEN Return(q, "paid")
       ELSE Goto(q, "undo") /\ UNCHANGED answer
    /\ UNCHANGED <<pay, born, shift, tx, till, slot, dedup, void, cut, unsaid, now>>

\* The shift was closed: the payment is deleted ...
UndoPayment(q) ==
    /\ req[q].pc = "undo"
    /\ pay' = [pay EXCEPT ![q] = "gone"]
    /\ Goto(q, "free")
    /\ UNCHANGED <<born, shift, tx, till, slot, dedup, void, answer, cut, unsaid, now>>

\* Mutant: the replay body outlives the payment.
FreeSlotNot(q, outcome) == UNCHANGED guardVars /\ Return(q, outcome)

\* release_idempotency deletes the row of the key or of the guard by its id.
FreeSlot(q, outcome) ==
    /\ IF req[q].keyed
       THEN slot' = NoSlot /\ UNCHANGED dedup
       ELSE dedup' = NoDedup /\ UNCHANGED slot
    /\ Return(q, outcome)

\* ... and then the row that would replay or refuse it.
FreeAfterUndo(q) ==
    /\ req[q].pc = "free"
    /\ FreeSlot(q, "refused")
    /\ UNCHANGED <<pay, born, shift, tx, till, void, cut, unsaid, now>>

\* The outer except clauses.
ReleaseOnError(q) ==
    /\ req[q].pc = "release"
    /\ FreeSlot(q, "error")
    /\ UNCHANGED <<pay, born, shift, tx, till, void, cut, unsaid, now>>

Request(q) ==
    \/ \E keyed \in BOOLEAN : Start(q, keyed)
    \/ ClaimKey(q)
    \/ ReadKey(q)
    \/ ClaimDedup(q)
    \/ ObserveDedup(q)
    \/ InsertDedupAgain(q)
    \/ ReclaimDedup(q)
    \/ CheckShift(q)
    \/ StampPayment(q)
    \/ InsertPayment(q)
    \/ UpdateBalance(q)
    \/ Complete(q)
    \/ FindShift(q)
    \/ PushPayment(q)
    \/ LookUpPayment(q)
    \/ UndoPayment(q)
    \/ FreeAfterUndo(q)
    \/ ReleaseOnError(q)

-----------------------------------------------------------------------------
(* void_payment *)

VoidGoto(v, step) == void' = [void EXCEPT ![v].pc = step]

\* The payment is read, and a shift is open.
StartVoid(v, p) ==
    /\ void[v].pc = "idle"
    /\ pay[p] = "live"
    /\ shift.open
    /\ void' = [void EXCEPT ![v] = [pc |-> "cas", pay |-> p, shift |-> NoShift]]
    /\ UNCHANGED <<pay, born, shift, tx, till, slot, dedup, req, answer, cut, unsaid, now>>

\* The update is conditional on voided being unset.
VoidCas(v) ==
    /\ void[v].pc = "cas"
    /\ IF pay[void[v].pay] = "live"
       THEN pay' = [pay EXCEPT ![void[v].pay] = "voided"] /\ VoidGoto(v, "find")
       ELSE void' = [void EXCEPT ![v] = IdleVoid] /\ UNCHANGED pay
    /\ UNCHANGED <<born, shift, tx, till, slot, dedup, req, answer, cut, unsaid, now>>

VoidFindShift(v) ==
    /\ void[v].pc = "find"
    /\ void' = [void EXCEPT ![v].pc = IF shift.open THEN "push" ELSE "undo",
                            ![v].shift = ActiveShift]
    /\ UNCHANGED <<pay, born, shift, tx, till, slot, dedup, req, answer, cut, unsaid, now>>

VoidPush(v) ==
    /\ void[v].pc = "push"
    /\ Push(void[v].pay, "out", void[v].shift)
    /\ IF PushMatches(void[v].pay, "out", void[v].shift)
       THEN void' = [void EXCEPT ![v] = IdleVoid]
       ELSE VoidGoto(v, "lookup")
    /\ UNCHANGED <<pay, born, shift, till, slot, dedup, req, answer, cut, unsaid, now>>

VoidLookUp(v) ==
    /\ void[v].pc = "lookup"
    /\ IF Recorded(void[v].pay, "out")
       THEN void' = [void EXCEPT ![v] = IdleVoid]
       ELSE VoidGoto(v, "undo")
    /\ UNCHANGED <<pay, born, shift, tx, till, slot, dedup, req, answer, cut, unsaid, now>>

\* _rollback_void: an update by id; it matches nothing if the row was deleted.
VoidUndo(v) ==
    /\ void[v].pc = "undo"
    /\ pay' = [pay EXCEPT ![void[v].pay] = IF @ = "gone" THEN @ ELSE "live"]
    /\ void' = [void EXCEPT ![v] = IdleVoid]
    /\ UNCHANGED <<born, shift, tx, till, slot, dedup, req, answer, cut, unsaid, now>>

Void(v) ==
    \/ \E p \in Payments : StartVoid(v, p)
    \/ VoidCas(v)
    \/ VoidFindShift(v)
    \/ VoidPush(v)
    \/ VoidLookUp(v)
    \/ VoidUndo(v)

-----------------------------------------------------------------------------
(* Faults and the environment *)

\* The process dies.
Crash(q) ==
    /\ FaultsLeft
    /\ req[q].pc \in Steps
    /\ cut' = cut \cup {q}
    /\ Goto(q, "crashed")
    /\ UNCHANGED <<pay, born, shift, tx, till, slot, dedup, void, answer, unsaid, now>>

CrashVoid(v) ==
    /\ FaultsLeft
    /\ void[v].pc # "idle"
    /\ cut' = cut \cup {void[v].pay}
    /\ void' = [void EXCEPT ![v] = IdleVoid]
    /\ UNCHANGED <<pay, born, shift, tx, till, slot, dedup, req, answer, unsaid, now>>

\* The insert (before or after it took effect), the balance or the completion
\* raises: the outer except clauses release the row.
Raise(q) ==
    /\ FaultsLeft
    /\ \/ req[q].pc \in {"insert", "balance", "complete"} /\ UNCHANGED pay
       \/ req[q].pc = "insert" /\ pay' = [pay EXCEPT ![q] = "live"]
    /\ cut' = cut \cup {q}
    /\ Goto(q, "release")
    /\ UNCHANGED <<born, shift, tx, till, slot, dedup, void, answer, unsaid, now>>

\* The rollback raises, at the delete (which may have taken effect) or after it:
\* it is logged and the row of the key or of the guard stays.
RaiseInUndo(q) ==
    /\ FaultsLeft
    /\ \/ req[q].pc \in {"undo", "free"} /\ UNCHANGED pay
       \/ req[q].pc = "undo" /\ pay' = [pay EXCEPT ![q] = "gone"]
    /\ cut' = cut \cup {q}
    /\ Return(q, "refused")
    /\ UNCHANGED <<born, shift, tx, till, slot, dedup, void, unsaid, now>>

\* The push raises and record_cash_transaction logs it and returns None, or its
\* reads before and after the push raise and post_payment_to_folio logs that.
PushLost(q) ==
    /\ FaultsLeft
    /\ req[q].pc \in {"find", "push", "lookup"}
    /\ unsaid' = unsaid \cup {q}
    /\ Return(q, "paid")
    /\ UNCHANGED <<pay, born, shift, tx, till, slot, dedup, void, cut, now>>

\* The reads of record_cash_transaction raise: the void is taken back.
VoidRaises(v) ==
    /\ FaultsLeft
    /\ void[v].pc \in {"find", "lookup"}
    /\ cut' = cut \cup {void[v].pay}
    /\ VoidGoto(v, "undo")
    /\ UNCHANGED <<pay, born, shift, tx, till, slot, dedup, req, answer, unsaid, now>>

VoidPushLost(v) ==
    /\ FaultsLeft
    /\ void[v].pc = "push"
    /\ unsaid' = unsaid \cup {void[v].pay}
    /\ void' = [void EXCEPT ![v] = IdleVoid]
    /\ UNCHANGED <<pay, born, shift, tx, till, slot, dedup, req, answer, cut, now>>

\* The TTL index removes a row some time after expires_at.
Expire ==
    /\ \/ slot.st # "none" /\ slot.exp <= now /\ slot' = NoSlot /\ UNCHANGED dedup
       \/ dedup.held /\ dedup.exp <= now /\ dedup' = NoDedup /\ UNCHANGED slot
    /\ UNCHANGED <<pay, born, shift, tx, till, req, void, answer, cut, unsaid, now>>

Tick ==
    /\ now < MaxTime
    /\ \A q \in Payments : req[q].pc \in Steps => now + 1 < req[q].at + CallTime
    /\ now' = now + 1
    /\ UNCHANGED <<pay, born, shift, tx, till, slot, dedup, req, void, answer, cut, unsaid>>

Drawer ==
    /\ DrawerNext
    /\ UNCHANGED <<slot, dedup, req, void, answer, cut, unsaid, now>>

Next ==
    \/ \E q \in Payments : Request(q)
    \/ \E v \in Voids : Void(v)
    \/ Drawer
    \/ \E q \in Payments : Crash(q) \/ Raise(q) \/ RaiseInUndo(q) \/ PushLost(q)
    \/ \E v \in Voids : CrashVoid(v) \/ VoidRaises(v) \/ VoidPushLost(v)
    \/ Expire
    \/ Tick

Spec == Init /\ [][Next]_vars

-----------------------------------------------------------------------------
(* Properties *)

\* Payments that were confirmed to a caller and that are in the books.
Confirmed == {q \in Payments : answer[q] = "paid" /\ pay[q] # "gone"}

\* Two confirmed payments are far apart in time, up to the duration of one call:
\* with the key, by the time a completed key is kept; without a key, by more than
\* the double-click window, however many clicks find the same stale row of the
\* guard.
DoubleSubmitPaysOnce ==
    \A p, q \in Confirmed : p # q /\ req[p].at <= req[q].at =>
        /\ req[p].keyed /\ req[q].keyed => req[q].at + CallTime > req[p].at + Retention
        /\ ~req[p].keyed /\ ~req[q].keyed => req[q].at + CallTime > req[p].at + Window + 1

\* No request or void that concerns payment p is under way.
AtRest(p) ==
    /\ req[p].pc \notin Steps
    /\ \A v \in Voids : void[v].pay # p

\* A key never keeps replaying a payment that was taken back because the shift
\* had been closed: unless the request was cut off half way, the payment named
\* by a completed slot is in the books once that request has ended.
ReplayedPaymentExists ==
    slot.st = "completed" /\ AtRest(slot.pay) /\ slot.pay \notin cut => pay[slot.pay] # "gone"

\* The drawer follows the books: once nobody works on a payment, a kept payment
\* has its cash record and a voided one its refund record, even if the shift was
\* closed, handed over or swept in between, unless one of its calls was cut off
\* or its record could not be written.
DrawerFollowsBooks ==
    \A p \in Payments \ (cut \cup unsaid) : AtRest(p) =>
        /\ pay[p] = "live" => Recorded(p, "in")
        /\ pay[p] = "voided" => Recorded(p, "out")

\* "If it fails, take the void back (compensation)" (folio.py): a payment whose
\* refund could not be recorded in the drawer is not left voided.
UnrecordedVoidIsTakenBack ==
    \A p \in Payments \ cut : AtRest(p) /\ pay[p] = "voided" => Recorded(p, "out")
=============================================================================
