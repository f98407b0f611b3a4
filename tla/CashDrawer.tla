----------------------------- MODULE CashDrawer -----------------------------
(***************************************************************************)
(* The cash drawer of one hotel: cashier shifts, the cash transactions     *)
(* recorded in them, and the sweep that adds the missing ones before a     *)
(* shift is closed or handed over (domains/pms/cashier_service.py,         *)
(* domains/pms/cashier_router.py), with the payment rows they are about.   *)
(*                                                                         *)
(* Shifts are numbered in the order they are opened.  All payments are in  *)
(* cash and of one amount, so the totals of a shift are counts.  One       *)
(* cashier at a time sweeps, closes or hands over.                         *)
(***************************************************************************)
EXTENDS Naturals, FiniteSets

CONSTANTS
    Payments,    \* payment ids
    MaxShifts    \* bound on the shifts that are opened

ASSUME DrawerAssumption == MaxShifts \in Nat \ {0} /\ IsFiniteSet(Payments)

VARIABLES
    pay,      \* pay[p]: the row of payments: none, live, voided or deleted ("gone")
    born,     \* born[p]: the last shift opened before p's processed_at
    shift,    \* the last shift: its number and whether it is open
    tx,       \* the transactions: <<payment, direction, shift>>, the key being
              \* "payment:<id>" for direction in and "void:<id>" for out
    till      \* the cashier who sweeps and closes

drawerVars == <<pay, born, shift, tx, till>>

Shifts == 1 .. MaxShifts
Directions == {"in", "out"}
NoShift == 0

IdleTill == [pc |-> "idle", todo |-> {}, totals |-> <<0, 0>>]

DrawerTypeOK ==
    /\ pay \in [Payments -> {"none", "live", "voided", "gone"}]
    /\ born \in [Payments -> Shifts \cup {NoShift}]
    /\ shift \in [no : Shifts \cup {NoShift}, open : BOOLEAN]
    /\ tx \subseteq Payments \X Directions \X Shifts
    /\ till \in [pc : {"idle", "sweep", "close"}, todo : SUBSET Payments, totals : Nat \X Nat]

DrawerInit ==
    /\ pay = [p \in Payments |-> "none"]
    /\ born = [p \in Payments |-> NoShift]
    /\ shift = [no |-> NoShift, open |-> FALSE]
    /\ tx = {}
    /\ till = IdleTill

-----------------------------------------------------------------------------
(* record_cash_transaction *)

\* get_active_shift
ActiveShift == IF shift.open THEN shift.no ELSE NoShift

Recorded(p, d) == \E s \in Shifts : <<p, d, s>> \in tx

\* The filter of the push: the shift that was found is still open and does not
\* hold the key.
PushMatches(p, d, s) == shift.open /\ shift.no = s /\ <<p, d, s>> \notin tx

Push(p, d, s) == tx' = IF PushMatches(p, d, s) THEN tx \cup {<<p, d, s>>} ELSE tx

-----------------------------------------------------------------------------
(* The cashier *)

\* open_shift, and the second half of a handover: a unique index allows one.
OpenShift ==
    /\ ~shift.open
    /\ shift.no < MaxShifts
    /\ shift' = [no |-> shift.no + 1, open |-> TRUE]
    /\ UNCHANGED <<pay, born, tx, till>>

\* The payments the open shift should hold and does not: valid, in cash, not
\* voided, processed since the shift was opened.
Missing ==
    {p \in Payments : pay[p] = "live" /\ born[p] >= shift.no /\ <<p, "in", shift.no>> \notin tx}

\* reconcile_open_shift_payments reads shift and payments ...
StartSweep ==
    /\ till.pc = "idle"
    /\ shift.open
    /\ till' = [IdleTill EXCEPT !.pc = "sweep", !.todo = Missing]
    /\ UNCHANGED <<pay, born, shift, tx>>

\* ... and records them one by one.
SweepOne(p) ==
    /\ till.pc = "sweep"
    /\ p \in till.todo
    /\ Push(p, "in", shift.no)
    /\ till' = [till EXCEPT !.todo = @ \ {p}]
    /\ UNCHANGED <<pay, born, shift>>

\* cash_in and cash_out of the open shift.
Totals == <<Cardinality({p \in Payments : <<p, "in", shift.no>> \in tx}),
            Cardinality({p \in Payments : <<p, "out", shift.no>> \in tx})>>

\* close_shift and handover_shift read the totals after the sweep ...
ReadTotals ==
    /\ till.pc = "sweep"
    /\ till.todo = {}
    /\ till' = [till EXCEPT !.pc = "close", !.totals = Totals]
    /\ UNCHANGED <<pay, born, shift, tx>>

\* ... and close the shift only while they are unchanged.
CloseShift ==
    /\ till.pc = "close"
    /\ shift' = [shift EXCEPT !.open = (Totals # till.totals)]
    /\ till' = IdleTill
    /\ UNCHANGED <<pay, born, tx>>

\* The sweep of get_current_shift, a rejected count, or a call that is cut off.
LeaveTill ==
    /\ till.pc # "idle"
    /\ till' = IdleTill
    /\ UNCHANGED <<pay, born, shift, tx>>

DrawerNext ==
    \/ OpenShift
    \/ StartSweep
    \/ \E p \in Payments : SweepOne(p)
    \/ ReadTotals
    \/ CloseShift
    \/ LeaveTill

-----------------------------------------------------------------------------

\* "idempotent by payment id" (cashier_service.py), "one record for one
\* payment.id" (folio.py): no payment and no refund enters the drawer twice.
RecordedOnce ==
    \A p \in Payments : \A d \in Directions :
        Cardinality({s \in Shifts : <<p, d, s>> \in tx}) <= 1
=============================================================================
