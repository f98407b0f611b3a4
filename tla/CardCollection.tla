--------------------------- MODULE CardCollection ---------------------------
(***************************************************************************)
(* Card collection: collect_booking_payment of core/payments/collection.py *)
(* with the idempotency slot of shared_kernel/idempotency.py, as called by *)
(* the operator endpoint and the autonomous collection worker.             *)
(*                                                                         *)
(* One (tenant, booking, scope, idempotency key) is modelled: every filter *)
(* of the code carries them.  Requests are the calls that carry this key:  *)
(* double clicks, client retries, worker runs.  Every database call and    *)
(* the call to the payment provider (PSP) is one step; the recording of a  *)
(* success is one step because it is one transaction.                      *)
(***************************************************************************)
EXTENDS Naturals, FiniteSets

CONSTANTS
    Requests,    \* calls that carry the key
    Prints,      \* request fingerprints: folio, amount, currency, card, type
    Grace,       \* IDEMPOTENCY_PROCESSING_GRACE_SECONDS, in clock ticks
    Retention,   \* IDEMPOTENCY_RETENTION_SECONDS, in clock ticks
    Stall,       \* a call reaches its intent in fewer ticks after its prior check
    CallTime,    \* a call ends in fewer ticks after it claimed the slot
    MaxTime,     \* bound on the clock
    NoPrint

ASSUME CollectionAssumption ==
    /\ Grace \in Nat \ {0}
    /\ Retention \in Nat \ {0}
    /\ Stall \in Nat \ {0}
    /\ CallTime \in Nat \ {0}
    /\ MaxTime \in Nat
    /\ NoPrint \notin Prints

VARIABLES
    slot,      \* the row of idempotency_keys: its status and expires_at
    intent,    \* intent[q]: status of the payment_intents row q inserted
    ledger,    \* requests whose payment row, folio and booking are written
    psp,       \* psp[q]: what the provider made of q's charge
    req,       \* req[q]: where q is, its fingerprint, its clock readings
    answer,    \* answer[q]: the outcome q returned
    now

vars == <<slot, intent, ledger, psp, req, answer, now>>

NoSlot == [st |-> "none", exp |-> 0]
Idle == [pc |-> "idle", fp |-> NoPrint, checked |-> 0, claimed |-> 0, mark |-> "none"]

IntentStatuses == {"none", "pending", "unknown", "requires_action", "failed",
                   "completed", "completed_unrecorded"}

\* The outcome that is returned once an intent has been marked.
OutcomeOf == [unknown |-> "unknown", requires_action |-> "requires_action",
              pending |-> "in_flight", completed_unrecorded |-> "paid_unrecorded"]

Answers == {"none", "paid", "paid_unrecorded", "replay", "in_flight",
            "requires_action", "failed", "unknown", "mismatch"}

TypeOK ==
    /\ slot \in [st : {"none", "processing", "completed"}, exp : Nat]
    /\ intent \in [Requests -> IntentStatuses]
    /\ ledger \subseteq Requests
    /\ psp \in [Requests -> {"none", "open", "charged", "refused"}]
    /\ req \in [Requests -> [pc : {"idle", "prior", "claim", "read", "intent", "charge",
                                   "mark", "release", "record", "done", "crashed"},
                             fp : Prints \cup {NoPrint}, checked : Nat, claimed : Nat,
                             mark : IntentStatuses]]
    /\ answer \in [Requests -> Answers]
    /\ now \in Nat

Init ==
    /\ slot = NoSlot
    /\ intent = [q \in Requests |-> "none"]
    /\ ledger = {}
    /\ psp = [q \in Requests |-> "none"]
    /\ req = [q \in Requests |-> Idle]
    /\ answer = [q \in Requests |-> "none"]
    /\ now = 0

-----------------------------------------------------------------------------

Goto(q, step) == req' = [req EXCEPT ![q].pc = step]

Return(q, outcome) ==
    /\ Goto(q, "done")
    /\ answer' = [answer EXCEPT ![q] = outcome]

Start(q, f) ==
    /\ req[q].pc = "idle"
    /\ req' = [req EXCEPT ![q] = [Idle EXCEPT !.pc = "prior", !.fp = f]]
    /\ UNCHANGED <<slot, intent, ledger, psp, answer, now>>

\* Mutant: only intents that ended well are looked for.
PriorIntentsCompleted ==
    {p \in Requests : intent[p] \in {"completed", "completed_unrecorded", "requires_action"}}

\* The durable guard: every intent of the key that did not fail.
PriorIntents == {p \in Requests : intent[p] \notin {"none", "failed"}}

\* What a call returns when it finds intent p.
PriorOutcome(q, p) ==
    CASE req[p].fp # req[q].fp -> "mismatch"
      [] req[p].fp = req[q].fp /\ intent[p] \in {"completed", "completed_unrecorded"} -> "replay"
      [] req[p].fp = req[q].fp /\ intent[p] = "requires_action" -> "requires_action"
      [] OTHER -> "in_flight"

\* find_one returns any one of the matching intents.
CheckPrior(q) ==
    /\ req[q].pc = "prior"
    /\ \/ /\ PriorIntents = {}
          /\ req' = [req EXCEPT ![q].pc = "claim", ![q].checked = now]
          /\ UNCHANGED answer
       \/ \E p \in PriorIntents : Return(q, PriorOutcome(q, p))
    /\ UNCHANGED <<slot, intent, ledger, psp, now>>

\* claim_idempotency: insert_one under the unique _id ...
Claim(q) ==
    /\ req[q].pc = "claim"
    /\ IF slot.st = "none"
       THEN /\ slot' = [st |-> "processing", exp |-> now + Grace]
            /\ req' = [req EXCEPT ![q].pc = "intent", ![q].claimed = now]
       ELSE Goto(q, "read") /\ UNCHANGED slot
    /\ UNCHANGED <<intent, ledger, psp, answer, now>>

\* Mutant: the status of the row is returned as it stands.
ReadSlotRaw(q) ==
    /\ req[q].pc = "read"
    /\ Return(q, slot.st)
    /\ UNCHANGED <<slot, intent, ledger, psp, now>>

\* ... and, on a duplicate, a read of the row; no request hash is passed.
ReadSlot(q) ==
    /\ req[q].pc = "read"
    /\ Return(q, IF slot.st = "completed" THEN "replay" ELSE "in_flight")
    /\ UNCHANGED <<slot, intent, ledger, psp, now>>

InsertIntent(q) ==
    /\ req[q].pc = "intent"
    /\ intent' = [intent EXCEPT ![q] = "pending"]
    /\ Goto(q, "charge")
    /\ UNCHANGED <<slot, ledger, psp, answer, now>>

-----------------------------------------------------------------------------
(* provider.charge and what follows from its result *)

ChargeSucceeds(q) ==
    /\ req[q].pc = "charge"
    /\ psp' = [psp EXCEPT ![q] = "charged"]
    /\ Goto(q, "record")
    /\ UNCHANGED <<slot, intent, ledger, answer, now>>

\* The provider left the charge as `state`; the intent is to be marked `status`.
ChargeLeaves(q, state, status) ==
    /\ req[q].pc = "charge"
    /\ psp' = [psp EXCEPT ![q] = state]
    /\ req' = [req EXCEPT ![q].pc = "mark", ![q].mark = status]
    /\ UNCHANGED <<slot, intent, ledger, answer, now>>

\* Not ok, or a PaymentError below 500: the provider refused for certain.
ChargeRefused(q) == ChargeLeaves(q, "refused", "failed")

\* Mutant: a 5xx is taken for a refusal.
ChargeUnknownAsFailed(q) ==
    \E state \in {"open", "charged", "refused"} : ChargeLeaves(q, state, "failed")

\* A PaymentError of 500 and above, or any other exception.
ChargeUnknown(q) ==
    \E state \in {"open", "charged", "refused"} : ChargeLeaves(q, state, "unknown")

\* 3DS required, or the provider answers later.
ChargePending(q) ==
    \E status \in {"requires_action", "pending"} : ChargeLeaves(q, "open", status)

\* An open charge is completed by the card holder or the provider.
Settle(q) ==
    /\ psp[q] = "open"
    /\ \E state \in {"charged", "refused"} : psp' = [psp EXCEPT ![q] = state]
    /\ UNCHANGED <<slot, intent, ledger, req, answer, now>>

\* update_one of the intent; only a failed intent releases the slot.
MarkIntent(q) ==
    /\ req[q].pc = "mark"
    /\ intent' = [intent EXCEPT ![q] = req[q].mark]
    /\ IF req[q].mark = "failed"
       THEN Goto(q, "release") /\ UNCHANGED answer
       ELSE Return(q, OutcomeOf[req[q].mark])
    /\ UNCHANGED <<slot, ledger, psp, now>>

\* release_idempotency deletes the row by its id, whoever claimed it.
Release(q) ==
    /\ req[q].pc = "release"
    /\ slot' = NoSlot
    /\ Return(q, "failed")
    /\ UNCHANGED <<intent, ledger, psp, now>>

CompletedSlot ==
    IF slot.st = "none" THEN slot ELSE [st |-> "completed", exp |-> now + Retention]

\* Mutant: the intent is not part of the transaction.
RecordWithoutIntent(q) ==
    /\ req[q].pc = "record"
    /\ ledger' = ledger \cup {q}
    /\ slot' = CompletedSlot
    /\ Return(q, "paid")
    /\ UNCHANGED <<intent, psp, now>>

\* The success transaction: ledger, intent and slot together.
Record(q) ==
    /\ req[q].pc = "record"
    /\ ledger' = ledger \cup {q}
    /\ intent' = [intent EXCEPT ![q] = "completed"]
    /\ slot' = CompletedSlot
    /\ Return(q, "paid")
    /\ UNCHANGED <<psp, now>>

\* The transaction raises, without effect or after a commit whose answer was lost.
RecordFails(q) ==
    /\ req[q].pc = "record"
    /\ \/ UNCHANGED <<slot, intent, ledger>>
       \/ /\ ledger' = ledger \cup {q}
          /\ intent' = [intent EXCEPT ![q] = "completed"]
          /\ slot' = CompletedSlot
    /\ req' = [req EXCEPT ![q].pc = "mark", ![q].mark = "completed_unrecorded"]
    /\ UNCHANGED <<psp, answer, now>>

-----------------------------------------------------------------------------
(* The environment *)

\* The process dies, or an exception leaves the function.
Crash(q) ==
    /\ req[q].pc \notin {"idle", "done", "crashed"}
    /\ Goto(q, "crashed")
    /\ UNCHANGED <<slot, intent, ledger, psp, answer, now>>

\* The TTL index removes the row some time after expires_at.
Expire ==
    /\ slot.st # "none" /\ slot.exp <= now
    /\ slot' = NoSlot
    /\ UNCHANGED <<intent, ledger, psp, req, answer, now>>

\* No call stays longer than Stall and CallTime allow.
Tick ==
    /\ now < MaxTime
    /\ \A q \in Requests :
          /\ req[q].pc \in {"claim", "read", "intent"} => now + 1 < req[q].checked + Stall
          /\ req[q].pc \in {"intent", "charge", "mark", "release", "record"} =>
                now + 1 < req[q].claimed + CallTime
    /\ now' = now + 1
    /\ UNCHANGED <<slot, intent, ledger, psp, req, answer>>

-----------------------------------------------------------------------------

Before(q) ==
    \/ \E f \in Prints : Start(q, f)
    \/ CheckPrior(q)
    \/ Claim(q)
    \/ ReadSlot(q)
    \/ InsertIntent(q)

Provider(q) ==
    \/ ChargeSucceeds(q)
    \/ ChargeRefused(q)
    \/ ChargeUnknown(q)
    \/ ChargePending(q)
    \/ Settle(q)

After(q) ==
    \/ MarkIntent(q)
    \/ Release(q)
    \/ Record(q)
    \/ RecordFails(q)

Next ==
    \/ \E q \in Requests : Before(q) \/ Provider(q) \/ After(q) \/ Crash(q)
    \/ Expire
    \/ Tick

Spec == Init /\ [][Next]_vars

-----------------------------------------------------------------------------
(* Properties *)

\* Money the provider took, or may still take.
MoneyAtStake == {q \in Requests : psp[q] \in {"open", "charged"}}

\* One key never takes the money twice: double clicks, retries after a crash,
\* a lost answer, a timeout or the expiry of the slot do not reach the provider
\* a second time while an earlier charge may stand.
NoDoubleCharge == Cardinality(MoneyAtStake) <= 1

\* A charge that may stand is never forgotten: its intent is there and blocks
\* every later call, even if the process died right after the provider's answer.
ChargeLeavesIntent == MoneyAtStake \subseteq PriorIntents

\* What a caller was told stays true: paid means recorded and blocked for good,
\* failed means that the provider did not take the money, and a replay repeats
\* the answer to a charge that took place.
AnswersAreTrue ==
    \A q \in Requests :
        /\ answer[q] = "paid" => psp[q] = "charged" /\ q \in ledger /\ intent[q] = "completed"
        /\ answer[q] = "failed" => psp[q] = "refused"
        /\ answer[q] = "replay" => \E p \in Requests \ {q} : psp[p] = "charged"

\* "Subsequent requests with different payload: 409 Conflict"
\* (docs/ADR_BOOKING_INVARIANTS.md, INV-3): a replayed answer belongs to a
\* charge with the caller's own fingerprint.
ReplayHasSamePayload ==
    \A q \in Requests : answer[q] = "replay" =>
        \E p \in Requests : psp[p] = "charged" /\ req[p].fp = req[q].fp
=============================================================================
