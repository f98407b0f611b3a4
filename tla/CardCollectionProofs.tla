------------------------ MODULE CardCollectionProofs ------------------------
(***************************************************************************)
(* Proofs about CardCollection for any number of calls with one key, any   *)
(* payloads and any times: what a caller was told stays true, a charge     *)
(* leaves its intent, and, when calls are fast enough for the slot, the    *)
(* money is taken once.                                                    *)
(***************************************************************************)
EXTENDS CardCollection, FiniteSetTheorems, TLAPS

\* What the position of a call says about its intent and its charge.
StepOK(q) ==
    /\ req[q].pc \in {"idle", "prior", "claim", "read", "intent"} =>
          intent[q] = "none" /\ psp[q] = "none"
    /\ req[q].pc = "charge" => intent[q] = "pending" /\ psp[q] = "none"
    /\ req[q].pc = "record" => intent[q] = "pending" /\ psp[q] = "charged"
    /\ req[q].pc = "release" => intent[q] = "failed" /\ psp[q] = "refused"
    /\ req[q].pc = "mark" =>
          \/ req[q].mark = "failed" /\ intent[q] = "pending" /\ psp[q] = "refused"
          \/ /\ req[q].mark = "completed_unrecorded"
             /\ intent[q] \in {"pending", "completed"} /\ psp[q] = "charged"
          \/ /\ req[q].mark \in {"unknown", "requires_action", "pending"}
             /\ intent[q] = "pending"

\* What stands when the call is over, or its process died.
ChargeOK(q) ==
    /\ intent[q] \in {"completed", "completed_unrecorded"} => psp[q] = "charged"
    /\ psp[q] \in {"open", "charged"} => intent[q] \notin {"none", "failed"}
    /\ answer[q] # "none" => req[q].pc = "done"
    /\ answer[q] = "paid" => psp[q] = "charged" /\ q \in ledger /\ intent[q] = "completed"
    /\ answer[q] = "failed" => psp[q] = "refused"

\* A completed slot belongs to a charge.
SlotTrue == slot.st = "completed" => \E p \in Requests : psp[p] = "charged"

CInv == /\ TypeOK
        /\ \A q \in Requests : StepOK(q) /\ ChargeOK(q)
        /\ SlotTrue

RequestState ==
    [pc : {"idle", "prior", "claim", "read", "intent", "charge",
           "mark", "release", "record", "done", "crashed"},
     fp : Prints \cup {NoPrint}, checked : Nat, claimed : Nat, mark : IntentStatuses]

\* A step of one call leaves the rows of the others alone.
Local(q) ==
    \A p \in Requests \ {q} :
        /\ req'[p] = req[p] /\ intent'[p] = intent[p] /\ psp'[p] = psp[p]
        /\ answer'[p] = answer[p] /\ (p \in ledger' <=> p \in ledger)

Step(q) == Before(q) \/ Provider(q) \/ After(q) \/ Crash(q)

-----------------------------------------------------------------------------
(* The type invariant, and what holds at each position of a call *)

LEMMA CInvInit == Init => CInv
BY CollectionAssumption
DEF Init, CInv, TypeOK, StepOK, ChargeOK, SlotTrue, NoSlot, Idle, IntentStatuses, Answers

LEMMA StepIsLocal ==
    ASSUME TypeOK, NEW q \in Requests, Step(q)
    PROVE  Local(q)
<1>1. CASE Before(q)
  BY <1>1 DEF Before, Start, CheckPrior, Claim, ReadSlot, InsertIntent, Return, Goto, TypeOK, Local
<1>2. CASE Provider(q)
  BY <1>2 DEF Provider, ChargeSucceeds, ChargeRefused, ChargeUnknown, ChargePending, Settle,
              ChargeLeaves, Goto, TypeOK, Local
<1>3. CASE After(q)
  BY <1>3 DEF After, MarkIntent, Release, Record, RecordFails, Return, Goto, TypeOK, Local
<1>4. CASE Crash(q)
  BY <1>4 DEF Crash, Goto, TypeOK, Local
<1> QED
  BY <1>1, <1>2, <1>3, <1>4 DEF Step

LEMMA RequestsTyped == TypeOK => req \in [Requests -> RequestState]
BY DEF TypeOK, RequestState

LEMMA CheckedEdit ==
    ASSUME NEW f \in [Requests -> RequestState], NEW q \in Requests, NEW t \in Nat
    PROVE  [f EXCEPT ![q].pc = "claim", ![q].checked = t] \in [Requests -> RequestState]
BY DEF RequestState

LEMMA MarkEdit ==
    ASSUME NEW f \in [Requests -> RequestState], NEW q \in Requests, NEW s \in IntentStatuses
    PROVE  [f EXCEPT ![q].pc = "mark", ![q].mark = s] \in [Requests -> RequestState]
BY DEF RequestState

LEMMA OutcomeTyped ==
    /\ OutcomeOf["unknown"] = "unknown"
    /\ OutcomeOf["requires_action"] = "requires_action"
    /\ OutcomeOf["pending"] = "in_flight"
    /\ OutcomeOf["completed_unrecorded"] = "paid_unrecorded"
BY DEF OutcomeOf

LEMMA ReturnTyped ==
    ASSUME TypeOK, NEW q \in Requests, NEW outcome \in Answers, Return(q, outcome)
    PROVE  /\ req' \in [Requests -> RequestState]
           /\ answer' \in [Requests -> Answers]
           /\ req'[q].pc = "done" /\ answer'[q] = outcome
BY DEF TypeOK, Return, Goto, RequestState
LEMMA OthersKept ==
    ASSUME CInv, NEW q \in Requests, Local(q), NEW p \in Requests \ {q}
    PROVE  StepOK(p)' /\ ChargeOK(p)'
BY DEF CInv, Local, StepOK, ChargeOK

LEMMA ChargedStays ==
    ASSUME CInv, NEW q \in Requests, Step(q), NEW p \in Requests, psp[p] = "charged"
    PROVE  psp'[p] = "charged"
<1>1. CASE p # q
  BY <1>1, StepIsLocal DEF CInv, Local
<1>2. CASE p = q
  <2>1. req[q].pc # "charge"
    BY <1>2 DEF CInv, StepOK
  <2>2. psp' = psp
    BY <1>2, <2>1 DEF Step, Before, Start, CheckPrior, Claim, ReadSlot, InsertIntent, Provider,
                      ChargeSucceeds, ChargeRefused, ChargeUnknown, ChargePending, ChargeLeaves,
                      Settle, After, MarkIntent, Release, Record, RecordFails, Crash
  <2> QED
    BY <1>2, <2>2
<1> QED
  BY <1>1, <1>2

LEMMA BeforeKeeps ==
    ASSUME CInv, NEW q \in Requests, Before(q)
    PROVE  TypeOK' /\ StepOK(q)' /\ ChargeOK(q)'
<1> USE CollectionAssumption
<1>1. ASSUME NEW f \in Prints, Start(q, f) PROVE TypeOK' /\ StepOK(q)' /\ ChargeOK(q)'
  BY <1>1 DEF Start, CInv, TypeOK, StepOK, ChargeOK, Idle, IntentStatuses
<1>2. CASE CheckPrior(q)
  <2>1. CASE PriorIntents = {} /\ UNCHANGED answer /\ req' = [req EXCEPT ![q].pc = "claim", ![q].checked = now]
    <3>1. req' \in [Requests -> RequestState]
      BY <2>1, CheckedEdit, RequestsTyped DEF CInv, TypeOK
    <3>2. req'[q].pc = "claim"
      BY <2>1 DEF CInv, TypeOK
    <3>3. UNCHANGED <<slot, intent, ledger, psp, answer, now>> /\ req[q].pc = "prior"
      BY <1>2, <2>1 DEF CheckPrior
    <3> QED
      BY <3>1, <3>2, <3>3 DEF CInv, TypeOK, StepOK, ChargeOK, RequestState
  <2>2. ASSUME NEW p \in PriorIntents, Return(q, PriorOutcome(q, p))
        PROVE  TypeOK' /\ StepOK(q)' /\ ChargeOK(q)'
    <3>1. PriorOutcome(q, p) \in {"mismatch", "replay", "requires_action", "in_flight"}
      BY DEF PriorOutcome
    <3> DEFINE outcome == PriorOutcome(q, p)
    <3>2. outcome \in Answers /\ outcome \notin {"none", "paid", "failed"}
      BY <3>1 DEF Answers
    <3> HIDE DEF outcome
    <3>3. /\ req' \in [Requests -> RequestState] /\ answer' \in [Requests -> Answers]
          /\ req'[q].pc = "done" /\ answer'[q] = outcome
      BY <2>2, <3>2, ReturnTyped DEF CInv, outcome
    <3>4. UNCHANGED <<slot, intent, ledger, psp, now>>
      BY <1>2 DEF CheckPrior
    <3> QED
      BY <3>2, <3>3, <3>4 DEF CInv, TypeOK, StepOK, ChargeOK, RequestState
  <2> QED
    BY <1>2, <2>1, <2>2 DEF CheckPrior
<1>3. CASE Claim(q)
  <2>1. /\ req[q].pc = "claim" /\ req'[q].pc \in {"intent", "read"}
        /\ req' \in [Requests -> RequestState]
    BY <1>3, RequestsTyped, SMTT(30) DEF Claim, Goto, CInv, TypeOK, RequestState
  <2>2. UNCHANGED <<intent, ledger, psp, answer, now>>
    BY <1>3 DEF Claim
  <2>3. slot' = slot \/ slot' = [st |-> "processing", exp |-> now + Grace]
    BY <1>3 DEF Claim
  <2>4. TypeOK'
    BY <2>1, <2>2, <2>3 DEF CInv, TypeOK, RequestState
  <2>5. StepOK(q)' /\ ChargeOK(q)'
    BY <2>1, <2>2 DEF CInv, StepOK, ChargeOK
  <2> QED
    BY <2>4, <2>5
<1>4. CASE ReadSlot(q)
  <2>1. PICK outcome \in {"replay", "in_flight"} : Return(q, outcome)
    BY <1>4 DEF ReadSlot
  <2>2. /\ req' \in [Requests -> RequestState] /\ answer' \in [Requests -> Answers]
        /\ req'[q].pc = "done" /\ answer'[q] = outcome
    BY <2>1, ReturnTyped DEF CInv, Answers
  <2> QED
    BY <1>4, <2>2 DEF ReadSlot, CInv, TypeOK, StepOK, ChargeOK, RequestState
<1>5. CASE InsertIntent(q)
  BY <1>5 DEF InsertIntent, Goto, CInv, TypeOK, StepOK, ChargeOK, IntentStatuses
<1> QED
  BY <1>1, <1>2, <1>3, <1>4, <1>5 DEF Before

LEMMA ProviderKeeps ==
    ASSUME CInv, NEW q \in Requests, Provider(q)
    PROVE  TypeOK' /\ StepOK(q)' /\ ChargeOK(q)'
<1>1. CASE ChargeSucceeds(q)
  BY <1>1 DEF ChargeSucceeds, Goto, CInv, TypeOK, StepOK, ChargeOK
<1>2. ASSUME NEW state \in {"open", "charged", "refused"}, NEW status \in IntentStatuses,
             ChargeLeaves(q, state, status),
             \/ status = "failed" /\ state = "refused"
             \/ status \in {"unknown", "requires_action", "pending"}
      PROVE  TypeOK' /\ StepOK(q)' /\ ChargeOK(q)'
  <2>1. TypeOK'
    <3>1. req' \in [Requests -> RequestState]
      BY <1>2, ZenonT(30) DEF ChargeLeaves, CInv, TypeOK, RequestState
    <3>2. psp' \in [Requests -> {"none", "open", "charged", "refused"}]
      BY <1>2 DEF ChargeLeaves, CInv, TypeOK
    <3> QED
      BY <1>2, <3>1, <3>2 DEF ChargeLeaves, CInv, TypeOK, RequestState
  <2>2. /\ psp'[q] = state /\ req'[q].pc = "mark" /\ req'[q].mark = status
        /\ intent[q] = "pending" /\ UNCHANGED <<intent, answer, ledger>>
    BY <1>2 DEF ChargeLeaves, CInv, TypeOK, StepOK
  <2>3. answer[q] = "none"
    BY <1>2 DEF CInv, ChargeOK, ChargeLeaves
  <2> QED
    BY <1>2, <2>1, <2>2, <2>3 DEF StepOK, ChargeOK
<1>3. CASE ChargeRefused(q) \/ ChargeUnknown(q) \/ ChargePending(q)
  BY <1>2, <1>3 DEF ChargeRefused, ChargeUnknown, ChargePending, IntentStatuses
<1>4. CASE Settle(q)
  <2>1. PICK state \in {"charged", "refused"} : psp' = [psp EXCEPT ![q] = state]
    BY <1>4 DEF Settle
  <2> QED
    BY <1>4, <2>1 DEF Settle, CInv, TypeOK, StepOK, ChargeOK
<1> QED
  BY <1>1, <1>3, <1>4 DEF Provider

LEMMA AfterKeeps ==
    ASSUME CInv, NEW q \in Requests, After(q)
    PROVE  TypeOK' /\ StepOK(q)' /\ ChargeOK(q)'
<1> USE CollectionAssumption
<1>1. CASE MarkIntent(q)
  <2>1. intent' \in [Requests -> IntentStatuses] /\ intent'[q] = req[q].mark
    BY <1>1 DEF MarkIntent, CInv, TypeOK
  <2>2. UNCHANGED <<slot, ledger, psp, now>> /\ req[q].pc = "mark"
    BY <1>1 DEF MarkIntent
  <2>3. CASE req[q].mark = "failed"
    BY <1>1, <2>1, <2>2, <2>3 DEF MarkIntent, Goto, CInv, TypeOK, StepOK, ChargeOK
  <2>4. CASE req[q].mark # "failed"
    <3>1. req[q].mark \in {"unknown", "requires_action", "pending", "completed_unrecorded"}
      BY <2>2, <2>4 DEF CInv, StepOK
    <3>2. PICK outcome \in {"unknown", "requires_action", "in_flight", "paid_unrecorded"} :
            Return(q, outcome)
      BY <1>1, <2>4, <3>1, OutcomeTyped DEF MarkIntent
    <3>3. /\ req' \in [Requests -> RequestState] /\ answer' \in [Requests -> Answers]
          /\ req'[q].pc = "done" /\ answer'[q] = outcome
      BY <3>2, ReturnTyped DEF CInv, Answers
    <3> QED
      BY <2>1, <2>2, <3>1, <3>3 DEF CInv, TypeOK, StepOK, ChargeOK, RequestState
  <2> QED
    BY <2>3, <2>4
<1>2. CASE Release(q)
  <2>1. /\ req' \in [Requests -> RequestState] /\ answer' \in [Requests -> Answers]
        /\ req'[q].pc = "done" /\ answer'[q] = "failed"
    BY <1>2, ReturnTyped DEF Release, CInv, Answers
  <2> QED
    BY <1>2, <2>1 DEF Release, CInv, TypeOK, StepOK, ChargeOK, RequestState, NoSlot
<1>3. CompletedSlot \in [st : {"none", "processing", "completed"}, exp : Nat]
  BY DEF CompletedSlot, CInv, TypeOK
<1>4. CASE Record(q)
  <2>1. /\ req' \in [Requests -> RequestState] /\ answer' \in [Requests -> Answers]
        /\ req'[q].pc = "done" /\ answer'[q] = "paid"
    BY <1>4, ReturnTyped DEF Record, CInv, Answers
  <2>2. /\ intent' \in [Requests -> IntentStatuses] /\ intent'[q] = "completed"
        /\ ledger' = ledger \cup {q} /\ slot' = CompletedSlot /\ UNCHANGED <<psp, now>>
        /\ req[q].pc = "record"
    BY <1>4 DEF Record, CInv, TypeOK, IntentStatuses
  <2> QED
    BY <1>3, <2>1, <2>2 DEF CInv, TypeOK, StepOK, ChargeOK, RequestState
<1>5. CASE RecordFails(q)
  <2>1. /\ req' \in [Requests -> RequestState]
        /\ req'[q].pc = "mark" /\ req'[q].mark = "completed_unrecorded"
    <3>1. req' = [req EXCEPT ![q].pc = "mark", ![q].mark = "completed_unrecorded"]
      BY <1>5 DEF RecordFails
    <3>2. req' \in [Requests -> RequestState]
      BY <3>1, MarkEdit, RequestsTyped DEF CInv, IntentStatuses
    <3> QED
      BY <3>1, <3>2 DEF CInv, TypeOK
  <2>2. /\ intent' \in [Requests -> IntentStatuses] /\ intent'[q] \in {intent[q], "completed"}
        /\ ledger' \in {ledger, ledger \cup {q}} /\ slot' \in {slot, CompletedSlot}
        /\ UNCHANGED <<psp, answer, now>> /\ req[q].pc = "record"
    <3>1. CASE UNCHANGED <<slot, intent, ledger>>
      BY <1>5, <3>1 DEF RecordFails, CInv, TypeOK
    <3>2. CASE /\ ledger' = ledger \cup {q} /\ slot' = CompletedSlot
               /\ intent' = [intent EXCEPT ![q] = "completed"]
      BY <1>5, <3>2 DEF RecordFails, CInv, TypeOK, IntentStatuses
    <3> QED
      BY <1>5, <3>1, <3>2 DEF RecordFails
  <2> QED
    BY <1>3, <2>1, <2>2 DEF CInv, TypeOK, StepOK, ChargeOK, RequestState
<1> QED
  BY <1>1, <1>2, <1>4, <1>5 DEF After

LEMMA SlotStaysTrue ==
    ASSUME CInv, NEW q \in Requests, Step(q)
    PROVE  SlotTrue'
<1>1. slot' = slot \/ slot'.st \in {"none", "processing"} \/ psp[q] = "charged"
  <2>1. CASE Before(q)
    <3>1. slot' = slot \/ slot' = [st |-> "processing", exp |-> now + Grace]
      BY <2>1 DEF Before, Start, CheckPrior, Claim, ReadSlot, InsertIntent
    <3> QED
      BY <3>1
  <2>2. CASE Provider(q)
    BY <2>2 DEF Provider, ChargeSucceeds, ChargeRefused, ChargeUnknown, ChargePending,
                ChargeLeaves, Settle
  <2>3. CASE After(q)
    BY <2>3 DEF After, MarkIntent, Release, Record, RecordFails, NoSlot, CInv, StepOK
  <2>4. CASE Crash(q)
    BY <2>4 DEF Crash
  <2> QED
    BY <2>1, <2>2, <2>3, <2>4 DEF Step
<1> QED
  BY <1>1, ChargedStays DEF CInv, SlotTrue

LEMMA CInvNext == CInv /\ [Next]_vars => CInv'
<1> SUFFICES ASSUME CInv, [Next]_vars PROVE CInv'
  OBVIOUS
<1>1. ASSUME NEW q \in Requests, Step(q) PROVE CInv'
  <2>1. ASSUME Crash(q) PROVE TypeOK' /\ StepOK(q)' /\ ChargeOK(q)'
    <3>1. req' \in [Requests -> RequestState] /\ req'[q].pc = "crashed"
      BY <2>1 DEF Crash, Goto, CInv, TypeOK, RequestState
    <3>2. /\ UNCHANGED <<slot, intent, ledger, psp, answer, now>>
          /\ req[q].pc \notin {"idle", "done", "crashed"}
      BY <2>1 DEF Crash
    <3> QED
      BY <3>1, <3>2 DEF CInv, TypeOK, StepOK, ChargeOK, RequestState
  <2>2. TypeOK' /\ StepOK(q)' /\ ChargeOK(q)'
    BY <1>1, <2>1, BeforeKeeps, ProviderKeeps, AfterKeeps DEF Step, CInv
  <2>3. \A p \in Requests \ {q} : StepOK(p)' /\ ChargeOK(p)'
    BY <1>1, StepIsLocal, OthersKept DEF CInv
  <2> QED
    BY <1>1, <2>2, <2>3, SlotStaysTrue DEF CInv
<1>2. CASE Expire
  BY <1>2 DEF Expire, NoSlot, CInv, TypeOK, StepOK, ChargeOK, SlotTrue
<1>3. CASE Tick
  BY <1>3 DEF Tick, CInv, TypeOK, StepOK, ChargeOK, SlotTrue
<1>4. CASE UNCHANGED vars
  BY <1>4 DEF vars, CInv, TypeOK, StepOK, ChargeOK, SlotTrue
<1> QED
  BY <1>1, <1>2, <1>3, <1>4 DEF Next, Step

LEMMA CInvAlways == Spec => []CInv
BY CInvInit, CInvNext, PTL DEF Spec

\* The slot, the intents, the provider's charges and the calls keep their types.
THEOREM TypeCorrect == Spec => []TypeOK
<1>1. CInv => TypeOK
  BY DEF CInv
<1> QED
  BY <1>1, CInvAlways, PTL

\* A charge that stands or may stand has an intent that stops every later call,
\* whichever call crashed between the provider and the database, at any speed.
THEOREM ChargeBlocks == Spec => []ChargeLeavesIntent
<1>1. CInv => ChargeLeavesIntent
  BY DEF CInv, ChargeOK, ChargeLeavesIntent, MoneyAtStake, PriorIntents
<1> QED
  BY <1>1, CInvAlways, PTL
-----------------------------------------------------------------------------
(* Answers *)

ReplayTrue ==
    \A q \in Requests : answer[q] = "replay" => \E p \in Requests \ {q} : psp[p] = "charged"

LEMMA NewReplay ==
    ASSUME CInv, NEW q \in Requests, Step(q), answer'[q] = "replay", answer[q] # "replay"
    PROVE  \E p \in Requests \ {q} : psp[p] = "charged"
<1>1. CASE CheckPrior(q)
  <2>1. intent[q] = "none"
    BY <1>1 DEF CheckPrior, CInv, StepOK
  <2>2. PICK p \in PriorIntents : Return(q, PriorOutcome(q, p))
    BY <1>1 DEF CheckPrior
  <2>3. PriorOutcome(q, p) = "replay"
    BY <2>2 DEF Return, CInv, TypeOK
  <2>4. intent[p] \in {"completed", "completed_unrecorded"}
    BY <2>3 DEF PriorOutcome
  <2> QED
    BY <2>1, <2>2, <2>4 DEF CInv, ChargeOK, PriorIntents
<1>2. CASE ReadSlot(q)
  <2>1. slot.st = "completed"
    BY <1>2 DEF ReadSlot, Return, CInv, TypeOK
  <2>2. psp[q] = "none"
    BY <1>2 DEF ReadSlot, CInv, StepOK
  <2> QED
    BY <2>1, <2>2 DEF CInv, SlotTrue
<1>3. CASE MarkIntent(q)
  <2>1. /\ req[q].mark # "failed"
        /\ answer' = [answer EXCEPT ![q] = OutcomeOf[req[q].mark]]
    BY <1>3 DEF MarkIntent, Return
  <2>2. req[q].mark \in {"unknown", "requires_action", "pending", "completed_unrecorded"}
    BY <1>3, <2>1 DEF MarkIntent, CInv, StepOK
  <2>3. OutcomeOf[req[q].mark] = "replay"
    BY <2>1 DEF CInv, TypeOK
  <2> QED
    BY <2>2, <2>3, OutcomeTyped
<1>4. CASE Release(q) \/ Record(q)
  BY <1>4 DEF Release, Record, Return, CInv, TypeOK
<1>5. CASE Provider(q) \/ RecordFails(q) \/ Crash(q)
  BY <1>5 DEF Provider, ChargeSucceeds, ChargeRefused, ChargeUnknown, ChargePending, ChargeLeaves,
              Settle, RecordFails, Crash
<1>6. CASE (\E f \in Prints : Start(q, f)) \/ Claim(q) \/ InsertIntent(q)
  BY <1>6 DEF Start, Claim, InsertIntent
<1> QED
  BY <1>1, <1>2, <1>3, <1>4, <1>5, <1>6 DEF Step, Before, After

LEMMA ReplayTrueNext == CInv /\ ReplayTrue /\ [Next]_vars => ReplayTrue'
<1> SUFFICES ASSUME CInv, ReplayTrue, [Next]_vars PROVE ReplayTrue'
  OBVIOUS
<1>1. ASSUME NEW q \in Requests, Step(q) PROVE ReplayTrue'
  <2> SUFFICES ASSUME NEW r \in Requests, answer'[r] = "replay"
               PROVE  \E p \in Requests \ {r} : psp'[p] = "charged"
    BY DEF ReplayTrue
  <2>1. \E p \in Requests \ {r} : psp[p] = "charged"
    BY <1>1, NewReplay, StepIsLocal DEF CInv, Local, ReplayTrue
  <2> QED
    BY <1>1, <2>1, ChargedStays
<1>2. CASE Expire \/ Tick \/ UNCHANGED vars
  BY <1>2 DEF Expire, Tick, vars, ReplayTrue
<1> QED
  BY <1>1, <1>2 DEF Next, Step

\* Every answer stays true, at any speed: paid was charged, recorded and is
\* blocked for good, failed was refused, a replay repeats a charge of another call.
THEOREM AnswersStayTrue == Spec => []AnswersAreTrue
<1>1. Init => CInv /\ ReplayTrue
  BY CInvInit DEF Init, ReplayTrue
<1>2. CInv /\ ReplayTrue /\ [Next]_vars => (CInv /\ ReplayTrue)'
  BY CInvNext, ReplayTrueNext
<1>3. CInv /\ ReplayTrue => AnswersAreTrue
  BY DEF CInv, ChargeOK, ReplayTrue, AnswersAreTrue
<1> QED
  BY <1>1, <1>2, <1>3, PTL DEF Spec

-----------------------------------------------------------------------------
(* One charge *)

\* The slot outlives a call that works on it, and every call that looked for
\* prior intents before the intent of that one was there.
Timely ==
    /\ CallTime <= Grace
    /\ 2 * (Stall - 1) < Grace
    /\ Stall <= Retention

InTime(q) ==
    /\ req[q].pc \in {"claim", "read", "intent"} =>
          req[q].checked <= now /\ now < req[q].checked + Stall
    /\ req[q].pc \in {"intent", "charge", "mark", "release", "record"} =>
          req[q].claimed <= now /\ now < req[q].claimed + CallTime
    /\ req[q].pc = "intent" => req[q].checked <= req[q].claimed

\* q is between its claim and its last write to the slot.
Owner(q) ==
    \/ req[q].pc \in {"intent", "charge", "record", "release"}
    \/ req[q].pc = "mark" /\ req[q].mark = "failed"

Engaged(q) == Owner(q) \/ q \in PriorIntents

OwnerHasSlot(q) == Owner(q) => slot.st = "processing" /\ slot.exp = req[q].claimed + Grace

\* Whoever missed the intent meets the slot: it is there, and still will be when
\* the call has run out of time.
LateSeesSlot ==
    \A p, q \in Requests : req[q].pc = "claim" /\ p \in PriorIntents =>
        slot.st # "none" /\ req[q].checked + Stall <= slot.exp

OneEngaged == \A p, q \in Requests : Engaged(p) /\ Engaged(q) => p = q

SInv == /\ CInv
        /\ \A q \in Requests : InTime(q) /\ OwnerHasSlot(q)
        /\ LateSeesSlot
        /\ OneEngaged

LEMMA OnePriorIsOneCharge == CInv /\ OneEngaged => NoDoubleCharge
<1> SUFFICES ASSUME CInv, OneEngaged PROVE NoDoubleCharge
  OBVIOUS
<1>1. MoneyAtStake \subseteq PriorIntents /\ MoneyAtStake \subseteq Requests
  BY DEF CInv, ChargeOK, MoneyAtStake, PriorIntents
<1>2. CASE MoneyAtStake = {}
  BY <1>2, FS_EmptySet DEF NoDoubleCharge
<1>3. CASE MoneyAtStake # {}
  <2>1. PICK q \in MoneyAtStake : TRUE
    BY <1>3
  <2>2. MoneyAtStake = {q}
    BY <1>1, <2>1 DEF OneEngaged, Engaged
  <2> QED
    BY <2>2, FS_Singleton DEF NoDoubleCharge
<1> QED
  BY <1>2, <1>3
\* q does nothing that takes the slot or frees it.
LEMMA QuietKeeps ==
    ASSUME SInv, NEW q \in Requests, Local(q), UNCHANGED <<slot, now>>,
           Engaged(q)' => Engaged(q), OwnerHasSlot(q)', InTime(q)',
           q \in PriorIntents' => q \in PriorIntents,
           req'[q].pc # "claim" \/ PriorIntents' = {} \/ req'[q] = req[q]
    PROVE  /\ \A p \in Requests : InTime(p)' /\ OwnerHasSlot(p)'
           /\ LateSeesSlot' /\ OneEngaged'
<1>1. \A p \in Requests \ {q} : /\ req'[p] = req[p]
                                /\ p \in PriorIntents' <=> p \in PriorIntents
                                /\ Engaged(p)' <=> Engaged(p)
                                /\ Owner(p)' <=> Owner(p)
  BY DEF Local, Engaged, Owner, PriorIntents
<1>2. \A p \in Requests \ {q} : InTime(p)' /\ OwnerHasSlot(p)'
  BY <1>1 DEF SInv, InTime, OwnerHasSlot
<1>3. OneEngaged'
  BY <1>1 DEF SInv, OneEngaged
<1>4. LateSeesSlot'
  BY <1>1 DEF SInv, LateSeesSlot
<1> QED
  BY <1>2, <1>3, <1>4

LEMMA SBefore ==
    ASSUME Timely, SInv, NEW q \in Requests, Before(q)
    PROVE  /\ \A p \in Requests : InTime(p)' /\ OwnerHasSlot(p)'
           /\ LateSeesSlot' /\ OneEngaged'
<1> USE CollectionAssumption
<1>1. Local(q)
  BY StepIsLocal DEF Step, SInv, CInv
<1>2. ASSUME NEW f \in Prints, Start(q, f)
      PROVE  /\ \A p \in Requests : InTime(p)' /\ OwnerHasSlot(p)'
             /\ LateSeesSlot' /\ OneEngaged'
  <2>1. req'[q].pc = "prior" /\ UNCHANGED <<slot, intent, now>>
    BY <1>2 DEF Start, SInv, CInv, TypeOK, Idle
  <2>2. ~Owner(q)' /\ (q \in PriorIntents' <=> q \in PriorIntents)
    BY <2>1 DEF Owner, PriorIntents
  <2> QED
    BY <1>1, <2>1, <2>2, QuietKeeps DEF Engaged, OwnerHasSlot, InTime
<1>3. CASE CheckPrior(q)
  <2>1. /\ \/ req'[q].pc = "claim" /\ req'[q].checked = now /\ PriorIntents = {}
           \/ req'[q].pc = "done"
        /\ UNCHANGED <<slot, intent, now>>
    BY <1>3 DEF CheckPrior, Return, Goto, SInv, CInv, TypeOK
  <2>2. ~Owner(q)' /\ PriorIntents' = PriorIntents
    BY <2>1 DEF Owner, PriorIntents
  <2>3. InTime(q)'
    BY <2>1 DEF InTime, SInv, CInv, TypeOK
  <2> QED
    BY <1>1, <2>1, <2>2, <2>3, QuietKeeps DEF Engaged, OwnerHasSlot
<1>4. CASE Claim(q) /\ slot.st # "none"
  <2>1. req'[q].pc = "read" /\ req'[q].checked = req[q].checked /\ req[q].pc = "claim"
        /\ UNCHANGED <<slot, intent, now>>
    BY <1>4 DEF Claim, Goto, SInv, CInv, TypeOK
  <2>2. ~Owner(q)' /\ PriorIntents' = PriorIntents
    BY <2>1 DEF Owner, PriorIntents
  <2>3. InTime(q)'
    BY <2>1 DEF InTime, SInv
  <2> QED
    BY <1>1, <2>1, <2>2, <2>3, QuietKeeps DEF Engaged, OwnerHasSlot
<1>5. CASE Claim(q) /\ slot.st = "none"
  <2>1. /\ req'[q].pc = "intent" /\ req'[q].checked = req[q].checked /\ req'[q].claimed = now
        /\ req[q].pc = "claim" /\ UNCHANGED <<intent, now>>
    BY <1>5 DEF Claim, SInv, CInv, TypeOK
  <2>2. slot'.st = "processing" /\ slot'.exp = now + Grace
    BY <1>5 DEF Claim
  <2>3. PriorIntents = {} /\ PriorIntents' = PriorIntents
    BY <1>5, <2>1 DEF SInv, LateSeesSlot, PriorIntents
  <2>4. \A p \in Requests : ~Owner(p)
    BY <1>5 DEF SInv, OwnerHasSlot
  <2>5. \A p \in Requests \ {q} : req'[p] = req[p] /\ ~Owner(p)'
    BY <1>1, <2>4 DEF Local, Owner
  <2>6. \A p \in Requests : InTime(p)'
    BY <2>1, <2>5 DEF SInv, CInv, TypeOK, InTime
  <2>7. \A p \in Requests : OwnerHasSlot(p)'
    BY <2>1, <2>2, <2>5 DEF OwnerHasSlot
  <2> QED
    BY <2>3, <2>5, <2>6, <2>7 DEF LateSeesSlot, OneEngaged, Engaged
<1>6. CASE ReadSlot(q)
  <2>1. req'[q].pc = "done" /\ UNCHANGED <<slot, intent, now>>
    BY <1>6 DEF ReadSlot, Return, Goto, SInv, CInv, TypeOK
  <2>2. ~Owner(q)' /\ PriorIntents' = PriorIntents
    BY <2>1 DEF Owner, PriorIntents
  <2> QED
    BY <1>1, <2>1, <2>2, QuietKeeps DEF Engaged, OwnerHasSlot, InTime
<1>7. CASE InsertIntent(q)
  <2>1. /\ req'[q].pc = "charge" /\ req'[q].claimed = req[q].claimed /\ req[q].pc = "intent"
        /\ UNCHANGED <<slot, now>>
    BY <1>7 DEF InsertIntent, Goto, SInv, CInv, TypeOK
  <2>2. Owner(q) /\ slot.st = "processing" /\ slot.exp = req[q].claimed + Grace
    BY <2>1 DEF Owner, SInv, OwnerHasSlot
  <2>3. \A p \in Requests \ {q} : ~Engaged(p)
    BY <2>2 DEF SInv, OneEngaged, Engaged
  <2>4. \A p \in Requests \ {q} : /\ req'[p] = req[p] /\ ~Engaged(p)' /\ ~Owner(p)'
    BY <1>1, <2>3 DEF Local, Engaged, Owner, PriorIntents
  <2>5. \A p \in Requests : InTime(p)' /\ OwnerHasSlot(p)'
    BY <2>1, <2>2, <2>4 DEF SInv, InTime, OwnerHasSlot
  <2>6. OneEngaged'
    BY <2>4 DEF OneEngaged
  <2>7. LateSeesSlot'
    <3> SUFFICES ASSUME NEW r \in Requests, req'[r].pc = "claim"
                 PROVE  slot'.st # "none" /\ req'[r].checked + Stall <= slot'.exp
      BY DEF LateSeesSlot
    <3>1. r # q /\ req'[r] = req[r]
      BY <2>1, <2>4
    <3>2. req[r].checked <= now /\ now < req[q].checked + Stall /\ req[q].checked <= req[q].claimed
      BY <2>1, <3>1 DEF SInv, InTime
    <3>3. /\ req[r].checked \in Nat /\ req[q].checked \in Nat /\ req[q].claimed \in Nat
          /\ now \in Nat
      BY DEF SInv, CInv, TypeOK
    <3>4. req[r].checked + Stall <= req[q].claimed + Grace
      BY <3>2, <3>3 DEF Timely
    <3> QED
      BY <2>1, <2>2, <3>1, <3>4
  <2> QED
    BY <2>5, <2>6, <2>7
<1> QED
  BY <1>2, <1>3, <1>4, <1>5, <1>6, <1>7 DEF Before

LEMMA SProvider ==
    ASSUME SInv, NEW q \in Requests, Provider(q)
    PROVE  /\ \A p \in Requests : InTime(p)' /\ OwnerHasSlot(p)'
           /\ LateSeesSlot' /\ OneEngaged'
<1>1. Local(q)
  BY StepIsLocal DEF Step, SInv, CInv
<1>2. UNCHANGED <<slot, intent, now>>
  BY DEF Provider, ChargeSucceeds, ChargeRefused, ChargeUnknown, ChargePending, ChargeLeaves,
         Settle
<1>3. PriorIntents' = PriorIntents
  BY <1>2 DEF PriorIntents
<1>4. CASE req'[q] = req[q]
  <2>1. (Owner(q)' <=> Owner(q)) /\ InTime(q)' /\ OwnerHasSlot(q)'
    BY <1>2, <1>4 DEF Owner, SInv, InTime, OwnerHasSlot
  <2> QED
    BY <1>1, <1>2, <1>3, <1>4, <2>1, QuietKeeps DEF Engaged
<1>5. CASE /\ req[q].pc = "charge" /\ req'[q].pc \in {"record", "mark"}
           /\ req'[q].claimed = req[q].claimed
  <2>1. Owner(q) /\ InTime(q)' /\ OwnerHasSlot(q)'
    BY <1>2, <1>5 DEF Owner, SInv, InTime, OwnerHasSlot
  <2> QED
    BY <1>1, <1>2, <1>3, <1>5, <2>1, QuietKeeps DEF Engaged
<1>6. CASE Settle(q)
  BY <1>4, <1>6 DEF Settle
<1>7. CASE ChargeSucceeds(q)
  BY <1>5, <1>7 DEF ChargeSucceeds, Goto, SInv, CInv, TypeOK
<1>8. ASSUME NEW state, NEW status, ChargeLeaves(q, state, status)
      PROVE  /\ req[q].pc = "charge" /\ req'[q].pc \in {"record", "mark"}
             /\ req'[q].claimed = req[q].claimed
  BY <1>8 DEF ChargeLeaves, SInv, CInv, TypeOK
<1> QED
  BY <1>5, <1>6, <1>7, <1>8 DEF Provider, ChargeRefused, ChargeUnknown, ChargePending
LEMMA SAfter ==
    ASSUME Timely, SInv, NEW q \in Requests, After(q)
    PROVE  /\ \A p \in Requests : InTime(p)' /\ OwnerHasSlot(p)'
           /\ LateSeesSlot' /\ OneEngaged'
<1> USE CollectionAssumption
<1>1. Local(q)
  BY StepIsLocal DEF Step, SInv, CInv
<1>2. CASE MarkIntent(q)
  <2>1. /\ req[q].pc = "mark" /\ UNCHANGED <<slot, now>> /\ req'[q].claimed = req[q].claimed
        /\ req'[q].pc = IF req[q].mark = "failed" THEN "release" ELSE "done"
    BY <1>2 DEF MarkIntent, Return, Goto, SInv, CInv, TypeOK
  <2>2. q \in PriorIntents
    BY <2>1 DEF SInv, CInv, StepOK, PriorIntents
  <2>3. InTime(q)' /\ OwnerHasSlot(q)'
    BY <2>1 DEF SInv, InTime, OwnerHasSlot, Owner
  <2> QED
    BY <1>1, <2>1, <2>2, <2>3, QuietKeeps DEF Engaged
<1>3. ASSUME Owner(q), ~Owner(q)', req'[q].pc \in {"done", "mark"},
             q \in PriorIntents' => /\ q \in PriorIntents
                                    /\ slot'.st # "none"
                                    /\ slot'.exp = now + Retention \/ slot' = slot,
             InTime(q)', UNCHANGED now
      PROVE  /\ \A p \in Requests : InTime(p)' /\ OwnerHasSlot(p)'
             /\ LateSeesSlot' /\ OneEngaged'
  <2>1. \A p \in Requests \ {q} : ~Engaged(p)
    BY <1>3 DEF SInv, OneEngaged, Engaged
  <2>2. \A p \in Requests \ {q} : /\ req'[p] = req[p] /\ ~Engaged(p)' /\ ~Owner(p)'
                                  /\ p \notin PriorIntents'
    BY <1>1, <2>1 DEF Local, Engaged, Owner, PriorIntents
  <2>3. \A p \in Requests : InTime(p)' /\ OwnerHasSlot(p)'
    BY <1>3, <2>2 DEF SInv, InTime, OwnerHasSlot
  <2>4. OneEngaged'
    BY <2>2 DEF OneEngaged
  <2>5. LateSeesSlot'
    <3> SUFFICES ASSUME NEW p \in Requests, NEW r \in Requests, req'[r].pc = "claim",
                        p \in PriorIntents'
                 PROVE  slot'.st # "none" /\ req'[r].checked + Stall <= slot'.exp
      BY DEF LateSeesSlot
    <3>1. p = q /\ r # q /\ req'[r] = req[r]
      BY <1>3, <2>2
    <3>2. req[r].checked <= now /\ req[r].checked \in Nat /\ now \in Nat
      BY <3>1 DEF SInv, CInv, TypeOK, InTime
    <3>3. req[r].checked + Stall <= now + Retention
      BY <3>2 DEF Timely
    <3>4. slot.st # "none" /\ req[r].checked + Stall <= slot.exp
      BY <1>3, <3>1 DEF SInv, LateSeesSlot
    <3> QED
      BY <1>3, <3>1, <3>3, <3>4
  <2> QED
    BY <2>3, <2>4, <2>5
<1>4. CASE Release(q)
  <2>1. /\ req[q].pc = "release" /\ req'[q].pc = "done" /\ UNCHANGED <<intent, now>>
    BY <1>4 DEF Release, Return, Goto, SInv, CInv, TypeOK
  <2>2. q \notin PriorIntents'
    BY <2>1 DEF SInv, CInv, StepOK, PriorIntents
  <2> QED
    BY <1>3, <2>1, <2>2 DEF Owner, InTime
<1>5. ASSUME req[q].pc = "record"
      PROVE  Owner(q) /\ q \in PriorIntents /\ slot.st = "processing"
  BY <1>5 DEF SInv, CInv, StepOK, PriorIntents, Owner, OwnerHasSlot
<1>6. ASSUME req[q].pc = "record", slot' = CompletedSlot
      PROVE  slot'.st # "none" /\ slot'.exp = now + Retention
  BY <1>5, <1>6 DEF CompletedSlot
<1>7. CASE Record(q)
  <2>1. /\ req[q].pc = "record" /\ req'[q].pc = "done" /\ UNCHANGED now
        /\ slot' = CompletedSlot
    BY <1>7 DEF Record, Return, Goto, SInv, CInv, TypeOK
  <2> QED
    BY <1>3, <1>5, <1>6, <2>1 DEF Owner, InTime
<1>8. CASE RecordFails(q)
  <2>1. /\ req[q].pc = "record" /\ req'[q].pc = "mark" /\ UNCHANGED now
        /\ req'[q].mark = "completed_unrecorded" /\ req'[q].claimed = req[q].claimed
        /\ slot' = CompletedSlot \/ slot' = slot
    BY <1>8 DEF RecordFails, SInv, CInv, TypeOK
  <2>2. InTime(q)' /\ ~Owner(q)'
    BY <2>1 DEF SInv, InTime, Owner
  <2> QED
    BY <1>3, <1>5, <1>6, <2>1, <2>2
<1> QED
  BY <1>2, <1>4, <1>7, <1>8 DEF After

LEMMA SEnvironment ==
    ASSUME Timely, SInv, Expire \/ Tick \/ UNCHANGED vars \/ \E q \in Requests : Crash(q)
    PROVE  /\ \A p \in Requests : InTime(p)' /\ OwnerHasSlot(p)'
           /\ LateSeesSlot' /\ OneEngaged'
<1> USE CollectionAssumption
<1>1. CASE Expire
  <2>1. UNCHANGED <<intent, req, now>> /\ slot.exp <= now
    BY <1>1 DEF Expire
  <2>2. \A p \in Requests : (Owner(p)' <=> Owner(p)) /\ (Engaged(p)' <=> Engaged(p))
    BY <2>1 DEF Owner, Engaged, PriorIntents
  <2>3. \A p \in Requests : req[p].claimed \in Nat /\ req[p].checked \in Nat
    BY DEF SInv, CInv, TypeOK
  <2>4. slot.exp \in Nat /\ now \in Nat
    BY DEF SInv, CInv, TypeOK
  <2>5. ASSUME NEW p \in Requests, Owner(p) PROVE FALSE
    <3>1. slot.exp = req[p].claimed + Grace /\ now < req[p].claimed + CallTime
      BY <2>5 DEF SInv, OwnerHasSlot, InTime, Owner
    <3> QED
      BY <2>1, <2>3, <2>4, <3>1 DEF Timely
  <2>6. ASSUME NEW p \in Requests, NEW q \in Requests, req[q].pc = "claim", p \in PriorIntents
        PROVE  FALSE
    <3>1. now < req[q].checked + Stall /\ req[q].checked + Stall <= slot.exp
      BY <2>6 DEF SInv, InTime, LateSeesSlot
    <3> QED
      BY <2>1, <2>3, <2>4, <3>1
  <2> QED
    BY <2>1, <2>2, <2>5, <2>6 DEF SInv, InTime, OwnerHasSlot, LateSeesSlot, OneEngaged, PriorIntents
<1>2. CASE Tick
  <2>1. UNCHANGED <<slot, intent, req>> /\ now' = now + 1 /\ now \in Nat
    BY <1>2 DEF Tick, SInv, CInv, TypeOK
  <2>2. \A p \in Requests : (Owner(p)' <=> Owner(p)) /\ (Engaged(p)' <=> Engaged(p))
    BY <2>1 DEF Owner, Engaged, PriorIntents
  <2>3. \A p \in Requests : req[p].claimed \in Nat /\ req[p].checked \in Nat
    BY DEF SInv, CInv, TypeOK
  <2>4. \A p \in Requests : InTime(p)'
    BY <1>2, <2>1, <2>3 DEF Tick, SInv, InTime
  <2> QED
    BY <2>1, <2>2, <2>4 DEF SInv, OwnerHasSlot, LateSeesSlot, OneEngaged, PriorIntents
<1>3. CASE UNCHANGED vars
  BY <1>3 DEF vars, SInv, InTime, OwnerHasSlot, LateSeesSlot, OneEngaged, PriorIntents, Engaged,
              Owner
<1>4. ASSUME NEW q \in Requests, Crash(q)
      PROVE  /\ \A p \in Requests : InTime(p)' /\ OwnerHasSlot(p)'
             /\ LateSeesSlot' /\ OneEngaged'
  <2>1. req'[q].pc = "crashed" /\ UNCHANGED <<slot, intent, now>>
    BY <1>4 DEF Crash, Goto, SInv, CInv, TypeOK
  <2>2. ~Owner(q)' /\ PriorIntents' = PriorIntents
    BY <2>1 DEF Owner, PriorIntents
  <2>3. Local(q)
    BY <1>4, StepIsLocal DEF Step, SInv, CInv
  <2> QED
    BY <2>1, <2>2, <2>3, QuietKeeps DEF Engaged, OwnerHasSlot, InTime
<1> QED
  BY <1>1, <1>2, <1>3, <1>4

LEMMA SInvInit == Init => SInv
<1> SUFFICES ASSUME Init PROVE SInv
  OBVIOUS
<1>1. CInv
  BY CInvInit
<1> QED
  BY <1>1 DEF Init, SInv, InTime, OwnerHasSlot, LateSeesSlot, OneEngaged, Engaged, Owner,
              PriorIntents, Idle

\* Calls that reach their intent and end in time take the money once, whatever
\* they meet: double clicks, retries, crashes, lost answers, expired slots.
THEOREM ChargedOnce == ASSUME Timely PROVE Spec => []NoDoubleCharge
<1>1. SInv /\ [Next]_vars => SInv'
  BY CInvNext, SBefore, SProvider, SAfter, SEnvironment DEF Next, SInv
<1>2. SInv => NoDoubleCharge
  BY OnePriorIsOneCharge DEF SInv
<1> QED
  BY <1>1, <1>2, SInvInit, PTL DEF Spec
=============================================================================
