------------------------------- MODULE Outbox -------------------------------
(***************************************************************************)
(* The OTA outbox: rows written by core/outbox_service.py, delivered by    *)
(* the workers of core/outbox_worker.py (one per application process),     *)
(* requeued by routers/outbox_admin.py, and the failure rows the workers   *)
(* leave for the control plane (controlplane/retry_engine.py).             *)
(*                                                                         *)
(* Times are kept as two flags per row: `ready` is available_at <= now,    *)
(* `late` is last_attempt_at older than processing_timeout.                *)
(***************************************************************************)
EXTENDS Naturals, FiniteSets

CONSTANTS
    Events,        \* outbox rows, one per idempotency key
    Workers,       \* outbox workers
    MaxAttempts,   \* max_attempts of the rows
    MaxCrashes,    \* bound on worker crashes and failed status writes
    MaxRequeues,   \* bound on operator requeues
    MaxTimeouts,   \* bound on the dispatches of one row that outlive processing_timeout
    NoEvent

ASSUME OutboxAssumption ==
    /\ MaxAttempts \in Nat \ {0}
    /\ MaxCrashes \in Nat
    /\ MaxRequeues \in Nat
    /\ MaxTimeouts \in Nat
    /\ IsFiniteSet(Events) /\ IsFiniteSet(Workers)
    /\ NoEvent \notin Events

VARIABLES
    row,        \* outbox_events
    created,    \* created[e]: rank of created_at, 0 while e is not enqueued
    wk,         \* wk[w]: what worker w is doing, with its copy of attempt_count
    failures,   \* cp_failures, the row of the last failure of each event
    acked,      \* events some dispatch reported as delivered
    recovered,  \* recovered[e]: how often a timeout of e was recovered
    unsure,     \* unsure[e]: failure writes of e that took effect and raised
    crashes, requeues

vars == <<row, created, wk, failures, acked, recovered, unsure, crashes, requeues>>

Statuses == {"none", "pending", "processing", "processed", "retry", "failed"}
Outcomes == {"none", "ok", "retryable", "permanent"}
IdleWorker == [pc |-> "idle", ev |-> NoEvent, attempt |-> 0, outcome |-> "none"]

TypeOK ==
    /\ row \in [Events -> [status : Statuses, attempts : Nat,
                           ready : BOOLEAN, late : BOOLEAN]]
    /\ created \in [Events -> Nat]
    /\ wk \in [Workers -> [pc : {"idle", "dispatch", "settle", "again"},
                           ev : Events \cup {NoEvent}, attempt : Nat,
                           outcome : Outcomes]]
    /\ failures \in [Events -> {"none", "open", "permanent", "resolved"}]
    /\ acked \subseteq Events
    /\ recovered \in [Events -> Nat]
    /\ unsure \in [Events -> Nat]
    /\ crashes \in 0 .. MaxCrashes
    /\ requeues \in 0 .. MaxRequeues

Init ==
    /\ row = [e \in Events |-> [status |-> "none", attempts |-> 0,
                                ready |-> FALSE, late |-> FALSE]]
    /\ created = [e \in Events |-> 0]
    /\ wk = [w \in Workers |-> IdleWorker]
    /\ failures = [e \in Events |-> "none"]
    /\ acked = {}
    /\ recovered = [e \in Events |-> 0]
    /\ unsure = [e \in Events |-> 0]
    /\ crashes = 0
    /\ requeues = 0

-----------------------------------------------------------------------------

Enqueued == {e \in Events : row[e].status # "none"}

\* enqueue_outbox_event; a second insert of the same key is swallowed.
Enqueue(e) ==
    /\ row[e].status = "none"
    /\ row' = [row EXCEPT ![e] = [status |-> "pending", attempts |-> 0,
                                  ready |-> TRUE, late |-> FALSE]]
    /\ created' = [created EXCEPT ![e] = Cardinality(Enqueued) + 1]
    /\ UNCHANGED <<wk, failures, acked, recovered, unsure, crashes, requeues>>

\* Mutant: the claim filter does not ask for the status.
ClaimableAnyStatus(e) == row[e].status \in {"pending", "retry", "processing"} /\ row[e].ready

Claimable(e) == row[e].status \in {"pending", "retry"} /\ row[e].ready

\* find_one_and_update, oldest created_at first.
ClaimEvent(w, e) ==
    /\ wk[w].pc = "idle"
    /\ Claimable(e)
    /\ \A f \in Events : Claimable(f) => created[e] <= created[f]
    /\ row' = [row EXCEPT ![e].status = "processing", ![e].late = FALSE,
                          ![e].attempts = row[e].attempts + 1]
    /\ wk' = [wk EXCEPT ![w] = [pc |-> "dispatch", ev |-> e,
                                attempt |-> row[e].attempts + 1, outcome |-> "none"]]
    /\ UNCHANGED <<created, failures, acked, recovered, unsure, crashes, requeues>>

\* dispatch_outbox_event: delivered, or an error classified by its text.
Dispatch(w, outcome) ==
    /\ wk[w].pc = "dispatch"
    /\ wk' = [wk EXCEPT ![w] = [wk[w] EXCEPT !.pc = "settle", !.outcome = outcome]]
    /\ acked' = IF outcome = "ok" THEN acked \cup {wk[w].ev} ELSE acked
    /\ UNCHANGED <<row, created, failures, recovered, unsure, crashes, requeues>>

\* Mutant: update_one({id}).
SetStatusAlways(e, status) == row' = [row EXCEPT ![e].status = status, ![e].ready = FALSE]

\* update_one({id, status: processing}): without effect once the row moved on.
SetStatus(e, status) ==
    row' = IF row[e].status = "processing"
           THEN [row EXCEPT ![e].status = status, ![e].ready = FALSE]
           ELSE row

\* Mutant: the result of the dispatch is not looked at.
MarkProcessedUnchecked(w) ==
    /\ wk[w].pc = "settle"
    /\ SetStatus(wk[w].ev, "processed")
    /\ wk' = [wk EXCEPT ![w] = IdleWorker]
    /\ UNCHANGED <<created, failures, acked, recovered, unsure, crashes, requeues>>

MarkProcessed(w) ==
    /\ wk[w].pc = "settle" /\ wk[w].outcome = "ok"
    /\ SetStatus(wk[w].ev, "processed")
    /\ wk' = [wk EXCEPT ![w] = IdleWorker]
    /\ UNCHANGED <<created, failures, acked, recovered, unsure, crashes, requeues>>

\* _mark_processed sits inside the try of _process_event: if its update raises,
\* with or without having taken effect, the delivered event is handled as failed.
MarkProcessedRaises(w, outcome) ==
    /\ wk[w].pc = "settle" /\ wk[w].outcome = "ok"
    /\ crashes < MaxCrashes
    /\ crashes' = crashes + 1
    /\ SetStatus(wk[w].ev, "processed") \/ UNCHANGED row
    /\ wk' = [wk EXCEPT ![w] = [wk[w] EXCEPT !.pc = "again", !.outcome = outcome]]
    /\ UNCHANGED <<created, failures, acked, recovered, unsure, requeues>>

\* A failed dispatch, or an exception of the try block (pc = "again").
Failing(w) ==
    \/ wk[w].pc = "settle" /\ wk[w].outcome \in {"retryable", "permanent"}
    \/ wk[w].pc = "again"

\* Mutant: one attempt more than max_attempts.
FinalOffByOne(w) == wk[w].outcome = "permanent" \/ wk[w].attempt > MaxAttempts

\* The error is permanent or the budget is used up.
Final(w) == wk[w].outcome = "permanent" \/ wk[w].attempt >= MaxAttempts

FailureStatus(w) == IF Final(w) THEN "failed" ELSE "retry"

\* The failure row is written whether or not the update hit.
RecordFailure(w) ==
    failures' = IF ~Final(w) THEN failures
                ELSE [failures EXCEPT ![wk[w].ev] =
                        IF wk[w].outcome = "permanent" THEN "permanent" ELSE "open"]

HandleFailure(w) ==
    /\ Failing(w)
    /\ SetStatus(wk[w].ev, FailureStatus(w))
    /\ RecordFailure(w)
    /\ wk' = [wk EXCEPT ![w] = IdleWorker]
    /\ UNCHANGED <<created, acked, recovered, unsure, crashes, requeues>>

\* The update or a call after it raises inside the try block: the exception is
\* taken for a failed dispatch and _handle_failure runs once more, with a filter
\* that asks for id and status only.
HandleFailureRaises(w, outcome) ==
    /\ wk[w].pc = "settle" /\ Failing(w)
    /\ crashes < MaxCrashes
    /\ crashes' = crashes + 1
    /\ \/ UNCHANGED <<row, failures, unsure>>
       \/ /\ SetStatus(wk[w].ev, FailureStatus(w))
          /\ unsure' = IF row[wk[w].ev].status # "processing" THEN unsure
                       ELSE [unsure EXCEPT ![wk[w].ev] = unsure[wk[w].ev] + 1]
          /\ RecordFailure(w) \/ UNCHANGED failures
    /\ wk' = [wk EXCEPT ![w] = [wk[w] EXCEPT !.pc = "again", !.outcome = outcome]]
    /\ UNCHANGED <<created, acked, recovered, requeues>>

\* The second call raises as well and ends the batch; the update may have landed.
HandleFailureFails(w) ==
    /\ wk[w].pc = "again"
    /\ crashes < MaxCrashes
    /\ crashes' = crashes + 1
    /\ SetStatus(wk[w].ev, FailureStatus(w))
    /\ wk' = [wk EXCEPT ![w] = IdleWorker]
    /\ UNCHANGED <<created, failures, acked, recovered, unsure, requeues>>

\* Mutant: a row without attempts left is not recovered.
StuckWithBudget ==
    {e \in Events : row[e].status = "processing" /\ row[e].late /\ row[e].attempts < MaxAttempts}

Stuck == {e \in Events : row[e].status = "processing" /\ row[e].late}

\* _recover_stuck, run by a worker between two batches: update_many.
RecoverStuck(w) ==
    /\ wk[w].pc = "idle"
    /\ Stuck # {}
    /\ row' = [e \in Events |->
                 IF e \in Stuck THEN [row[e] EXCEPT !.status = "retry", !.ready = TRUE]
                 ELSE row[e]]
    /\ recovered' = [e \in Events |-> IF e \in Stuck THEN recovered[e] + 1 ELSE recovered[e]]
    /\ UNCHANGED <<created, wk, failures, acked, unsure, crashes, requeues>>

\* The process of a worker dies or is stopped in the middle of an event, or an
\* exception ends its batch before the update.
Crash(w) ==
    /\ wk[w].pc # "idle"
    /\ crashes < MaxCrashes
    /\ crashes' = crashes + 1
    /\ wk' = [wk EXCEPT ![w] = IdleWorker]
    /\ UNCHANGED <<row, created, failures, acked, recovered, unsure, requeues>>

\* processing_timeout passes, over a dead claim or over a dispatch still under way.
TimeOut(e) ==
    /\ row[e].status = "processing" /\ ~row[e].late
    /\ recovered[e] < MaxTimeouts \/ \A w \in Workers : wk[w].ev # e
    /\ row' = [row EXCEPT ![e].late = TRUE]
    /\ UNCHANGED <<created, wk, failures, acked, recovered, unsure, crashes, requeues>>

BackoffElapses(e) ==
    /\ row[e].status = "retry" /\ ~row[e].ready
    /\ row' = [row EXCEPT ![e].ready = TRUE]
    /\ UNCHANGED <<created, wk, failures, acked, recovered, unsure, crashes, requeues>>

\* Mutant: a requeued row gets a status the workers do not know.
RequeueUnknownStatus(es) ==
    /\ es # {} /\ requeues < MaxRequeues
    /\ requeues' = requeues + 1
    /\ row' = [e \in Events |-> IF e \in es THEN [row[e] EXCEPT !.status = "requeued"] ELSE row[e]]
    /\ UNCHANGED <<created, wk, failures, acked, recovered, unsure, crashes>>

\* requeue_event and replay_failed_events: attempts start from zero again.
Requeue(es) ==
    /\ es # {} /\ requeues < MaxRequeues
    /\ requeues' = requeues + 1
    /\ row' = [e \in Events |->
                 IF e \in es THEN [status |-> "pending", attempts |-> 0,
                                   ready |-> TRUE, late |-> row[e].late]
                 ELSE row[e]]
    /\ UNCHANGED <<created, wk, failures, acked, recovered, unsure, crashes>>

RequeueEvent(e) == row[e].status \in {"failed", "retry"} /\ Requeue({e})

\* The provider and tenant filters and the configuration failures held back
\* leave any part of the failed rows.
ReplayFailed ==
    \E es \in SUBSET {e \in Events : row[e].status = "failed"} : Requeue(es)

\* RetryEngine.retry on a failure the worker recorded: its context names the
\* event `outbox_event_id`, the engine looks for `event_id`, skips the event and
\* resolves the failure.
RetryFailure(e) ==
    /\ failures[e] = "open"
    /\ failures' = [failures EXCEPT ![e] = "resolved"]
    /\ UNCHANGED <<row, created, wk, acked, recovered, unsure, crashes, requeues>>

Work(w) ==
    \/ \E e \in Events : ClaimEvent(w, e)
    \/ \E outcome \in Outcomes \ {"none"} : Dispatch(w, outcome)
    \/ MarkProcessed(w)
    \/ HandleFailure(w)
    \/ RecoverStuck(w)

Elapse(e) == TimeOut(e) \/ BackoffElapses(e)

Fault(w) ==
    \/ Crash(w)
    \/ HandleFailureFails(w)
    \/ \E outcome \in {"retryable", "permanent"} :
          MarkProcessedRaises(w, outcome) \/ HandleFailureRaises(w, outcome)

Next ==
    \/ \E w \in Workers : Work(w) \/ Fault(w)
    \/ \E e \in Events : Enqueue(e) \/ Elapse(e) \/ RequeueEvent(e) \/ RetryFailure(e)
    \/ ReplayFailed

Spec == Init /\ [][Next]_vars

\* Workers loop for ever and time passes; crashes and operators are not fair.
FairSpec ==
    /\ Spec
    /\ \A w \in Workers : WF_vars(Work(w)) /\ WF_vars(RecoverStuck(w))
    /\ \A e \in Events : WF_vars(Elapse(e))

-----------------------------------------------------------------------------
(* Properties *)

\* A row is marked processed only if a dispatch of that row reported delivery.
ProcessedWasDelivered == \A e \in Events : row[e].status = "processed" => e \in acked

\* A dispatch is charged to the row's budget ("OTA events cap at 5" of
\* core/outbox_service.py): attempt_count exceeds max_attempts only by the attempts
\* given back by a timeout recovery, which does not look at the budget, and by a
\* failure written twice because the first write raised.
AttemptsAccountedFor == \A e \in Events : row[e].attempts <= MaxAttempts + recovered[e] + unsure[e]

\* A late result of a worker that lost its claim never reopens or overwrites a
\* settled row: processed is final, and failed is left only by a requeue.
SettledRowsStay ==
    [][\A e \in Events :
         /\ row[e].status = "processed" => row'[e].status = "processed"
         /\ row[e].status = "failed" =>
              row'[e].status = "failed" \/ (row'[e].attempts = 0 /\ requeues' > requeues)]_vars

WorkingOn(e) == {w \in Workers : wk[w].ev = e}

\* Two workers work on the same event only because a timeout took it from one of
\* them, or because a failure write that had already put the row back raised,
\* whatever races there are between claims, requeues and late results.
DuplicatesNeedTimeouts ==
    \A e \in Events : Cardinality(WorkingOn(e)) <= 1 + recovered[e] + unsure[e]

\* "Atomic claim pattern (no duplicate processing)" (core/outbox_worker.py): but
\* for timeouts one worker works on an event.
OneWorkerPerEvent ==
    \A e \in Events : Cardinality(WorkingOn(e)) <= 1 + recovered[e]

\* A failure the control plane reports as resolved by a retry has its event
\* back in the queue ("Retry a failed outbox event by resetting it to pending").
ResolvedFailureIsRequeued ==
    \A e \in Events : failures[e] = "resolved" => row[e].status # "failed"

\* Guaranteed delivery: an enqueued event ends up processed, or failed for an
\* operator to see, whatever crashes, timeouts and late answers happen.
EveryEventSettles ==
    \A e \in Events : row[e].status # "none" ~> row[e].status \in {"processed", "failed"}
=============================================================================
