---------------------------- MODULE OutboxProofs ----------------------------
(***************************************************************************)
(* Proofs about Outbox for every number of events, workers, attempts,      *)
(* crashes, raising status writes, requeues and timeouts.                  *)
(***************************************************************************)
EXTENDS Outbox, FiniteSetTheorems, TLAPS

\* A worker has an event exactly while it works.
Busy == \A w \in Workers : wk[w].pc = "idle" <=> wk[w].ev = NoEvent

\* A delivery is known to the worker only after the provider reported it.
OkWasAcked == \A w \in Workers : wk[w].outcome = "ok" => wk[w].ev \in acked

TInv == TypeOK /\ Busy

OutboxRow == [status : Statuses, attempts : Nat, ready : BOOLEAN, late : BOOLEAN]

-----------------------------------------------------------------------------
(* The type invariant *)

LEMMA RowEdits ==
    ASSUME NEW r \in OutboxRow, NEW status \in Statuses, NEW flag \in BOOLEAN
    PROVE  /\ [r EXCEPT !.status = status, !.ready = flag] \in OutboxRow
           /\ [r EXCEPT !.late = flag] \in OutboxRow
           /\ [r EXCEPT !.ready = flag] \in OutboxRow
BY DEF OutboxRow

LEMMA RowsTyped == TypeOK => row \in [Events -> OutboxRow]
BY DEF TypeOK, OutboxRow

LEMMA SetStatusTyped ==
    ASSUME TInv, NEW e \in Events, NEW status \in Statuses, SetStatus(e, status)
    PROVE  row' \in [Events -> OutboxRow]
<1>1. row' = row \/ row' = [row EXCEPT ![e] = [row[e] EXCEPT !.status = status, !.ready = FALSE]]
  BY DEF SetStatus
<1>2. row[e] \in OutboxRow
  BY RowsTyped DEF TInv
<1>3. [row[e] EXCEPT !.status = status, !.ready = FALSE] \in OutboxRow
  BY <1>2, RowEdits
<1> QED
  BY <1>1, <1>3, RowsTyped DEF TInv

LEMMA WorkingOnEvent ==
    ASSUME TInv, NEW w \in Workers, wk[w].pc # "idle"
    PROVE  wk[w].ev \in Events
BY DEF TInv, TypeOK, Busy

\* A worker about to handle a failure has an event.
LEMMA FailingWorks ==
    ASSUME TInv, NEW w \in Workers, Failing(w)
    PROVE  wk[w].pc # "idle" /\ wk[w].ev \in Events
BY WorkingOnEvent DEF Failing

LEMMA FailureStatusOf ==
    ASSUME NEW w
    PROVE  FailureStatus(w) \in {"failed", "retry"} /\ FailureStatus(w) \in Statuses
BY DEF FailureStatus, Statuses

LEMMA GoesIdle ==
    ASSUME TInv, NEW w \in Workers, wk' = [wk EXCEPT ![w] = IdleWorker]
    PROVE  /\ wk' \in [Workers -> [pc : {"idle", "dispatch", "settle", "again"},
                                  ev : Events \cup {NoEvent}, attempt : Nat,
                                  outcome : Outcomes]]
           /\ Busy'
BY DEF TInv, TypeOK, Busy, IdleWorker, Outcomes

LEMMA GoesOn ==
    ASSUME TInv, NEW w \in Workers, wk[w].pc # "idle", NEW outcome \in Outcomes,
           NEW pc \in {"settle", "again"},
           wk' = [wk EXCEPT ![w] = [wk[w] EXCEPT !.pc = pc, !.outcome = outcome]]
    PROVE  /\ wk' \in [Workers -> [pc : {"idle", "dispatch", "settle", "again"},
                                  ev : Events \cup {NoEvent}, attempt : Nat,
                                  outcome : Outcomes]]
           /\ Busy'
<1>1. wk[w] \in [pc : {"idle", "dispatch", "settle", "again"},
                 ev : Events \cup {NoEvent}, attempt : Nat, outcome : Outcomes]
  BY DEF TInv, TypeOK
<1>2. [wk[w] EXCEPT !.pc = pc, !.outcome = outcome]
        \in [pc : {"dispatch", "settle", "again"}, ev : {wk[w].ev}, attempt : Nat,
            outcome : Outcomes]
  BY <1>1
<1> QED
  BY <1>1, <1>2 DEF TInv, TypeOK, Busy

LEMMA TInvInit == Init => TInv
BY OutboxAssumption DEF Init, TInv, TypeOK, Busy, IdleWorker, Statuses, Outcomes

LEMMA TInvNext == TInv /\ [Next]_vars => TInv'
<1> SUFFICES ASSUME TInv, [Next]_vars PROVE TInv'
  OBVIOUS
<1> USE OutboxAssumption
<1>1. ASSUME NEW e \in Events, Enqueue(e) PROVE TInv'
  <2>1. Cardinality(Enqueued) \in Nat
    BY FS_Subset, FS_CardinalityType DEF Enqueued
  <2> QED
    BY <1>1, <2>1 DEF Enqueue, TInv, TypeOK, Busy, Statuses
<1>2. ASSUME NEW w \in Workers, NEW e \in Events, ClaimEvent(w, e) PROVE TInv'
  BY <1>2 DEF ClaimEvent, TInv, TypeOK, Busy, Statuses, Outcomes
<1>3. ASSUME NEW w \in Workers, NEW outcome \in Outcomes \ {"none"}, Dispatch(w, outcome)
      PROVE  TInv'
  <2>1. wk[w].ev \in Events
    BY <1>3, WorkingOnEvent DEF Dispatch
  <2> QED
    <3>1. /\ wk' \in [Workers -> [pc : {"idle", "dispatch", "settle", "again"},
                                 ev : Events \cup {NoEvent}, attempt : Nat,
                                 outcome : Outcomes]]
          /\ Busy'
      BY <1>3, <2>1, GoesOn DEF Dispatch
    <3>2. acked' \subseteq Events
      BY <1>3, <2>1 DEF Dispatch, TInv, TypeOK
    <3> QED
      BY <1>3, <3>1, <3>2 DEF Dispatch, TInv, TypeOK
<1>4. ASSUME NEW w \in Workers, MarkProcessed(w) PROVE TInv'
  <2>1. wk[w].ev \in Events
    BY <1>4, WorkingOnEvent DEF MarkProcessed
  <2> QED
    BY <1>4, <2>1, SetStatusTyped, GoesIdle DEF MarkProcessed, TInv, TypeOK, Statuses, OutboxRow
<1>5. ASSUME NEW w \in Workers, HandleFailure(w) PROVE TInv'
  <2>1. wk[w].ev \in Events
    BY <1>5, FailingWorks DEF HandleFailure
  <2>2. row' \in [Events -> OutboxRow]
    BY <1>5, <2>1, FailureStatusOf, SetStatusTyped DEF HandleFailure
  <2>3. failures' \in [Events -> {"none", "open", "permanent", "resolved"}]
    BY <1>5, <2>1 DEF HandleFailure, RecordFailure, TInv, TypeOK
  <2> QED
    BY <1>5, <2>2, <2>3, GoesIdle DEF HandleFailure, TInv, TypeOK, OutboxRow
<1>6. ASSUME NEW w \in Workers, RecoverStuck(w) PROVE TInv'
  <2>1. "retry" \in Statuses
    BY DEF Statuses
  <2>2. \A e \in Events : [row[e] EXCEPT !.status = "retry", !.ready = TRUE] \in OutboxRow
    BY <2>1, RowEdits, RowsTyped DEF TInv
  <2>3. row' \in [Events -> OutboxRow]
    BY <1>6, <2>2, RowsTyped, Zenon DEF RecoverStuck, TInv
  <2>4. /\ recovered' = [e \in Events |-> IF e \in Stuck THEN recovered[e] + 1 ELSE recovered[e]]
        /\ UNCHANGED <<created, wk, failures, acked, unsure, crashes, requeues>>
    BY <1>6, Zenon DEF RecoverStuck
  <2>5. recovered' \in [Events -> Nat]
    BY <2>4 DEF TInv, TypeOK
  <2> QED
    BY <2>3, <2>4, <2>5 DEF TInv, TypeOK, Busy, OutboxRow
<1>7. ASSUME NEW w \in Workers, Crash(w) PROVE TInv'
  <2>1. crashes' \in 0 .. MaxCrashes
    BY <1>7 DEF Crash, TInv, TypeOK
  <2> QED
    BY <1>7, <2>1, GoesIdle DEF Crash, TInv, TypeOK
<1>8. ASSUME NEW w \in Workers, NEW outcome \in {"retryable", "permanent"},
             MarkProcessedRaises(w, outcome)
      PROVE  TInv'
  <2>1. wk[w].ev \in Events
    BY <1>8, WorkingOnEvent DEF MarkProcessedRaises
  <2>2. row' \in [Events -> OutboxRow]
    BY <1>8, <2>1, SetStatusTyped DEF MarkProcessedRaises, TInv, TypeOK, Statuses, OutboxRow
  <2> QED
    <3>1. /\ wk' \in [Workers -> [pc : {"idle", "dispatch", "settle", "again"},
                                 ev : Events \cup {NoEvent}, attempt : Nat,
                                 outcome : Outcomes]]
          /\ Busy'
      BY <1>8, GoesOn DEF MarkProcessedRaises, Outcomes
    <3>2. crashes' \in 0 .. MaxCrashes
      BY <1>8 DEF MarkProcessedRaises, TInv, TypeOK
    <3> QED
      BY <1>8, <2>2, <3>1, <3>2 DEF MarkProcessedRaises, TInv, TypeOK, OutboxRow
<1>13. ASSUME NEW w \in Workers, NEW outcome \in {"retryable", "permanent"},
              HandleFailureRaises(w, outcome)
       PROVE  TInv'
  <2>1. wk[w].pc # "idle" /\ wk[w].ev \in Events
    BY <1>13, FailingWorks DEF HandleFailureRaises
  <2>2. row' \in [Events -> OutboxRow]
    BY <1>13, <2>1, FailureStatusOf, SetStatusTyped, RowsTyped DEF HandleFailureRaises, TInv
  <2>3. failures' \in [Events -> {"none", "open", "permanent", "resolved"}]
    BY <1>13, <2>1 DEF HandleFailureRaises, RecordFailure, TInv, TypeOK
  <2>4. unsure' \in [Events -> Nat]
    BY <1>13, <2>1 DEF HandleFailureRaises, TInv, TypeOK
  <2>5. crashes' \in 0 .. MaxCrashes
    BY <1>13 DEF HandleFailureRaises, TInv, TypeOK
  <2>6. /\ wk' \in [Workers -> [pc : {"idle", "dispatch", "settle", "again"},
                               ev : Events \cup {NoEvent}, attempt : Nat, outcome : Outcomes]]
        /\ Busy'
    BY <1>13, <2>1, GoesOn DEF HandleFailureRaises, Outcomes
  <2> QED
    <3>1. UNCHANGED <<created, acked, recovered, requeues>>
      BY <1>13 DEF HandleFailureRaises
    <3> QED
      BY <2>2, <2>3, <2>4, <2>5, <2>6, <3>1 DEF TInv, TypeOK, OutboxRow
<1>14. ASSUME NEW w \in Workers, HandleFailureFails(w) PROVE TInv'
  <2>1. Failing(w)
    BY <1>14 DEF HandleFailureFails, Failing
  <2>2. row' \in [Events -> OutboxRow]
    BY <1>14, <2>1, FailingWorks, FailureStatusOf, SetStatusTyped DEF HandleFailureFails
  <2> QED
    <3>1. crashes' \in 0 .. MaxCrashes
      BY <1>14 DEF HandleFailureFails, TInv, TypeOK
    <3>2. /\ wk' = [wk EXCEPT ![w] = IdleWorker]
          /\ UNCHANGED <<created, failures, acked, recovered, unsure, requeues>>
      BY <1>14 DEF HandleFailureFails
    <3> QED
      BY <2>2, <3>1, <3>2, GoesIdle DEF TInv, TypeOK, OutboxRow
<1>9. ASSUME NEW e \in Events, Elapse(e) PROVE TInv'
  <2>1. /\ [row[e] EXCEPT !.late = TRUE] \in OutboxRow
        /\ [row[e] EXCEPT !.ready = TRUE] \in OutboxRow
    BY RowEdits, RowsTyped DEF TInv, Statuses
  <2>2. /\ \/ row' = [row EXCEPT ![e] = [row[e] EXCEPT !.late = TRUE]]
           \/ row' = [row EXCEPT ![e] = [row[e] EXCEPT !.ready = TRUE]]
        /\ UNCHANGED <<created, wk, failures, acked, recovered, unsure, crashes, requeues>>
    BY <1>9, Zenon DEF Elapse, TimeOut, BackoffElapses
  <2>3. row' \in [Events -> OutboxRow]
    BY <2>1, <2>2, RowsTyped, Zenon DEF TInv
  <2>4. UNCHANGED <<created, wk, failures, acked, recovered, unsure, crashes, requeues>>
    BY <2>2, Zenon
  <2> QED
    BY <2>3, <2>4 DEF TInv, TypeOK, Busy, OutboxRow
<1>10. ASSUME NEW es \in SUBSET Events, Requeue(es) PROVE TInv'
  BY <1>10 DEF Requeue, TInv, TypeOK, Busy, Statuses
<1>11. ASSUME NEW e \in Events, RetryFailure(e) PROVE TInv'
  BY <1>11 DEF RetryFailure, TInv, TypeOK, Busy
<1>12. CASE UNCHANGED vars
  BY <1>12 DEF vars, TInv, TypeOK, Busy
<1> QED
  BY <1>1, <1>2, <1>3, <1>4, <1>5, <1>6, <1>7, <1>8, <1>9, <1>10, <1>11, <1>12,
     <1>13, <1>14
  DEF Next, Work, Fault, RequeueEvent, ReplayFailed

LEMMA TInvAlways == Spec => []TInv
BY TInvInit, TInvNext, PTL DEF Spec

\* The rows, the workers' copies and the failure rows keep their types.
THEOREM TypeCorrect == Spec => []TypeOK
<1>1. TInv => TypeOK
  BY DEF TInv
<1> QED
  BY <1>1, TInvAlways, PTL

-----------------------------------------------------------------------------
(* Delivery and settled rows *)

LEMMA SetStatusEffect ==
    ASSUME TInv, NEW e \in Events, NEW status, SetStatus(e, status), NEW f \in Events
    PROVE  /\ row'[f].attempts = row[f].attempts
           /\ row'[f].status = IF f = e /\ row[e].status = "processing" THEN status
                              ELSE row[f].status
BY DEF TInv, TypeOK, SetStatus

LEMMA RecoverEffect ==
    ASSUME TInv, NEW w \in Workers, RecoverStuck(w), NEW f \in Events
    PROVE  /\ row'[f].attempts = row[f].attempts
           /\ \/ /\ row[f].status = "processing" /\ row'[f].status = "retry"
                 /\ recovered'[f] = recovered[f] + 1
              \/ row'[f].status = row[f].status /\ recovered'[f] = recovered[f]
<1>1. /\ row' = [e \in Events |->
                  IF e \in Stuck THEN [row[e] EXCEPT !.status = "retry", !.ready = TRUE]
                  ELSE row[e]]
      /\ recovered' = [e \in Events |-> IF e \in Stuck THEN recovered[e] + 1 ELSE recovered[e]]
  BY Zenon DEF RecoverStuck
<1>2. row[f] \in OutboxRow
  BY RowsTyped DEF TInv
<1>3. CASE f \in Stuck
  <2>1. row'[f] = [row[f] EXCEPT !.status = "retry", !.ready = TRUE]
    BY <1>1, <1>3, Zenon
  <2>2. /\ row'[f].status = "retry"
        /\ row'[f].attempts = row[f].attempts
    BY <1>2, <2>1 DEF OutboxRow
  <2>3. recovered'[f] = recovered[f] + 1
    BY <1>1, <1>3, Zenon
  <2> QED
    BY <1>3, <2>2, <2>3 DEF Stuck
<1>4. CASE f \notin Stuck
  BY <1>1, <1>4, Zenon
<1> QED
  BY <1>3, <1>4

LEMMA RequeueEffect ==
    ASSUME TInv, NEW es \in SUBSET Events, Requeue(es), NEW f \in Events
    PROVE  IF f \in es THEN row'[f].status = "pending" /\ row'[f].attempts = 0
           ELSE row'[f] = row[f]
BY DEF Requeue

LEMMA ElapseEffect ==
    ASSUME TInv, NEW e \in Events, Elapse(e), NEW f \in Events
    PROVE  row'[f].status = row[f].status /\ row'[f].attempts = row[f].attempts
<1>1. row[f] \in OutboxRow /\ row[e] \in OutboxRow
  BY RowsTyped DEF TInv
<1>2. \/ row' = [row EXCEPT ![e] = [row[e] EXCEPT !.late = TRUE]]
      \/ row' = [row EXCEPT ![e] = [row[e] EXCEPT !.ready = TRUE]]
  BY Zenon DEF Elapse, TimeOut, BackoffElapses
<1>3. \/ row'[f] = row[f]
      \/ row'[f] = [row[f] EXCEPT !.late = TRUE]
      \/ row'[f] = [row[f] EXCEPT !.ready = TRUE]
  BY <1>2, RowsTyped DEF TInv
<1> QED
  BY <1>1, <1>3 DEF OutboxRow

LEMMA ReplayIsRequeue ==
    ASSUME TInv, ReplayFailed \/ \E e \in Events : RequeueEvent(e)
    PROVE  \E es \in SUBSET Events :
             /\ Requeue(es)
             /\ \A e \in es : row[e].status \in {"failed", "retry"}
<1>1. CASE ReplayFailed
  BY <1>1 DEF ReplayFailed
<1>2. ASSUME NEW e \in Events, RequeueEvent(e)
      PROVE  /\ Requeue({e}) /\ {e} \in SUBSET Events
             /\ \A f \in {e} : row[f].status \in {"failed", "retry"}
  BY <1>2 DEF RequeueEvent
<1> QED
  BY <1>1, <1>2

DInv == ProcessedWasDelivered /\ OkWasAcked

LEMMA DInvInit == Init => DInv
BY DEF Init, DInv, ProcessedWasDelivered, OkWasAcked, IdleWorker

LEMMA DInvNext == TInv /\ TInv' /\ DInv /\ [Next]_vars => DInv'
<1> SUFFICES ASSUME TInv, DInv, [Next]_vars PROVE DInv'
  OBVIOUS
<1> USE DEF DInv, ProcessedWasDelivered, OkWasAcked
<1>1. ASSUME NEW e \in Events, Enqueue(e) PROVE DInv'
  BY <1>1 DEF Enqueue, TInv, TypeOK
<1>2. ASSUME NEW w \in Workers, NEW e \in Events, ClaimEvent(w, e) PROVE DInv'
  BY <1>2 DEF ClaimEvent, TInv, TypeOK
<1>3. ASSUME NEW w \in Workers, NEW outcome \in Outcomes \ {"none"}, Dispatch(w, outcome)
      PROVE  DInv'
  BY <1>3 DEF Dispatch, TInv, TypeOK
<1>4. ASSUME NEW w \in Workers, MarkProcessed(w) PROVE DInv'
  <2>1. wk[w].ev \in Events /\ wk[w].ev \in acked
    BY <1>4, WorkingOnEvent DEF MarkProcessed
  <2>2. ProcessedWasDelivered'
    BY <1>4, <2>1, SetStatusEffect DEF MarkProcessed
  <2>3. OkWasAcked'
    BY <1>4 DEF MarkProcessed, IdleWorker, TInv, TypeOK
  <2> QED
    BY <2>2, <2>3
<1>5. ASSUME NEW w \in Workers, HandleFailure(w) PROVE DInv'
  <2>1. wk[w].ev \in Events
    BY <1>5, FailingWorks DEF HandleFailure
  <2>2. PICK status \in {"failed", "retry"} : SetStatus(wk[w].ev, status)
    BY <1>5, FailureStatusOf DEF HandleFailure
  <2>3. acked' = acked /\ wk' = [wk EXCEPT ![w] = IdleWorker]
    BY <1>5 DEF HandleFailure
  <2>4. ProcessedWasDelivered'
    BY <2>1, <2>2, <2>3, SetStatusEffect
  <2>5. OkWasAcked'
    BY <2>3 DEF IdleWorker, TInv, TypeOK
  <2> QED
    BY <2>4, <2>5
<1>6. ASSUME NEW w \in Workers, RecoverStuck(w) PROVE DInv'
  <2>1. UNCHANGED <<wk, acked>>
    BY <1>6, Zenon DEF RecoverStuck
  <2> QED
    BY <1>6, <2>1, RecoverEffect
<1>7. ASSUME NEW w \in Workers, Crash(w) PROVE DInv'
  BY <1>7 DEF Crash, IdleWorker, TInv, TypeOK
<1>8. ASSUME NEW w \in Workers, NEW outcome \in {"retryable", "permanent"},
             MarkProcessedRaises(w, outcome)
      PROVE  DInv'
  <2>1. wk[w].ev \in Events /\ wk[w].ev \in acked /\ acked' = acked
    BY <1>8, WorkingOnEvent DEF MarkProcessedRaises
  <2>2. ProcessedWasDelivered'
    BY <1>8, <2>1, SetStatusEffect DEF MarkProcessedRaises
  <2>3. OkWasAcked'
    BY <1>8 DEF MarkProcessedRaises, TInv, TypeOK
  <2> QED
    BY <2>2, <2>3
<1>13. ASSUME NEW w \in Workers, NEW outcome \in {"retryable", "permanent"},
              HandleFailureRaises(w, outcome)
       PROVE  DInv'
  <2>1. wk[w].ev \in Events /\ acked' = acked
    BY <1>13, FailingWorks DEF HandleFailureRaises
  <2>2. UNCHANGED row \/ SetStatus(wk[w].ev, FailureStatus(w))
    BY <1>13 DEF HandleFailureRaises
  <2>3. ProcessedWasDelivered'
    BY <2>1, <2>2, FailureStatusOf, SetStatusEffect
  <2>4. OkWasAcked'
    BY <1>13 DEF HandleFailureRaises, TInv, TypeOK
  <2> QED
    BY <2>3, <2>4
<1>14. ASSUME NEW w \in Workers, HandleFailureFails(w) PROVE DInv'
  <2>1. wk[w].ev \in Events /\ acked' = acked
    BY <1>14, FailingWorks DEF HandleFailureFails, Failing
  <2>2. SetStatus(wk[w].ev, FailureStatus(w)) /\ wk' = [wk EXCEPT ![w] = IdleWorker]
    BY <1>14 DEF HandleFailureFails
  <2>3. ProcessedWasDelivered'
    BY <2>1, <2>2, FailureStatusOf, SetStatusEffect
  <2>4. OkWasAcked'
    BY <2>1, <2>2 DEF IdleWorker, TInv, TypeOK
  <2> QED
    BY <2>3, <2>4
<1>9. ASSUME NEW e \in Events, Elapse(e) PROVE DInv'
  <2>1. UNCHANGED <<wk, acked>>
    BY <1>9, Zenon DEF Elapse, TimeOut, BackoffElapses
  <2> QED
    BY <1>9, <2>1, ElapseEffect
<1>10. ASSUME NEW es \in SUBSET Events, Requeue(es) PROVE DInv'
  <2>1. UNCHANGED <<wk, acked>>
    BY <1>10 DEF Requeue
  <2> QED
    BY <1>10, <2>1, RequeueEffect
<1>11. ASSUME NEW e \in Events, RetryFailure(e) PROVE DInv'
  BY <1>11 DEF RetryFailure
<1>12. CASE UNCHANGED vars
  BY <1>12 DEF vars
<1> QED
  BY <1>1, <1>2, <1>3, <1>4, <1>5, <1>6, <1>7, <1>8, <1>9, <1>10, <1>11, <1>12,
     <1>13, <1>14
  DEF Next, Work, Fault, RequeueEvent, ReplayFailed

\* A row is marked processed only if a dispatch of that row reported delivery,
\* for any number of workers, crashes, timeouts and operators.
THEOREM DeliveredBeforeProcessed == Spec => []ProcessedWasDelivered
<1>1. DInv => ProcessedWasDelivered
  BY DEF DInv
<1> QED
  BY <1>1, DInvInit, DInvNext, TInvAlways, PTL DEF Spec

LEMMA SettledStep ==
    ASSUME TInv, [Next]_vars, NEW e \in Events
    PROVE  /\ row[e].status = "processed" => row'[e].status = "processed"
           /\ row[e].status = "failed" =>
                row'[e].status = "failed" \/ (row'[e].attempts = 0 /\ requeues' > requeues)
<1> DEFINE Kept == row'[e].status = row[e].status \/ row[e].status \notin {"processed", "failed"}
<1>1. ASSUME NEW f \in Events, Enqueue(f) PROVE Kept
  BY <1>1 DEF Enqueue, TInv, TypeOK
<1>2. ASSUME NEW w \in Workers, NEW f \in Events, ClaimEvent(w, f) PROVE Kept
  BY <1>2 DEF ClaimEvent, Claimable, TInv, TypeOK
<1>3. ASSUME NEW w \in Workers,
             MarkProcessed(w) \/ HandleFailure(w) \/ HandleFailureFails(w)
      PROVE  Kept
  <2>1. wk[w].ev \in Events
    BY <1>3, WorkingOnEvent, FailingWorks
    DEF MarkProcessed, HandleFailure, HandleFailureFails, Failing
  <2>2. \E status : SetStatus(wk[w].ev, status)
    BY <1>3 DEF MarkProcessed, HandleFailure, HandleFailureFails
  <2> QED
    BY <2>1, <2>2, SetStatusEffect
<1>4. ASSUME NEW w \in Workers, RecoverStuck(w) PROVE Kept
  BY <1>4, RecoverEffect
<1>5. ASSUME NEW w \in Workers, NEW outcome \in {"retryable", "permanent"},
             MarkProcessedRaises(w, outcome) \/ HandleFailureRaises(w, outcome)
      PROVE  Kept
  <2>1. wk[w].ev \in Events
    BY <1>5, WorkingOnEvent DEF MarkProcessedRaises, HandleFailureRaises
  <2>2. (\E status : SetStatus(wk[w].ev, status)) \/ UNCHANGED row
    BY <1>5 DEF MarkProcessedRaises, HandleFailureRaises
  <2> QED
    BY <2>1, <2>2, SetStatusEffect
<1>6. ASSUME NEW f \in Events, Elapse(f) PROVE Kept
  BY <1>6, ElapseEffect
<1>7. ASSUME ReplayFailed \/ \E f \in Events : RequeueEvent(f)
      PROVE  Kept \/ (row'[e].attempts = 0 /\ requeues' > requeues /\ row[e].status # "processed")
  <2>1. PICK es \in SUBSET Events :
               Requeue(es) /\ \A f \in es : row[f].status \in {"failed", "retry"}
    BY <1>7, ReplayIsRequeue
  <2>2. requeues' > requeues
    BY <2>1 DEF Requeue, TInv, TypeOK
  <2> QED
    BY <2>1, <2>2, RequeueEffect
<1>8. CASE \/ UNCHANGED row
           \/ \E w \in Workers : Crash(w) \/ \E outcome \in Outcomes : Dispatch(w, outcome)
           \/ \E f \in Events : RetryFailure(f)
  BY <1>8 DEF Crash, Dispatch, RetryFailure
<1>9. UNCHANGED vars => UNCHANGED row
  BY DEF vars
<1> QED
  BY <1>1, <1>2, <1>3, <1>4, <1>5, <1>6, <1>7, <1>8, <1>9 DEF Next, Work, Fault

\* A late result of a worker that lost its claim never reopens or overwrites a
\* settled row.
THEOREM SettledStays == Spec => SettledRowsStay
<1>1. TInv /\ [Next]_vars =>
        [\A e \in Events :
           /\ row[e].status = "processed" => row'[e].status = "processed"
           /\ row[e].status = "failed" =>
                row'[e].status = "failed" \/ (row'[e].attempts = 0 /\ requeues' > requeues)]_vars
  BY SettledStep
<1> QED
  BY <1>1, TInvAlways, PTL DEF Spec, SettledRowsStay

-----------------------------------------------------------------------------
(* Who works on an event, and how many attempts that may still cost *)

\* How often the row came back to the queue while its worker went on.
Back(e) == recovered[e] + unsure[e]

\* The workers whose failure puts the row back into the queue.
Retriers(e) == {w \in WorkingOn(e) : wk[w].attempt < MaxAttempts}

Waiting(e) == IF row[e].status \in {"pending", "retry"} THEN 1 ELSE 0
Claimed(e) == IF row[e].status \in {"processing", "processed"} THEN 1 ELSE 0

\* The attempts of the row once its regular budget is used up.
Spent(e) == IF row[e].attempts < MaxAttempts THEN MaxAttempts - 1 ELSE row[e].attempts

\* All workers on an event but one lost their claim to a timeout or to a failure
\* write of their own that raised, and the one
\* that is left exists only while the row is claimed (or was marked processed by
\* an update whose answer was lost).
HoldersBounded == \A e \in Events : Cardinality(WorkingOn(e)) <= Back(e) + Claimed(e)

\* What the queue and the retriers may still add to the attempts is covered by
\* the budget, the recovered timeouts and the failure writes that raised.
BudgetBounded ==
    \A e \in Events :
        Spent(e) + Waiting(e) + Cardinality(Retriers(e)) <= MaxAttempts + Back(e)

CInv == HoldersBounded /\ BudgetBounded

LEMMA Counts ==
    ASSUME NEW e
    PROVE  /\ IsFiniteSet(WorkingOn(e)) /\ IsFiniteSet(Retriers(e))
           /\ Cardinality(WorkingOn(e)) \in Nat /\ Cardinality(Retriers(e)) \in Nat
           /\ Cardinality(Retriers(e)) <= Cardinality(WorkingOn(e))
<1>1. IsFiniteSet(WorkingOn(e))
  BY OutboxAssumption, FS_Subset DEF WorkingOn
<1>2. IsFiniteSet(Retriers(e)) /\ Cardinality(Retriers(e)) <= Cardinality(WorkingOn(e))
  BY <1>1, FS_Subset DEF Retriers
<1> QED
  BY <1>1, <1>2, FS_CardinalityType

\* A step that leaves events and attempts of the workers alone.
LEMMA SameWorkers ==
    ASSUME NEW e, \A w \in Workers : wk'[w].ev = wk[w].ev /\ wk'[w].attempt = wk[w].attempt
    PROVE  WorkingOn(e)' = WorkingOn(e) /\ Retriers(e)' = Retriers(e)
BY DEF WorkingOn, Retriers

LEMMA LeaverCounts ==
    ASSUME TInv, NEW e \in Events, NEW w \in Workers, wk' = [wk EXCEPT ![w] = IdleWorker]
    PROVE  /\ Cardinality(WorkingOn(e))' =
                IF w \in WorkingOn(e) THEN Cardinality(WorkingOn(e)) - 1 ELSE Cardinality(WorkingOn(e))
           /\ Cardinality(Retriers(e))' =
                IF w \in Retriers(e) THEN Cardinality(Retriers(e)) - 1
                ELSE Cardinality(Retriers(e))
<1>1. WorkingOn(e)' = WorkingOn(e) \ {w} /\ Retriers(e)' = Retriers(e) \ {w}
  BY OutboxAssumption DEF WorkingOn, Retriers, IdleWorker, TInv, TypeOK
<1> QED
  BY <1>1, Counts, FS_RemoveElement

LEMMA CInvInit == Init => CInv
<1> SUFFICES ASSUME Init PROVE CInv
  OBVIOUS
<1>1. ASSUME NEW e \in Events PROVE WorkingOn(e) = {} /\ Retriers(e) = {}
  BY OutboxAssumption DEF Init, WorkingOn, Retriers, IdleWorker
<1>2. ASSUME NEW e \in Events
      PROVE  row[e].status = "none" /\ row[e].attempts = 0 /\ Back(e) = 0
  BY DEF Init, Back
<1>3. ASSUME NEW e \in Events
      PROVE  Cardinality(WorkingOn(e)) = 0 /\ Cardinality(Retriers(e)) = 0
  BY <1>1, FS_EmptySet
<1> QED
  BY <1>2, <1>3, OutboxAssumption
  DEF CInv, HoldersBounded, BudgetBounded, Spent, Waiting, Claimed

\* What a step does to the count of one event decides about CInv.
LEMMA SameCounts ==
    ASSUME TInv, CInv, NEW e \in Events,
           row'[e].status = row[e].status, row'[e].attempts = row[e].attempts,
           Back(e)' = Back(e),
           WorkingOn(e)' = WorkingOn(e), Retriers(e)' = Retriers(e)
    PROVE  /\ Cardinality(WorkingOn(e))' <= Back(e)' + Claimed(e)'
           /\ Spent(e)' + Waiting(e)' + Cardinality(Retriers(e))' <= MaxAttempts + Back(e)'
BY DEF CInv, HoldersBounded, BudgetBounded, Spent, Waiting, Claimed

LEMMA CInvClaim ==
    ASSUME TInv, CInv, NEW w \in Workers, NEW e \in Events, ClaimEvent(w, e)
    PROVE  CInv'
<1> SUFFICES ASSUME NEW f \in Events
             PROVE  /\ Cardinality(WorkingOn(f))' <= Back(f)' + Claimed(f)'
                    /\ Spent(f)' + Waiting(f)' + Cardinality(Retriers(f))'
                         <= MaxAttempts + Back(f)'
  BY DEF CInv, HoldersBounded, BudgetBounded
<1>0. wk[w].ev = NoEvent /\ w \notin WorkingOn(e) /\ w \notin WorkingOn(f)
  BY OutboxAssumption DEF ClaimEvent, TInv, Busy, WorkingOn
<1>1. CASE f # e
  <2>1. WorkingOn(f)' = WorkingOn(f) /\ Retriers(f)' = Retriers(f)
    BY <1>0, <1>1 DEF ClaimEvent, WorkingOn, Retriers, TInv, TypeOK
  <2>2. row'[f] = row[f] /\ Back(f)' = Back(f)
    BY <1>1 DEF ClaimEvent, Back, TInv, TypeOK
  <2> QED
    BY <2>1, <2>2, SameCounts
<1>2. CASE f = e
  <2>1. WorkingOn(e)' = WorkingOn(e) \cup {w}
    BY DEF ClaimEvent, WorkingOn, TInv, TypeOK
  <2>2. Cardinality(WorkingOn(e))' = Cardinality(WorkingOn(e)) + 1
    BY <1>0, <2>1, Counts, FS_AddElement
  <2>3. /\ row'[e].status = "processing" /\ row[e].status \in {"pending", "retry"}
        /\ row'[e].attempts = row[e].attempts + 1 /\ Back(e)' = Back(e)
        /\ row[e].attempts \in Nat /\ Back(e) \in Nat
    BY DEF ClaimEvent, Claimable, Back, TInv, TypeOK
  <2>4. CASE row[e].attempts + 1 < MaxAttempts
    <3>1. Retriers(e)' = Retriers(e) \cup {w}
      BY <2>1, <2>4 DEF ClaimEvent, WorkingOn, Retriers, TInv, TypeOK
    <3>2. w \notin Retriers(e)
      BY <1>0 DEF Retriers
    <3>3. Cardinality(Retriers(e))' = Cardinality(Retriers(e)) + 1
      BY <3>1, <3>2, Counts, FS_AddElement
    <3> QED
      BY <1>2, <2>2, <2>3, <2>4, <3>3, Counts, OutboxAssumption
      DEF CInv, HoldersBounded, BudgetBounded, Spent, Waiting, Claimed
  <2>5. CASE ~(row[e].attempts + 1 < MaxAttempts)
    <3>1. Retriers(e)' = Retriers(e)
      BY <1>0, <2>1, <2>5 DEF ClaimEvent, WorkingOn, Retriers, TInv, TypeOK
    <3> QED
      BY <1>2, <2>2, <2>3, <2>5, <3>1, Counts, OutboxAssumption
      DEF CInv, HoldersBounded, BudgetBounded, Spent, Waiting, Claimed
  <2> QED
    BY <2>4, <2>5
<1> QED
  BY <1>1, <1>2

\* A worker ends its work on e; only a retrier puts the row back.
LEMMA CInvSettle ==
    ASSUME TInv, CInv, NEW w \in Workers, wk[w].ev \in Events,
           NEW status \in {"processed", "failed", "retry"}, SetStatus(wk[w].ev, status),
           status = "retry" => wk[w].attempt < MaxAttempts,
           wk' = [wk EXCEPT ![w] = IdleWorker], UNCHANGED <<recovered, unsure>>
    PROVE  CInv'
<1> SUFFICES ASSUME NEW f \in Events
             PROVE  /\ Cardinality(WorkingOn(f))' <= Back(f)' + Claimed(f)'
                    /\ Spent(f)' + Waiting(f)' + Cardinality(Retriers(f))'
                         <= MaxAttempts + Back(f)'
  BY DEF CInv, HoldersBounded, BudgetBounded
<1> DEFINE e == wk[w].ev
<1>1. /\ row'[f].attempts = row[f].attempts
      /\ row'[f].status = IF f = e /\ row[e].status = "processing" THEN status ELSE row[f].status
  BY SetStatusEffect
<1>2. /\ Cardinality(WorkingOn(f))' =
           IF f = e THEN Cardinality(WorkingOn(f)) - 1 ELSE Cardinality(WorkingOn(f))
      /\ Cardinality(Retriers(f))' =
           IF f = e /\ wk[w].attempt < MaxAttempts
           THEN Cardinality(Retriers(f)) - 1 ELSE Cardinality(Retriers(f))
  BY LeaverCounts DEF WorkingOn, Retriers
<1>3. row[f].attempts \in Nat /\ Back(f) \in Nat /\ Back(f)' = Back(f)
  BY DEF Back, TInv, TypeOK
<1> HIDE DEF e
<1> QED
  BY <1>1, <1>2, <1>3, Counts, OutboxAssumption
  DEF CInv, HoldersBounded, BudgetBounded, Spent, Waiting, Claimed

LEMMA RetryHasBudget ==
    ASSUME TInv, NEW w \in Workers, FailureStatus(w) = "retry"
    PROVE  wk[w].attempt < MaxAttempts
<1>1. wk[w].attempt \in Nat
  BY DEF TInv, TypeOK
<1> QED
  BY <1>1, OutboxAssumption DEF FailureStatus, Final

\* A failure write that raises: if it landed, the row is back in the queue with
\* its worker still at work, and unsure[e] pays for both.
LEMMA CInvRaises ==
    ASSUME TInv, CInv, NEW w \in Workers, NEW outcome \in {"retryable", "permanent"},
           HandleFailureRaises(w, outcome)
    PROVE  CInv'
<1> SUFFICES ASSUME NEW f \in Events
             PROVE  /\ Cardinality(WorkingOn(f))' <= Back(f)' + Claimed(f)'
                    /\ Spent(f)' + Waiting(f)' + Cardinality(Retriers(f))'
                         <= MaxAttempts + Back(f)'
  BY DEF CInv, HoldersBounded, BudgetBounded
<1> DEFINE e == wk[w].ev
<1>1. e \in Events
  BY FailingWorks DEF HandleFailureRaises
<1>2. WorkingOn(f)' = WorkingOn(f) /\ Retriers(f)' = Retriers(f)
  <2>1. \A v \in Workers : wk'[v].ev = wk[v].ev /\ wk'[v].attempt = wk[v].attempt
    BY DEF HandleFailureRaises, TInv, TypeOK
  <2> QED
    BY <2>1, SameWorkers
<1>3. row[f].attempts \in Nat /\ Back(f) \in Nat
  BY DEF Back, TInv, TypeOK
<1>4. CASE UNCHANGED <<row, unsure>>
  <2>1. Back(f)' = Back(f)
    BY <1>4 DEF HandleFailureRaises, Back
  <2> QED
    BY <1>2, <1>4, <2>1, SameCounts
<1>5. CASE /\ SetStatus(e, FailureStatus(w))
           /\ unsure' = IF row[e].status # "processing" THEN unsure
                        ELSE [unsure EXCEPT ![e] = unsure[e] + 1]
  <2>1. /\ row'[f].attempts = row[f].attempts
        /\ row'[f].status = IF f = e /\ row[e].status = "processing" THEN FailureStatus(w)
                            ELSE row[f].status
    BY <1>1, <1>5, SetStatusEffect
  <2>2. Back(f)' = IF f = e /\ row[e].status = "processing" THEN Back(f) + 1 ELSE Back(f)
    <3>1. recovered' = recovered
      BY DEF HandleFailureRaises
    <3>2. unsure'[f] = IF f = e /\ row[e].status = "processing" THEN unsure[f] + 1
                       ELSE unsure[f]
      <4>1. unsure \in [Events -> Nat]
        BY DEF TInv, TypeOK
      <4> HIDE DEF e
      <4> QED
        BY <1>1, <1>5, <4>1
    <3>3. recovered[f] \in Nat /\ unsure[f] \in Nat
      BY DEF TInv, TypeOK
    <3> HIDE DEF e
    <3> QED
      BY <3>1, <3>2, <3>3 DEF Back
  <2>3. FailureStatus(w) \in {"failed", "retry"}
    BY FailureStatusOf
  <2>4. CASE f = e /\ row[e].status = "processing"
    <3>1. /\ row[f].status = "processing" /\ row'[f].status \in {"failed", "retry"}
          /\ row'[f].attempts = row[f].attempts /\ Back(f)' = Back(f) + 1
      BY <2>1, <2>2, <2>3, <2>4
    <3> QED
      BY <1>2, <1>3, <3>1, Counts, OutboxAssumption
      DEF CInv, HoldersBounded, BudgetBounded, Spent, Waiting, Claimed
  <2>5. CASE ~(f = e /\ row[e].status = "processing")
    BY <1>2, <2>1, <2>2, <2>5, SameCounts
  <2> QED
    BY <2>4, <2>5
<1> QED
  BY <1>4, <1>5 DEF HandleFailureRaises

LEMMA CInvNext == TInv /\ TInv' /\ CInv /\ [Next]_vars => CInv'
<1> SUFFICES ASSUME TInv, CInv, [Next]_vars PROVE CInv'
  OBVIOUS
<1> DEFINE Bound(e) == /\ Cardinality(WorkingOn(e))' <= Back(e)' + Claimed(e)'
                       /\ Spent(e)' + Waiting(e)' + Cardinality(Retriers(e))'
                            <= MaxAttempts + Back(e)'
<1>0. (\A e \in Events : Bound(e)) => CInv'
  BY DEF CInv, HoldersBounded, BudgetBounded
<1>a. ASSUME NEW e \in Events
      PROVE  row[e].attempts \in Nat /\ Back(e) \in Nat
  BY DEF Back, TInv, TypeOK
<1>b. ASSUME UNCHANGED <<recovered, unsure>>, NEW e \in Events PROVE Back(e)' = Back(e)
  BY <1>b DEF Back
<1>1. ASSUME NEW e \in Events, Enqueue(e) PROVE CInv'
  <2>1. \A f \in Events : WorkingOn(f)' = WorkingOn(f) /\ Retriers(f)' = Retriers(f)
    BY <1>1, SameWorkers DEF Enqueue
  <2>2. \A f \in Events : Back(f)' = Back(f) /\ (f # e => row'[f] = row[f])
    BY <1>1 DEF Enqueue, Back, TInv, TypeOK
  <2>3. /\ row'[e].status = "pending" /\ row'[e].attempts = 0
        /\ row[e].status = "none"
    BY <1>1 DEF Enqueue, TInv, TypeOK
  <2>4. Bound(e)
    BY <1>a, <2>1, <2>2, <2>3, Counts, OutboxAssumption
    DEF CInv, HoldersBounded, BudgetBounded, Spent, Waiting, Claimed
  <2>5. \A f \in Events \ {e} : Bound(f)
    BY <2>1, <2>2, SameCounts
  <2> QED
    BY <1>0, <2>4, <2>5
<1>2. ASSUME NEW w \in Workers, NEW e \in Events, ClaimEvent(w, e) PROVE CInv'
  BY <1>2, CInvClaim
<1>3. ASSUME NEW w \in Workers, NEW outcome \in Outcomes \ {"none"}, Dispatch(w, outcome)
      PROVE  CInv'
  <2>1. \A v \in Workers : wk'[v].ev = wk[v].ev /\ wk'[v].attempt = wk[v].attempt
    BY <1>3 DEF Dispatch, TInv, TypeOK
  <2>2. UNCHANGED <<row, recovered, unsure>>
    BY <1>3 DEF Dispatch
  <2> QED
    BY <1>0, <1>b, <2>1, <2>2, SameWorkers, SameCounts
<1>4. ASSUME NEW w \in Workers, MarkProcessed(w) PROVE CInv'
  BY <1>4, WorkingOnEvent, CInvSettle DEF MarkProcessed
<1>5. ASSUME NEW w \in Workers, HandleFailure(w) \/ HandleFailureFails(w) PROVE CInv'
  <2>1. wk[w].ev \in Events
    BY <1>5, FailingWorks DEF HandleFailure, HandleFailureFails, Failing
  <2>2. /\ SetStatus(wk[w].ev, FailureStatus(w))
        /\ wk' = [wk EXCEPT ![w] = IdleWorker]
        /\ UNCHANGED <<recovered, unsure>>
    BY <1>5 DEF HandleFailure, HandleFailureFails
  <2> QED
    BY <2>1, <2>2, FailureStatusOf, RetryHasBudget, CInvSettle
<1>6. ASSUME NEW w \in Workers, RecoverStuck(w) PROVE CInv'
  <2>1. \A f \in Events : WorkingOn(f)' = WorkingOn(f) /\ Retriers(f)' = Retriers(f)
    BY <1>6, SameWorkers, Zenon DEF RecoverStuck
  <2>2. ASSUME NEW f \in Events PROVE Bound(f)
    <3>1. /\ row'[f].attempts = row[f].attempts
          /\ \/ /\ row[f].status = "processing" /\ row'[f].status = "retry"
                /\ Back(f)' = Back(f) + 1
             \/ row'[f].status = row[f].status /\ Back(f)' = Back(f)
      <4>1. unsure' = unsure /\ recovered[f] \in Nat /\ unsure[f] \in Nat
        BY <1>6, Zenon DEF RecoverStuck, TInv, TypeOK
      <4> QED
        BY <1>6, <4>1, RecoverEffect DEF Back
    <3> QED
      BY <1>a, <2>1, <3>1, Counts, OutboxAssumption
      DEF CInv, HoldersBounded, BudgetBounded, Spent, Waiting, Claimed
  <2> QED
    BY <1>0, <2>2
<1>7. ASSUME NEW w \in Workers, Crash(w) PROVE CInv'
  <2>1. wk' = [wk EXCEPT ![w] = IdleWorker] /\ UNCHANGED <<row, recovered, unsure>>
    BY <1>7 DEF Crash
  <2>2. ASSUME NEW f \in Events PROVE Bound(f)
    <3>1. /\ Cardinality(WorkingOn(f))' <= Cardinality(WorkingOn(f))
          /\ Cardinality(Retriers(f))' <= Cardinality(Retriers(f))
          /\ Cardinality(WorkingOn(f))' \in Int /\ Cardinality(Retriers(f))' \in Int
      <4>1. /\ Cardinality(WorkingOn(f))' \in {Cardinality(WorkingOn(f)) - 1, Cardinality(WorkingOn(f))}
            /\ Cardinality(Retriers(f))' \in {Cardinality(Retriers(f)) - 1, Cardinality(Retriers(f))}
        BY <2>1, LeaverCounts
      <4>2. Cardinality(WorkingOn(f)) \in Nat /\ Cardinality(Retriers(f)) \in Nat
        BY Counts
      <4> QED
        BY <4>1, <4>2
    <3> QED
      BY <1>a, <1>b, <2>1, <3>1, Counts, OutboxAssumption
      DEF CInv, HoldersBounded, BudgetBounded, Spent, Waiting, Claimed
  <2> QED
    BY <1>0, <2>2
<1>8. ASSUME NEW w \in Workers, NEW outcome \in {"retryable", "permanent"},
             MarkProcessedRaises(w, outcome)
      PROVE  CInv'
  <2>1. \A v \in Workers : wk'[v].ev = wk[v].ev /\ wk'[v].attempt = wk[v].attempt
    BY <1>8 DEF MarkProcessedRaises, TInv, TypeOK
  <2>2. \A f \in Events : WorkingOn(f)' = WorkingOn(f) /\ Retriers(f)' = Retriers(f)
    BY <2>1, SameWorkers
  <2>3. wk[w].ev \in Events /\ UNCHANGED <<recovered, unsure>>
    BY <1>8, WorkingOnEvent DEF MarkProcessedRaises
  <2>4. SetStatus(wk[w].ev, "processed") \/ UNCHANGED row
    BY <1>8 DEF MarkProcessedRaises
  <2>5. ASSUME NEW f \in Events PROVE Bound(f)
    <3>1. /\ row'[f].attempts = row[f].attempts
          /\ \/ row[f].status = "processing" /\ row'[f].status = "processed"
             \/ row'[f].status = row[f].status
      BY <2>3, <2>4, SetStatusEffect
    <3> QED
      BY <1>a, <1>b, <2>2, <2>3, <3>1, Counts, OutboxAssumption
      DEF CInv, HoldersBounded, BudgetBounded, Spent, Waiting, Claimed
  <2> QED
    BY <1>0, <2>5
<1>14. ASSUME NEW w \in Workers, NEW outcome \in {"retryable", "permanent"},
              HandleFailureRaises(w, outcome)
       PROVE  CInv'
  BY <1>14, CInvRaises
<1>9. ASSUME NEW e \in Events, Elapse(e) PROVE CInv'
  <2>1. UNCHANGED <<wk, recovered, unsure>>
    BY <1>9, Zenon DEF Elapse, TimeOut, BackoffElapses
  <2> QED
    BY <1>0, <1>9, <1>b, <2>1, ElapseEffect, SameWorkers, SameCounts
<1>10. ASSUME ReplayFailed \/ \E e \in Events : RequeueEvent(e) PROVE CInv'
  <2>1. PICK es \in SUBSET Events :
               Requeue(es) /\ \A f \in es : row[f].status \in {"failed", "retry"}
    BY <1>10, ReplayIsRequeue
  <2>2. UNCHANGED <<wk, recovered, unsure>>
    BY <2>1 DEF Requeue
  <2>3. \A f \in Events : WorkingOn(f)' = WorkingOn(f) /\ Retriers(f)' = Retriers(f)
    BY <2>2, SameWorkers
  <2>4. ASSUME NEW f \in Events PROVE Bound(f)
    <3>1. CASE f \in es
      <4>1. row'[f].status = "pending" /\ row'[f].attempts = 0
        BY <2>1, <3>1, RequeueEffect
      <4> QED
        BY <1>a, <1>b, <2>1, <2>2, <2>3, <3>1, <4>1, Counts, OutboxAssumption
        DEF CInv, HoldersBounded, BudgetBounded, Spent, Waiting, Claimed
    <3>2. CASE f \notin es
      <4>1. row'[f] = row[f]
        BY <2>1, <3>2, RequeueEffect
      <4> QED
        BY <1>b, <2>2, <2>3, <4>1, SameCounts
    <3> QED
      BY <3>1, <3>2
  <2> QED
    BY <1>0, <2>4
<1>11. ASSUME UNCHANGED <<row, wk, recovered, unsure>> PROVE CInv'
  BY <1>0, <1>b, <1>11, SameWorkers, SameCounts
<1>12. ASSUME NEW e \in Events, RetryFailure(e) PROVE UNCHANGED <<row, wk, recovered, unsure>>
  BY <1>12 DEF RetryFailure
<1>13. UNCHANGED vars => UNCHANGED <<row, wk, recovered, unsure>>
  BY DEF vars
<1> QED
  BY <1>1, <1>2, <1>3, <1>4, <1>5, <1>6, <1>7, <1>8, <1>9, <1>10, <1>11, <1>12, <1>13, <1>14
  DEF Next, Work, Fault

LEMMA CInvAlways == Spec => []CInv
BY CInvInit, CInvNext, TInvAlways, PTL DEF Spec

\* attempt_count exceeds max_attempts only by the attempts that a timeout
\* recovery or a failure written twice gave back, however many workers, late
\* results and requeues there are.
THEOREM BudgetKept == Spec => []AttemptsAccountedFor
<1>1. TInv /\ CInv => AttemptsAccountedFor
  <2> SUFFICES ASSUME TInv, CInv, NEW e \in Events
               PROVE  row[e].attempts <= MaxAttempts + recovered[e] + unsure[e]
    BY DEF AttemptsAccountedFor
  <2>1. row[e].attempts \in Nat /\ Back(e) \in Nat
    BY DEF Back, TInv, TypeOK
  <2>2. row[e].attempts <= MaxAttempts + Back(e)
    BY <2>1, Counts, OutboxAssumption DEF CInv, BudgetBounded, Spent, Waiting
  <2>3. recovered[e] \in Nat /\ unsure[e] \in Nat
    BY DEF TInv, TypeOK
  <2> QED
    BY <2>2, <2>3, OutboxAssumption DEF Back
<1> QED
  BY <1>1, CInvAlways, TInvAlways, PTL

\* Two workers work on the same event only because a timeout took it from one of
\* them or because a failure write that had put the row back raised, for any
\* number of workers.
THEOREM DuplicatesAreTimeouts == Spec => []DuplicatesNeedTimeouts
<1>1. TInv /\ CInv => DuplicatesNeedTimeouts
  <2> SUFFICES ASSUME TInv, CInv, NEW e \in Events
               PROVE  Cardinality(WorkingOn(e)) <= 1 + recovered[e] + unsure[e]
    BY DEF DuplicatesNeedTimeouts
  <2>1. Cardinality(WorkingOn(e)) <= Back(e) + Claimed(e)
    BY DEF CInv, HoldersBounded
  <2>2. /\ recovered[e] \in Nat /\ unsure[e] \in Nat
        /\ Cardinality(WorkingOn(e)) \in Nat
    BY Counts DEF TInv, TypeOK
  <2> QED
    BY <2>1, <2>2 DEF Back, Claimed
<1> QED
  BY <1>1, CInvAlways, TInvAlways, PTL

=============================================================================
