# Syroce PMS: verification project

TLA+ modules, TLC runs and TLAPS proofs about the parts of Syroce PMS whose
correctness depends on concurrency and failure: the room inventory, the holds on
it, the delivery of events to sales channels, the ingest and import of OTA
reservations, card collection, cash payments with the drawer, the night audit,
and the edit lease of a reservation. Paths in this file are relative to `src/backend` unless they start
with `src/`.

## 1. The system

A multi-tenant hotel management system: a FastAPI application and background
workers in several processes, which share one MongoDB. Almost nothing runs in a
multi-document transaction; correctness rests on unique indexes, conditional
updates, leases and compensation. Each `await` of a handler lets every other
handler run.

| Component | State | Operations | Works with | Hard behaviour | What makes it correct |
|---|---|---|---|---|---|
| Room-night locks (`core/atomic_booking.py`, assign-room in `routers/departments/bookings.py`) | `room_night_locks` (unique per tenant, room, night), `bookings` | create, assign, cancel, no-show, check-out, block, inline recovery of stale rows | holds, check-out, agency, import, auto-assignment | claims night by night, recovery that decides on old reads, crash between claim and insert | no room-night is sold twice; an active booking owns its rows; what a failed request leaves behind is retired in time |
| Holds (`core/booking_hold_service.py`) | the same table, rows with an expiry | create, confirm, release, sweep | room-night locks, payment links | sweeper against confirm, release against create | a granted hold keeps its nights; every hold ends |
| Outbox (`core/outbox_*.py`, `routers/outbox_admin.py`) | `outbox_events` | enqueue, claim, dispatch, settle, recover, requeue, replay | channel manager, control plane | several workers, late results, timeouts, crash on the last attempt | processed means delivered; settled rows stay; every event settles |
| Control plane (`controlplane/`) | `cp_failures`, timeline | record, retry, resolve, aggregate | outbox, import, ARI | retry of something already retried | resolved means done |
| Card collection (`core/payments/collection.py`) | `payment_intents`, `payments`, folio, booking | collect | idempotency slots, payment provider, autonomous worker | provider outside the transaction, unknown answers, retries | one key takes the money at most once; answers are true |
| Idempotency (`shared_kernel/idempotency.py`) | `idempotency_keys` | claim, complete, release, TTL expiry, short-window dedup | payments, bookings, POS | slots that expire under a running call | one effect per key |
| Folio payments (`routers/finance/folio.py`) | payments, folio balance | pay, void, refund | idempotency, cash drawer | roll-back after the replay was stored, failures half way | a double submit pays once; a replay names a payment that exists |
| Cash drawer (`domains/pms/cashier_service.py`, `cashier_router.py`) | shifts with their transactions | open, record, sweep, close, hand over | folio payments | shift closed under a payment, sweep of a payment under way | the drawer has each payment and refund, once |
| Reservation state machine, check-in/out (`modules/pms_core/reservation_state_machine.py`, `core/atomic_checkin_checkout.py`) | booking status, room status | transitions, check-in, check-out | locks, folio, housekeeping | status read before a transaction | legal transitions only; one guest per room |
| Edit lease (`core/reservation_edit_lock.py`, its middleware and browser side) | lease per reservation | acquire, heartbeat, release, guard | all edits | expiry between check and write, delayed calls, closed tabs | one editor at a time; abandoned leases end |
| Auto-assignment (`core/room_auto_assignment.py`) | locks, booking room | assign with compare-and-set | locks | lost acknowledgement of the set | no lock removed under a durable booking |
| Room-type inventory (`core/room_type_inventory_service.py`) | counters | reserve, release | import, agency | counters at their limit | never negative, never above capacity |
| Night audit, business date (`core/night_audit_hardened.py`, `core/business_date_service.py`) | runs, items, business date | start, resume, post, roll the date | folio | crash and resume | each charge posted once; date moves once |
| Outbox lifecycle worker (`shared_kernel/outbox_lifecycle.py`) | lease, events | acquire, renew, process | internal consumers | expired lease with work in hand | one holder |
| Channel ingest (`domains/channel_manager/ingest`) | raw events, reservation lineage with its lock | dedup, decide, lock, create, update, cancel, replay | import, bookings | out-of-order and duplicate messages, lock expiry | last version wins; a processed cancellation holds |
| Import (`core/import_bridge_service.py`, `core/import_retry_worker.py`, `routers/import_admin.py`) | imported reservations | claim, check, create, mark, retry, recover, dismiss | room-night locks, ingest | crash after the booking, takeover | one booking per external id |
| ARI push (`domains/channel_manager/ari`) | queue of deltas | coalesce, push, verify | providers | reordering | the channel ends with the latest value |

The other parts (POS, police notification, audit chain, tenant isolation, event
bus, agency, spa, golf, MICE, HR, revenue, user interfaces, deployment) are
listed with the reason they are left aside in `PROJECT.json`.

## 2. Modules

| Module | Models |
|---|---|
| `RoomInventory` | abstract: a stay is taken, exchanged or given back in one step |
| `RoomNightLocks` | the lock table and every request that uses it; `ImplementsRoomInventory` is its refinement of the above |
| `RoomNightLocksProofs` | the theorems about it |
| `BookingHold` | holds, confirmation, release, sweeper |
| `BookingHoldProofs` | the theorems about it |
| `Outbox` | outbox rows, workers, operators, control-plane retry |
| `OutboxProofs` | the theorems about it |
| `CardCollection` | one idempotency key of card collection, with the provider |
| `CardCollectionProofs` | the theorems about it |
| `NightAudit` | night-audit runs, their items, the business date |
| `NightAuditProofs` | the theorems about it |
| `CashDrawer` | cashier shifts, their transactions, the sweep |
| `FolioPayment` | `CashDrawer` composed with cash payments, voids and both kinds of idempotency |
| `FolioPaymentProofs` | the theorems about both |
| `Lease` | abstract: at most one holder, and it ends before the next begins |
| `EditLease` | the edit lease, its guard and the browser; refines `Lease` |
| `EditLeaseProofs` | the theorems about it |
| `ImportBridge` | the import of one reservation, importers and operators |
| `ChannelIngest` | `ImportBridge` composed with the ingest of the provider's messages and its reservation lock |
| `ChannelIngestProofs` | the theorems about both |
| `MC...` | the symmetry sets for TLC |

Conventions of all modules:

* One database call is one step. A transaction is one step.
* A multi-document call (`delete_many`, `update_many`) is one step as well,
  although MongoDB applies it row by row; see the hazard of kind `atomicity`.
* One tenant: each filter of the code carries `tenant_id`.
* Logging, timeline rows, alerts and metrics are left out: nothing modelled reads
  them.
* A definition whose comment starts with `Mutant:` is a plausible bug that some
  property must catch; nothing else uses it.

### RoomNightLocks

`locks[r][n]` is the row of a room-night (`NoLock` if there is none); its
`created` field is `created_at`. `bookings[b]` keeps what the code decides on:
absent, active (any status outside `TERMINAL_BOOKING_STATUSES`) or terminal, the
room, and the dates. `op[w]` is the local state of the request that handler `w`
runs: `pc` is the database call it makes next, `todo` the nights not yet
claimed, `claimed` those `claimed_nights` lists for the compensation, `seen` and
`old` the row that a duplicate-key error made it read and the judgement of its
age. `stranded` and `releasing` are history: ids whose creation left rows behind,
and cancelled bookings between the status write and the release.

| Code | Actions |
|---|---|
| `create_booking_atomic` | `StartCreate`, `CheckOverlap`, `ClaimNight` ..., `InsertBooking`, `Compensate`, `CreateFails` |
| `assign_room_atomic` and the endpoint that calls it | `StartAssign`, `CheckOverlap`, `ClaimNight` ..., `ReleaseObsolete`, `UpdateRoom`, `Compensate` |
| `_claim_night_or_get_owner`, `_retire_stale_booking_lock` | `ClaimNight`, `ReadExisting`, `ReadOwner`, `RetireStaleLock`, `ReclaimNight`, `RereadExisting` |
| `handle_cancellation`, `handle_no_show` | `Cancel`, then `ReleaseBookingNights` or `ReleaseFails` |
| `check_out_booking_atomic` | `CheckOut` |
| `apply_room_block`, `release_room_block` | `ApplyRoomBlock` per night, `ReleaseRoomBlock` |
| process death, calls that take effect and raise, a roll back that raises, time | `Crash`, `InsertLosesAck`, `InsertLockLosesAck`, `CompensateFails`, `Tick` |

The constant `Faults` says which of four behaviours the environment shows: a
request slower than the 60 second grace, a room move that dies, two moves of one
booking at once, and an insert of a booking whose acknowledgement is lost. A
creation may always die or fail, the insert of one of its lock rows may take
effect and raise, and its roll back may raise: these leave rows behind, which
block their nights until a recovery retires them, and nothing worse. The code
withstands everything else; each of the four breaks it (section 3).

An exception in the middle of an assignment has the effect of its death: the
function has no handler for it. `Crash` covers both, also after a call that took
effect.

### BookingHold

`locks` holds owner, kind and expiry of a row; `granted[b]` remembers the last
hold that was answered with success, which is what the caller relies on.
`SameBooking` says whether a release or a second request for the same booking
may arrive while its hold is being created. The nights of a hold are claimed in
any order, which includes the order of the code.

### Outbox

Two flags replace the clock: `ready` (`available_at` has passed) and `late`
(`last_attempt_at` is older than `processing_timeout`). `MaxTimeouts` bounds how
often a dispatch of one event outlives that timeout; a claim whose worker died may
time out as often as that happens. `acked`, `recovered`, `unsure` and the counters
are history or bounds. A dispatch has one of three answers: delivered, or an error
that `_handle_failure` takes for retryable or permanent.

Both status writes of `_process_event` stand inside its `try`: when
`_mark_processed` or `_handle_failure` raises, with or without having taken effect
(`MarkProcessedRaises`, `HandleFailureRaises`), the exception is taken for a failed
dispatch and `_handle_failure` runs from there (`pc = "again"`); if that raises too
the batch ends (`HandleFailureFails`). The filter of the second write asks for id
and status only, so it may put back a row that another worker has claimed since;
`unsure[e]` counts the first writes that had taken effect. Rows of the legacy
lifecycle worker have no `max_attempts` and are not claimed here.

### CardCollection

One (booking, key). `slot` is the row of `idempotency_keys` with its expiry,
`intent[q]` the row of `payment_intents` that call `q` inserted, `psp[q]` the
truth at the provider, `answer[q]` what the caller was told. `Stall` bounds the
time from the prior check to the insert of the intent, `CallTime` that from the
claim of the slot to the end of the call. `Settle` (the customer completes 3DS,
the provider answers late) is external. The collection's fallback without
transactions is left out (it needs an explicit development setting), and so is
the webhook: it writes `webhook_status`, which no guard reads.

### NightAudit

`run[r]` is a document of `night_audit_runs`: status, day, whether it is a
simulation, and whether the unique index on (tenant, property, day) still holds
it. `item[r][b]` is the item of booking `b`, `charges[b][d]` counts the
room-charge rows of a night, `hd[h]` is what a request does next. `contested`
is history: the days on which two requests worked at the same time.

| Code | Actions |
|---|---|
| `start_night_audit`, `_handle_duplicate_run` | `Request`, `Insert`, `LookUpExisting`, `Supersede`, `Reinsert`, `MarkStale` |
| `_execute_pipeline`, `_build_candidate_set` | `Validate`, `ListInHouse`, `BuildCandidates`, `BuildFails`, `CompleteSimulation` |
| `_posting_and_close` | `StartPosting`, `PostItem`, `PostingFails`, `PostingDone`, `CountFailed`, `CountRemaining`, `RollBusinessDate`, `Complete`, `StageFails`, then `FailRun` |
| `resume_night_audit` | `ResumeRun`, `ResetFailedItems`, `Revalidate`, `Reopen` |
| `abort_night_audit` | `AbortRun`, `FailAborted`, `CancelItems` |
| front desk, process death | `Reserve`, `CheckIn`, `Crash` |

The posting of an item is a transaction, hence one step; `PostingFails` lets it
commit or not when it raises, and lets the write that marks the item failed raise as
well. The candidates are built from a list of the stays in house and from the
arrivals read after it, so a guest who checks in between the two has no item; the
`insert_many` that ends the building may raise after any part of its items landed
(`BuildFails`), and a resume posts those and never builds the others. An abort reads
the status of the run and then writes by id, also over a completion that came in
between. The counts of `_reconcile` are steps of their own, each merged with the
status write that follows it. Charges are not voided in the model; the query
for charges of the night that exist already (line 1027) does not look at that mark. Blockers found in the front desk's data are a
nondeterministic choice, except the two that depend on modelled state: a live
run of another day, and arrivals that have not come. `Slow` lets a handler go
without a heartbeat long enough to be marked stale while it still works.

### CashDrawer and FolioPayment

`pay[p]` is the row of a payment, `tx` the set of transactions in the drawer,
`till` the one cashier who sweeps, closes or hands over. `FolioPayment` adds
requests that submit the same cash payment, with one `Idempotency-Key` or
without, and voids. `slot` is the row of the key, `dedup` that of the
short-window guard; a run may start with a stale row of the guard. `cut` and
`unsaid` remember the payments whose request was cut off and those of which a
record was lost and only logged: `DrawerFollowsBooks` and
`ReplayedPaymentExists` speak of the others.

| Code | Actions |
|---|---|
| `claim_idempotency`, `claim_short_window_dedup` | `ClaimKey`, `ReadKey`; `ClaimDedup`, `ObserveDedup`, `InsertDedupAgain`, `ReclaimDedup` |
| `post_payment_to_folio` | `CheckShift`, `StampPayment`, `InsertPayment`, `UpdateBalance`, `Complete`, `FindShift`, `PushPayment`, `LookUpPayment`, `UndoPayment`, `FreeAfterUndo`, `ReleaseOnError` |
| `void_payment` | `StartVoid`, `VoidCas`, `VoidFindShift`, `VoidPush`, `VoidLookUp`, `VoidUndo` |
| cashier | `OpenShift`, `StartSweep`, `SweepOne`, `ReadTotals`, `CloseShift`, `LeaveTill` |
| faults, time | `Crash`, `CrashVoid`, `Raise`, `RaiseInUndo`, `PushLost`, `VoidRaises`, `VoidPushLost`, `Expire`, `Tick` |

What the model shows that is not stated as a property, because the code does not
promise it: the drawer keeps the cash of a payment that a sweep recorded before
it was deleted; a void may record its refund before the payment's own record; a
key whose request raised or died after the insert pays a second time. The stored
folio balance and the paid counter are left out, so the properties speak of
payment rows, not of balances.

### EditLease and Lease

A view is one opening of a reservation in a browser. A call (`acquire`,
`heartbeat`, `release`, a guarded `write`, and the `landing` of that write in the
endpoint) is in flight with the age of the clock reading the server gave it, so
calls take effect late, out of order, or not at all (`Drop`). There is no clock:
`row.left` is the time left, negative when the row has expired and the TTL index
has not removed it yet. `Lease` is the promise; `Holder`, the owner of an
unexpired row, is the refinement mapping.

### ImportBridge and ChannelIngest

`ImportBridge` is the row of one reservation in `imported_reservations`; an
importer claims it, looks for a booking of that source, creates one, and marks
the row. Its last write may take effect and raise: the importer is then `late`, and
its failure handler writes by id over whatever became of the row. `takeovers` counts
the rows recovered, or put back by such a write, while their import was still
running. `ChannelIngest` adds the messages: a row of `raw_channel_events` is one
delivery of a version of the reservation, with the status `says` and the
last-modified time `stamp`, from which its `provider_event_id` is made. Two versions
may have one stamp, or an empty one. Handlers run the stages of `process_event`;
`lineage` is the row they read in stage 4 and write back at the end, `lock` its lock
fields, `gen` its id. `grant` is history: the handler whose lock nothing has ended
since it got it, and the row as that handler left it.

| Code | Actions |
|---|---|
| `ImportRetryWorker`, `auto_import_reservation_to_pms`, `replay_reviewed_mapping_import` | `Claim`, `ClaimReviewed`, `Check`, `ReadMappings`, `CreateBooking`, `Mark`, `HandleFailure`, `RecoverStuck` |
| `import_admin.py` | `RetryImport`, `DismissImport`, `MapRoom` |
| `process_event`, stages 2 to 8 | `Start`, `Dedup`, `ReadLineage`, `Decide` or `AcquireLock` |
| stage 9 | `FindLineage`, `InsertLineage`, `OverwriteLineage`, `TriggerImport`; `WriteLineage`, `Propagate`, `TouchImport`, `FindCancelled` |
| `_finalize_event`, the lock | `Finish`, `ReleaseLock`, `NoticeLostLock` |
| replay | `ReplayFailed`, `ReplayReset` |
| faults, time | `ImportRaises`, `ImporterCrashes`, `ImportTimesOut`, `BackoffElapses`, `HandlerRaises`, `FinishRaises`, `HandlerCrashes`, `ExpireLock` |

Details of the code that the model keeps and a reader may not expect:
an upsert over an existing lineage writes a fresh document with a new id and
without lock fields (`OverwriteLineage`); a cancellation writes back the copy
read in stage 4 and leaves its version; an update changes the lineage and never
the booking; `_finalize_event` writes by id, so of two handlers of one row the
last decides; a message that repeats the stamp of a processed one is a duplicate,
whatever it says. `replay_worker_once` reads and resets a row in two calls, taken as
one step.

Limits: all messages come over one connector, as the unique index of the import rows
is per `connector_id`; the mappings of room type and rate plan are one flag, read
once; a provider's status `pending` is left out. The runs use stamps of their own or
equal ones and a later version that is confirmed, modified or cancelled; empty stamps
and a reservation that is reinstated after its cancellation are covered by the
theorems, which hold for every choice of `Stamps` and `Changes`.

## 3. Runs

All runs are exhaustive. `CHECK_DEADLOCK FALSE` everywhere: the clock, the
requests and the retries are bounded, and a hotel may have nothing to do.

| Run | Instance | Shows |
|---|---|---|
| `rooms_move` | 2 handlers, 2 bookings, 2 rooms, 1 night, no fault | types, no double booking, rows owned, recovery sound, refinement of `RoomInventory` |
| `rooms_faults` | 1 room, 2 nights, lost acknowledgements, roll backs that raise and moves that die | a booking id without a document owns rows only if its creator died, lost the acknowledgement of a row, or could not complete the roll back |
| `outbox` | 3 workers, 1 event, a timeout, two crashes or raising status writes, a requeue | processed means delivered, budget, settled rows stay, duplicates only after timeouts and repeated failure writes, every event settles |
| `hold_safe` | 2 requests, 2 bookings, 2 nights, a sweeper, a fault | granted holds protect |
| `hold_live` | 1 request, 2 bookings, 2 nights, a crash | every hold row ends |
| `collect_timely` | 3 calls, grace 3, stall 2, call 3 | one charge, intents kept, true answers |
| `audit` | 2 requests, 1 booking, 2 days, 2 runs, a fault, a resume or abort, slow handlers | behind the business date every day was audited, a closed day is charged, simulations write nothing |
| `payments` | 2 payments, a void, 2 shifts, a fault | a double submit pays once, replays exist, the drawer follows the books |
| `edit_lease` | 2 views, lease 9, beat 3, call 2, write 3 | refinement of `Lease`, writes land under the lease, abandoned leases end |
| `ingest_update` | 2 deliveries, 2 versions (`Changes = {"confirmed", "modified"}`) with their own stamps or one stamp, 2 handlers, an importer, 2 retries, a fault | one booking, nobody else ends a lock or writes under it |
| `ingest_cancel` | 2 deliveries, 2 versions (`Changes = {"cancelled"}`) with their own stamps, 2 handlers, 2 importers, 2 retries, a fault | one booking, cancellations hold |

Bounds. Two handlers are enough for every race between two requests, and blocks
and cancellations add a third party that takes or frees a row while they decide
about it; the theorems remove the bound. One tick before and after the grace separates fresh rows from old ones, which
is all the code asks. Two nights let two claims meet half way. Two attempts
separate the last attempt from the others. In `Outbox` a failure write can raise and the
write that repeats it as well, hence two faults; the third worker is the one that a row
put back behind the second one reaches. In `CardCollection` the slot survives
two stalls or does not: `2 * (Stall - 1) < Grace` and `CallTime <= Grace` is the
condition under which TLC finds no double charge. In `NightAudit` two days let a
run of an old day be resumed next to one of the new day, and two run documents
let a simulation be superseded by a real run; one booking is enough, since the
items of a run meet only in the counts of `_reconcile`, and a night's charges are
those of one booking. In `FolioPayment` two shifts let one
be closed and the next opened under a payment, and the two ticks of the clock
separate a row of the guard or of the key before and after its end. In
`EditLease` the values satisfy the condition of the theorem with nothing to
spare. In `ChannelIngest` two deliveries are a duplicate, or a reservation and its
change or cancellation in either order; with two versions a reservation is either
changed or cancelled, so each has a run of its own. Races of two importers are the
subject of `ingest_cancel`; the one importer of `ingest_update` pays for the equal
stamps and the second kind of change, and the lock does not depend on importers.

Fairness. `outbox`: the worker
loops run for ever and time passes; recovery has a condition of its own because
`_run` calls it in every round. `hold_live`: the sweeper loop catches every
exception and goes on, and time passes; requests are not fair. `edit_lease`: the
browser's timer fires, the server serves calls that reach it, and time passes;
opening, closing and writing are up to the user and not fair. Crashes,
operators, providers and the TTL monitor never are.

### Where code and documentation disagree

`rooms_assign_race` checks a statement of the documentation, and TLC shows a
behaviour of the code that contradicts it: two moves of one booking release each
other's rows. `findings` in `PROJECT.json` quotes the lines.

Further statements that the code does not keep. Each is a property of its module;
put it into the named configuration, in place of the properties there, to see
the counterexample.

| Property | Configuration | Contradicts | What happens |
|---|---|---|---|
| `ResolvedFailureIsRequeued` | `Outbox.cfg` | `controlplane/retry_engine.py:255` | the worker's context names the event `outbox_event_id`, the engine looks for `event_id`: the failure is resolved and the event stays failed |
| `OneWorkerPerEvent` | `Outbox.cfg` | `core/outbox_worker.py:9` | the retry write of a worker takes effect and raises, a second worker claims the row, and the first one writes the failure again: the row of the second returns to the queue while it works, and a third claims it, with no timeout anywhere |
| `ExpiredBookingHoldsNothing` | `HoldSafe.cfg` | `core/booking_hold_service.py:17` | a hold is confirmed between the sweeper's read and its delete; the booking becomes `hold_expired` and owns confirmed rows |
| `ReplayHasSamePayload` | `CollectTimely.cfg` with `Prints = {f1, f2}` | `docs/ADR_BOOKING_INVARIANTS.md:58` | the slot is claimed without the hash of the request; a call with another amount is answered with the first payment |
| `RecordedOnce` | `Payments.cfg` | `routers/finance/folio.py:971`, `domains/pms/cashier_service.py:143` | the sweep of a shift records a payment whose request is still under way, the shift is closed, and the request records it again in the next one |
| `UnrecordedVoidIsTakenBack` | `Payments.cfg` | `routers/finance/folio.py:1423` | the record of the refund raises inside `record_cash_transaction`, which logs it and returns; the void stays |
| `RolledDayIsCharged` | `Audit.cfg` with `InHouse = {b1}` | `core/night_audit_hardened.py:8` | a run that was blocked or aborted before its candidates were built is resumed at the posting stage: it has no items, reconciles, and rolls the date; so does a run whose `insert_many` raised half way |
| `DateNeverGoesBack` (action property) | `Audit.cfg` | the monotonic business date the audit presupposes | a failed run of an old day is resumed after the next day was closed |
| `NoShowWasNotInHouse` (action property) | `Audit.cfg` | the no-show rule of the front desk | a guest is checked in after the candidates were built; the no-show item overwrites the status |
| `EveryCancellationHolds` | `IngestCancel.cfg` with `Stamps <- OrderedOrSame` | `domains/channel_manager/unified_repository.py:379` | the event id is made from the reservation and its last-modified time (`ingest/normalizer.py:150`): a cancellation with the time of an earlier message is taken for its duplicate, and the booking stays |
| `NoStaleOverwrite` (action property) | `IngestUpdate.cfg` | `docs/CHANNEL_CAPABILITY_MATRIX.md:20` | two handlers of different versions both find no lineage, or one writes back the copy it read in stage 4 |

The assumptions of the passing runs are constants, so that what happens without
them can be seen by changing one value of a configuration:

| Change | What TLC then shows |
|---|---|
| `Faults = {"slow"}` in `RoomLocksAssignRace.cfg` | a creation outlives the 60 second grace, loses its rows to a recovery, and inserts its booking all the same |
| `Faults = {"assign_crash"}` there | a move dies after the old rows are gone and before `room_id` is written |
| `Faults = {"lost_ack"}` there | an insert that took effect is rolled back and the booking stays without rows |
| `SameBooking = TRUE` in `HoldSafe.cfg` | a release takes the first night of a hold that is still being created |
| `Grace = 2`, `CallTime = 2` in `CollectTimely.cfg` | two calls that each stall for half of the grace both charge |
| `CallTime = 2`, `MaxTime = 4` in `Payments.cfg` | the row of a key expires under a running payment, and a second request with that key pays as well |
| `LeaseTime = 8` in `EditLease.cfg` | a guarded write lands after its lease ended: the bound of `WritesProtected` is tight |

`AttemptsAccountedFor` is the bound that does hold for the attempts of an event:
`_recover_stuck` does not look at the budget, so an event whose worker died on its
last attempt gets another one, and so does one whose failure was written twice.
`DuplicatesNeedTimeouts` and `OneBooking` are of the
same kind: a timeout that strikes a worker still at work, or that second write, lets
a second one in, and nothing else does. `ClosedDayIsCharged` excludes days on which two requests worked
at once, because a handler is not told that its run was aborted or resumed, and
`_reconcile` counts failed and pending items in two steps; `RolledAfterAudit`, which
speaks of the business date and not of the status of a run, excludes them as well.
It says that the items a run has were charged: that they are all that should be is
`RolledDayIsCharged`, which fails. `CancellationHolds` excludes a cancellation
that carries the time of another message, which is `EveryCancellationHolds`.
`LockProtectsRow` ends with the row: an upsert that read before the lock was
granted replaces the document together with its lock fields (`OverwriteLineage`), and
from then on the fenced writes of the holder match nothing.

## 4. Proofs

`RoomNightLocksProofs` holds for every number of handlers, bookings, rooms,
dates and every clock bound. `TypeCorrect` needs no assumption beyond
`ConstantsAssumption`. The others assume `NoFaults` (`Faults = {}`), which is
needed: each of the four faults has a counterexample (section 3).

| Theorem | Statement |
|---|---|
| `TypeCorrect` | `Spec => []TypeOK` |
| `HoldsLocks` | an active booking owns the rows of its stay |
| `NeverDoubleBooked` | no two active bookings share a room-night |
| `AllOrNothing` | a booking without document and without request owns no row, unless its creator died, lost the acknowledgement of a row, or could not complete the roll back |
| `TakesOnlyStale` | no step of a request takes a row of an owner that is neither terminal nor stranded |
| `Refinement` | `Spec => ImplementsRoomInventory` |

`NoDoubleBooking` alone is not inductive: what excludes a second booking is the
row, what keeps the row is that no other request is about to delete it, and that
depends on what the other request has read. The inductive invariant is
`IInv == Shape /\ Protocol`:

* `Shape`: types, and what the local record of a request looks like at each step
  (`OpShape`: which nights are claimed, to do, or in doubt);
* `Serial`: one request per booking id; `OpAgrees`: its dates agree with the
  document;
* `ClaimsKept`: a running request still owns what it claimed, and these rows are
  younger than the grace;
* `Held`: an active booking owns the rows of its place;
* `Owned`: every row of an active booking lies on its place or was claimed by its
  running request, every row of a booking without document was claimed by its
  creator, unless that left rows behind;
* `RecoverySound`: a request that is about to retire the row it saw retires
  nothing that protects a stay. The heart of the argument: the delete names
  owner and `created_at`, so it hits the row that was judged, and a row that was
  judged stale cannot come to protect something again;
* `MoveExclusive`: a booking whose old rows are released and whose `room_id` is
  not yet written owns no row but the new ones;
* `StrandedAbsent`, `ReleasingTerminal`: what the two history variables mean.

`HoldsLocks` follows from `Held`; `NeverDoubleBooked` from `HoldsLocks`, because
a row has one owner; `AllOrNothing` from `Owned`; `TakesOnlyStale` from
`RecoverySound` and `Owned`. `Refinement` needs two facts: a step changes what one
booking at most stands on (`OneIsTouched`), and the place it comes to is free because
`NoDoubleBooking` holds after the step, when the others still stand where they
stood. Each action has a lemma that it preserves
`Protocol`; frame lemmas (`QuietStep`, `SecureStep`, `FinishStep`,
`ProgressStep`) carry the parts an action does not touch.

`EditLeaseProofs` holds for every set of views and every choice of times.

| Theorem | Statement |
|---|---|
| `TypeCorrect` | `Spec => []TypeOK` |
| `Refinement` | `Spec => ImplementsLease` |
| `WritesProtected` | `Spec => []WriteLandsUnderLease`, if `LeaseOutlivesWrites` |

`TypeOK` is not inductive: the row's time left is bounded because the call that
set it is younger than `CallTime`. `IInv` adds that (`CallsInTime`), and with it
every step maps to a step of `Lease` or a stutter: an acquire takes a row only
when it is free, its own, or expired at the acquire's clock reading, which is
never later than now, and a renewal never shortens below what `Holder` sees.

`WritesProtected` assumes
`LeaseTime > Beat + 3 * (CallTime - 1) + (WriteTime - 1)`: a heartbeat leaves
every `Beat`, it and its predecessor and the write may each be delayed by a call,
and the write takes its time to land. The bound is tight (section 3). The code
has a lease of 60 and a heartbeat of 20 seconds, so the guarantee covers three
delays and a write that together stay under 40 seconds; nothing in the code
enforces that, and the guard does not extend the lease. `CoverInv` adds to `IInv`
that a view has one call of a kind under way (`OneCall`), that calls agree with
the status of the view (`CallsOfView`), how much of the lease an acquired view
still has given the age of its timer and of its heartbeat (`AcquiredCovered`), and
how much a write under way still has (`WritesCovered`). A closed view is excluded: its release may
overtake its write.

`BookingHoldProofs`, for every set of requests, sweepers, bookings and nights and
every hold time:

| Theorem | Statement |
|---|---|
| `TypeCorrect` | `Spec => []TypeOK` |
| `HoldProtects` | `Spec => []GrantedHoldProtects`, if `OneAtATime` |

`OneAtATime` (`SameBooking = FALSE`) says that no release and no second hold of a
booking arrives while its hold is being created. It is up to the clients: the
endpoints serialise only requests that carry the same `Idempotency-Key`, and
section 3 shows what happens otherwise. A grant says nothing
about the request that is still claiming, whose roll back deletes by booking, nor
about a sweep that works with an old clock, so `HInv` adds: one request per booking
(`Serial`), its claims are its own until they expire (`ClaimsHeld`) and lie apart
from the nights of an earlier grant (`ClaimsApart`), the rows of a grant carry the
expiry of that grant (`GrantedRows`), and a sweep's clock is never ahead
(`SweepPast`). The sweep deletes by expiry, which is why an old read cannot hurt a
grant.

`OutboxProofs`, for every finite set of events and workers, and any number of
attempts, crashes, requeues and timeouts:

| Theorem | Statement |
|---|---|
| `TypeCorrect` | `Spec => []TypeOK` |
| `DeliveredBeforeProcessed` | `Spec => []ProcessedWasDelivered` |
| `SettledStays` | `Spec => SettledRowsStay`, an action property |
| `BudgetKept` | `Spec => []AttemptsAccountedFor` |
| `DuplicatesAreTimeouts` | `Spec => []DuplicatesNeedTimeouts` |

The last two are about the same count. A recovery puts the row back while its
worker may still be at it, and so does a failure write that raises, whose worker goes
on to write once more; several workers can thus hold one event. Each is paid for by a
recovery or such a write (`Back`), except the one the row is claimed for
(`HoldersBounded`). Each of them
may put the row back into the queue unless it is on its last attempt, and what they
and a waiting row can still add to `attempts` is covered by the budget and `Back`
(`BudgetBounded`).

`CardCollectionProofs`, for every set of calls with one key, all payloads and times:

| Theorem | Statement |
|---|---|
| `TypeCorrect` | `Spec => []TypeOK` |
| `ChargeBlocks` | `Spec => []ChargeLeavesIntent` |
| `AnswersStayTrue` | `Spec => []AnswersAreTrue` |
| `ChargedOnce` | `Spec => []NoDoubleCharge`, if `Timely` |

The first three hold at any speed: `CInv` says for each position of a call what its
intent, the provider and the answer are (`StepOK`, `ChargeOK`), and that a completed
slot belongs to a charge. `ChargedOnce` needs
`CallTime <= Grace`, `2 * (Stall - 1) < Grace` and `Stall <= Retention`. A call looks
for prior intents first and claims the slot later, so neither guard is
enough alone: whoever missed the intent of an earlier call must meet its slot, also
if it reads late (`LateSeesSlot`), and a call in possession of the slot keeps it
until its last write (`OwnerHasSlot`). The code has a grace of 300 seconds, which
it compares with nothing: a call may take that long after its claim, and may stall
for half of it before its intent. With longer stalls the money is taken twice
(section 3).

`NightAuditProofs`, for every set of handlers and bookings, any number of days, runs,
resumes and faults, and with handlers that are slow:

| Theorem | Statement |
|---|---|
| `TypeCorrect` | `Spec => []TypeOK` |
| `ClosedMeansCharged` | `Spec => []ClosedDayIsCharged` |
| `RollMeansAudited` | `Spec => []RolledAfterAudit` |
| `SimulationIsDry` | `Spec => SimulationChangesNothing`, an action property |

`AInv` ties a handler to its run (`HandlerOK`) and the items to the charges
(`RunOK`). A closed day is
charged because between the two counts of `_reconcile` and the roll of the date
nobody else puts an item back: that is what `OneByOne` provides for a day that is
not `contested`, and the theorem, like the property, says nothing about the others.
For `RolledAfterAudit` this is carried on past the roll (`Audited`): the run that
rolled the date keeps its items settled. Nobody builds them again (`Building`), a
reset finds no failed one, and a handler that still posts and fails one after the roll
would be a second request of that day at that time. A handler that may write has a run that is no simulation (`Committing`), although
start, resume and supersede all read the run and act on it in different steps.

`FolioPaymentProofs`, for every finite set of payments, all voids, any number of
shifts and faults, and every choice of times:

| Theorem | Statement |
|---|---|
| `TypeCorrect` | `Spec => []TypeOK` |
| `ReplaysExist` | `Spec => []ReplayedPaymentExists` |
| `BooksFollowed` | `Spec => []DrawerFollowsBooks` |
| `PaidOnce` | `Spec => []DoubleSubmitPaysOnce`, if `Timely` |

The first three hold at any speed. `BooksOK` says who is about to write a record
that is missing, separately for the payment and its refund, because the request
does not look at the voided mark; `SlotNamesPayment` says that a completed key
names the payment of a request that is past the completion, and that a request
which deleted its payment will delete the row as well. `PaidOnce` needs that a call
ends before the row of its key expires (`CallTime <= Grace`,
`CallTime <= Retention`) and before an identical click can find its guard row stale
(`CallTime <= Window + 1`), and that guard rows outlive the window
(`Window < Grace`): 300 seconds, one day, and a window of 10 seconds in the code,
which bounds none of the calls. What excludes a second payment is possession of the
row of the key or of the guard: it is there while its request needs it (`RowKept`),
a confirmed payment keeps it until its time has passed (`PaidKept`), and of two
requests for one row the second starts when the time of the first has passed
(`Pairwise`). The statement about clicks without a key leaves a slack of one call,
since a click that read its clock inside the window may take the stale row after
another one did.

`ChannelIngestProofs`, for every set of rows and versions, every finite set of
handlers and importers, and any number of retries and faults:

| Theorem | Statement |
|---|---|
| `TypeCorrect` | `Spec => []TypeOK` |
| `ImportedOnce` | `Spec => []OneBooking` |
| `CancellationStays` | `Spec => []CancellationHolds` |
| `LockProtects` | `Spec => []LockProtectsRow` |

`OneBooking` is inductive only with counts. A row is one turn to be had or taken;
running importers and the turn to be had are at most one more than the takeovers
(`RunnersBounded`), and so are bookings and the importers that found none and are
about to make one (`BookingsBounded`); a takeover was paid for when the timeout
passed over a running import (`TakeoversPaid`). `CancellationHolds` follows with the
fact that a cancellation is only reported as processed once a booking is cancelled,
which survives everything another handler writes (`RowsTrue`, `HandlerOK`). Even the
type of `lineage` needs an argument: each fresh document uses up a handler that read
the absence of one (`GenBounded`). `LockProtectsRow` is inductive beside `IInv`
(`GrantInv`): a granted handler has its token on a live row, every fenced write and
the release ask for the token and the id of the row in their filter, and an acquire
asks that no live token is there; so a handler whose lock expired or whose row was
replaced, and who still writes or releases, matches nothing.

Only model-checked: the liveness properties (`EveryEventSettles`, `HoldsEnd`,
`AbandonedLeaseEnds`), since fairness and `ENABLED` are outside the prover's reach,
and the statements of section 3 that the code does not keep, which have
counterexamples.

## 5. Further work

1. `StayLifecycle`: the transition table, check-in and check-out transactions
   and room status; composed with `RoomNightLocks` through the booking status.
2. `WorkerLease` for the lifecycle worker, against the abstract `Lease`.
3. Auto-assignment and the agency variant of `assign_room_atomic` as further
   actions of `RoomNightLocks`; `AriPush`.
4. Proofs: which of the theorems about `RoomNightLocks` still hold under one of the
   four faults alone, for instance `AllOrNothing` under lost acknowledgements.

## 6. Not modelled

The parts of `atomic_booking.py` that repair duplicate rows (1176 and on) presuppose
a missing unique index and are run by hand. `release_booking_room_nights` belongs
to auto-assignment. Inserting a booking that is already cancelled skips the
locks and is not modelled. Providers, browsers and the payment service are
external and appear only as the answers they give. The
amounts, taxes and currencies of charges and payments are left out everywhere: the
properties are about which rows exist. Manual drawer transactions, currency
exchange and bank deposits change totals a closing cashier counts and no row that
is modelled. The pull from the providers and the unmatched hold that a mapping
review places on the calendar are not modelled.

The repository has about 470,000 lines, most of them in areas without shared-state
protocols (record keeping, reports, user interfaces, forecasts). The modules cover
the protocols listed in section 1 and are far from covering the code by lines.
