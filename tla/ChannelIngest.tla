---------------------------- MODULE ChannelIngest ----------------------------
(***************************************************************************)
(* The ingest of the provider's messages about one OTA reservation: the    *)
(* rows of raw_channel_events, process_event of                            *)
(* domains/channel_manager/ingest/pipeline.py with its decision engine and *)
(* reservation lock, the processor and the replay worker of workers.py,    *)
(* and the lineage row they keep.  New reservations go to ImportBridge,    *)
(* cancellations to its bookings.                                          *)
(*                                                                         *)
(* A message is a version of the reservation with the status it carries    *)
(* and its last-modified stamp, which may be empty or that of another      *)
(* version; a row is one delivery of a message.  Rows arrive in any order, *)
(* and two rows may hold the same message: the guard that some routes put  *)
(* in front of the insert only removes such rows.  A row arrives pending   *)
(* and nobody reads it before a handler takes it up, so all rows are there *)
(* from the start and taken up at any time.  The provider is HotelRunner,  *)
(* and all messages have one event type, as those of its pull have.        *)
(***************************************************************************)
EXTENDS ImportBridge

CONSTANTS
    Rows,         \* rows of raw_channel_events
    Handlers,     \* calls of process_event that may run at the same time
    MaxVersion,   \* versions of the reservation at the provider
    Changes,      \* what the provider may report of a later version
    Stamps,       \* the last-modified times the versions may have; 0 is empty
    NoRow, NoHandler

ASSUME IngestAssumption ==
    /\ IsFiniteSet(Handlers)
    /\ MaxVersion \in Nat \ {0}
    /\ Changes \subseteq {"confirmed", "modified", "cancelled"}
    /\ Stamps \subseteq [1 .. MaxVersion -> Nat]
    /\ NoRow \notin Rows
    /\ NoHandler \notin Handlers

VARIABLES
    says,       \* says[v]: the status version v of the reservation carries
    stamp,      \* stamp[v]: its last-modified time
    version,    \* version[r]: the version row r delivers
    raw,        \* raw[r]: processing_status and replay_of_failed of row r
    lineage,    \* the reservation_lineage row; gen stands for its id
    lock,       \* its lock fields: the owner's token, and whether it is live
    hd,         \* hd[h]: what handler h is doing, with its copy of the lineage
    grant       \* history: whose lock nothing has ended yet, and the row under it

messages == <<says, stamp, version>>
lockVars == <<lock, grant>>
ingestVars == <<messages, raw, lineage, lockVars, hd>>
vars == <<ingestVars, importVars>>

Versions == 1 .. MaxVersion
States == {"confirmed", "modified", "cancelled"}
RawStatuses == {"pending", "processed", "duplicate", "stale", "failed", "unmapped"}
Locked == {"update", "cancel", "propagate", "touch", "durable"}
Steps == Locked \cup {"idle", "dedup", "read", "decide", "find", "insert",
                      "overwrite", "import", "finish", "release"}
NoLineage == [gen |-> 0, ver |-> 0, status |-> "none"]
Lineages == [gen : 1 .. Cardinality(Handlers), ver : Versions, status : States] \cup {NoLineage}
Unlocked == [owner |-> NoHandler, live |-> FALSE]
NoGrant == [to |-> NoHandler, row |-> NoLineage]
Idle == [pc |-> "idle", row |-> NoRow, replay |-> FALSE, seen |-> NoLineage,
         held |-> FALSE, out |-> "pending"]

TypeOK ==
    /\ ImportTypeOK
    /\ says \in [Versions -> States]
    /\ stamp \in [Versions -> Nat]
    /\ version \in [Rows -> Versions]
    /\ raw \in [Rows -> [status : RawStatuses, replay : BOOLEAN]]
    /\ lineage \in Lineages
    /\ lock \in [owner : Handlers \cup {NoHandler}, live : BOOLEAN]
    /\ grant \in [to : Handlers \cup {NoHandler}, row : Lineages]
    /\ hd \in [Handlers -> [pc : Steps, row : Rows \cup {NoRow}, replay : BOOLEAN,
                            seen : Lineages, held : BOOLEAN, out : RawStatuses]]

Init ==
    /\ ImportInit
    /\ says \in {s \in [Versions -> States] :
                    \A v \in Versions : s[v] \in IF v = 1 THEN {"confirmed"} ELSE Changes}
    /\ stamp \in Stamps
    /\ version \in [Rows -> Versions]
    /\ raw = [r \in Rows |-> [status |-> "pending", replay |-> FALSE]]
    /\ lineage = NoLineage
    /\ lock = Unlocked
    /\ grant = NoGrant
    /\ hd = [h \in Handlers |-> Idle]

-----------------------------------------------------------------------------
(* Rows and who takes them up *)

Ver(h) == version[hd[h].row]
Says(h) == says[Ver(h)]

\* The route that stored the row calls process_event at once; ingest_processor_once
\* takes every pending row, also one another handler is working on.
Start(h, r) ==
    /\ hd[h].pc = "idle"
    /\ raw[r].status = "pending"
    /\ hd' = [hd EXCEPT ![h] = [Idle EXCEPT !.pc = "dedup", !.row = r, !.replay = raw[r].replay]]
    /\ UNCHANGED <<messages, raw, lineage, lockVars, importVars>>

\* claim_failed_provider_event_for_replay: a redelivery claims a failed row,
\* unless it failed for want of a mapping.
ReplayFailed(h, r) ==
    /\ hd[h].pc = "idle"
    /\ raw[r].status = "failed"
    /\ raw' = [raw EXCEPT ![r] = [status |-> "pending", replay |-> TRUE]]
    /\ hd' = [hd EXCEPT ![h] = [Idle EXCEPT !.pc = "dedup", !.row = r, !.replay = TRUE]]
    /\ UNCHANGED <<messages, lineage, lockVars, importVars>>

\* Mutant: the row is given a status of the import queue.
ReplayResetToRetry(r) ==
    /\ raw[r].status \in {"failed", "unmapped"}
    /\ raw' = [raw EXCEPT ![r].status = "retry"]
    /\ UNCHANGED <<messages, lineage, lockVars, hd, importVars>>

\* replay_worker_once; its read and its write are taken as one step.
ReplayReset(r) ==
    /\ raw[r].status \in {"failed", "unmapped"}
    /\ raw' = [raw EXCEPT ![r].status = "pending"]
    /\ UNCHANGED <<messages, lineage, lockVars, hd, importVars>>

-----------------------------------------------------------------------------
(* process_event, stages 2 to 7 *)

To(h, pc) == hd' = [hd EXCEPT ![h].pc = pc]

\* What is forgotten here is not read again.
ToFinish(h, out) ==
    hd' = [hd EXCEPT ![h] = [pc |-> "finish", row |-> hd[h].row, replay |-> FALSE,
                             seen |-> IF hd[h].held THEN hd[h].seen ELSE NoLineage,
                             held |-> hd[h].held, out |-> out]]

\* How the row of a handler that raises ends.
Failed(h) == IF hd[h].out = "unmapped" THEN "unmapped" ELSE "failed"

\* Stages 2 and 3: the message was processed, from this or another row, or one
\* of the same stamp was, whose provider_event_id is the same.
Dedup(h) ==
    /\ hd[h].pc = "dedup"
    /\ IF ~hd[h].replay /\ \E r \in Rows : /\ stamp[version[r]] = stamp[Ver(h)]
                                          /\ raw[r].status \in {"processed", "duplicate"}
       THEN ToFinish(h, "duplicate")
       ELSE To(h, "read")
    /\ UNCHANGED <<messages, raw, lineage, lockVars, importVars>>

\* Neither stamp is empty and that of the message is not the later one.
Stale(h, row) ==
    /\ row # NoLineage
    /\ stamp[Ver(h)] # 0 /\ stamp[row.ver] # 0
    /\ stamp[Ver(h)] <= stamp[row.ver]

\* Stage 4: the lineage is read here and used until the end.
ReadLineage(h) ==
    /\ hd[h].pc = "read"
    /\ IF ~hd[h].replay /\ Stale(h, lineage)
       THEN ToFinish(h, "stale")
       ELSE hd' = [hd EXCEPT ![h].pc = "decide", ![h].seen = lineage, ![h].replay = FALSE]
    /\ UNCHANGED <<messages, raw, lineage, lockVars, importVars>>

\* STATE_TRANSITIONS among the states a provider reports.
IsValidTransition(from, to) == from = "cancelled" => to # "modified"

\* Decisions of decide.  Versions with one status may or may not differ in what
\* the canonical hash covers; a currency or amount anomaly may send any update
\* to manual review.
Decisions(h) ==
    LET seen == hd[h].seen IN
    IF Says(h) = "cancelled" THEN {"cancel"}
    ELSE IF ~mapped THEN {"pending_mapping"}
    ELSE IF seen = NoLineage THEN {"create"}
    ELSE IF Ver(h) = seen.ver \/ Stale(h, seen) THEN {"skip"}
    ELSE (IF Says(h) = says[seen.ver] THEN {"skip"} ELSE {}) \cup {"manual_review"} \cup
         (IF IsValidTransition(seen.status, Says(h)) THEN {"update"} ELSE {})

\* The decisions that need no lock: where stage 9 starts, and how the row ends.
Decide(h, decision) ==
    LET known == hd[h].seen # NoLineage
        pc == CASE decision = "create" -> "find"
                [] decision = "pending_mapping" -> IF known THEN "import" ELSE "find"
                [] decision = "skip" -> "import"
                [] OTHER -> "finish"
        out == CASE decision = "pending_mapping" -> "unmapped"
                 [] pc = "finish" -> "failed"
                 [] OTHER -> "processed"
    IN  /\ decision = "update" \/ decision = "cancel" => ~known
        /\ hd' = [hd EXCEPT ![h].pc = pc, ![h].out = out, ![h].seen = NoLineage]
        /\ UNCHANGED <<messages, raw, lineage, lockVars, importVars>>

-----------------------------------------------------------------------------
(* The reservation lock *)

\* The row h read is still there under its id.
SameRow(h) == lineage.gen = hd[h].seen.gen

\* The filter of _acquire_reservation_lock.
LockFree(h) == SameRow(h) /\ (lock.owner = NoHandler \/ ~lock.live)

\* The filter of every fenced write: the owner's token, unexpired.
LockValid(h) == SameRow(h) /\ lock.owner = h /\ lock.live

\* Stage 8, for an update or a cancellation of a known reservation.
AcquireLock(h, decision) ==
    /\ decision \in {"update", "cancel"}
    /\ hd[h].seen # NoLineage
    /\ IF LockFree(h)
       THEN /\ lock' = [owner |-> h, live |-> TRUE]
            /\ grant' = [to |-> h, row |-> lineage]
            /\ hd' = [hd EXCEPT ![h].pc = decision, ![h].held = TRUE, ![h].out = "processed"]
       ELSE ToFinish(h, "pending") /\ UNCHANGED lockVars
    /\ UNCHANGED <<messages, raw, lineage, importVars>>

\* The heartbeat finds the lock gone and the running mutation is cancelled.
NoticeLostLock(h) ==
    /\ hd[h].pc \in Locked
    /\ ~LockValid(h)
    /\ ToFinish(h, "pending")
    /\ UNCHANGED <<messages, raw, lineage, lockVars, importVars>>

\* LOCK_TTL_SECONDS pass: over a dead handler, or before a live one's heartbeat.
ExpireLock ==
    /\ lock.live
    /\ IF hd[lock.owner].held
       THEN faults < MaxFaults /\ faults' = faults + 1
       ELSE UNCHANGED faults
    /\ lock' = [lock EXCEPT !.live = FALSE]
    /\ grant' = NoGrant
    /\ UNCHANGED <<messages, raw, lineage, hd, rec, imp, bookings, mapped, takeovers>>

\* The holder itself gives up what it was granted.
Ungranted(h) == IF grant.to = h THEN NoGrant ELSE grant

\* Mutant: the release is by the id of the row alone.
ReleaseById(h) ==
    /\ hd[h].pc = "release"
    /\ lock' = IF SameRow(h) THEN Unlocked ELSE lock
    /\ grant' = Ungranted(h)
    /\ hd' = [hd EXCEPT ![h] = Idle]
    /\ UNCHANGED <<messages, raw, lineage, importVars>>

\* The finally clause: by token, expired or not.
ReleaseLock(h) ==
    /\ hd[h].pc = "release"
    /\ lock' = IF SameRow(h) /\ lock.owner = h THEN Unlocked ELSE lock
    /\ grant' = Ungranted(h)
    /\ hd' = [hd EXCEPT ![h] = Idle]
    /\ UNCHANGED <<messages, raw, lineage, importVars>>

-----------------------------------------------------------------------------
(* process_event, stage 9 *)

\* upsert_reservation_lineage looks for the row ...
FindLineage(h) ==
    /\ hd[h].pc = "find"
    /\ To(h, IF lineage = NoLineage THEN "insert" ELSE "overwrite")
    /\ UNCHANGED <<messages, raw, lineage, lockVars, importVars>>

\* ... inserts it, or hits the unique index, ...
InsertLineage(h) ==
    /\ hd[h].pc = "insert"
    /\ IF lineage = NoLineage
       THEN /\ lineage' = [gen |-> 1, ver |-> Ver(h), status |-> "confirmed"]
            /\ To(h, "import")
       ELSE /\ ToFinish(h, Failed(h))
            /\ UNCHANGED lineage
    /\ UNCHANGED <<messages, raw, lockVars, importVars>>

\* ... or overwrites all of it with a fresh document: a new id, no lock.
OverwriteLineage(h) ==
    /\ hd[h].pc = "overwrite"
    /\ lineage' = [gen |-> lineage.gen + 1, ver |-> Ver(h), status |-> "confirmed"]
    /\ lock' = Unlocked
    /\ grant' = NoGrant
    /\ To(h, "import")
    /\ UNCHANGED <<messages, raw, importVars>>

\* _trigger_import_bridge.
TriggerImport(h) ==
    /\ hd[h].pc = "import"
    /\ CreateRecord(hd[h].out # "unmapped")
    /\ To(h, "finish")
    /\ UNCHANGED <<messages, raw, lineage, lockVars, imp, bookings, mapped, takeovers, faults>>

\* _update_lineage and _cancel_lineage write back the copy read in stage 4; a
\* cancellation leaves its version.
WriteLineage(h) ==
    /\ hd[h].pc \in {"update", "cancel"}
    /\ LockValid(h)
    /\ IF hd[h].pc = "update"
       THEN /\ lineage' = [hd[h].seen EXCEPT !.ver = Ver(h), !.status = "modified"]
            /\ To(h, "finish")
       ELSE /\ lineage' = [hd[h].seen EXCEPT !.status = "cancelled"]
            /\ To(h, "propagate")
    /\ grant' = IF grant.to = h THEN [grant EXCEPT !.row = lineage'] ELSE grant
    /\ UNCHANGED <<messages, raw, lock, importVars>>

\* _propagate_cancellation_to_booking: update_one hits any one of the bookings,
Propagate(h) ==
    /\ hd[h].pc = "propagate"
    /\ \/ /\ bookings.active > 0
          /\ bookings' = [active |-> bookings.active - 1, cancelled |-> bookings.cancelled + 1]
       \/ /\ bookings.active = 0 \/ bookings.cancelled > 0
          /\ UNCHANGED bookings
    /\ To(h, "touch")
    /\ UNCHANGED <<messages, raw, lineage, lockVars, rec, imp, mapped, takeovers, faults>>

\* the import row is touched, its import_status left as it is,
TouchImport(h) ==
    /\ hd[h].pc = "touch"
    /\ rec' = [rec EXCEPT !.late = FALSE]
    /\ To(h, "durable")
    /\ UNCHANGED <<messages, raw, lineage, lockVars, imp, bookings, mapped, takeovers, faults>>

\* Mutant: the cancellation is taken as durable without looking.
FindNoCancelled(h) ==
    /\ hd[h].pc = "durable"
    /\ ToFinish(h, "processed")
    /\ UNCHANGED <<messages, raw, lineage, lockVars, importVars>>

\* and a cancelled booking is looked for; without one the event fails with
\* PMS_CANCELLATION_NOT_DURABLE.
FindCancelled(h) ==
    /\ hd[h].pc = "durable"
    /\ ToFinish(h, IF bookings.cancelled > 0 THEN "processed" ELSE "failed")
    /\ UNCHANGED <<messages, raw, lineage, lockVars, importVars>>

\* After the outcome was written only the release, of the lock it acquired, follows.
Released(h) ==
    IF hd[h].held THEN [Idle EXCEPT !.pc = "release", !.seen = hd[h].seen, !.held = TRUE]
    ELSE Idle

\* _finalize_event: by id alone.
Finish(h) ==
    /\ hd[h].pc = "finish"
    /\ raw' = [raw EXCEPT ![hd[h].row].status = hd[h].out]
    /\ hd' = [hd EXCEPT ![h] = Released(h)]
    /\ UNCHANGED <<messages, lineage, lockVars, importVars>>

\* An exception in any stage.
HandlerRaises(h) ==
    /\ hd[h].pc \notin {"idle", "finish", "release"}
    /\ faults < MaxFaults
    /\ faults' = faults + 1
    /\ ToFinish(h, Failed(h))
    /\ UNCHANGED <<messages, raw, lineage, lockVars, rec, imp, bookings, mapped, takeovers>>

\* The outcome is written or not, and the write raises: the handler of exceptions
\* writes a failure over it, or gives up when the write that raises is its own.
FinishRaises(h) ==
    /\ hd[h].pc = "finish"
    /\ faults < MaxFaults
    /\ faults' = faults + 1
    /\ \/ UNCHANGED raw
       \/ raw' = [raw EXCEPT ![hd[h].row].status = hd[h].out]
    /\ \/ ~(hd[h].held /\ hd[h].out = "pending") /\ ToFinish(h, Failed(h))
       \/ hd' = [hd EXCEPT ![h] = Released(h)]
    /\ UNCHANGED <<messages, lineage, lockVars, rec, imp, bookings, mapped, takeovers>>

\* The process dies: the row stays pending and the lock runs out.
HandlerCrashes(h) ==
    /\ hd[h].pc # "idle"
    /\ faults < MaxFaults
    /\ faults' = faults + 1
    /\ hd' = [hd EXCEPT ![h] = Idle]
    /\ UNCHANGED <<messages, raw, lineage, lockVars, rec, imp, bookings, mapped, takeovers>>

-----------------------------------------------------------------------------

ProcessEvent(h) ==
    \/ Dedup(h) \/ ReadLineage(h)
    \/ /\ hd[h].pc = "decide"
       /\ \E decision \in Decisions(h) : Decide(h, decision) \/ AcquireLock(h, decision)
    \/ NoticeLostLock(h) \/ ReleaseLock(h)
    \/ FindLineage(h) \/ InsertLineage(h) \/ OverwriteLineage(h) \/ TriggerImport(h)
    \/ WriteLineage(h) \/ Propagate(h) \/ TouchImport(h) \/ FindCancelled(h)
    \/ Finish(h)

Next ==
    \/ \E r \in Rows : ReplayReset(r)
    \/ \E h \in Handlers :
          \/ \E r \in Rows : Start(h, r) \/ ReplayFailed(h, r)
          \/ ProcessEvent(h)
          \/ HandlerRaises(h) \/ FinishRaises(h) \/ HandlerCrashes(h)
    \/ ExpireLock
    \/ ImportNext /\ UNCHANGED ingestVars

Spec == Init /\ [][Next]_vars

-----------------------------------------------------------------------------
(* Properties *)

\* No other version of the reservation comes under the event id of v and says
\* something else.
OwnEvent(v) == \A w \in Versions : stamp[w] = stamp[v] => says[w] = says[v]

Effective(r) ==
    says[version[r]] = "cancelled" /\ raw[r].status \in {"processed", "duplicate"} =>
        bookings.active <= takeovers

\* "Cancellation receive: status propagation to PMS state machine": once a
\* cancellation is reported processed the PMS has no active booking of the
\* reservation, also if it overtakes the booking on its way through the import;
\* unless an import outlived processing_timeout and made a second booking, or
\* the cancellation came with the stamp of another message and was taken for it.
CancellationHolds == \A r \in Rows : OwnEvent(version[r]) => Effective(r)

\* "Duplicate detection: check if this provider_event_id already processed": the
\* same of every cancellation.
EveryCancellationHolds == \A r \in Rows : Effective(r)

\* "Version-based dedup prevents stale overwrites" (docs/CHANNEL_CAPABILITY_MATRIX.md):
\* no step takes the lineage back to an older version.
NoStaleOverwrite == [][lineage'.ver >= lineage.ver]_vars

\* "Acquire a reservation-scoped lock", "Release a reservation lease only if the
\* caller still owns it": from the moment a handler has the lock until it gives
\* it up, its time passes or the row is replaced by a fresh document, nobody
\* else's release, acquisition or late write ends the lock or touches the row.
LockProtectsRow ==
    grant # NoGrant =>
        /\ lock = [owner |-> grant.to, live |-> TRUE]
        /\ lineage = grant.row
=============================================================================
