----------------------------- MODULE NightAudit -----------------------------
(***************************************************************************)
(* The night audit of core/night_audit_hardened.py for one property:       *)
(* requests start, resume and abort runs (domains/pms/night_audit/router), *)
(* a run validates, builds its candidate items, posts one charge per item, *)
(* reconciles and rolls the business date.                                 *)
(*                                                                         *)
(* Every database call that another request can come in between is a step. *)
(* A posting transaction commits as a whole or not at all, so the item     *)
(* status "processing" is never seen from outside. Rates, taxes and        *)
(* currencies are left out: every stay has a rate and an open folio.       *)
(***************************************************************************)
EXTENDS Naturals, FiniteSets

CONSTANTS
    Handlers,    \* requests and scheduler tasks being served
    Bookings,
    InHouse,     \* the bookings checked in when the model starts
    LastDay,     \* bound: business days
    MaxRuns,     \* bound: run documents
    MaxFaults,   \* bound: failed postings, failed stages and crashes
    MaxResumes,  \* bound: resume and abort requests
    Slow         \* may a live handler go STALE_THRESHOLD_SECONDS without a heartbeat?

ASSUME AuditAssumption ==
    /\ InHouse \subseteq Bookings
    /\ {LastDay, MaxRuns} \subseteq Nat \ {0}
    /\ {MaxFaults, MaxResumes} \subseteq Nat
    /\ Slow \in BOOLEAN

VARIABLES
    date,      \* tenant_settings.business_date
    run,       \* night_audit_runs
    item,      \* night_audit_run_items, item[r][b]
    stay,      \* bookings: status and check-in day
    charges,   \* charges[b][d]: room_charge rows that are not voided
    hd,        \* hd[h]: the request h serves
    faults, resumes,
    contested  \* history: days two handlers worked on at the same time

history == <<resumes, contested>>

vars == <<date, run, item, stay, charges, hd, faults, resumes, contested>>

Days == 1 .. LastDay
RunIds == 1 .. MaxRuns
Terminal == {"completed", "failed", "partial", "blocked", "superseded", "dry_completed"}
Resumable == {"failed", "partial", "blocked"}
NoRun == [status |-> "none", day |-> 1, dry |-> FALSE, indexed |-> FALSE]
NoItem == [kind |-> "none", status |-> "none"]
Idle == [pc |-> "idle", kind |-> "live", day |-> 1, run |-> 0, todo |-> {}]

TypeOK ==
    /\ date \in 1 .. LastDay + 1
    /\ run \in [RunIds -> [status : Terminal \cup {"none", "running"}, day : Days,
                           dry : BOOLEAN, indexed : BOOLEAN]]
    /\ item \in [RunIds -> [Bookings ->
                   [kind : {"none", "room_charge", "no_show"},
                    status : {"none", "pending", "posted", "skipped", "aborted", "failed"}]]]
    /\ stay \in [Bookings -> [status : {"none", "confirmed", "checked_in", "no_show"},
                              checkIn : 1 .. LastDay + 1]]
    /\ charges \in [Bookings -> [Days -> Nat]]
    /\ hd \in [Handlers -> [pc : {"idle", "insert", "existing", "supersede", "stale",
                                  "reinsert", "again", "drop", "validate", "build", "arrivals", "simulate",
                                  "mapping", "post", "reconcile", "remaining", "roll", "complete",
                                  "fail", "reset", "revalidate", "reopen", "abort", "cancel"},
                            kind : {"live", "dry", "rerun", "resume", "abort"},
                            day : Days, run : 0 .. MaxRuns, todo : SUBSET Bookings]]
    /\ faults \in 0 .. MaxFaults
    /\ resumes \in 0 .. MaxResumes
    /\ contested \subseteq Days

Init ==
    /\ date = 1
    /\ run = [r \in RunIds |-> NoRun]
    /\ item = [r \in RunIds |-> [b \in Bookings |-> NoItem]]
    /\ stay = [b \in Bookings |->
                 [status |-> IF b \in InHouse THEN "checked_in" ELSE "none", checkIn |-> 1]]
    /\ charges = [b \in Bookings |-> [d \in Days |-> 0]]
    /\ hd = [h \in Handlers |-> Idle]
    /\ faults = 0
    /\ resumes = 0
    /\ contested = {}

-----------------------------------------------------------------------------
(* Helpers *)

Goto(h, pc) == hd' = [hd EXCEPT ![h].pc = pc]
Done(h) == hd' = [hd EXCEPT ![h] = Idle]
SetStatus(r, status) == run' = [run EXCEPT ![r].status = status]

\* More than STALE_THRESHOLD_SECONDS may have passed since the run's heartbeat,
\* which every stage renews: only if nobody works on it, or somebody is Slow.
MayBeStale(r) ==
    run[r].status = "running" /\ (Slow \/ \A h \in Handlers : hd[h].run # r)

\* The document the unique index holds for day d.
Indexed(d) == {r \in RunIds : run[r].indexed /\ run[r].day = d}

Items(r, status) == {b \in Bookings : item[r][b].status = status}

\* A live run of another day blocks the validation.
OtherDayActive(d) == \E r \in RunIds : run[r].status \in {"running", "blocked", "partial"}
                                       /\ run[r].day # d

PendingArrivals(d) == {b \in Bookings : stay[b].status = "confirmed" /\ stay[b].checkIn <= d}

-----------------------------------------------------------------------------
(* Starting a run *)

\* A request that works on day d begins.
Contested(d) ==
    contested \cup {e \in {d} : \E h \in Handlers : hd[h].pc # "idle" /\ hd[h].day = e}

\* run_night_audit reads the open business date; a forced rerun and skipped
\* validations are only accepted for a simulation.
Request(h, kind) ==
    /\ hd[h].pc = "idle" /\ date \in Days
    /\ hd' = [hd EXCEPT ![h] = [Idle EXCEPT !.pc = "insert", !.kind = kind, !.day = date]]
    /\ contested' = Contested(date)
    /\ UNCHANGED <<date, run, item, stay, charges, faults, resumes>>

InsertRun(h, r) ==
    /\ run[r].status = "none" /\ \A q \in RunIds : q < r => run[q].status # "none"
    /\ run' = [run EXCEPT ![r] = [status |-> "running", day |-> hd[h].day,
                                  dry |-> hd[h].kind # "live", indexed |-> TRUE]]
    /\ hd' = [hd EXCEPT ![h].pc = "validate", ![h].run = r]

Insert(h) ==
    /\ hd[h].pc = "insert"
    /\ IF Indexed(hd[h].day) = {} THEN \E r \in RunIds : InsertRun(h, r)
       ELSE Goto(h, "existing") /\ UNCHANGED run
    /\ UNCHANGED <<date, item, stay, charges, faults, history>>

\* The lookup after DuplicateKeyError, of start_night_audit for a rerun and of
\* _handle_duplicate_run otherwise. A run without a heartbeat is marked for
\* recovery, a finished simulation makes place for the new run, and every other
\* status is refused.
LookUpExisting(h, stale) ==
    /\ hd[h].pc \in {"existing", "again"}
    /\ IF Indexed(hd[h].day) = {} THEN Done(h)
       ELSE \E r \in Indexed(hd[h].day) :
              IF \/ hd[h].kind = "rerun" /\ hd[h].pc = "existing" /\ run[r].status \in Terminal
                 \/ run[r].status = "dry_completed"
                 \/ run[r].dry /\ run[r].status \in Resumable
              THEN hd' = [hd EXCEPT ![h].pc = IF hd[h].pc = "existing" THEN "supersede" ELSE "drop",
                                    ![h].run = r]
              ELSE IF stale /\ MayBeStale(r)
              THEN hd' = [hd EXCEPT ![h].pc = "stale", ![h].run = r]
              ELSE Done(h)
    /\ UNCHANGED <<date, run, item, stay, charges, faults, history>>

Supersede(h) ==
    /\ hd[h].pc \in {"supersede", "drop"}
    /\ run' = [run EXCEPT ![hd[h].run].status = "superseded", ![hd[h].run].indexed = FALSE]
    /\ IF hd[h].pc = "drop" THEN Done(h)
       ELSE hd' = [hd EXCEPT ![h].pc = "reinsert", ![h].run = 0]
    /\ UNCHANGED <<date, item, stay, charges, faults, history>>

\* After a second DuplicateKeyError the answer of _handle_duplicate_run, with
\* what it writes, ends the request.
Reinsert(h) ==
    /\ hd[h].pc = "reinsert"
    /\ IF Indexed(hd[h].day) = {} THEN \E r \in RunIds : InsertRun(h, r)
       ELSE Goto(h, "again") /\ UNCHANGED run
    /\ UNCHANGED <<date, item, stay, charges, faults, history>>

MarkStale(h) ==
    /\ hd[h].pc = "stale"
    /\ SetStatus(hd[h].run, "partial")
    /\ Done(h)
    /\ UNCHANGED <<date, item, stay, charges, faults, history>>

-----------------------------------------------------------------------------
(* The pipeline of a run *)

\* _validate_preconditions. Blockers of the front desk's data (rooms, folios,
\* dates, overdue departures, channel mappings) may be found or not; a
\* simulation notes them and goes on.
Validate(h, blocked) ==
    /\ hd[h].pc = "validate"
    /\ (OtherDayActive(hd[h].day) \/ PendingArrivals(hd[h].day) # {}) => blocked
    /\ IF blocked /\ hd[h].kind = "live"
       THEN SetStatus(hd[h].run, "blocked") /\ Done(h)
       ELSE Goto(h, "build") /\ UNCHANGED run
    /\ UNCHANGED <<date, item, stay, charges, faults, history>>

\* _build_candidate_set: first the stays of the day are listed.
ListInHouse(h) ==
    /\ hd[h].pc = "build"
    /\ hd' = [hd EXCEPT ![h].pc = "arrivals",
                        ![h].todo = {b \in Bookings : /\ stay[b].status = "checked_in"
                                                      /\ stay[b].checkIn <= hd[h].day}]
    /\ UNCHANGED <<date, run, item, stay, charges, faults, history>>

\* A room charge for each of them, skipped if its night has one, and a no-show for
\* each arrival that has not come by now: a guest checked in since has no item.
Candidate(b, d, inHouse) ==
    IF b \in inHouse
    THEN [kind |-> "room_charge", status |-> IF charges[b][d] = 0 THEN "pending" ELSE "skipped"]
    ELSE IF b \in PendingArrivals(d) THEN [kind |-> "no_show", status |-> "pending"]
    ELSE NoItem

Candidates(h, landed) ==
    item' = [item EXCEPT ![hd[h].run] =
               [b \in Bookings |-> IF b \in landed THEN Candidate(b, hd[h].day, hd[h].todo)
                                   ELSE NoItem]]

BuildCandidates(h) ==
    /\ hd[h].pc = "arrivals"
    /\ Candidates(h, Bookings)
    /\ hd' = [hd EXCEPT ![h].pc = IF hd[h].kind = "live" THEN "mapping" ELSE "simulate",
                        ![h].todo = {}]
    /\ UNCHANGED <<date, run, stay, charges, faults, history>>

\* insert_many raises: any part of the items may have landed. A resume posts those
\* and never builds the others.
BuildFails(h, landed) ==
    /\ hd[h].pc = "arrivals"
    /\ faults < MaxFaults /\ faults' = faults + 1
    /\ Candidates(h, landed)
    /\ hd' = [hd EXCEPT ![h].pc = "fail", ![h].todo = {}]
    /\ UNCHANGED <<date, run, stay, charges, history>>

CompleteSimulation(h) ==
    /\ hd[h].pc = "simulate"
    /\ SetStatus(hd[h].run, "dry_completed")
    /\ Done(h)
    /\ UNCHANGED <<date, item, stay, charges, faults, history>>

\* _posting_and_close: channel mappings are looked at again, then the pending
\* items are loaded.
StartPosting(h, blocked) ==
    /\ hd[h].pc = "mapping"
    /\ IF blocked THEN SetStatus(hd[h].run, "blocked") /\ Done(h)
       ELSE /\ UNCHANGED run
            /\ hd' = [hd EXCEPT ![h].pc = "post", ![h].todo = Items(hd[h].run, "pending")]
    /\ UNCHANGED <<date, item, stay, charges, faults, history>>

SetItem(r, b, status) == item' = [item EXCEPT ![r][b].status = status]

\* The unique index on folio_charges: the night of this stay has its charge.
Duplicate(r, b, d) == item[r][b].kind = "room_charge" /\ charges[b][d] # 0

\* What the transaction of an item writes besides the item: the room charge with
\* the folio balance, or the no-show, whatever the booking's status is by now.
Post(r, b, d) ==
    IF item[r][b].kind = "room_charge"
    THEN charges' = [charges EXCEPT ![b][d] = charges[b][d] + 1] /\ UNCHANGED stay
    ELSE stay' = [stay EXCEPT ![b].status = "no_show"] /\ UNCHANGED charges

\* _post_room_charge_item and _post_no_show_item: an item that is not pending any
\* more is left alone, a charge that exists already makes the item a skipped one.
PostItem(h, b) ==
    LET r == hd[h].run
    IN  /\ hd[h].pc = "post" /\ b \in hd[h].todo
        /\ hd' = [hd EXCEPT ![h].todo = hd[h].todo \ {b}]
        /\ \/ item[r][b].status # "pending" /\ UNCHANGED <<item, charges, stay>>
           \/ /\ item[r][b].status = "pending" /\ Duplicate(r, b, hd[h].day)
              /\ SetItem(r, b, "skipped")
              /\ UNCHANGED <<charges, stay>>
           \/ /\ item[r][b].status = "pending" /\ ~Duplicate(r, b, hd[h].day)
              /\ SetItem(r, b, "posted")
              /\ Post(r, b, hd[h].day)
        /\ UNCHANGED <<date, run, faults, history>>

\* The transaction raises: it was not committed, or it was and the answer was
\* lost, or it conflicted with another handler's. The item is marked by its id,
\* whatever its status is by then, unless that write raises as well: the item
\* stays as it is, and only the statistics of the run count a failure.
PostingFails(h, b) ==
    LET r == hd[h].run
    IN  /\ hd[h].pc = "post" /\ b \in hd[h].todo
        /\ faults < MaxFaults /\ faults' = faults + 1
        /\ hd' = [hd EXCEPT ![h].todo = hd[h].todo \ {b}]
        /\ \/ UNCHANGED <<item, charges, stay>>
           \/ SetItem(r, b, "failed") /\ UNCHANGED <<charges, stay>>
           \/ /\ item[r][b].status = "pending" /\ ~Duplicate(r, b, hd[h].day)
              /\ SetItem(r, b, "failed") \/ SetItem(r, b, "posted")
              /\ Post(r, b, hd[h].day)
        /\ UNCHANGED <<date, run, history>>

PostingDone(h) ==
    /\ hd[h].pc = "post" /\ hd[h].todo = {}
    /\ Goto(h, "reconcile")
    /\ UNCHANGED <<date, run, item, stay, charges, faults, history>>

\* Mutant: failed items do not stop the close.
CountFailedIgnored(h) ==
    /\ hd[h].pc = "reconcile"
    /\ Goto(h, "remaining")
    /\ UNCHANGED <<date, run, item, stay, charges, faults, history>>

\* _reconcile counts the failed items first and the pending ones after them.
CountFailed(h) ==
    /\ hd[h].pc = "reconcile"
    /\ IF Items(hd[h].run, "failed") # {}
       THEN SetStatus(hd[h].run, "partial") /\ Done(h)
       ELSE Goto(h, "remaining") /\ UNCHANGED run
    /\ UNCHANGED <<date, item, stay, charges, faults, history>>

\* Mutant: pending items do not stop the close.
CountRemainingIgnored(h) ==
    /\ hd[h].pc = "remaining"
    /\ Goto(h, "roll")
    /\ UNCHANGED <<date, run, item, stay, charges, faults, history>>

CountRemaining(h) ==
    /\ hd[h].pc = "remaining"
    /\ IF Items(hd[h].run, "pending") # {}
       THEN SetStatus(hd[h].run, "failed") /\ Done(h)
       ELSE Goto(h, "roll") /\ UNCHANGED run
    /\ UNCHANGED <<date, item, stay, charges, faults, history>>

\* _roll_business_date, unless a mapping issue came up meanwhile.
RollBusinessDate(h, blocked) ==
    /\ hd[h].pc = "roll"
    /\ IF blocked THEN SetStatus(hd[h].run, "failed") /\ Done(h) /\ UNCHANGED date
       ELSE date' = hd[h].day + 1 /\ Goto(h, "complete") /\ UNCHANGED run
    /\ UNCHANGED <<item, stay, charges, faults, history>>

Complete(h) ==
    /\ hd[h].pc = "complete"
    /\ SetStatus(hd[h].run, "completed")
    /\ Done(h)
    /\ UNCHANGED <<date, item, stay, charges, faults, history>>

\* A stage raises.
StageFails(h) ==
    /\ hd[h].pc \in {"validate", "build", "mapping", "post", "reconcile", "remaining", "roll"}
    /\ hd[h].todo = {}
    /\ faults < MaxFaults /\ faults' = faults + 1
    /\ Goto(h, "fail")
    /\ UNCHANGED <<date, run, item, stay, charges, history>>

\* _fail_run, by the id of the run.
FailRun(h) ==
    /\ hd[h].pc = "fail"
    /\ SetStatus(hd[h].run, "failed")
    /\ Done(h)
    /\ UNCHANGED <<date, item, stay, charges, faults, history>>

-----------------------------------------------------------------------------
(* Resume and abort *)

\* Mutant: dry_run is not looked at.
ResumeAnyRun(h, r) ==
    /\ hd[h].pc = "idle" /\ resumes < MaxResumes
    /\ run[r].status \in Resumable
    /\ resumes' = resumes + 1 /\ contested' = Contested(run[r].day)
    /\ hd' = [hd EXCEPT ![h] = [pc |-> "reset", run |-> r, day |-> run[r].day, todo |-> {},
                                kind |-> IF run[r].status = "blocked" THEN "resume" ELSE "live"]]
    /\ UNCHANGED <<date, run, item, stay, charges, faults>>

\* resume_night_audit: status and dry_run are read once. What is left to do
\* depends on the status read, kept in pc and kind.
ResumeRun(h, r) ==
    /\ hd[h].pc = "idle" /\ resumes < MaxResumes
    /\ run[r].status \in Resumable /\ ~run[r].dry
    /\ resumes' = resumes + 1 /\ contested' = Contested(run[r].day)
    /\ hd' = [hd EXCEPT ![h] = [pc |-> "reset", run |-> r, day |-> run[r].day, todo |-> {},
                                kind |-> IF run[r].status = "blocked" THEN "resume" ELSE "live"]]
    /\ UNCHANGED <<date, run, item, stay, charges, faults>>

\* Mutant: the items get a status the posting stage does not know.
ResetToRetry(h) ==
    /\ hd[h].pc = "reset"
    /\ item' = [item EXCEPT ![hd[h].run] =
                  [b \in Bookings |-> IF item[hd[h].run][b].status = "failed"
                                      THEN [item[hd[h].run][b] EXCEPT !.status = "retry"]
                                      ELSE item[hd[h].run][b]]]
    /\ Goto(h, "reopen")
    /\ UNCHANGED <<date, run, stay, charges, faults, history>>

ResetFailedItems(h) ==
    /\ hd[h].pc = "reset"
    /\ item' = [item EXCEPT ![hd[h].run] =
                  [b \in Bookings |-> IF item[hd[h].run][b].status = "failed"
                                      THEN [item[hd[h].run][b] EXCEPT !.status = "pending"]
                                      ELSE item[hd[h].run][b]]]
    /\ IF hd[h].kind = "resume"
       THEN /\ run' = [run EXCEPT ![hd[h].run].status = "running"]
            /\ Goto(h, "revalidate")
       ELSE Goto(h, "reopen") /\ UNCHANGED run
    /\ UNCHANGED <<date, stay, charges, faults, history>>

Revalidate(h, blocked) ==
    /\ hd[h].pc = "revalidate"
    /\ (OtherDayActive(hd[h].day) \/ PendingArrivals(hd[h].day) # {}) => blocked
    /\ IF blocked THEN SetStatus(hd[h].run, "blocked") /\ Done(h)
       ELSE Goto(h, "reopen") /\ UNCHANGED run
    /\ UNCHANGED <<date, item, stay, charges, faults, history>>

\* The resumed run enters the pipeline at the posting stage.
Reopen(h) ==
    /\ hd[h].pc = "reopen"
    /\ run' = [run EXCEPT ![hd[h].run].status = "running"]
    /\ Goto(h, "mapping")
    /\ UNCHANGED <<date, item, stay, charges, faults, history>>

\* abort_night_audit: the status is read, then written by the id of the run,
\* completed by now or not; then the items not posted yet are cancelled.
AbortRun(h, r) ==
    /\ hd[h].pc = "idle" /\ resumes < MaxResumes
    /\ run[r].status \notin {"none", "completed"}
    /\ resumes' = resumes + 1 /\ contested' = Contested(run[r].day)
    /\ hd' = [hd EXCEPT ![h] = [pc |-> "abort", kind |-> "abort", run |-> r,
                                day |-> run[r].day, todo |-> {}]]
    /\ UNCHANGED <<date, run, item, stay, charges, faults>>

FailAborted(h) ==
    /\ hd[h].pc = "abort"
    /\ SetStatus(hd[h].run, "failed")
    /\ Goto(h, "cancel")
    /\ UNCHANGED <<date, item, stay, charges, faults, history>>

CancelItems(h) ==
    /\ hd[h].pc = "cancel"
    /\ item' = [item EXCEPT ![hd[h].run] =
                  [b \in Bookings |-> IF item[hd[h].run][b].status = "pending"
                                      THEN [item[hd[h].run][b] EXCEPT !.status = "aborted"]
                                      ELSE item[hd[h].run][b]]]
    /\ Done(h)
    /\ UNCHANGED <<date, run, stay, charges, faults, history>>

-----------------------------------------------------------------------------
(* The environment *)

\* A booking for today is taken; its guest is checked in.
Reserve(b) ==
    /\ stay[b].status = "none"
    /\ stay' = [stay EXCEPT ![b] = [status |-> "confirmed", checkIn |-> date]]
    /\ UNCHANGED <<date, run, item, charges, hd, faults, history>>

CheckIn(b) ==
    /\ stay[b].status = "confirmed"
    /\ stay' = [stay EXCEPT ![b].status = "checked_in"]
    /\ UNCHANGED <<date, run, item, charges, hd, faults, history>>

\* The process of a handler dies.
Crash(h) ==
    /\ hd[h].pc # "idle"
    /\ faults < MaxFaults /\ faults' = faults + 1
    /\ Done(h)
    /\ UNCHANGED <<date, run, item, stay, charges, history>>

Start(h) ==
    \/ \E kind \in {"live", "dry", "rerun"} : Request(h, kind)
    \/ Insert(h) \/ Supersede(h) \/ Reinsert(h) \/ MarkStale(h)
    \/ \E stale \in BOOLEAN : LookUpExisting(h, stale)

Pipeline(h) ==
    \/ \E blocked \in BOOLEAN :
         Validate(h, blocked) \/ StartPosting(h, blocked) \/ RollBusinessDate(h, blocked)
    \/ ListInHouse(h) \/ BuildCandidates(h) \/ CompleteSimulation(h)
    \/ \E landed \in SUBSET Bookings : BuildFails(h, landed)
    \/ \E b \in Bookings : PostItem(h, b) \/ PostingFails(h, b)
    \/ PostingDone(h) \/ CountFailed(h) \/ CountRemaining(h) \/ Complete(h)
    \/ StageFails(h) \/ FailRun(h)

Recovery(h) ==
    \/ \E r \in RunIds : ResumeRun(h, r) \/ AbortRun(h, r)
    \/ ResetFailedItems(h) \/ Reopen(h) \/ FailAborted(h) \/ CancelItems(h)
    \/ \E blocked \in BOOLEAN : Revalidate(h, blocked)

Next ==
    \/ \E h \in Handlers : Start(h) \/ Pipeline(h) \/ Recovery(h) \/ Crash(h)
    \/ \E b \in Bookings : Reserve(b) \/ CheckIn(b)

Spec == Init /\ [][Next]_vars

-----------------------------------------------------------------------------
(* Properties *)

\* A completed run charged every item it did not cancel itself, through failed
\* postings, lost answers, crashes and resumes, as long as the requests for its day
\* came one after the other (_reconcile counts in two steps, and a handler is not
\* told that its run was aborted or taken over).
ClosedDayIsCharged ==
    \A r \in RunIds, b \in Bookings :
      /\ run[r].status = "completed" /\ run[r].day \notin contested
      /\ item[r][b].kind = "room_charge" /\ item[r][b].status # "aborted"
      => charges[b][run[r].day] = 1

\* "Business date roll ONLY after verified successful close": behind the business
\* date, every such day has a real run without a failed or pending item whose room
\* charges are on the folios, also when the handler died between the roll and the
\* completion, and when the run was resumed or aborted after it.
RolledAfterAudit ==
    \A d \in Days \ contested : d < date =>
      \E r \in RunIds :
        /\ run[r].status # "none" /\ run[r].day = d /\ ~run[r].dry
        /\ \A b \in Bookings :
             /\ item[r][b].status \notin {"failed", "pending"}
             /\ item[r][b].kind = "room_charge" /\ item[r][b].status # "aborted" =>
                  charges[b][d] = 1

\* "it never changes folios, reservations, rooms or the business date"
\* (domains/pms/night_audit/router.py, of a simulation): no step on behalf of a
\* dry run does, also after a crash, an abort or a resume of it.
SimulationChangesNothing ==
    [][\A h \in Handlers :
         hd[h].run # 0 /\ run[hd[h].run].dry /\ hd'[h] # hd[h] =>
           UNCHANGED <<date, charges, stay>>]_vars

\* "Business date roll ONLY after verified successful close": once the date has
\* moved on, the guests in house have the room charge of that night.
RolledDayIsCharged == \A b \in InHouse, d \in Days : d < date => charges[b][d] = 1

\* The business date never goes back (a resume does not ask whether the day of
\* its run is still the open one).
DateNeverGoesBack == [][date' >= date]_vars

\* A guest who is checked in is never made a no-show.
NoShowWasNotInHouse ==
    [][\A b \in Bookings : stay[b].status = "checked_in" => stay'[b].status # "no_show"]_vars
=============================================================================
