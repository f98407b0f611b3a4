---------------------------- MODULE ImportBridge ----------------------------
(***************************************************************************)
(* The import of one OTA reservation into the PMS: its row in              *)
(* imported_reservations, the importers of core/import_retry_worker.py and *)
(* core/import_bridge_service.py, and the endpoints of                     *)
(* routers/import_admin.py.                                                *)
(*                                                                         *)
(* Times are kept as flags of the row: `due` is next_retry_at <= now,      *)
(* `late` is updated_at older than processing_timeout.  The room a booking *)
(* gets is the subject of RoomNightLocks; here a booking is only counted.  *)
(* The unique index is per connector: all messages of the reservation come *)
(* over one connector, so there is one row.                                *)
(***************************************************************************)
EXTENDS Naturals, FiniteSets

CONSTANTS
    Importers,    \* import workers, one per process, and admin requests
    MaxRetries,   \* max_retries of the row
    MaxFaults     \* bound on crashes, errors, lost locks and overlong imports

ASSUME ImportAssumption ==
    /\ IsFiniteSet(Importers)
    /\ MaxRetries \in Nat \ {0}
    /\ MaxFaults \in Nat

VARIABLES
    rec,        \* the row of imported_reservations
    imp,        \* imp[i]: the step importer i is at
    bookings,   \* how many bookings carry the reservation's source, by status
    mapped,     \* is there an active mapping of its room type and rate plan?
    takeovers,  \* times the row was given to others while its importer ran
    faults

importVars == <<rec, imp, bookings, mapped, takeovers, faults>>

Open == {"pending", "processing", "retry"}
Closed == {"imported", "duplicate", "review", "failed", "dismissed"}
NoRecord == [status |-> "absent", retries |-> 0, due |-> FALSE, late |-> FALSE]

Places == {"idle", "check", "map", "create", "mark", "link", "fail", "late"}

ImportTypeOK ==
    /\ rec \in [status : Open \cup Closed \cup {"absent"}, retries : 0 .. MaxRetries,
                due : BOOLEAN, late : BOOLEAN]
    /\ imp \in [Importers -> Places]
    /\ bookings \in [active : Nat, cancelled : Nat]
    /\ mapped \in BOOLEAN
    /\ takeovers \in Nat
    /\ faults \in 0 .. MaxFaults

ImportInit ==
    /\ rec = NoRecord
    /\ imp = [i \in Importers |-> "idle"]
    /\ bookings = [active |-> 0, cancelled |-> 0]
    /\ mapped = FALSE
    /\ takeovers = 0
    /\ faults = 0

-----------------------------------------------------------------------------

Goto(i, pc) == imp' = [imp EXCEPT ![i] = pc]
Running == \E i \in Importers : imp[i] \notin {"idle", "late"}
BookingExists == bookings.active + bookings.cancelled > 0

\* classify_for_import with the mappings the caller found, and
\* create_import_record, whose unique index swallows a second row.
CreateRecord(eligible) ==
    rec' = IF rec.status # "absent" THEN rec
           ELSE [NoRecord EXCEPT !.status = IF eligible THEN "pending" ELSE "review",
                                 !.due = TRUE]

Claimable == rec.status \in {"pending", "retry"} /\ rec.due

\* _claim_record, and the claim of auto_import_reservation_to_pms.
Claim(i) ==
    /\ imp[i] = "idle"
    /\ Claimable
    /\ rec' = [rec EXCEPT !.status = "processing", !.late = FALSE]
    /\ Goto(i, "check")
    /\ UNCHANGED <<bookings, mapped, takeovers, faults>>

\* replay_reviewed_mapping_import: a mapping review is claimed once it is mapped.
ClaimReviewed(i) ==
    /\ imp[i] = "idle"
    /\ rec.status = "review"
    /\ mapped
    /\ ~BookingExists
    /\ rec' = [rec EXCEPT !.status = "processing", !.late = FALSE]
    /\ Goto(i, "check")
    /\ UNCHANGED <<bookings, mapped, takeovers, faults>>

\* Mutant: the source of the existing bookings is not looked at.
CheckNothing(i) ==
    /\ imp[i] = "check"
    /\ Goto(i, "map")
    /\ UNCHANGED <<rec, bookings, mapped, takeovers, faults>>

\* check_booking_source_exists.
Check(i) ==
    /\ imp[i] = "check"
    /\ Goto(i, IF BookingExists THEN "link" ELSE "map")
    /\ UNCHANGED <<rec, bookings, mapped, takeovers, faults>>

Written(status) == [rec EXCEPT !.status = status, !.late = FALSE]

\* The mappings of the room type and of the rate plan; _mark_review without them.
ReadMappings(i) ==
    /\ imp[i] = "map"
    /\ IF mapped
       THEN Goto(i, "create") /\ UNCHANGED rec
       ELSE Goto(i, "idle") /\ rec' = Written("review")
    /\ UNCHANGED <<bookings, mapped, takeovers, faults>>

\* create_booking_atomic through the auto-assignment: always a new booking.
CreateBooking(i) ==
    /\ imp[i] = "create"
    /\ bookings' = [bookings EXCEPT !.active = @ + 1]
    /\ Goto(i, "mark")
    /\ UNCHANGED <<rec, mapped, takeovers, faults>>

\* The last write of an import, by id alone: imported, or duplicate.
Mark(i) ==
    /\ imp[i] \in {"mark", "link"}
    /\ rec' = Written(IF imp[i] = "mark" THEN "imported" ELSE "duplicate")
    /\ Goto(i, "idle")
    /\ UNCHANGED <<bookings, mapped, takeovers, faults>>

\* Any step of an import raises, before or after the booking was written; the
\* write that ends it may have taken effect.
ImportRaises(i) ==
    /\ imp[i] \in {"check", "map", "create", "mark", "link"}
    /\ faults < MaxFaults
    /\ faults' = faults + 1
    /\ \/ Goto(i, "fail") /\ UNCHANGED rec
       \/ imp[i] = "map" /\ ~mapped /\ Goto(i, "late") /\ rec' = Written("review")
       \/ imp[i] = "mark" /\ Goto(i, "late") /\ rec' = Written("imported")
       \/ imp[i] = "link" /\ Goto(i, "late") /\ rec' = Written("duplicate")
    /\ UNCHANGED <<bookings, mapped, takeovers>>

\* _handle_import_failure: by id alone, with the persisted retry count.  After a
\* write that took effect another importer may have the row by now.
HandleFailure(i, permanent) ==
    LET retries == IF rec.retries < MaxRetries THEN rec.retries + 1 ELSE MaxRetries
    IN  /\ imp[i] \in {"fail", "late"}
        /\ Goto(i, "idle")
        /\ rec' = IF permanent \/ retries >= MaxRetries
                  THEN [rec EXCEPT !.status = "failed", !.retries = retries, !.late = FALSE]
                  ELSE [rec EXCEPT !.status = "retry", !.retries = retries, !.late = FALSE,
                                   !.due = FALSE]
        /\ takeovers' = IF imp[i] = "late" /\ rec.status = "processing" /\ Running
                        THEN takeovers + 1 ELSE takeovers
        /\ UNCHANGED <<bookings, mapped, faults>>

\* The process of an importer dies.
ImporterCrashes(i) ==
    /\ imp[i] # "idle"
    /\ faults < MaxFaults
    /\ faults' = faults + 1
    /\ Goto(i, "idle")
    /\ UNCHANGED <<rec, bookings, mapped, takeovers>>

\* processing_timeout passes, over a dead import or over one still under way.
ImportTimesOut ==
    /\ rec.status = "processing" /\ ~rec.late
    /\ IF Running THEN faults < MaxFaults /\ faults' = faults + 1 ELSE UNCHANGED faults
    /\ rec' = [rec EXCEPT !.late = TRUE]
    /\ UNCHANGED <<imp, bookings, mapped, takeovers>>

\* _recover_stuck, run by an importer between two batches.
RecoverStuck(i) ==
    /\ imp[i] = "idle"
    /\ rec.status = "processing" /\ rec.late
    /\ rec' = [rec EXCEPT !.status = "retry", !.due = TRUE, !.late = FALSE]
    /\ takeovers' = IF Running THEN takeovers + 1 ELSE takeovers
    /\ UNCHANGED <<imp, bookings, mapped, faults>>

BackoffElapses ==
    /\ rec.status = "retry" /\ ~rec.due
    /\ rec' = [rec EXCEPT !.due = TRUE]
    /\ UNCHANGED <<imp, bookings, mapped, takeovers, faults>>

\* retry_import and approve_and_import, whose own import is a Claim.
RetryImport ==
    /\ rec.status \in {"failed", "review", "retry"}
    /\ rec' = [rec EXCEPT !.status = "pending", !.retries = 0, !.due = TRUE]
    /\ UNCHANGED <<imp, bookings, mapped, takeovers, faults>>

DismissImport ==
    /\ rec.status \in {"review", "failed", "pending"}
    /\ rec' = [rec EXCEPT !.status = "dismissed"]
    /\ UNCHANGED <<imp, bookings, mapped, takeovers, faults>>

\* An operator maps the room type and the rate plan.
MapRoom ==
    /\ ~mapped
    /\ mapped' = TRUE
    /\ UNCHANGED <<rec, imp, bookings, takeovers, faults>>

Import(i) ==
    \/ Claim(i) \/ Check(i) \/ ReadMappings(i) \/ CreateBooking(i) \/ Mark(i)
    \/ \E permanent \in BOOLEAN : HandleFailure(i, permanent)

ImportNext ==
    \/ \E i \in Importers :
          \/ Import(i) \/ RecoverStuck(i) \/ ClaimReviewed(i)
          \/ ImportRaises(i) \/ ImporterCrashes(i)
    \/ ImportTimesOut \/ BackoffElapses
    \/ RetryImport \/ DismissImport \/ MapRoom

-----------------------------------------------------------------------------
(* Properties *)

\* "Atomic claim pattern prevents concurrent processing", "Duplicate prevention"
\* (core/import_bridge_service.py): crashes, errors after the booking was
\* written, recoveries, retries and operators never import a reservation twice;
\* only an import that outlives processing_timeout can, or one whose last write
\* took effect and raised, and whose failure is written when another has the row.
OneBooking == bookings.active + bookings.cancelled <= 1 + takeovers
=============================================================================
