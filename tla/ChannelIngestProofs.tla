------------------------- MODULE ChannelIngestProofs -------------------------
(***************************************************************************)
(* Proofs about ChannelIngest and the ImportBridge in it, for any number   *)
(* of rows, versions, handlers, importers, retries and faults.             *)
(***************************************************************************)
EXTENDS ChannelIngest, FiniteSetTheorems, TLAPS

USE DEF messages, lockVars

-----------------------------------------------------------------------------
(* The import: at most one booking for every turn at the row *)

Runners == {i \in Importers : imp[i] \notin {"idle", "late"}}
Creators == {i \in Importers : imp[i] \in {"map", "create"}}

\* One turn at the row is there to be claimed unless it is being processed.
Turn == IF rec.status = "processing" THEN 0 ELSE 1

\* The turns in use and the one to be had: only a takeover adds one.
RunnersBounded == Cardinality(Runners) + Turn <= 1 + takeovers

\* An importer that found no booking may still write one.
BookingsBounded == bookings.active + bookings.cancelled + Cardinality(Creators) <= 1 + takeovers

ImportInv ==
    /\ ImportTypeOK /\ RunnersBounded /\ BookingsBounded
    /\ rec.late => rec.status = "processing"

ImportRow == [status : Open \cup Closed \cup {"absent"}, retries : 0 .. MaxRetries,
              due : BOOLEAN, late : BOOLEAN]

LEMMA Counted ==
    /\ IsFiniteSet(Runners) /\ Cardinality(Runners) \in Nat
    /\ IsFiniteSet(Creators) /\ Cardinality(Creators) \in Nat
    /\ Cardinality(Creators) <= Cardinality(Runners)
<1>1. IsFiniteSet(Runners) /\ Creators \subseteq Runners
  BY ImportAssumption, FS_Subset DEF Runners, Creators
<1> QED
  BY <1>1, FS_Subset, FS_CardinalityType

\* Where an importer is at the row, and where it found no booking.
AtRow(pc) == pc \notin {"idle", "late"}
Creating(pc) == pc \in {"map", "create"}

LEMMA GotoCounts ==
    ASSUME ImportTypeOK, NEW i \in Importers, NEW pc \in Places, Goto(i, pc)
    PROVE  /\ imp' \in [Importers -> Places]
           /\ Cardinality(Runners)' \in Nat
           /\ Cardinality(Creators)' \in Nat
           /\ ~AtRow(imp[i]) /\ AtRow(pc) =>
                Cardinality(Runners)' = Cardinality(Runners) + 1
           /\ AtRow(imp[i]) /\ ~AtRow(pc) =>
                Cardinality(Runners)' = Cardinality(Runners) - 1
           /\ (AtRow(imp[i]) <=> AtRow(pc)) => Runners' = Runners
           /\ ~Creating(imp[i]) /\ Creating(pc) =>
                Cardinality(Creators)' = Cardinality(Creators) + 1
           /\ Creating(imp[i]) /\ ~Creating(pc) =>
                Cardinality(Creators)' = Cardinality(Creators) - 1
           /\ (Creating(imp[i]) <=> Creating(pc)) => Creators' = Creators
           /\ Cardinality(Creators)' <= Cardinality(Runners)'
<1>1. imp' = [imp EXCEPT ![i] = pc] /\ imp \in [Importers -> Places]
  BY DEF Goto, ImportTypeOK
<1>2. Runners' = IF AtRow(pc) THEN Runners \cup {i} ELSE Runners \ {i}
  BY <1>1 DEF Runners, AtRow
<1>3. Creators' = IF Creating(pc) THEN Creators \cup {i} ELSE Creators \ {i}
  BY <1>1 DEF Creators, Creating
<1>4. IsFiniteSet(Runners) /\ IsFiniteSet(Creators)
  BY Counted
<1>5. \A S : IsFiniteSet(S) /\ i \notin S => Cardinality(S \cup {i}) = Cardinality(S) + 1
  BY FS_AddElement
<1>6. \A S : IsFiniteSet(S) /\ i \in S => Cardinality(S \ {i}) = Cardinality(S) - 1
  BY FS_RemoveElement
<1>7. IsFiniteSet(Runners') /\ Creators' \subseteq Runners'
  <2>1. Creators' \subseteq Runners'
    BY DEF Creators, Runners
  <2>2. Runners' \subseteq Importers
    BY DEF Runners
  <2> QED
    BY <2>1, <2>2, ImportAssumption, FS_Subset
<1>8. /\ Cardinality(Runners') \in Nat /\ Cardinality(Creators') \in Nat
      /\ Cardinality(Creators') <= Cardinality(Runners')
  BY <1>7, FS_Subset, FS_CardinalityType
<1>9. imp' \in [Importers -> Places]
  BY <1>1
<1>10. /\ (i \in Runners <=> AtRow(imp[i]))
       /\ (i \in Creators <=> Creating(imp[i]))
  BY DEF Runners, Creators, AtRow, Creating
<1>11. ~AtRow(imp[i]) /\ AtRow(pc) => Cardinality(Runners') = Cardinality(Runners) + 1
  BY <1>2, <1>4, <1>5, <1>10
<1>12. AtRow(imp[i]) /\ ~AtRow(pc) => Cardinality(Runners') = Cardinality(Runners) - 1
  BY <1>2, <1>4, <1>6, <1>10
<1>13. (AtRow(imp[i]) <=> AtRow(pc)) => Runners' = Runners
  BY <1>2, <1>10
<1>14. ~Creating(imp[i]) /\ Creating(pc) => Cardinality(Creators') = Cardinality(Creators) + 1
  BY <1>3, <1>4, <1>5, <1>10
<1>15. Creating(imp[i]) /\ ~Creating(pc) => Cardinality(Creators') = Cardinality(Creators) - 1
  BY <1>3, <1>4, <1>6, <1>10
<1>16. (Creating(imp[i]) <=> Creating(pc)) => Creators' = Creators
  BY <1>3, <1>10
<1> QED
  BY <1>8, <1>9, <1>11, <1>12, <1>13, <1>14, <1>15, <1>16

LEMMA FlagEdits ==
    ASSUME NEW r \in ImportRow, NEW flag \in BOOLEAN
    PROVE  /\ [r EXCEPT !.due = flag] \in ImportRow
           /\ [r EXCEPT !.due = flag].status = r.status
           /\ [r EXCEPT !.due = flag].late = r.late
           /\ [r EXCEPT !.late = flag] \in ImportRow
           /\ [r EXCEPT !.late = flag].status = r.status
           /\ [r EXCEPT !.late = flag].late = flag
BY DEF ImportRow

\* What the writes of an import leave in its row.
RowStep(s) == rec' \in ImportRow /\ rec'.status = s /\ rec'.late = FALSE

LEMMA Numbers ==
    ASSUME ImportTypeOK
    PROVE  /\ rec \in ImportRow
           /\ takeovers \in Nat /\ faults \in Nat /\ MaxFaults \in Nat /\ faults <= MaxFaults
           /\ bookings.active \in Nat /\ bookings.cancelled \in Nat
BY ImportAssumption DEF ImportTypeOK, ImportRow

LEMMA WrittenRow ==
    ASSUME ImportTypeOK, NEW s \in Open \cup Closed, rec' = Written(s)
    PROVE  RowStep(s)
BY Numbers DEF Written, RowStep, ImportRow

LEMMA ClaimKeeps ==
    ASSUME ImportInv, NEW i \in Importers, Claim(i) \/ ClaimReviewed(i)
    PROVE  ImportInv'
<1>1. /\ imp[i] = "idle" /\ Goto(i, "check") /\ rec.status # "processing"
      /\ rec' = [rec EXCEPT !.status = "processing", !.late = FALSE]
      /\ UNCHANGED <<bookings, mapped, takeovers, faults>>
  BY DEF Claim, ClaimReviewed, Claimable
<1>2. ImportTypeOK
  BY DEF ImportInv
<1>3. RowStep("processing")
  BY <1>1, <1>2, Numbers DEF RowStep, ImportRow, Open, Closed
<1>4. /\ imp' \in [Importers -> Places]
      /\ Cardinality(Runners)' = Cardinality(Runners) + 1 /\ Creators' = Creators
  BY <1>1, <1>2, GotoCounts DEF Places, AtRow, Creating
<1>5. ImportTypeOK'
  BY <1>1, <1>2, <1>3, <1>4 DEF ImportTypeOK, RowStep, ImportRow
<1>6. RunnersBounded'
  BY <1>1, <1>2, <1>3, <1>4, Counted, Numbers DEF ImportInv, RunnersBounded, Turn, RowStep
<1>7. BookingsBounded'
  BY <1>1, <1>4 DEF ImportInv, BookingsBounded
<1> QED
  BY <1>3, <1>5, <1>6, <1>7 DEF ImportInv, RowStep

\* An import leaves the row and gives its turn back, or is cut off and does not.
LEMMA EndKeeps ==
    ASSUME ImportInv, NEW i \in Importers, AtRow(imp[i]),
           NEW pc \in {"idle", "late"}, Goto(i, pc),
           UNCHANGED <<bookings, mapped, takeovers>>,
           faults' = faults \/ (faults < MaxFaults /\ faults' = faults + 1),
           rec' = rec \/ \E s \in (Open \cup Closed) : RowStep(s)
    PROVE  ImportInv'
<1>1. ImportTypeOK
  BY DEF ImportInv
<1>2. /\ imp' \in [Importers -> Places]
      /\ Cardinality(Runners)' = Cardinality(Runners) - 1
      /\ Cardinality(Creators)' \in Nat
      /\ Cardinality(Creators)' <= Cardinality(Creators)
  <2>1. pc \in Places /\ ~AtRow(pc) /\ ~Creating(pc)
    BY DEF Places, AtRow, Creating
  <2>2. Creating(imp[i]) \/ Creators' = Creators
    BY <1>1, <2>1, GotoCounts
  <2>3. Cardinality(Creators)' <= Cardinality(Creators)
    BY <1>1, <2>1, <2>2, GotoCounts, Counted
  <2> QED
    BY <1>1, <2>1, <2>3, GotoCounts
<1>3. rec' \in ImportRow /\ (rec'.late => rec'.status = "processing")
  BY <1>1, Numbers DEF RowStep, ImportInv
<1>4. faults' \in 0 .. MaxFaults
  BY <1>1, Numbers
<1>5. ImportTypeOK'
  BY <1>1, <1>2, <1>3, <1>4 DEF ImportTypeOK, ImportRow
<1>6. RunnersBounded'
  <2>1. Turn' \in {0, 1} /\ (rec' = rec => Turn' = Turn) /\ Turn \in {0, 1}
    BY DEF Turn
  <2>2. Cardinality(Runners)' + Turn' <= Cardinality(Runners) + Turn
    BY <1>2, <2>1, Counted
  <2> QED
    BY <1>1, <1>2, <2>1, <2>2, Counted, Numbers DEF ImportInv, RunnersBounded
<1>7. BookingsBounded'
  BY <1>1, <1>2, Counted, Numbers DEF ImportInv, BookingsBounded
<1> QED
  BY <1>3, <1>5, <1>6, <1>7 DEF ImportInv

\* A step of an importer that stays at the row and does not write it.
LEMMA StayKeeps ==
    ASSUME ImportInv, NEW i \in Importers, NEW pc \in Places, Goto(i, pc),
           AtRow(imp[i]), AtRow(pc), Creating(pc) => Creating(imp[i]),
           UNCHANGED <<rec, bookings, mapped, takeovers>>,
           faults' = faults \/ (faults < MaxFaults /\ faults' = faults + 1)
    PROVE  ImportInv'
<1>1. ImportTypeOK
  BY DEF ImportInv
<1>2. /\ imp' \in [Importers -> Places] /\ Runners' = Runners
      /\ Cardinality(Creators)' \in Nat
      /\ Cardinality(Creators)' <= Cardinality(Creators)
  <2>1. (Creating(imp[i]) /\ ~Creating(pc)) \/ Creators' = Creators
    BY <1>1, GotoCounts
  <2> QED
    BY <1>1, <2>1, GotoCounts, Counted
<1>3. faults' \in 0 .. MaxFaults
  BY <1>1, Numbers
<1>4. BookingsBounded'
  BY <1>1, <1>2, Counted, Numbers DEF ImportInv, BookingsBounded
<1>5. ImportTypeOK' /\ RunnersBounded'
  BY <1>1, <1>2, <1>3 DEF ImportInv, ImportTypeOK, RunnersBounded, Turn
<1> QED
  BY <1>4, <1>5 DEF ImportInv

LEMMA CheckKeeps ==
    ASSUME ImportInv, NEW i \in Importers, Check(i)
    PROVE  ImportInv'
<1>1. ImportTypeOK /\ imp[i] = "check" /\ UNCHANGED <<rec, bookings, mapped, takeovers, faults>>
  BY DEF ImportInv, Check
<1>2. CASE BookingExists
  <2>1. Goto(i, "link")
    BY <1>2 DEF Check
  <2> QED
    BY <1>1, <2>1, StayKeeps DEF Places, AtRow, Creating
<1>3. CASE ~BookingExists
  <2>1. Goto(i, "map")
    BY <1>3 DEF Check
  <2>2. /\ imp' \in [Importers -> Places] /\ Runners' = Runners
        /\ Cardinality(Creators)' \in Nat /\ Cardinality(Creators)' <= Cardinality(Runners)'
    BY <1>1, <2>1, GotoCounts DEF Places, AtRow
  <2>3. bookings.active + bookings.cancelled = 0
    BY <1>1, <1>3, Numbers DEF BookingExists
  <2>4. Turn \in {0, 1}
    BY DEF Turn
  <2>5. BookingsBounded'
    BY <1>1, <2>2, <2>3, <2>4, Counted, Numbers DEF ImportInv, RunnersBounded, BookingsBounded
  <2> QED
    BY <1>1, <2>2, <2>5 DEF ImportInv, ImportTypeOK, RunnersBounded, Turn
<1> QED
  BY <1>2, <1>3

LEMMA MappingsKeep ==
    ASSUME ImportInv, NEW i \in Importers, ReadMappings(i)
    PROVE  ImportInv'
<1>1. ImportTypeOK /\ imp[i] = "map" /\ UNCHANGED <<bookings, mapped, takeovers, faults>>
  BY DEF ImportInv, ReadMappings
<1>2. CASE Goto(i, "create") /\ UNCHANGED rec
  BY <1>1, <1>2, StayKeeps DEF Places, AtRow, Creating
<1>3. CASE Goto(i, "idle") /\ rec' = Written("review")
  <2>1. RowStep("review") /\ "review" \in Closed
    BY <1>1, <1>3, WrittenRow DEF Closed
  <2> QED
    BY <1>1, <1>3, <2>1, EndKeeps DEF AtRow
<1> QED
  BY <1>2, <1>3 DEF ReadMappings

LEMMA CreateKeeps ==
    ASSUME ImportInv, NEW i \in Importers, CreateBooking(i)
    PROVE  ImportInv'
<1>1. /\ ImportTypeOK /\ imp[i] = "create" /\ UNCHANGED <<rec, mapped, takeovers, faults>>
      /\ Goto(i, "mark") /\ bookings' = [bookings EXCEPT !.active = @ + 1]
  BY DEF ImportInv, CreateBooking
<1>2. /\ imp' \in [Importers -> Places] /\ Runners' = Runners
      /\ Cardinality(Creators)' = Cardinality(Creators) - 1
  BY <1>1, GotoCounts DEF Places, AtRow, Creating
<1>3. /\ bookings'.active = bookings.active + 1 /\ bookings'.cancelled = bookings.cancelled
      /\ bookings' \in [active : Nat, cancelled : Nat]
  BY <1>1 DEF ImportTypeOK
<1>4. BookingsBounded'
  BY <1>1, <1>2, <1>3, Counted, Numbers DEF ImportInv, BookingsBounded
<1> QED
  BY <1>1, <1>2, <1>3, <1>4 DEF ImportInv, ImportTypeOK, RunnersBounded, Turn

LEMMA MarkKeeps ==
    ASSUME ImportInv, NEW i \in Importers, Mark(i)
    PROVE  ImportInv'
<1>1. ImportTypeOK /\ AtRow(imp[i])
  BY DEF ImportInv, Mark, AtRow
<1>2. PICK s \in {"imported", "duplicate"} : rec' = Written(s)
  BY DEF Mark
<1>3. RowStep(s)
  BY <1>1, <1>2, WrittenRow DEF Closed
<1> QED
  BY <1>1, <1>3, EndKeeps DEF Mark, Closed

\* A row that was being processed is given back, by one who is not at it: that
\* is a turn more, and counted if another importer runs.
LEMMA AwayKeeps ==
    ASSUME ImportInv, NEW i \in Importers, ~AtRow(imp[i]), Goto(i, "idle"),
           UNCHANGED <<bookings, mapped>>,
           faults' = faults \/ (faults < MaxFaults /\ faults' = faults + 1),
           \/ UNCHANGED <<rec, takeovers>>
           \/ /\ \E s \in (Open \cup Closed) \ {"processing"} : RowStep(s)
              /\ takeovers' = takeovers + 1
           \/ /\ \E s \in (Open \cup Closed) \ {"processing"} : RowStep(s)
              /\ takeovers' = takeovers
              /\ rec.status # "processing" \/ ~Running
    PROVE  ImportInv'
<1>1. ImportTypeOK
  BY DEF ImportInv
<1>2. imp' \in [Importers -> Places] /\ Runners' = Runners /\ Creators' = Creators
  BY <1>1, GotoCounts DEF Places, AtRow, Creating
<1>3. rec' \in ImportRow /\ (rec'.late => rec'.status = "processing")
  BY <1>1, Numbers DEF RowStep, ImportInv
<1>4. faults' \in 0 .. MaxFaults /\ takeovers' \in Nat /\ takeovers' >= takeovers
  BY <1>1, Numbers
<1>5. ImportTypeOK'
  BY <1>1, <1>2, <1>3, <1>4 DEF ImportTypeOK, ImportRow
<1>6. ~Running => Cardinality(Runners) = 0
  <2>1. ~Running => Runners = {}
    BY DEF Running, Runners
  <2> QED
    BY <2>1, FS_EmptySet
<1>7. Turn \in {0, 1} /\ Turn' \in {0, 1} /\ (rec' = rec => Turn' = Turn)
  BY DEF Turn
<1>8. rec.status # "processing" => Turn = 1
  BY DEF Turn
<1>9. RunnersBounded'
  BY <1>1, <1>2, <1>4, <1>6, <1>7, <1>8, Counted, Numbers DEF ImportInv, RunnersBounded
<1>10. BookingsBounded'
  BY <1>1, <1>2, <1>4, Counted, Numbers DEF ImportInv, BookingsBounded
<1> QED
  BY <1>3, <1>5, <1>9, <1>10 DEF ImportInv

LEMMA RaiseKeeps ==
    ASSUME ImportInv, NEW i \in Importers, ImportRaises(i)
    PROVE  ImportInv'
<1>1. /\ ImportTypeOK /\ AtRow(imp[i]) /\ UNCHANGED <<bookings, mapped, takeovers>>
      /\ faults < MaxFaults /\ faults' = faults + 1
  BY DEF ImportInv, ImportRaises, AtRow
<1>2. CASE Goto(i, "fail") /\ UNCHANGED rec
  BY <1>1, <1>2, StayKeeps DEF Places, AtRow, Creating
<1>3. ASSUME NEW s \in {"review", "imported", "duplicate"}, Goto(i, "late"), rec' = Written(s)
      PROVE  ImportInv'
  <2>1. RowStep(s) /\ s \in Closed
    BY <1>1, <1>3, WrittenRow DEF Closed
  <2> QED
    BY <1>1, <1>3, <2>1, EndKeeps
<1> QED
  BY <1>2, <1>3 DEF ImportRaises

LEMMA CrashKeeps ==
    ASSUME ImportInv, NEW i \in Importers, ImporterCrashes(i)
    PROVE  ImportInv'
<1>1. /\ ImportTypeOK /\ Goto(i, "idle") /\ faults < MaxFaults /\ faults' = faults + 1
      /\ UNCHANGED <<rec, bookings, mapped, takeovers>>
  BY DEF ImportInv, ImporterCrashes
<1>2. CASE AtRow(imp[i])
  BY <1>1, <1>2, EndKeeps
<1>3. CASE ~AtRow(imp[i])
  BY <1>1, <1>3, AwayKeeps
<1> QED
  BY <1>2, <1>3

LEMMA FailureKeeps ==
    ASSUME ImportInv, NEW i \in Importers, NEW permanent \in BOOLEAN, HandleFailure(i, permanent)
    PROVE  ImportInv'
<1> DEFINE n == IF rec.retries < MaxRetries THEN rec.retries + 1 ELSE MaxRetries
<1>1. n \in 0 .. MaxRetries
  BY ImportAssumption DEF ImportInv, ImportTypeOK
<1>2. \/ rec' = [rec EXCEPT !.status = "failed", !.retries = n, !.late = FALSE]
      \/ rec' = [rec EXCEPT !.status = "retry", !.retries = n, !.late = FALSE, !.due = FALSE]
  BY Zenon DEF HandleFailure
<1>3. /\ ImportTypeOK /\ imp[i] \in {"fail", "late"} /\ Goto(i, "idle")
      /\ UNCHANGED <<bookings, mapped, faults>>
      /\ takeovers' = IF imp[i] = "late" /\ rec.status = "processing" /\ Running
                      THEN takeovers + 1 ELSE takeovers
  BY DEF HandleFailure, ImportInv
<1> HIDE DEF n
<1>4. PICK s \in {"failed", "retry"} : RowStep(s)
  BY <1>1, <1>2, <1>3, Numbers DEF RowStep, ImportRow, Open, Closed
<1>5. CASE imp[i] = "fail"
  BY <1>3, <1>4, <1>5, EndKeeps DEF AtRow, Open, Closed
<1>6. CASE imp[i] = "late"
  <2>1. ~AtRow(imp[i]) /\ s # "processing" /\ s \in Open \cup Closed
    BY <1>6 DEF AtRow, Open, Closed
  <2> QED
    BY <1>3, <1>4, <1>6, <2>1, AwayKeeps
<1> QED
  BY <1>3, <1>5, <1>6

LEMMA TimeKeeps ==
    ASSUME ImportInv, ImportTimesOut \/ \E i \in Importers : RecoverStuck(i)
    PROVE  ImportInv'
<1>1. ImportTypeOK
  BY DEF ImportInv
<1>2. CASE ImportTimesOut
  <2>1. /\ rec.status = "processing" /\ rec' = [rec EXCEPT !.late = TRUE]
        /\ UNCHANGED <<imp, bookings, mapped, takeovers>>
        /\ faults' = faults \/ (faults < MaxFaults /\ faults' = faults + 1)
    BY <1>2 DEF ImportTimesOut
  <2>2. rec' \in ImportRow /\ rec'.status = "processing"
    BY <1>1, <2>1, Numbers, FlagEdits
  <2>3. faults' \in 0 .. MaxFaults
    BY <1>1, <2>1, Numbers
  <2>4. Runners' = Runners /\ Creators' = Creators
    BY <2>1 DEF Runners, Creators
  <2> QED
    BY <1>1, <2>1, <2>2, <2>3, <2>4
    DEF ImportInv, ImportTypeOK, RunnersBounded, BookingsBounded, Turn, ImportRow
<1>3. ASSUME NEW i \in Importers, RecoverStuck(i) PROVE ImportInv'
  <2>1. /\ rec.status = "processing" /\ imp[i] = "idle"
        /\ rec' = [rec EXCEPT !.status = "retry", !.due = TRUE, !.late = FALSE]
        /\ takeovers' = IF Running THEN takeovers + 1 ELSE takeovers
        /\ UNCHANGED <<imp, bookings, mapped, faults>>
    BY <1>3 DEF RecoverStuck
  <2>2. RowStep("retry")
    BY <1>1, <2>1, Numbers DEF RowStep, ImportRow, Open, Closed
  <2>3. Goto(i, "idle") /\ ~AtRow(imp[i])
    BY <1>1, <2>1 DEF Goto, AtRow, ImportTypeOK
  <2> QED
    BY <1>1, <2>1, <2>2, <2>3, AwayKeeps DEF Open
<1> QED
  BY <1>2, <1>3

\* The row changes, but neither its turn nor who is at it.
LEMMA RowKeeps ==
    ASSUME ImportInv, rec' \in ImportRow,
           rec'.status = "processing" <=> rec.status = "processing",
           rec'.late => rec.late,
           UNCHANGED <<imp, takeovers>>, mapped' \in BOOLEAN,
           bookings' \in [active : Nat, cancelled : Nat],
           bookings'.active + bookings'.cancelled = bookings.active + bookings.cancelled,
           faults' = faults \/ (faults < MaxFaults /\ faults' = faults + 1)
    PROVE  ImportInv'
<1>1. ImportTypeOK
  BY DEF ImportInv
<1>2. Runners' = Runners /\ Creators' = Creators
  BY DEF Runners, Creators
<1>3. faults' \in 0 .. MaxFaults
  BY <1>1, Numbers
<1>4. RunnersBounded' /\ BookingsBounded'
  BY <1>2 DEF ImportInv, RunnersBounded, BookingsBounded, Turn
<1> QED
  BY <1>1, <1>3, <1>4 DEF ImportInv, ImportTypeOK, ImportRow

LEMMA OperatorKeeps ==
    ASSUME ImportInv, BackoffElapses \/ RetryImport \/ DismissImport \/ MapRoom
    PROVE  ImportInv'
<1>1. ImportTypeOK /\ UNCHANGED <<imp, bookings, takeovers, faults>>
  BY DEF ImportInv, BackoffElapses, RetryImport, DismissImport, MapRoom
<1>2. CASE BackoffElapses
  <2>1. rec' = [rec EXCEPT !.due = TRUE] /\ mapped' = mapped
    BY <1>2 DEF BackoffElapses
  <2>2. rec' \in ImportRow /\ rec'.status = rec.status /\ rec'.late = rec.late
    BY <1>1, <2>1, Numbers, FlagEdits
  <2> QED
    BY <1>1, <2>1, <2>2, RowKeeps DEF ImportTypeOK
<1>3. CASE RetryImport
  <2>1. /\ rec' = [rec EXCEPT !.status = "pending", !.retries = 0, !.due = TRUE]
        /\ rec.status # "processing" /\ mapped' = mapped
    BY <1>3 DEF RetryImport
  <2>2. 0 \in 0 .. MaxRetries
    BY ImportAssumption
  <2>3. rec' \in ImportRow /\ rec'.status = "pending" /\ rec'.late = rec.late
    BY <1>1, <2>1, <2>2, Numbers DEF ImportRow, Open
  <2> QED
    BY <1>1, <2>1, <2>3, RowKeeps DEF ImportTypeOK
<1>4. CASE DismissImport
  <2>1. /\ rec' = [rec EXCEPT !.status = "dismissed"]
        /\ rec.status # "processing" /\ mapped' = mapped
    BY <1>4 DEF DismissImport
  <2>2. rec' \in ImportRow /\ rec'.status = "dismissed" /\ rec'.late = rec.late
    BY <1>1, <2>1, Numbers DEF ImportRow, Closed
  <2> QED
    BY <1>1, <2>1, <2>2, RowKeeps DEF ImportTypeOK
<1>5. CASE MapRoom
  BY <1>1, <1>5, Numbers, RowKeeps DEF MapRoom, ImportTypeOK
<1> QED
  BY <1>2, <1>3, <1>4, <1>5

LEMMA ImportInvNext ==
    ASSUME ImportInv, ImportNext
    PROVE  ImportInv' /\ bookings'.cancelled = bookings.cancelled
<1>1. ImportInv'
  BY ClaimKeeps, CheckKeeps, MappingsKeep, CreateKeeps, MarkKeeps, RaiseKeeps, CrashKeeps,
     FailureKeeps, TimeKeeps, OperatorKeeps
  DEF ImportNext, Import
<1>2. bookings'.cancelled = bookings.cancelled
  BY DEF ImportNext, Import, Claim, ClaimReviewed, Check, ReadMappings, CreateBooking, Mark,
         HandleFailure, RecoverStuck, ImporterCrashes, ImportRaises, ImportTimesOut, BackoffElapses, RetryImport,
         DismissImport, MapRoom, ImportInv, ImportTypeOK
<1> QED
  BY <1>1, <1>2

LEMMA ImportInvInit == ImportInit => ImportInv
<1> SUFFICES ASSUME ImportInit PROVE ImportInv
  OBVIOUS
<1>1. Runners = {} /\ Creators = {}
  BY DEF ImportInit, Runners, Creators
<1>2. ImportTypeOK
  <2>1. NoRecord \in ImportRow
    BY ImportAssumption DEF NoRecord, ImportRow
  <2>2. [active |-> 0, cancelled |-> 0] \in [active : Nat, cancelled : Nat] /\ 0 \in 0 .. MaxFaults
    BY ImportAssumption
  <2> QED
    BY <2>1, <2>2 DEF ImportInit, ImportTypeOK, ImportRow, Places
<1> QED
  BY <1>1, <1>2, FS_EmptySet
  DEF ImportInit, ImportInv, RunnersBounded, BookingsBounded, Turn, NoRecord

-----------------------------------------------------------------------------
(* The handlers *)

HandlerState == [pc : Steps, row : Rows \cup {NoRow}, replay : BOOLEAN,
                 seen : Lineages, held : BOOLEAN, out : RawStatuses]

IngestTyped ==
    /\ says \in [Versions -> States]
    /\ stamp \in [Versions -> Nat]
    /\ version \in [Rows -> Versions]
    /\ raw \in [Rows -> [status : RawStatuses, replay : BOOLEAN]]
    /\ lineage \in Lineages
    /\ lock \in [owner : Handlers \cup {NoHandler}, live : BOOLEAN]
    /\ hd \in [Handlers -> HandlerState]

\* h read that there is no lineage yet, and may still write a fresh one.
Early(h) ==
    \/ hd[h].pc = "decide" /\ hd[h].seen = NoLineage
    \/ hd[h].pc \in {"find", "insert", "overwrite"}

EarlyOnes == {h \in Handlers : Early(h)}

\* Every fresh document uses up a handler that was early: nobody who finds the
\* lineage becomes one.
GenBounded ==
    lineage # NoLineage => lineage.gen + Cardinality(EarlyOnes) <= Cardinality(Handlers)

LockOwned == lock.live => lock.owner \in Handlers

\* A version that cancels, and shares its event id with no other message.
Cancels(v) == says[v] = "cancelled" /\ OwnEvent(v)

LEMMA CancelsKept ==
    ASSUME UNCHANGED <<says, stamp>>, NEW v
    PROVE  Cancels(v)' <=> Cancels(v)
BY DEF Cancels, OwnEvent

\* A cancellation goes only through the steps that look for a cancelled booking.
HandlerOK(h) ==
    /\ hd[h].pc \notin {"idle", "release"} => hd[h].row \in Rows
    /\ hd[h].pc \in Locked => hd[h].seen # NoLineage
    /\ hd[h].pc \in {"update", "find", "insert", "overwrite", "import"} => Says(h) # "cancelled"
    /\ hd[h].pc = "finish" /\ hd[h].out \in {"processed", "duplicate"} /\ Cancels(Ver(h)) =>
          bookings.cancelled > 0

RowsTrue ==
    \A r \in Rows :
        Cancels(version[r]) /\ raw[r].status \in {"processed", "duplicate"} =>
            bookings.cancelled > 0

IInv == /\ ImportInv /\ IngestTyped /\ LockOwned /\ RowsTrue /\ GenBounded
        /\ \A h \in Handlers : HandlerOK(h)

Frame(h) == \A g \in Handlers \ {h} : hd'[g] = hd[g]

LEMMA IInvInit == Init => IInv
<1> SUFFICES ASSUME Init PROVE IInv
  OBVIOUS
<1> USE IngestAssumption
<1>1. NoLineage \in Lineages /\ Idle \in HandlerState
  BY DEF Lineages, HandlerState, Idle, Steps, RawStatuses
<1>2. IngestTyped
  <2>1. stamp \in [Versions -> Nat]
    BY DEF Init, Versions
  <2> QED
    BY <1>1, <2>1 DEF Init, IngestTyped, RawStatuses, Unlocked, NoLineage
<1>3. ImportInv
  BY ImportInvInit DEF Init
<1>4. LockOwned /\ RowsTrue /\ GenBounded
  BY DEF Init, LockOwned, RowsTrue, GenBounded, Unlocked
<1>5. \A h \in Handlers : HandlerOK(h)
  BY DEF Init, HandlerOK, Idle, Locked
<1> QED
  BY <1>2, <1>3, <1>4, <1>5 DEF IInv

LEMMA ImportStutters ==
    ASSUME ImportInv, UNCHANGED importVars
    PROVE  ImportInv' /\ bookings' = bookings /\ bookings.cancelled \in Nat
BY DEF ImportInv, ImportTypeOK, RunnersBounded, BookingsBounded, Turn,
       Runners, Creators, importVars

LEMMA OthersOK ==
    ASSUME IInv, NEW h \in Handlers, Frame(h), HandlerOK(h)', UNCHANGED <<says, stamp, version>>,
           bookings'.cancelled \in Nat, bookings'.cancelled >= bookings.cancelled
    PROVE  \A g \in Handlers : HandlerOK(g)'
<1> SUFFICES ASSUME NEW g \in Handlers, g # h PROVE HandlerOK(g)'
  OBVIOUS
<1>1. hd'[g] = hd[g]
  BY DEF Frame
<1>2. HandlerOK(g)
  BY DEF IInv
<1>3. bookings.cancelled \in Nat
  BY DEF IInv, ImportInv, ImportTypeOK
<1>4. bookings.cancelled > 0 => bookings'.cancelled > 0
  BY <1>3
<1> QED
  BY <1>1, <1>2, <1>4, CancelsKept DEF HandlerOK, Says, Ver

LEMMA EarlyCounted ==
    ASSUME IInv, NEW h \in Handlers, Frame(h)
    PROVE  /\ Cardinality(EarlyOnes) \in Nat /\ Cardinality(EarlyOnes)' \in Nat
           /\ (Early(h)' => Early(h)) => Cardinality(EarlyOnes)' <= Cardinality(EarlyOnes)
           /\ Early(h) /\ ~Early(h)' => Cardinality(EarlyOnes)' <= Cardinality(EarlyOnes) - 1
           /\ Early(h) => Cardinality(EarlyOnes) >= 1
           /\ ~Early(h)' => Cardinality(EarlyOnes)' <= Cardinality(Handlers) - 1
           /\ Cardinality(Handlers) \in Nat /\ Cardinality(EarlyOnes) <= Cardinality(Handlers)
<1>1. \A g \in Handlers \ {h} : Early(g)' <=> Early(g)
  BY DEF Frame, Early
<1>2. /\ EarlyOnes \subseteq Handlers /\ EarlyOnes' \subseteq Handlers
      /\ IsFiniteSet(EarlyOnes) /\ IsFiniteSet(EarlyOnes') /\ IsFiniteSet(Handlers)
  BY IngestAssumption, FS_Subset DEF EarlyOnes
<1>3. /\ Cardinality(EarlyOnes) \in Nat /\ Cardinality(EarlyOnes') \in Nat
      /\ Cardinality(Handlers) \in Nat /\ Cardinality(EarlyOnes) <= Cardinality(Handlers)
  BY <1>2, FS_CardinalityType, FS_Subset
<1>4. (Early(h)' => Early(h)) => Cardinality(EarlyOnes') <= Cardinality(EarlyOnes)
  <2>1. (Early(h)' => Early(h)) => EarlyOnes' \subseteq EarlyOnes
    BY <1>1 DEF EarlyOnes
  <2> QED
    BY <1>2, <2>1, FS_Subset
<1>5. Early(h) /\ ~Early(h)' => Cardinality(EarlyOnes') <= Cardinality(EarlyOnes) - 1
  <2> SUFFICES ASSUME Early(h), ~Early(h)' 
               PROVE  Cardinality(EarlyOnes') <= Cardinality(EarlyOnes) - 1
    OBVIOUS
  <2>1. EarlyOnes' \subseteq EarlyOnes \ {h} /\ h \in EarlyOnes
    BY <1>1 DEF EarlyOnes
  <2>2. IsFiniteSet(EarlyOnes \ {h}) /\ Cardinality(EarlyOnes \ {h}) = Cardinality(EarlyOnes) - 1
    BY <1>2, <2>1, FS_RemoveElement
  <2> QED
    BY <2>1, <2>2, FS_Subset
<1>6. Early(h) => Cardinality(EarlyOnes) >= 1
  <2>1. Early(h) => EarlyOnes # {}
    BY DEF EarlyOnes
  <2>2. Cardinality(EarlyOnes) = 0 <=> EarlyOnes = {}
    BY <1>2, FS_EmptySet
  <2> QED
    BY <1>3, <2>1, <2>2
<1>7. ~Early(h)' => Cardinality(EarlyOnes') <= Cardinality(Handlers) - 1
  <2>1. ~Early(h)' => EarlyOnes' \subseteq Handlers \ {h}
    BY DEF EarlyOnes
  <2>2. IsFiniteSet(Handlers \ {h}) /\ Cardinality(Handlers \ {h}) = Cardinality(Handlers) - 1
    BY <1>2, FS_RemoveElement
  <2> QED
    BY <2>1, <2>2, FS_Subset
<1> QED
  BY <1>3, <1>4, <1>5, <1>6, <1>7

LEMMA GenKept ==
    ASSUME IInv, NEW h \in Handlers, Frame(h), Early(h)' => Early(h), lineage' = lineage
    PROVE  GenBounded'
<1>1. Cardinality(EarlyOnes)' <= Cardinality(EarlyOnes)
  BY EarlyCounted
<1>2. lineage # NoLineage => lineage.gen \in Nat
  BY DEF IInv, IngestTyped, Lineages
<1> QED
  BY <1>1, <1>2, EarlyCounted DEF IInv, GenBounded

\* A step of h that writes nothing but where h is.
LEMMA QuietKeeps ==
    ASSUME IInv, NEW h \in Handlers, hd' \in [Handlers -> HandlerState], Frame(h), HandlerOK(h)',
           Early(h)' => Early(h), UNCHANGED <<says, stamp, version, raw, lineage, importVars>>,
           lock' \in [owner : Handlers \cup {NoHandler}, live : BOOLEAN], LockOwned'
    PROVE  IInv'
<1>1. ImportInv'
  BY DEF IInv, ImportInv, ImportTypeOK, RunnersBounded, BookingsBounded, Turn,
         Runners, Creators, importVars
<1>2. IngestTyped'
  BY DEF IInv, IngestTyped
<1>3. RowsTrue'
  BY DEF IInv, RowsTrue, Cancels, OwnEvent, importVars
<1>4. GenBounded'
  BY GenKept
<1>5. \A g \in Handlers : HandlerOK(g)'
  <2>1. bookings'.cancelled = bookings.cancelled /\ bookings.cancelled \in Nat
    BY DEF importVars, IInv, ImportInv, ImportTypeOK
  <2> QED
    BY <2>1, OthersOK
<1> QED
  BY <1>1, <1>2, <1>3, <1>4, <1>5 DEF IInv

LEMMA ToEffect ==
    ASSUME IngestTyped, NEW h \in Handlers, NEW pc \in Steps, To(h, pc)
    PROVE  /\ hd' \in [Handlers -> HandlerState] /\ Frame(h)
           /\ hd'[h].pc = pc /\ hd'[h].row = hd[h].row /\ hd'[h].seen = hd[h].seen
           /\ hd'[h].out = hd[h].out
<1>1. hd' = [hd EXCEPT ![h].pc = pc] /\ hd \in [Handlers -> HandlerState]
  BY DEF To, IngestTyped
<1> QED
  BY <1>1 DEF HandlerState, Frame

LEMMA ToFinishEffect ==
    ASSUME IngestTyped, NEW h \in Handlers, NEW out \in RawStatuses, ToFinish(h, out)
    PROVE  /\ hd' \in [Handlers -> HandlerState] /\ Frame(h)
           /\ hd'[h].pc = "finish" /\ hd'[h].row = hd[h].row /\ hd'[h].out = out
<1>1. hd \in [Handlers -> HandlerState] /\ NoLineage \in Lineages
  BY DEF IngestTyped, Lineages
<1>2. [pc |-> "finish", row |-> hd[h].row, replay |-> FALSE,
       seen |-> IF hd[h].held THEN hd[h].seen ELSE NoLineage,
       held |-> hd[h].held, out |-> out] \in HandlerState
  BY <1>1 DEF HandlerState, Steps
<1> QED
  BY <1>1, <1>2 DEF ToFinish, HandlerState, Frame

\* The steps that note what was read, what was decided, and that the lock is held.
LEMMA ReadEffect ==
    ASSUME hd \in [Handlers -> HandlerState], NEW h \in Handlers, NEW pc \in Steps,
           NEW seen \in Lineages, NEW flag \in BOOLEAN,
           hd' = [hd EXCEPT ![h].pc = pc, ![h].seen = seen, ![h].replay = flag]
    PROVE  /\ hd' \in [Handlers -> HandlerState] /\ Frame(h)
           /\ hd'[h].pc = pc /\ hd'[h].row = hd[h].row /\ hd'[h].seen = seen
<1>1. DOMAIN hd' = Handlers
  OBVIOUS
<1>2. \A g \in Handlers \ {h} : hd'[g] = hd[g]
  OBVIOUS
<1>3. hd'[h] = [pc |-> pc, row |-> hd[h].row, replay |-> flag, seen |-> seen,
              held |-> hd[h].held, out |-> hd[h].out]
  BY DEF HandlerState
<1>4. hd'[h] \in HandlerState
  BY <1>3 DEF HandlerState
<1>5. hd' \in [Handlers -> HandlerState]
  BY <1>1, <1>2, <1>4
<1> QED
  BY <1>2, <1>3, <1>5 DEF Frame

LEMMA DecideEffect ==
    ASSUME hd \in [Handlers -> HandlerState], NEW h \in Handlers, NEW pc \in Steps,
           NEW seen \in Lineages, NEW out \in RawStatuses,
           hd' = [hd EXCEPT ![h].pc = pc, ![h].out = out, ![h].seen = seen]
    PROVE  /\ hd' \in [Handlers -> HandlerState] /\ Frame(h)
           /\ hd'[h].pc = pc /\ hd'[h].row = hd[h].row /\ hd'[h].out = out
<1>1. DOMAIN hd' = Handlers
  OBVIOUS
<1>2. \A g \in Handlers \ {h} : hd'[g] = hd[g]
  OBVIOUS
<1>3. hd'[h] = [pc |-> pc, row |-> hd[h].row, replay |-> hd[h].replay, seen |-> seen,
              held |-> hd[h].held, out |-> out]
  BY DEF HandlerState
<1>4. hd'[h] \in HandlerState
  BY <1>3 DEF HandlerState
<1>5. hd' \in [Handlers -> HandlerState]
  BY <1>1, <1>2, <1>4
<1> QED
  BY <1>2, <1>3, <1>5 DEF Frame

LEMMA LockEffect ==
    ASSUME hd \in [Handlers -> HandlerState], NEW h \in Handlers, NEW pc \in Steps,
           NEW flag \in BOOLEAN, NEW out \in RawStatuses,
           hd' = [hd EXCEPT ![h].pc = pc, ![h].held = flag, ![h].out = out]
    PROVE  /\ hd' \in [Handlers -> HandlerState] /\ Frame(h)
           /\ hd'[h].pc = pc /\ hd'[h].row = hd[h].row /\ hd'[h].seen = hd[h].seen
<1>1. DOMAIN hd' = Handlers
  OBVIOUS
<1>2. \A g \in Handlers \ {h} : hd'[g] = hd[g]
  OBVIOUS
<1>3. hd'[h] = [pc |-> pc, row |-> hd[h].row, replay |-> hd[h].replay, seen |-> hd[h].seen,
              held |-> flag, out |-> out]
  BY DEF HandlerState
<1>4. hd'[h] \in HandlerState
  BY <1>3 DEF HandlerState
<1>5. hd' \in [Handlers -> HandlerState]
  BY <1>1, <1>2, <1>4
<1> QED
  BY <1>2, <1>3, <1>5 DEF Frame

LEMMA TakeUpKeeps ==
    ASSUME IInv, NEW h \in Handlers, NEW r \in Rows, Start(h, r)
    PROVE  IInv'
<1>1. /\ hd' = [hd EXCEPT ![h] = [Idle EXCEPT !.pc = "dedup", !.row = r, !.replay = raw[r].replay]]
      /\ UNCHANGED <<says, stamp, version, raw, lineage, lock, importVars>>
  BY DEF Start
<1>2. [Idle EXCEPT !.pc = "dedup", !.row = r, !.replay = raw[r].replay] \in HandlerState
  <2>1. raw[r].replay \in BOOLEAN
    BY DEF IInv, IngestTyped
  <2>2. \A flag \in BOOLEAN : [Idle EXCEPT !.pc = "dedup", !.row = r, !.replay = flag] \in HandlerState
    BY DEF HandlerState, Idle, Steps, RawStatuses, Lineages
  <2> QED
    BY <2>1, <2>2
<1>3. hd' \in [Handlers -> HandlerState] /\ Frame(h)
  BY <1>1, <1>2 DEF IInv, IngestTyped, Frame
<1>4. hd'[h].pc = "dedup" /\ hd'[h].row = r
  BY <1>1 DEF IInv, IngestTyped, Idle
<1>5. HandlerOK(h)' /\ ~Early(h)'
  BY <1>4 DEF HandlerOK, Early, Locked
<1>6. lock' \in [owner : Handlers \cup {NoHandler}, live : BOOLEAN] /\ LockOwned'
  BY <1>1 DEF IInv, IngestTyped, LockOwned
<1> QED
  BY <1>1, <1>3, <1>5, <1>6, QuietKeeps

\* A row becomes pending again.
LEMMA ReplayKeeps ==
    ASSUME IInv, NEW r \in Rows,
           ReplayReset(r) \/ \E h \in Handlers : ReplayFailed(h, r)
    PROVE  IInv'
<1>1. /\ raw' \in [Rows -> [status : RawStatuses, replay : BOOLEAN]]
      /\ \A q \in Rows : raw'[q].status \in {raw[q].status, "pending"}
      /\ UNCHANGED <<says, stamp, version, lineage, lock, importVars>>
  <2>1. raw \in [Rows -> [status : RawStatuses, replay : BOOLEAN]] /\ "pending" \in RawStatuses
    BY DEF IInv, IngestTyped, RawStatuses
  <2>2. \/ raw' = [raw EXCEPT ![r].status = "pending"]
        \/ raw' = [raw EXCEPT ![r] = [status |-> "pending", replay |-> TRUE]]
    BY DEF ReplayReset, ReplayFailed
  <2>3. UNCHANGED <<says, stamp, version, lineage, lock, importVars>>
    BY DEF ReplayReset, ReplayFailed
  <2>4. raw' \in [Rows -> [status : RawStatuses, replay : BOOLEAN]]
    <3>1. CASE raw' = [raw EXCEPT ![r].status = "pending"]
      BY <2>1, <3>1
    <3>2. CASE raw' = [raw EXCEPT ![r] = [status |-> "pending", replay |-> TRUE]]
      <4>1. [status |-> "pending", replay |-> TRUE] \in [status : RawStatuses, replay : BOOLEAN]
        BY <2>1
      <4> QED
        BY <2>1, <3>2, <4>1
    <3> QED
      BY <2>2, <3>1, <3>2
  <2>5. \A q \in Rows : raw'[q].status \in {raw[q].status, "pending"}
    BY <2>1, <2>2
  <2> QED
    BY <2>3, <2>4, <2>5
<1>2. RowsTrue'
  BY <1>1 DEF IInv, RowsTrue, Cancels, OwnEvent, importVars
<1>3. ImportInv'
  BY <1>1 DEF IInv, ImportInv, ImportTypeOK, RunnersBounded, BookingsBounded, Turn,
              Runners, Creators, importVars
<1>4. LockOwned'
  BY <1>1 DEF IInv, LockOwned
<1>5. CASE ReplayReset(r)
  <2>1. hd' = hd
    BY <1>5 DEF ReplayReset
  <2> QED
    BY <1>1, <1>2, <1>3, <1>4, <2>1, CancelsKept
    DEF IInv, IngestTyped, GenBounded, EarlyOnes, Early, HandlerOK, Says, Ver, importVars
<1>6. ASSUME NEW h \in Handlers, ReplayFailed(h, r) PROVE IInv'
  <2>1. hd' = [hd EXCEPT ![h] = [Idle EXCEPT !.pc = "dedup", !.row = r, !.replay = TRUE]]
    BY <1>6 DEF ReplayFailed
  <2>2. [Idle EXCEPT !.pc = "dedup", !.row = r, !.replay = TRUE] \in HandlerState
    BY DEF HandlerState, Idle, Steps, RawStatuses, Lineages
  <2>3. hd' \in [Handlers -> HandlerState] /\ Frame(h)
    BY <2>1, <2>2 DEF IInv, IngestTyped, Frame
  <2>4. hd'[h].pc = "dedup" /\ hd'[h].row = r
    BY <2>1 DEF IInv, IngestTyped, Idle
  <2>5. HandlerOK(h)' /\ ~Early(h)'
    BY <2>4 DEF HandlerOK, Early, Locked
  <2>6. GenBounded'
    BY <1>1, <2>3, <2>5, GenKept
  <2>7. bookings' = bookings /\ bookings.cancelled \in Nat
    BY <1>1 DEF importVars, IInv, ImportInv, ImportTypeOK
  <2>8. \A g \in Handlers : HandlerOK(g)'
    BY <1>1, <2>3, <2>5, <2>7, OthersOK
  <2> QED
    BY <1>1, <1>2, <1>3, <1>4, <2>3, <2>6, <2>8 DEF IInv, IngestTyped
<1> QED
  BY <1>5, <1>6

LEMMA DedupKeeps ==
    ASSUME IInv, NEW h \in Handlers, Dedup(h)
    PROVE  IInv'
<1>1. /\ hd[h].pc = "dedup" /\ hd[h].row \in Rows
      /\ UNCHANGED <<says, stamp, version, raw, lineage, lock, importVars>>
  BY DEF Dedup, IInv, HandlerOK
<1>2. lock' \in [owner : Handlers \cup {NoHandler}, live : BOOLEAN] /\ LockOwned'
  BY <1>1 DEF IInv, IngestTyped, LockOwned
<1>3. CASE /\ ToFinish(h, "duplicate")
           /\ \E r \in Rows : /\ stamp[version[r]] = stamp[Ver(h)]
                             /\ raw[r].status \in {"processed", "duplicate"}
  <2>1. /\ hd' \in [Handlers -> HandlerState] /\ Frame(h)
        /\ hd'[h].pc = "finish" /\ hd'[h].row = hd[h].row
    BY <1>3, ToFinishEffect DEF IInv, RawStatuses
  <2>2. Cancels(Ver(h)) => bookings.cancelled > 0
    <3>1. PICK r \in Rows : /\ stamp[version[r]] = stamp[Ver(h)]
                           /\ raw[r].status \in {"processed", "duplicate"}
      BY <1>3
    <3>2. version[r] \in Versions
      BY DEF IInv, IngestTyped
    <3>3. Cancels(Ver(h)) => Cancels(version[r])
      BY <3>1, <3>2 DEF Cancels, OwnEvent
    <3> QED
      BY <3>1, <3>3 DEF IInv, RowsTrue
  <2>3. HandlerOK(h)' /\ ~Early(h)'
    BY <1>1, <2>1, <2>2, CancelsKept DEF HandlerOK, Early, Locked, Ver, importVars
  <2> QED
    BY <1>1, <1>2, <2>1, <2>3, QuietKeeps
<1>4. CASE To(h, "read")
  <2>1. /\ hd' \in [Handlers -> HandlerState] /\ Frame(h)
        /\ hd'[h].pc = "read" /\ hd'[h].row = hd[h].row
    BY <1>4, ToEffect DEF IInv, Steps
  <2>2. HandlerOK(h)' /\ ~Early(h)'
    BY <1>1, <2>1 DEF HandlerOK, Early, Locked
  <2> QED
    BY <1>1, <1>2, <2>1, <2>2, QuietKeeps
<1> QED
  BY <1>3, <1>4 DEF Dedup

LEMMA ReadKeeps ==
    ASSUME IInv, NEW h \in Handlers, ReadLineage(h)
    PROVE  IInv'
<1>1. /\ hd[h].pc = "read" /\ hd[h].row \in Rows
      /\ UNCHANGED <<says, stamp, version, raw, lineage, lock, importVars>>
  BY DEF ReadLineage, IInv, HandlerOK
<1>2. lock' \in [owner : Handlers \cup {NoHandler}, live : BOOLEAN] /\ LockOwned'
  BY <1>1 DEF IInv, IngestTyped, LockOwned
<1>3. CASE ToFinish(h, "stale")
  <2>1. /\ hd' \in [Handlers -> HandlerState] /\ Frame(h)
        /\ hd'[h].pc = "finish" /\ hd'[h].row = hd[h].row /\ hd'[h].out = "stale"
    BY <1>3, ToFinishEffect DEF IInv, RawStatuses
  <2>2. HandlerOK(h)' /\ ~Early(h)'
    BY <1>1, <2>1 DEF HandlerOK, Early, Locked
  <2> QED
    BY <1>1, <1>2, <2>1, <2>2, QuietKeeps
<1>4. CASE hd' = [hd EXCEPT ![h].pc = "decide", ![h].seen = lineage, ![h].replay = FALSE]
  <2>1. /\ hd' \in [Handlers -> HandlerState] /\ Frame(h)
        /\ hd'[h].pc = "decide" /\ hd'[h].row = hd[h].row /\ hd'[h].seen = lineage
    <3>1. hd \in [Handlers -> HandlerState] /\ lineage \in Lineages /\ "decide" \in Steps
      BY DEF IInv, IngestTyped, Steps
    <3> QED
      BY <1>4, <3>1, ReadEffect
  <2>3. HandlerOK(h)'
    BY <1>1, <2>1 DEF HandlerOK, Locked
  <2>4. GenBounded'
    <3>1. CASE lineage = NoLineage
      BY <1>1, <3>1 DEF GenBounded
    <3>2. CASE lineage # NoLineage
      <4>1. ~Early(h)'
        BY <2>1, <3>2 DEF Early
      <4> QED
        BY <1>1, <2>1, <4>1, GenKept
    <3> QED
      BY <3>1, <3>2
  <2>5. bookings' = bookings /\ bookings.cancelled \in Nat
    BY <1>1 DEF importVars, IInv, ImportInv, ImportTypeOK
  <2>6. \A g \in Handlers : HandlerOK(g)'
    BY <1>1, <2>1, <2>3, <2>5, OthersOK
  <2>7. ImportInv'
    BY <1>1, ImportStutters DEF IInv
  <2>8. RowsTrue'
    BY <1>1 DEF IInv, RowsTrue, Cancels, OwnEvent, importVars
  <2> QED
    BY <1>1, <1>2, <2>1, <2>4, <2>6, <2>7, <2>8 DEF IInv, IngestTyped
<1> QED
  BY <1>3, <1>4 DEF ReadLineage

LEMMA DecidedKeeps ==
    ASSUME IInv, NEW h \in Handlers, hd[h].pc = "decide",
           NEW pc \in {"find", "import", "finish"}, NEW out \in {"unmapped", "failed", "processed"},
           pc = "finish" => out = "failed",
           pc # "finish" => Says(h) # "cancelled",
           pc = "find" => hd[h].seen = NoLineage,
           hd' = [hd EXCEPT ![h].pc = pc, ![h].out = out, ![h].seen = NoLineage],
           UNCHANGED <<says, stamp, version, raw, lineage, lock, importVars>>
    PROVE  IInv'
<1>1. hd \in [Handlers -> HandlerState] /\ pc \in Steps /\ out \in RawStatuses /\ NoLineage \in Lineages
  BY DEF IInv, IngestTyped, Steps, RawStatuses, Lineages
<1>2. /\ hd' \in [Handlers -> HandlerState] /\ Frame(h)
      /\ hd'[h].pc = pc /\ hd'[h].row = hd[h].row /\ hd'[h].out = out
  BY <1>1, DecideEffect, ZenonT(30)
<1>3. HandlerOK(h)'
  <2>1. hd[h].row \in Rows
    BY DEF IInv, HandlerOK
  <2> QED
    BY <1>2, <2>1 DEF HandlerOK, Says, Ver, Locked
<1>4. Early(h)' => Early(h)
  BY <1>2 DEF Early
<1>5. lock' \in [owner : Handlers \cup {NoHandler}, live : BOOLEAN] /\ LockOwned'
  BY DEF IInv, IngestTyped, LockOwned
<1> QED
  BY <1>2, <1>3, <1>4, <1>5, QuietKeeps

LEMMA DecideKeeps ==
    ASSUME IInv, NEW h \in Handlers, hd[h].pc = "decide",
           NEW decision \in Decisions(h), Decide(h, decision)
    PROVE  IInv'
<1> DEFINE known == hd[h].seen # NoLineage
           pc == CASE decision = "create" -> "find"
                   [] decision = "pending_mapping" -> IF known THEN "import" ELSE "find"
                   [] decision = "skip" -> "import"
                   [] OTHER -> "finish"
           out == CASE decision = "pending_mapping" -> "unmapped"
                    [] pc = "finish" -> "failed"
                    [] OTHER -> "processed"
<1>1. /\ hd' = [hd EXCEPT ![h].pc = pc, ![h].out = out, ![h].seen = NoLineage]
      /\ UNCHANGED <<says, stamp, version, raw, lineage, lock, importVars>>
  BY DEF Decide
<1>2. /\ decision \in {"cancel", "pending_mapping", "create", "skip", "update", "manual_review"}
      /\ Says(h) = "cancelled" => decision = "cancel"
      /\ decision = "create" => ~known
  BY DEF Decisions
<1>3. /\ pc \in {"find", "import", "finish"} /\ out \in {"unmapped", "failed", "processed"}
      /\ pc = "finish" => out = "failed"
      /\ pc # "finish" => Says(h) # "cancelled"
      /\ pc = "find" => ~known
  BY <1>2
<1>4. \E p \in {"find", "import", "finish"}, o \in {"unmapped", "failed", "processed"} :
         /\ hd' = [hd EXCEPT ![h].pc = p, ![h].out = o, ![h].seen = NoLineage]
         /\ p = "finish" => o = "failed"
         /\ p # "finish" => Says(h) # "cancelled"
         /\ p = "find" => hd[h].seen = NoLineage
  <2> HIDE DEF pc, out
  <2> QED
    BY <1>1, <1>3, Zenon
<1> QED
  BY <1>1, <1>4, DecidedKeeps, ZenonT(30)

\* The way out of a lost or refused lock, and of an error: the row is not done.
LEMMA GiveUpKeeps ==
    ASSUME IInv, NEW h \in Handlers, hd[h].row \in Rows,
           NEW out \in {"pending", "unmapped", "failed"}, ToFinish(h, out),
           UNCHANGED <<says, stamp, version, raw, lineage, lock, importVars>>
    PROVE  IInv'
<1>1. /\ hd' \in [Handlers -> HandlerState] /\ Frame(h)
      /\ hd'[h].pc = "finish" /\ hd'[h].row = hd[h].row /\ hd'[h].out = out
  BY ToFinishEffect DEF IInv, RawStatuses
<1>2. HandlerOK(h)' /\ ~Early(h)'
  BY <1>1 DEF HandlerOK, Early, Locked
<1>3. lock' \in [owner : Handlers \cup {NoHandler}, live : BOOLEAN] /\ LockOwned'
  BY DEF IInv, IngestTyped, LockOwned
<1> QED
  BY <1>1, <1>2, <1>3, QuietKeeps

LEMMA AcquireKeeps ==
    ASSUME IInv, NEW h \in Handlers, hd[h].pc = "decide",
           NEW decision \in Decisions(h), AcquireLock(h, decision)
    PROVE  IInv'
<1>1. /\ decision \in {"update", "cancel"} /\ hd[h].seen # NoLineage /\ hd[h].row \in Rows
      /\ UNCHANGED <<says, stamp, version, raw, lineage, importVars>>
      /\ decision = "update" => Says(h) # "cancelled"
  BY DEF AcquireLock, IInv, HandlerOK, Decisions
<1>2. CASE ToFinish(h, "pending") /\ UNCHANGED lock
  BY <1>1, <1>2, GiveUpKeeps
<1>3. CASE /\ lock' = [owner |-> h, live |-> TRUE]
           /\ hd' = [hd EXCEPT ![h].pc = decision, ![h].held = TRUE, ![h].out = "processed"]
  <2>1. /\ hd' \in [Handlers -> HandlerState] /\ Frame(h)
        /\ hd'[h].pc = decision /\ hd'[h].row = hd[h].row /\ hd'[h].seen = hd[h].seen
    <3>1. hd \in [Handlers -> HandlerState] /\ decision \in Steps /\ "processed" \in RawStatuses
      BY <1>1 DEF IInv, IngestTyped, Steps, Locked, RawStatuses
    <3> QED
      BY <1>3, <3>1, LockEffect
  <2>2. HandlerOK(h)' /\ ~Early(h)'
    BY <1>1, <2>1 DEF HandlerOK, Early, Locked, Says, Ver
  <2>3. lock' \in [owner : Handlers \cup {NoHandler}, live : BOOLEAN] /\ LockOwned'
    BY <1>3 DEF LockOwned
  <2> QED
    BY <1>1, <2>1, <2>2, <2>3, QuietKeeps
<1> QED
  BY <1>2, <1>3 DEF AcquireLock

LEMMA NoticeKeeps ==
    ASSUME IInv, NEW h \in Handlers, NoticeLostLock(h)
    PROVE  IInv'
<1>1. hd[h].row \in Rows
  BY DEF NoticeLostLock, Locked, IInv, HandlerOK
<1> QED
  BY <1>1, GiveUpKeeps DEF NoticeLostLock

LEMMA IdleEffect ==
    ASSUME IngestTyped, NEW h \in Handlers, hd' = [hd EXCEPT ![h] = Idle]
    PROVE  /\ hd' \in [Handlers -> HandlerState] /\ Frame(h)
           /\ HandlerOK(h)' /\ ~Early(h)'
<1>1. Idle \in HandlerState
  BY DEF HandlerState, Idle, Steps, RawStatuses, Lineages
<1>2. hd' \in [Handlers -> HandlerState] /\ Frame(h) /\ hd'[h] = Idle
  BY <1>1 DEF IngestTyped, Frame
<1>3. HandlerOK(h)' /\ ~Early(h)'
  BY <1>2 DEF HandlerOK, Early, Idle, Locked
<1> QED
  BY <1>2, <1>3

LEMMA ReleaseKeeps ==
    ASSUME IInv, NEW h \in Handlers, ReleaseLock(h)
    PROVE  IInv'
<1>1. /\ hd' = [hd EXCEPT ![h] = Idle] /\ lock' \in {lock, Unlocked}
      /\ UNCHANGED <<says, stamp, version, raw, lineage, importVars>>
  BY DEF ReleaseLock
<1>2. hd' \in [Handlers -> HandlerState] /\ Frame(h) /\ HandlerOK(h)' /\ ~Early(h)'
  BY <1>1, IdleEffect DEF IInv
<1>3. lock' \in [owner : Handlers \cup {NoHandler}, live : BOOLEAN] /\ LockOwned'
  <2>1. CASE lock' = lock
    BY <2>1 DEF IInv, IngestTyped, LockOwned
  <2>2. CASE lock' = Unlocked
    BY <2>2 DEF LockOwned, Unlocked
  <2> QED
    BY <1>1, <2>1, <2>2
<1> QED
  BY <1>1, <1>2, <1>3, QuietKeeps

LEMMA FindKeeps ==
    ASSUME IInv, NEW h \in Handlers, FindLineage(h)
    PROVE  IInv'
<1>1. /\ hd[h].pc = "find" /\ hd[h].row \in Rows /\ Says(h) # "cancelled"
      /\ UNCHANGED <<says, stamp, version, raw, lineage, lock, importVars>>
  BY DEF FindLineage, IInv, HandlerOK
<1>2. PICK pc \in {"insert", "overwrite"} : To(h, pc)
  <2>1. To(h, IF lineage = NoLineage THEN "insert" ELSE "overwrite")
    BY DEF FindLineage
  <2> QED
    BY <2>1
<1>3. /\ hd' \in [Handlers -> HandlerState] /\ Frame(h)
      /\ hd'[h].pc = pc /\ hd'[h].row = hd[h].row
  BY <1>2, ToEffect DEF IInv, Steps
<1>4. HandlerOK(h)' /\ Early(h)
  BY <1>1, <1>3 DEF HandlerOK, Early, Locked, Says, Ver
<1>5. lock' \in [owner : Handlers \cup {NoHandler}, live : BOOLEAN] /\ LockOwned'
  BY <1>1 DEF IInv, IngestTyped, LockOwned
<1> QED
  BY <1>1, <1>3, <1>4, <1>5, QuietKeeps

\* A step of h that writes the lineage and the lock.
LEMMA LineageKeeps ==
    ASSUME IInv, NEW h \in Handlers, hd' \in [Handlers -> HandlerState], Frame(h), HandlerOK(h)',
           UNCHANGED <<says, stamp, version, raw, importVars>>, lineage' \in Lineages, GenBounded',
           lock' = lock \/ lock' = Unlocked
    PROVE  IInv'
<1>1. ImportInv' /\ bookings' = bookings /\ bookings.cancelled \in Nat
  BY ImportStutters DEF IInv
<1>2. lock' \in [owner : Handlers \cup {NoHandler}, live : BOOLEAN] /\ LockOwned'
  <2>1. CASE lock' = lock
    BY <2>1 DEF IInv, IngestTyped, LockOwned
  <2>2. CASE lock' = Unlocked
    BY <2>2 DEF LockOwned, Unlocked
  <2> QED
    BY <2>1, <2>2
<1>3. \A g \in Handlers : HandlerOK(g)'
  BY <1>1, OthersOK
<1>4. RowsTrue'
  BY <1>1 DEF IInv, RowsTrue, Cancels, OwnEvent
<1>5. IngestTyped'
  BY <1>2 DEF IInv, IngestTyped
<1> QED
  BY <1>1, <1>2, <1>3, <1>4, <1>5 DEF IInv

\* A fresh document: h was early and is no longer.
LEMMA FreshKeeps ==
    ASSUME IInv, NEW h \in Handlers, Early(h), hd[h].pc \in {"insert", "overwrite"}, To(h, "import"),
           lineage' = [gen |-> lineage.gen + 1, ver |-> Ver(h), status |-> "confirmed"],
           UNCHANGED <<says, stamp, version, raw, importVars>>, lock' = lock \/ lock' = Unlocked
    PROVE  IInv'
<1>1. /\ hd' \in [Handlers -> HandlerState] /\ Frame(h)
      /\ hd'[h].pc = "import" /\ hd'[h].row = hd[h].row
  BY ToEffect DEF IInv, Steps
<1>2. hd[h].row \in Rows /\ Says(h) # "cancelled"
  BY DEF IInv, HandlerOK
<1>3. HandlerOK(h)' /\ ~Early(h)'
  BY <1>1, <1>2 DEF HandlerOK, Early, Locked, Says, Ver
<1>4. /\ Cardinality(EarlyOnes) \in Nat /\ Cardinality(EarlyOnes)' \in Nat
      /\ Cardinality(EarlyOnes)' <= Cardinality(EarlyOnes) - 1 /\ Cardinality(EarlyOnes) >= 1
      /\ Cardinality(Handlers) \in Nat /\ Cardinality(EarlyOnes) <= Cardinality(Handlers)
  BY <1>1, <1>3, EarlyCounted
<1>5. lineage.gen \in Nat /\ (lineage = NoLineage => lineage.gen = 0)
  BY DEF IInv, IngestTyped, Lineages, NoLineage
<1>6. lineage.gen + Cardinality(EarlyOnes) <= Cardinality(Handlers)
  BY <1>4, <1>5 DEF IInv, GenBounded
<1>7. Ver(h) \in Versions
  BY <1>2 DEF IInv, IngestTyped, Ver
<1>8. lineage' \in Lineages
  <2>1. lineage.gen + 1 \in 1 .. Cardinality(Handlers)
    BY <1>4, <1>5, <1>6
  <2>2. \A g \in 1 .. Cardinality(Handlers) :
           [gen |-> g, ver |-> Ver(h), status |-> "confirmed"] \in Lineages
    BY <1>7 DEF Lineages, States
  <2> QED
    BY <2>1, <2>2
<1>9. GenBounded'
  <2>1. lineage'.gen = lineage.gen + 1
    OBVIOUS
  <2> QED
    BY <1>4, <1>5, <1>6, <2>1 DEF GenBounded
<1> QED
  BY <1>1, <1>3, <1>8, <1>9, LineageKeeps

LEMMA InsertKeeps ==
    ASSUME IInv, NEW h \in Handlers, InsertLineage(h)
    PROVE  IInv'
<1>1. /\ hd[h].pc = "insert" /\ hd[h].row \in Rows
      /\ UNCHANGED <<says, stamp, version, raw, lock, importVars>>
  BY DEF InsertLineage, IInv, HandlerOK
<1>2. CASE lineage = NoLineage
  <2>1. To(h, "import") /\ lineage' = [gen |-> 1, ver |-> Ver(h), status |-> "confirmed"]
    BY <1>2 DEF InsertLineage
  <2>2. lineage.gen + 1 = 1
    BY <1>2 DEF NoLineage
  <2>3. Early(h)
    BY <1>1 DEF Early
  <2> QED
    BY <1>1, <2>1, <2>2, <2>3, FreshKeeps
<1>3. CASE lineage # NoLineage
  <2>1. ToFinish(h, IF hd[h].out = "unmapped" THEN "unmapped" ELSE "failed") /\ UNCHANGED lineage
    BY <1>3 DEF InsertLineage, Failed
  <2>2. PICK out \in {"unmapped", "failed"} : ToFinish(h, out)
    BY <2>1
  <2> QED
    BY <1>1, <2>1, <2>2, GiveUpKeeps
<1> QED
  BY <1>2, <1>3

LEMMA OverwriteKeeps ==
    ASSUME IInv, NEW h \in Handlers, OverwriteLineage(h)
    PROVE  IInv'
<1>1. Early(h)
  BY DEF OverwriteLineage, Early
<1> QED
  BY <1>1, FreshKeeps DEF OverwriteLineage

LEMMA WriteKeeps ==
    ASSUME IInv, NEW h \in Handlers, WriteLineage(h)
    PROVE  IInv'
<1>1. /\ hd[h].pc \in {"update", "cancel"} /\ hd[h].row \in Rows /\ hd[h].seen # NoLineage
      /\ hd[h].pc = "update" => Says(h) # "cancelled"
      /\ lineage.gen = hd[h].seen.gen
      /\ UNCHANGED <<says, stamp, version, raw, lock, importVars>>
  BY DEF WriteLineage, LockValid, SameRow, IInv, HandlerOK, Locked
<1>2. Ver(h) \in Versions
  BY <1>1 DEF IInv, IngestTyped, Ver
<1>3. hd[h].seen \in [gen : 1 .. Cardinality(Handlers), ver : Versions, status : States]
  BY <1>1 DEF IInv, IngestTyped, HandlerState, Lineages
<1>4. PICK v \in Versions, s \in States : lineage' = [hd[h].seen EXCEPT !.ver = v, !.status = s]
  <2>1. CASE lineage' = [hd[h].seen EXCEPT !.ver = Ver(h), !.status = "modified"]
    BY <1>2, <2>1 DEF States
  <2>2. CASE lineage' = [hd[h].seen EXCEPT !.status = "cancelled"]
    <3>1. hd[h].seen.ver \in Versions /\ "cancelled" \in States
      BY <1>3 DEF States
    <3>2. [hd[h].seen EXCEPT !.status = "cancelled"]
             = [hd[h].seen EXCEPT !.ver = hd[h].seen.ver, !.status = "cancelled"]
      BY <1>3
    <3> QED
      BY <2>2, <3>1, <3>2
  <2> QED
    BY <2>1, <2>2 DEF WriteLineage
<1>5. /\ lineage' \in [gen : 1 .. Cardinality(Handlers), ver : Versions, status : States]
      /\ lineage'.gen = lineage.gen
  BY <1>1, <1>3, <1>4
<1>6. PICK pc \in {"finish", "propagate"} :
         To(h, pc) /\ (pc = "finish" => hd[h].pc = "update")
  BY <1>1 DEF WriteLineage
<1>7. /\ hd' \in [Handlers -> HandlerState] /\ Frame(h)
      /\ hd'[h].pc = pc /\ hd'[h].row = hd[h].row /\ hd'[h].seen = hd[h].seen
  BY <1>6, ToEffect DEF IInv, Steps, Locked
<1>8. HandlerOK(h)' /\ ~Early(h)'
  BY <1>1, <1>6, <1>7 DEF HandlerOK, Early, Locked, Says, Ver, Cancels
<1>9. GenBounded'
  <2>1. Cardinality(EarlyOnes)' <= Cardinality(EarlyOnes) /\ Cardinality(EarlyOnes)' \in Nat
        /\ Cardinality(EarlyOnes) \in Nat /\ Cardinality(Handlers) \in Nat
    BY <1>7, <1>8, EarlyCounted
  <2>2. lineage # NoLineage /\ lineage.gen \in Nat
    BY <1>1, <1>3 DEF NoLineage
  <2> QED
    BY <1>5, <2>1, <2>2 DEF IInv, GenBounded
<1>10. lineage' \in Lineages
  BY <1>5 DEF Lineages
<1> QED
  BY <1>1, <1>7, <1>8, <1>9, <1>10, LineageKeeps

\* A step of h on the import's side of the state.
LEMMA BridgeKeeps ==
    ASSUME IInv, NEW h \in Handlers, hd' \in [Handlers -> HandlerState], Frame(h), HandlerOK(h)',
           ~Early(h)', UNCHANGED <<says, stamp, version, raw, lineage, lock>>, ImportInv',
           bookings'.cancelled >= bookings.cancelled
    PROVE  IInv'
<1>1. bookings.cancelled \in Nat /\ bookings'.cancelled \in Nat
  BY DEF IInv, ImportInv, ImportTypeOK
<1>2. \A g \in Handlers : HandlerOK(g)'
  BY <1>1, OthersOK
<1>3. GenBounded'
  BY GenKept
<1>4. RowsTrue'
  BY <1>1 DEF IInv, RowsTrue, Cancels, OwnEvent
<1>5. IngestTyped' /\ LockOwned'
  BY DEF IInv, IngestTyped, LockOwned
<1> QED
  BY <1>2, <1>3, <1>4, <1>5 DEF IInv

LEMMA TriggerKeeps ==
    ASSUME IInv, NEW h \in Handlers, TriggerImport(h)
    PROVE  IInv'
<1>1. /\ hd[h].pc = "import" /\ hd[h].row \in Rows /\ Says(h) # "cancelled" /\ To(h, "finish")
      /\ CreateRecord(hd[h].out # "unmapped")
      /\ UNCHANGED <<says, stamp, version, raw, lineage, lock, imp, bookings, mapped, takeovers, faults>>
  BY DEF TriggerImport, IInv, HandlerOK
<1>2. /\ hd' \in [Handlers -> HandlerState] /\ Frame(h)
      /\ hd'[h].pc = "finish" /\ hd'[h].row = hd[h].row
  BY <1>1, ToEffect DEF IInv, Steps
<1>3. HandlerOK(h)' /\ ~Early(h)'
  BY <1>1, <1>2 DEF HandlerOK, Early, Locked, Says, Ver, Cancels
<1>4. ImportTypeOK
  BY DEF IInv, ImportInv
<1>5. /\ rec' \in ImportRow /\ (rec'.status = "processing" <=> rec.status = "processing")
      /\ rec'.late => rec.late
  <2>1. CASE rec' = rec
    BY <1>4, <2>1, Numbers
  <2>2. ASSUME NEW s \in {"pending", "review"}, rec.status = "absent",
               rec' = [NoRecord EXCEPT !.status = s, !.due = TRUE]
        PROVE  rec' \in ImportRow /\ rec'.status = s /\ ~rec'.late
    <3>1. rec' = [status |-> s, retries |-> 0, due |-> TRUE, late |-> FALSE]
      BY <2>2 DEF NoRecord
    <3> QED
      BY <3>1, ImportAssumption DEF ImportRow, Open, Closed
  <2>3. \/ rec' = rec
        \/ /\ rec.status = "absent"
           /\ \E s \in {"pending", "review"} : rec' = [NoRecord EXCEPT !.status = s, !.due = TRUE]
    BY <1>1 DEF CreateRecord
  <2> QED
    BY <2>1, <2>2, <2>3
<1>6. ImportInv'
  BY <1>1, <1>4, <1>5, RowKeeps DEF IInv, ImportTypeOK
<1>7. bookings'.cancelled >= bookings.cancelled
  BY <1>1, <1>4, Numbers
<1> QED
  BY <1>1, <1>2, <1>3, <1>6, <1>7, BridgeKeeps

LEMMA PropagateKeeps ==
    ASSUME IInv, NEW h \in Handlers, Propagate(h)
    PROVE  IInv'
<1>1. /\ hd[h].pc = "propagate" /\ hd[h].row \in Rows /\ hd[h].seen # NoLineage
      /\ UNCHANGED <<says, stamp, version, raw, lineage, lock, rec, imp, mapped, takeovers, faults>>
      /\ To(h, "touch")
  BY DEF Propagate, IInv, HandlerOK, Locked
<1>2. ImportTypeOK
  BY DEF IInv, ImportInv
<1>3. /\ bookings' \in [active : Nat, cancelled : Nat]
      /\ bookings'.active + bookings'.cancelled = bookings.active + bookings.cancelled
      /\ bookings'.cancelled >= bookings.cancelled
  <2>1. bookings.active \in Nat /\ bookings.cancelled \in Nat
    BY <1>2, Numbers
  <2>2. CASE UNCHANGED bookings
    BY <1>2, <2>1, <2>2 DEF ImportTypeOK
  <2>3. CASE /\ bookings.active > 0
             /\ bookings' = [active |-> bookings.active - 1, cancelled |-> bookings.cancelled + 1]
    BY <2>1, <2>3
  <2> QED
    BY <2>2, <2>3 DEF Propagate
<1>4. ImportInv'
  BY <1>1, <1>2, <1>3, Numbers, RowKeeps DEF IInv, ImportTypeOK
<1>5. HandlerOK(h)' /\ ~Early(h)' /\ hd' \in [Handlers -> HandlerState] /\ Frame(h)
  <2>1. /\ hd' \in [Handlers -> HandlerState] /\ Frame(h)
        /\ hd'[h].pc = "touch" /\ hd'[h].row = hd[h].row /\ hd'[h].seen = hd[h].seen
    BY <1>1, ToEffect DEF IInv, Steps, Locked
  <2> QED
    BY <1>1, <2>1 DEF HandlerOK, Early, Locked
<1> QED
  BY <1>1, <1>3, <1>4, <1>5, BridgeKeeps

LEMMA TouchKeeps ==
    ASSUME IInv, NEW h \in Handlers, TouchImport(h)
    PROVE  IInv'
<1>1. /\ hd[h].pc = "touch" /\ hd[h].row \in Rows /\ hd[h].seen # NoLineage
      /\ rec' = [rec EXCEPT !.late = FALSE] /\ To(h, "durable")
      /\ UNCHANGED <<says, stamp, version, raw, lineage, lock, imp, bookings, mapped, takeovers, faults>>
  BY DEF TouchImport, IInv, HandlerOK, Locked
<1>2. ImportTypeOK
  BY DEF IInv, ImportInv
<1>3. /\ rec' \in ImportRow /\ rec'.status = rec.status /\ ~rec'.late
  BY <1>1, <1>2, Numbers, FlagEdits
<1>4. ImportInv' /\ bookings'.cancelled >= bookings.cancelled
  BY <1>1, <1>2, <1>3, Numbers, RowKeeps DEF IInv, ImportTypeOK
<1>5. HandlerOK(h)' /\ ~Early(h)' /\ hd' \in [Handlers -> HandlerState] /\ Frame(h)
  <2>1. /\ hd' \in [Handlers -> HandlerState] /\ Frame(h)
        /\ hd'[h].pc = "durable" /\ hd'[h].row = hd[h].row /\ hd'[h].seen = hd[h].seen
    BY <1>1, ToEffect DEF IInv, Steps, Locked
  <2> QED
    BY <1>1, <2>1 DEF HandlerOK, Early, Locked
<1> QED
  BY <1>1, <1>4, <1>5, BridgeKeeps

\* The cancellation is reported processed only with a cancelled booking found.
LEMMA FindCancelledKeeps ==
    ASSUME IInv, NEW h \in Handlers, FindCancelled(h)
    PROVE  IInv'
<1>1. /\ hd[h].pc = "durable" /\ hd[h].row \in Rows
      /\ UNCHANGED <<says, stamp, version, raw, lineage, lock, importVars>>
      /\ ToFinish(h, IF bookings.cancelled > 0 THEN "processed" ELSE "failed")
  BY DEF FindCancelled, IInv, HandlerOK, Locked
<1>2. PICK out \in {"processed", "failed"} :
         ToFinish(h, out) /\ (out = "processed" => bookings.cancelled > 0)
  BY <1>1
<1>3. /\ hd' \in [Handlers -> HandlerState] /\ Frame(h)
      /\ hd'[h].pc = "finish" /\ hd'[h].row = hd[h].row /\ hd'[h].out = out
  BY <1>2, ToFinishEffect DEF IInv, RawStatuses
<1>4. HandlerOK(h)' /\ ~Early(h)'
  BY <1>1, <1>2, <1>3 DEF HandlerOK, Early, Locked, importVars
<1>5. lock' \in [owner : Handlers \cup {NoHandler}, live : BOOLEAN] /\ LockOwned'
  BY <1>1 DEF IInv, IngestTyped, LockOwned
<1> QED
  BY <1>1, <1>3, <1>4, <1>5, QuietKeeps

\* h is done with the row, but for the release of its lock.
LEMMA ReleasedEffect ==
    ASSUME IInv, NEW h \in Handlers, hd' = [hd EXCEPT ![h] = Released(h)]
    PROVE  /\ hd' \in [Handlers -> HandlerState] /\ Frame(h)
           /\ HandlerOK(h)' /\ ~Early(h)'
<1>1. PICK s \in HandlerState : Released(h) = s /\ s.pc \in {"idle", "release"}
  <2>1. CASE hd[h].held
    <3>1. Released(h) = [Idle EXCEPT !.pc = "release", !.seen = hd[h].seen, !.held = TRUE]
      BY <2>1 DEF Released
    <3>2. hd[h].seen \in Lineages
      BY DEF IInv, IngestTyped, HandlerState
    <3>3. \A l \in Lineages :
             /\ [Idle EXCEPT !.pc = "release", !.seen = l, !.held = TRUE] \in HandlerState
             /\ [Idle EXCEPT !.pc = "release", !.seen = l, !.held = TRUE].pc = "release"
      BY DEF Idle, HandlerState, Steps, RawStatuses
    <3> QED
      BY <3>1, <3>2, <3>3
  <2>2. CASE ~hd[h].held
    <3>1. Idle \in HandlerState /\ Idle.pc = "idle"
      BY DEF Idle, HandlerState, Steps, RawStatuses, Lineages
    <3> QED
      BY <2>2, <3>1 DEF Released
  <2> QED
    BY <2>1, <2>2
<1>2. hd' \in [Handlers -> HandlerState] /\ Frame(h) /\ hd'[h].pc \in {"idle", "release"}
  BY <1>1 DEF IInv, IngestTyped, Frame
<1>3. HandlerOK(h)' /\ ~Early(h)'
  BY <1>2 DEF HandlerOK, Early, Locked
<1> QED
  BY <1>2, <1>3

\* The outcome is written on the row, or not: it is true because HandlerOK says so.
LEMMA OutcomeKeeps ==
    ASSUME IInv, NEW h \in Handlers, hd[h].pc = "finish",
           raw' = raw \/ raw' = [raw EXCEPT ![hd[h].row].status = hd[h].out],
           hd' \in [Handlers -> HandlerState], Frame(h), HandlerOK(h)', ~Early(h)',
           UNCHANGED <<says, stamp, version, lineage, lock, bookings>>, ImportInv'
    PROVE  IInv'
<1>1. hd[h].row \in Rows
  BY DEF IInv, HandlerOK
<1>2. bookings.cancelled \in Nat
  BY DEF IInv, ImportInv, ImportTypeOK
<1>3. \A g \in Handlers : HandlerOK(g)'
  BY <1>2, OthersOK
<1>4. GenBounded'
  BY GenKept
<1>5. /\ raw' \in [Rows -> [status : RawStatuses, replay : BOOLEAN]]
      /\ \A r \in Rows : raw'[r].status = raw[r].status \/ (r = hd[h].row /\ raw'[r].status = hd[h].out)
  <2>1. hd[h].out \in RawStatuses /\ raw \in [Rows -> [status : RawStatuses, replay : BOOLEAN]]
    BY DEF IInv, IngestTyped, HandlerState
  <2> QED
    BY <1>1, <2>1
<1>6. RowsTrue'
  <2>1. hd[h].out \in {"processed", "duplicate"} /\ Cancels(version[hd[h].row]) =>
           bookings.cancelled > 0
    BY <1>1 DEF IInv, HandlerOK, Ver
  <2>2. \A v : Cancels(v)' <=> Cancels(v)
    BY CancelsKept
  <2> SUFFICES ASSUME NEW r \in Rows, Cancels(version[r]), raw'[r].status \in {"processed", "duplicate"}
               PROVE  bookings.cancelled > 0
    BY <2>2 DEF RowsTrue
  <2> QED
    BY <1>5, <2>1 DEF IInv, RowsTrue
<1>7. IngestTyped' /\ LockOwned'
  BY <1>5 DEF IInv, IngestTyped, LockOwned
<1> QED
  BY <1>3, <1>4, <1>6, <1>7 DEF IInv

LEMMA FinishKeeps ==
    ASSUME IInv, NEW h \in Handlers, Finish(h)
    PROVE  IInv'
<1>1. /\ hd[h].pc = "finish" /\ hd' = [hd EXCEPT ![h] = Released(h)]
      /\ raw' = [raw EXCEPT ![hd[h].row].status = hd[h].out]
      /\ UNCHANGED <<says, stamp, version, lineage, lock, importVars>>
  BY DEF Finish
<1>2. ImportInv' /\ bookings' = bookings
  BY <1>1, ImportStutters DEF IInv
<1>3. hd' \in [Handlers -> HandlerState] /\ Frame(h) /\ HandlerOK(h)' /\ ~Early(h)'
  BY <1>1, ReleasedEffect
<1> QED
  BY <1>1, <1>2, <1>3, OutcomeKeeps

LEMMA FailedEffect ==
    ASSUME IInv, NEW h \in Handlers, hd[h].row \in Rows, ToFinish(h, Failed(h))
    PROVE  /\ hd' \in [Handlers -> HandlerState] /\ Frame(h)
           /\ HandlerOK(h)' /\ ~Early(h)'
<1>1. PICK out \in {"unmapped", "failed"} : ToFinish(h, out)
  BY DEF Failed
<1>2. /\ hd' \in [Handlers -> HandlerState] /\ Frame(h)
      /\ hd'[h].pc = "finish" /\ hd'[h].row = hd[h].row /\ hd'[h].out = out
  BY <1>1, ToFinishEffect DEF IInv, RawStatuses
<1>3. HandlerOK(h)' /\ ~Early(h)'
  BY <1>2 DEF HandlerOK, Early, Locked
<1> QED
  BY <1>2, <1>3

\* The write of the outcome raises.
LEMMA FinishRaisesKeeps ==
    ASSUME IInv, NEW h \in Handlers, FinishRaises(h)
    PROVE  IInv'
<1>1. /\ hd[h].pc = "finish" /\ hd[h].row \in Rows
      /\ faults < MaxFaults /\ faults' = faults + 1
      /\ raw' = raw \/ raw' = [raw EXCEPT ![hd[h].row].status = hd[h].out]
      /\ UNCHANGED <<says, stamp, version, lineage, lock, rec, imp, bookings, mapped, takeovers>>
  BY DEF FinishRaises, IInv, HandlerOK
<1>2. ImportTypeOK
  BY DEF IInv, ImportInv
<1>3. ImportInv'
  BY <1>1, <1>2, Numbers, RowKeeps DEF IInv, ImportTypeOK
<1>4. hd' \in [Handlers -> HandlerState] /\ Frame(h) /\ HandlerOK(h)' /\ ~Early(h)'
  <2>1. CASE ToFinish(h, Failed(h))
    BY <1>1, <2>1, FailedEffect
  <2>2. CASE hd' = [hd EXCEPT ![h] = Released(h)]
    BY <2>2, ReleasedEffect
  <2> QED
    BY <2>1, <2>2 DEF FinishRaises
<1> QED
  BY <1>1, <1>3, <1>4, OutcomeKeeps

LEMMA FaultKeeps ==
    ASSUME IInv, NEW h \in Handlers, HandlerRaises(h) \/ HandlerCrashes(h)
    PROVE  IInv'
<1>1. /\ faults < MaxFaults /\ faults' = faults + 1
      /\ UNCHANGED <<says, stamp, version, raw, lineage, lock, rec, imp, bookings, mapped, takeovers>>
  BY DEF HandlerRaises, HandlerCrashes
<1>2. ImportTypeOK
  BY DEF IInv, ImportInv
<1>3. ImportInv'
  BY <1>1, <1>2, Numbers, RowKeeps DEF IInv, ImportTypeOK
<1>4. bookings'.cancelled >= bookings.cancelled
  BY <1>1, <1>2, Numbers
<1>5. CASE HandlerCrashes(h)
  <2>1. hd' \in [Handlers -> HandlerState] /\ Frame(h) /\ HandlerOK(h)' /\ ~Early(h)'
    BY <1>5, IdleEffect DEF HandlerCrashes, IInv
  <2> QED
    BY <1>1, <1>3, <1>4, <2>1, BridgeKeeps
<1>6. CASE HandlerRaises(h)
  <2>1. hd[h].row \in Rows /\ ToFinish(h, Failed(h))
    BY <1>6 DEF HandlerRaises, IInv, HandlerOK
  <2>2. hd' \in [Handlers -> HandlerState] /\ Frame(h) /\ HandlerOK(h)' /\ ~Early(h)'
    BY <2>1, FailedEffect
  <2> QED
    BY <1>1, <1>3, <1>4, <2>2, BridgeKeeps
<1> QED
  BY <1>5, <1>6

\* A step of no handler: the lock runs out, or the import goes on.
LEMMA AroundKeeps ==
    ASSUME IInv, UNCHANGED <<says, stamp, version, raw, lineage, hd>>, ImportInv',
           bookings'.cancelled = bookings.cancelled,
           lock' \in [owner : Handlers \cup {NoHandler}, live : BOOLEAN], lock'.live => lock' = lock
    PROVE  IInv'
<1>1. IngestTyped' /\ LockOwned'
  BY DEF IInv, IngestTyped, LockOwned
<1>2. RowsTrue' /\ GenBounded'
  BY DEF IInv, RowsTrue, Cancels, OwnEvent, GenBounded, EarlyOnes, Early
<1>3. \A h \in Handlers : HandlerOK(h)'
  BY CancelsKept DEF IInv, HandlerOK, Says, Ver
<1> QED
  BY <1>1, <1>2, <1>3 DEF IInv

LEMMA ExpireKeeps ==
    ASSUME IInv, ExpireLock
    PROVE  IInv'
<1>1. /\ lock' = [lock EXCEPT !.live = FALSE]
      /\ faults' = faults \/ (faults < MaxFaults /\ faults' = faults + 1)
      /\ UNCHANGED <<says, stamp, version, raw, lineage, hd, rec, imp, bookings, mapped, takeovers>>
  BY DEF ExpireLock
<1>2. ImportTypeOK
  BY DEF IInv, ImportInv
<1>3. ImportInv'
  BY <1>1, <1>2, Numbers, RowKeeps DEF IInv, ImportTypeOK
<1>4. lock' \in [owner : Handlers \cup {NoHandler}, live : BOOLEAN] /\ ~lock'.live
  BY <1>1 DEF IInv, IngestTyped
<1> QED
  BY <1>1, <1>3, <1>4, AroundKeeps

LEMMA IInvNext ==
    ASSUME IInv, [Next]_vars
    PROVE  IInv'
<1>1. ASSUME NEW h \in Handlers, ProcessEvent(h) PROVE IInv'
  BY <1>1, DedupKeeps, ReadKeeps, DecideKeeps, AcquireKeeps, NoticeKeeps, ReleaseKeeps, FindKeeps,
     InsertKeeps, OverwriteKeeps, TriggerKeeps, WriteKeeps, PropagateKeeps, TouchKeeps,
     FindCancelledKeeps, FinishKeeps
  DEF ProcessEvent
<1>2. CASE ImportNext /\ UNCHANGED ingestVars
  <2>1. ImportInv' /\ bookings'.cancelled = bookings.cancelled
    BY <1>2, ImportInvNext DEF IInv
  <2>2. UNCHANGED <<says, stamp, version, raw, lineage, hd, lock>>
    BY <1>2 DEF ingestVars
  <2> QED
    BY <2>1, <2>2, AroundKeeps DEF IInv, IngestTyped
<1>3. CASE UNCHANGED vars
  <2>1. ImportInv' /\ bookings' = bookings
    BY <1>3, ImportStutters DEF IInv, vars
  <2>2. UNCHANGED <<says, stamp, version, raw, lineage, hd, lock>>
    BY <1>3 DEF vars, ingestVars
  <2> QED
    BY <2>1, <2>2, AroundKeeps DEF IInv, IngestTyped
<1> QED
  BY <1>1, <1>2, <1>3, TakeUpKeeps, ReplayKeeps, FaultKeeps, FinishRaisesKeeps, ExpireKeeps
  DEF Next

-----------------------------------------------------------------------------
(* What the lock was granted for *)

GrantInv ==
    /\ grant \in [to : Handlers \cup {NoHandler}, row : Lineages]
    /\ grant # NoGrant => grant.to \in Handlers /\ lineage # NoLineage
    /\ LockProtectsRow

LEMMA GrantGone == grant' = NoGrant => GrantInv'
BY DEF GrantInv, LockProtectsRow, NoGrant, Lineages

LEMMA GrantStays ==
    ASSUME GrantInv, UNCHANGED <<lineage, lock, grant>>
    PROVE  GrantInv'
BY DEF GrantInv, LockProtectsRow

\* The row that h read is there, so it is one.
LEMMA AcquireGrants ==
    ASSUME IInv, GrantInv, NEW h \in Handlers, NEW decision, AcquireLock(h, decision)
    PROVE  GrantInv'
<1>1. CASE lock' = lock /\ grant' = grant
  BY <1>1, GrantStays DEF AcquireLock
<1>2. CASE /\ LockFree(h) /\ lock' = [owner |-> h, live |-> TRUE]
           /\ grant' = [to |-> h, row |-> lineage]
  <2>1. lineage.gen = hd[h].seen.gen /\ hd[h].seen # NoLineage /\ lineage' = lineage
    BY <1>2 DEF LockFree, SameRow, AcquireLock
  <2>2. hd[h].seen \in Lineages /\ lineage \in Lineages
    BY DEF IInv, IngestTyped, HandlerState
  <2>3. lineage # NoLineage
    BY <2>1, <2>2 DEF Lineages, NoLineage
  <2> QED
    BY <1>2, <2>1, <2>2, <2>3 DEF GrantInv, LockProtectsRow
<1> QED
  BY <1>1, <1>2 DEF AcquireLock

\* Another's release does not hit the lock: its owner is not h.
LEMMA ReleaseSpares ==
    ASSUME GrantInv, NEW h \in Handlers, ReleaseLock(h)
    PROVE  GrantInv'
<1>1. CASE grant' = NoGrant
  BY <1>1, GrantGone
<1>2. CASE grant' # NoGrant
  <2>1. grant' = grant /\ grant.to # h /\ lineage' = lineage
    BY <1>2 DEF ReleaseLock, Ungranted
  <2>2. lock.owner # h
    BY <1>2, <2>1 DEF GrantInv, LockProtectsRow
  <2>3. lock' = lock
    BY <2>2 DEF ReleaseLock
  <2> QED
    BY <2>1, <2>3, GrantStays
<1> QED
  BY <1>1, <1>2

\* A fenced write is the holder's own: a stale one does not match.
LEMMA WriteIsOwn ==
    ASSUME IInv, IInv', GrantInv, NEW h \in Handlers, WriteLineage(h)
    PROVE  GrantInv'
<1>1. /\ lock.owner = h /\ lock' = lock /\ h # NoHandler
      /\ grant' = IF grant.to = h THEN [grant EXCEPT !.row = lineage'] ELSE grant
      /\ lineage.gen = hd[h].seen.gen /\ hd[h].seen # NoLineage
  BY IngestAssumption DEF WriteLineage, LockValid, SameRow, IInv, HandlerOK, Locked
<1>2. CASE grant = NoGrant
  BY <1>1, <1>2, GrantGone DEF NoGrant
<1>3. CASE grant # NoGrant
  <2>1. grant.to = h /\ lock = [owner |-> h, live |-> TRUE]
    BY <1>1, <1>3 DEF GrantInv, LockProtectsRow
  <2>2. lineage' \in Lineages /\ grant \in [to : Handlers \cup {NoHandler}, row : Lineages]
    BY DEF IInv, IngestTyped, GrantInv
  <2>3. grant' = [to |-> h, row |-> lineage']
    BY <1>1, <2>1, <2>2
  <2>4. lineage' # NoLineage
    <3>1. hd[h].seen \in Lineages
      BY DEF IInv, IngestTyped, HandlerState
    <3>2. hd[h].seen.gen # 0
      BY <1>1, <3>1 DEF Lineages, NoLineage
    <3>3. lineage'.gen = hd[h].seen.gen
      BY <3>1 DEF WriteLineage, Lineages, NoLineage
    <3> QED
      BY <3>2, <3>3 DEF NoLineage
  <2> QED
    BY <1>1, <2>1, <2>2, <2>3, <2>4 DEF GrantInv, LockProtectsRow
<1> QED
  BY <1>2, <1>3

LEMMA InsertSpares ==
    ASSUME GrantInv, NEW h \in Handlers, InsertLineage(h)
    PROVE  GrantInv'
<1>1. CASE lineage' = lineage
  BY <1>1, GrantStays DEF InsertLineage
<1>2. CASE lineage' # lineage
  <2>1. lineage = NoLineage /\ grant' = grant
    BY <1>2 DEF InsertLineage
  <2>2. grant' = NoGrant
    BY <2>1 DEF GrantInv
  <2> QED
    BY <2>2, GrantGone
<1> QED
  BY <1>1, <1>2

LEMMA GrantInvNext ==
    ASSUME IInv, IInv', GrantInv, [Next]_vars
    PROVE  GrantInv'
<1>1. ASSUME NEW h \in Handlers, ProcessEvent(h) PROVE GrantInv'
  <2>1. ASSUME NEW decision, Decide(h, decision) PROVE GrantInv'
    BY <2>1, GrantStays DEF Decide
  <2>2. CASE OverwriteLineage(h)
    BY <2>2, GrantGone DEF OverwriteLineage
  <2>3. CASE \/ Dedup(h) \/ ReadLineage(h) \/ NoticeLostLock(h) \/ FindLineage(h)
             \/ TriggerImport(h) \/ Propagate(h) \/ TouchImport(h) \/ FindCancelled(h)
             \/ Finish(h)
    <3>1. UNCHANGED <<lineage, lock, grant>>
      BY <2>3 DEF Dedup, ReadLineage, NoticeLostLock, FindLineage, TriggerImport, Propagate,
                  TouchImport, FindCancelled, Finish
    <3> QED
      BY <3>1, GrantStays
  <2> QED
    BY <1>1, <2>1, <2>2, <2>3, AcquireGrants, ReleaseSpares, InsertSpares, WriteIsOwn
    DEF ProcessEvent
<1>2. CASE ExpireLock
  BY <1>2, GrantGone DEF ExpireLock
<1>3. CASE UNCHANGED vars \/ (ImportNext /\ UNCHANGED ingestVars)
  BY <1>3, GrantStays DEF vars, ingestVars
<1>4. ASSUME NEW r \in Rows,
             \/ ReplayReset(r)
             \/ \E h \in Handlers : Start(h, r) \/ ReplayFailed(h, r)
      PROVE  GrantInv'
  BY <1>4, GrantStays DEF ReplayReset, Start, ReplayFailed
<1>5. ASSUME NEW h \in Handlers, HandlerRaises(h) \/ FinishRaises(h) \/ HandlerCrashes(h)
      PROVE  GrantInv'
  BY <1>5, GrantStays DEF HandlerRaises, FinishRaises, HandlerCrashes
<1> QED
  BY <1>1, <1>2, <1>3, <1>4, <1>5 DEF Next

LEMMA GrantInvInit == Init => GrantInv
BY DEF Init, GrantInv, LockProtectsRow, NoGrant, Lineages

LEMMA IInvHolds == Spec => [](IInv /\ GrantInv)
<1>1. Init => IInv /\ GrantInv
  BY IInvInit, GrantInvInit
<1>2. IInv /\ GrantInv /\ [Next]_vars => IInv' /\ GrantInv'
  BY IInvNext, GrantInvNext
<1> QED
  BY <1>1, <1>2, PTL DEF Spec

-----------------------------------------------------------------------------

\* The type invariant of the ingest and of the import below it.  That the
\* lineage has an identity for every fresh document (at most one per handler)
\* is not by the shape of the actions: it needs GenBounded.
THEOREM TypeCorrect == Spec => []TypeOK
<1>1. IInv /\ GrantInv => TypeOK
  BY DEF IInv, ImportInv, IngestTyped, GrantInv, TypeOK, HandlerState
<1> QED
  BY <1>1, IInvHolds, PTL

\* "Atomic claim pattern prevents concurrent processing" of the import: any
\* number of workers, operators and redeliveries, crashes and errors make one
\* booking of a reservation, and one more for each time the row was given to
\* others while its import was still running.
THEOREM ImportedOnce == Spec => []OneBooking
<1>1. IInv => OneBooking
  <2> SUFFICES ASSUME IInv PROVE OneBooking
    OBVIOUS
  <2>1. ImportTypeOK /\ BookingsBounded
    BY DEF IInv, ImportInv
  <2> QED
    BY <2>1, Counted, Numbers DEF BookingsBounded, OneBooking
<1> QED
  BY <1>1, IInvHolds, PTL

\* A cancellation the ingest reports as processed stays: whatever is delivered,
\* replayed or imported later, no booking of the reservation is active beyond
\* those an overtaken import made, unless it came under another message's event id.
THEOREM CancellationStays == Spec => []CancellationHolds
<1>1. IInv => CancellationHolds
  <2> SUFFICES ASSUME IInv, NEW r \in Rows, OwnEvent(version[r]), says[version[r]] = "cancelled",
                      raw[r].status \in {"processed", "duplicate"}
               PROVE  bookings.active <= takeovers
    BY DEF CancellationHolds, Effective
  <2>1. ImportTypeOK /\ BookingsBounded
    BY DEF IInv, ImportInv
  <2>2. bookings.cancelled > 0
    BY DEF IInv, RowsTrue, Cancels
  <2> QED
    BY <2>1, <2>2, Counted, Numbers DEF BookingsBounded
<1> QED
  BY <1>1, IInvHolds, PTL

\* The reservation lock does what it is for: from the acquisition to the holder's
\* own release, the end of the lock's time or a fresh document, no late release,
\* acquisition or write of a handler that lost the lock reaches lock or row.
THEOREM LockProtects == Spec => []LockProtectsRow
<1>1. GrantInv => LockProtectsRow
  BY DEF GrantInv
<1> QED
  BY <1>1, IInvHolds, PTL
=============================================================================
