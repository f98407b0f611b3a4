-------------------------- MODULE NightAuditProofs --------------------------
(***************************************************************************)
(* Proofs about NightAudit, for any number of handlers, bookings, days,    *)
(* runs, faults and resumes, and for slow handlers.                        *)
(***************************************************************************)
EXTENDS NightAudit, TLAPS

RunStatuses == Terminal \cup {"none", "running"}
RunRow == [status : RunStatuses, day : Days, dry : BOOLEAN, indexed : BOOLEAN]
ItemRow == [kind : {"none", "room_charge", "no_show"},
            status : {"none", "pending", "posted", "skipped", "aborted", "failed"}]
StayRow == [status : {"none", "confirmed", "checked_in", "no_show"}, checkIn : 1 .. LastDay + 1]
Pcs == {"idle", "insert", "existing", "supersede", "stale", "reinsert", "again", "drop",
        "validate", "build", "arrivals", "simulate", "mapping", "post", "reconcile", "remaining",
        "roll", "complete", "fail", "reset", "revalidate", "reopen", "abort", "cancel"}
Kinds == {"live", "dry", "rerun", "resume", "abort"}
HandlerState == [pc : Pcs, kind : Kinds, day : Days, run : 0 .. MaxRuns, todo : SUBSET Bookings]

\* The steps that come before a request has a run, those that work on the items
\* of one, and those that may write to folios, stays and the date.
Searching == {"idle", "insert", "existing", "reinsert", "again"}
Looking == {"supersede", "stale", "drop"}
Committing == {"mapping", "post", "reconcile", "remaining", "roll", "complete", "reset",
               "revalidate", "reopen"}

\* The steps before the items of a run are there.
Building == {"validate", "build", "arrivals"}

\* The unique index on folio_charges at work.
NightChargedOnce == \A b \in Bookings, d \in Days : charges[b][d] <= 1

\* The requests for an uncontested day come one after the other.
OneByOne ==
    \A g, h \in Handlers :
        g # h /\ hd[g].pc # "idle" /\ hd[h].pc # "idle" /\ hd[g].day = hd[h].day =>
            hd[h].day \in contested

\* No item of run r has one of the statuses.
Without(r, statuses) == \A b \in Bookings : item[r][b].status \notin statuses

HandlerOK(h) ==
    /\ hd[h].pc \notin Searching => hd[h].run \in RunIds
    /\ hd[h].run # 0 => run[hd[h].run].status # "none" /\ run[hd[h].run].day = hd[h].day
    /\ hd[h].pc \in Building /\ hd[h].kind = "live" => ~run[hd[h].run].dry
    /\ hd[h].pc \in Committing => ~run[hd[h].run].dry
    /\ hd[h].day \notin contested =>
          /\ hd[h].pc \notin Searching \cup Looking => run[hd[h].run].status # "completed"
          /\ hd[h].pc = "post" => \A b \in hd[h].todo : item[hd[h].run][b].status = "pending"
          /\ hd[h].pc = "remaining" => Without(hd[h].run, {"failed"})
          /\ hd[h].pc \in {"roll", "complete"} => Without(hd[h].run, {"failed", "pending"})

RunOK(r) ==
    /\ run[r].status = "none" => \A b \in Bookings : item[r][b].kind = "none"
    /\ \A b \in Bookings :
          item[r][b].kind = "room_charge" =>
              /\ item[r][b].status # "none"
              /\ item[r][b].status \in {"posted", "skipped"} => charges[b][run[r].day] = 1
    /\ run[r].status = "completed" /\ run[r].day \notin contested =>
          Without(r, {"failed", "pending"})

Typed ==
    /\ date \in 1 .. LastDay + 1
    /\ run \in [RunIds -> RunRow]
    /\ item \in [RunIds -> [Bookings -> ItemRow]]
    /\ stay \in [Bookings -> StayRow]
    /\ charges \in [Bookings -> [Days -> Nat]]
    /\ hd \in [Handlers -> HandlerState]
    /\ faults \in 0 .. MaxFaults
    /\ resumes \in 0 .. MaxResumes
    /\ contested \subseteq Days

AInv == /\ Typed /\ NightChargedOnce /\ OneByOne
        /\ \A h \in Handlers : HandlerOK(h)
        /\ \A r \in RunIds : RunOK(r)

Frame(h) == \A g \in Handlers \ {h} : hd'[g] = hd[g]

LEMMA TypedIsTypeOK == Typed <=> TypeOK
BY DEF Typed, TypeOK, RunRow, RunStatuses, ItemRow, StayRow, HandlerState, Pcs, Kinds

LEMMA Bounds ==
    /\ 1 \in Days /\ 0 \in 0 .. MaxRuns /\ 0 \notin RunIds /\ RunIds \subseteq 0 .. MaxRuns
    /\ Days \subseteq 1 .. LastDay + 1
    /\ \A d \in Days : d + 1 \in 1 .. LastDay + 1
    /\ MaxFaults \in Nat /\ MaxResumes \in Nat
BY AuditAssumption DEF Days, RunIds

LEMMA IdleTyped == Idle \in HandlerState /\ Idle.pc = "idle" /\ Idle.run = 0
BY Bounds DEF Idle, HandlerState, Pcs, Kinds

LEMMA AInvInit == Init => AInv
<1> SUFFICES ASSUME Init PROVE AInv
  OBVIOUS
<1>1. NoRun \in RunRow /\ NoItem \in ItemRow
  BY Bounds DEF NoRun, RunRow, RunStatuses, NoItem, ItemRow
<1>2. stay \in [Bookings -> StayRow]
  BY AuditAssumption DEF Init, StayRow
<1>3. charges \in [Bookings -> [Days -> Nat]]
  BY DEF Init
<1>4. Typed
  BY <1>1, <1>2, <1>3, IdleTyped, AuditAssumption DEF Init, Typed
<1>5. NightChargedOnce /\ OneByOne
  BY DEF Init, NightChargedOnce, OneByOne, Idle
<1>6. \A h \in Handlers : HandlerOK(h)
  BY IdleTyped DEF Init, HandlerOK, Searching, Looking, Committing, Building
<1>7. \A r \in RunIds : RunOK(r)
  BY DEF Init, RunOK, NoRun, NoItem
<1> QED
  BY <1>4, <1>5, <1>6, <1>7 DEF AInv

-----------------------------------------------------------------------------
(* What the building blocks of the actions do *)

LEMMA SetHandler ==
    ASSUME Typed, NEW h \in Handlers, NEW s \in HandlerState, hd' = [hd EXCEPT ![h] = s]
    PROVE  hd' \in [Handlers -> HandlerState] /\ Frame(h) /\ hd'[h] = s
BY DEF Typed, Frame

LEMMA DoneEffect ==
    ASSUME Typed, NEW h \in Handlers, Done(h)
    PROVE  /\ hd' \in [Handlers -> HandlerState] /\ Frame(h)
           /\ hd'[h].pc = "idle" /\ HandlerOK(h)'
<1>1. hd' \in [Handlers -> HandlerState] /\ Frame(h) /\ hd'[h] = Idle
  BY IdleTyped, SetHandler DEF Done
<1> QED
  BY <1>1, IdleTyped DEF HandlerOK, Searching, Looking, Committing, Building

LEMMA GotoEffect ==
    ASSUME Typed, NEW h \in Handlers, NEW pc \in Pcs, Goto(h, pc)
    PROVE  /\ hd' \in [Handlers -> HandlerState] /\ Frame(h)
           /\ hd'[h].pc = pc /\ hd'[h].run = hd[h].run /\ hd'[h].day = hd[h].day
           /\ hd'[h].kind = hd[h].kind
<1>1. hd' = [hd EXCEPT ![h].pc = pc] /\ hd \in [Handlers -> HandlerState]
  BY DEF Goto, Typed
<1> QED
  BY <1>1 DEF HandlerState, Frame

Take(h, pc, r) == hd' = [hd EXCEPT ![h].pc = pc, ![h].run = r]

LEMMA TakeEffect ==
    ASSUME hd \in [Handlers -> HandlerState], NEW h \in Handlers, NEW pc \in Pcs, NEW r \in 0 .. MaxRuns,
           Take(h, pc, r)
    PROVE  /\ hd' \in [Handlers -> HandlerState] /\ Frame(h)
           /\ hd'[h].pc = pc /\ hd'[h].run = r /\ hd'[h].day = hd[h].day /\ hd'[h].kind = hd[h].kind
<1>1. hd' = [g \in Handlers |-> hd'[g]]
  BY DEF Take
<1>2. \A g \in Handlers \ {h} : hd'[g] = hd[g]
  BY DEF Take
<1>3. hd'[h] = [pc |-> pc, kind |-> hd[h].kind, day |-> hd[h].day, run |-> r, todo |-> hd[h].todo]
  BY DEF Take, HandlerState
<1>4. hd'[h] \in HandlerState
  BY <1>3 DEF HandlerState
<1>5. hd' \in [Handlers -> HandlerState]
  BY <1>1, <1>2, <1>4
<1> QED
  BY <1>2, <1>3, <1>5 DEF Frame

Queue(h, pc, S) == \/ hd' = [hd EXCEPT ![h].pc = pc, ![h].todo = S]
                   \/ pc = hd[h].pc /\ hd' = [hd EXCEPT ![h].todo = S]

LEMMA QueueEffect ==
    ASSUME hd \in [Handlers -> HandlerState], NEW h \in Handlers, NEW pc \in Pcs,
           NEW S \in SUBSET Bookings, Queue(h, pc, S)
    PROVE  /\ hd' \in [Handlers -> HandlerState] /\ Frame(h)
           /\ hd'[h].pc = pc /\ hd'[h].run = hd[h].run /\ hd'[h].day = hd[h].day
           /\ hd'[h].kind = hd[h].kind /\ hd'[h].todo = S
<1>1. hd' = [g \in Handlers |-> hd'[g]]
  BY DEF Queue
<1>2. \A g \in Handlers \ {h} : hd'[g] = hd[g]
  BY DEF Queue
<1>3. hd'[h] = [pc |-> pc, kind |-> hd[h].kind, day |-> hd[h].day, run |-> hd[h].run, todo |-> S]
  BY DEF Queue, HandlerState
<1>4. hd'[h] \in HandlerState
  BY <1>3 DEF HandlerState
<1>5. hd' \in [Handlers -> HandlerState]
  BY <1>1, <1>2, <1>4
<1> QED
  BY <1>2, <1>3, <1>5 DEF Frame

LEMMA StatusEffect ==
    ASSUME Typed, NEW r \in RunIds, NEW s \in RunStatuses, SetStatus(r, s)
    PROVE  /\ run' \in [RunIds -> RunRow] /\ run'[r].status = s
           /\ \A q \in RunIds : run'[q].day = run[q].day /\ run'[q].dry = run[q].dry
           /\ \A q \in RunIds \ {r} : run'[q] = run[q]
<1>1. run' = [run EXCEPT ![r].status = s] /\ run \in [RunIds -> RunRow]
  BY DEF SetStatus, Typed
<1> QED
  BY <1>1 DEF RunRow

LEMMA ItemEffect ==
    ASSUME Typed, NEW r \in RunIds, NEW b \in Bookings,
           NEW s \in {"posted", "skipped", "failed"}, SetItem(r, b, s)
    PROVE  /\ item' \in [RunIds -> [Bookings -> ItemRow]]
           /\ \A q \in RunIds \ {r} : item'[q] = item[q]
           /\ \A c \in Bookings : /\ item'[r][c].kind = item[r][c].kind
                                  /\ item'[r][c].status = IF c = b THEN s ELSE item[r][c].status
<1>1. item' = [item EXCEPT ![r][b].status = s] /\ item \in [RunIds -> [Bookings -> ItemRow]]
  BY DEF SetItem, Typed
<1>2. item[r] \in [Bookings -> ItemRow]
  BY <1>1
<1>3. item' = [item EXCEPT ![r] = [item[r] EXCEPT ![b].status = s]]
  BY <1>1
<1>4. [item[r] EXCEPT ![b].status = s] \in [Bookings -> ItemRow]
  BY <1>2 DEF ItemRow
<1>5. item' \in [RunIds -> [Bookings -> ItemRow]] /\ \A q \in RunIds \ {r} : item'[q] = item[q]
  BY <1>1, <1>3, <1>4
<1>6. item'[r] = [item[r] EXCEPT ![b].status = s]
  BY <1>1, <1>3
<1>7. \A c \in Bookings : /\ item'[r][c].kind = item[r][c].kind
                          /\ item'[r][c].status = IF c = b THEN s ELSE item[r][c].status
  BY <1>2, <1>6 DEF ItemRow
<1> QED
  BY <1>5, <1>7

\* A posting writes the one charge of a night that had none, or a no-show.
LEMMA PostEffect ==
    ASSUME Typed, NightChargedOnce, NEW r \in RunIds, NEW b \in Bookings, NEW d \in Days,
           ~Duplicate(r, b, d), Post(r, b, d)
    PROVE  /\ charges' \in [Bookings -> [Days -> Nat]] /\ stay' \in [Bookings -> StayRow]
           /\ \A c \in Bookings, e \in Days : charges'[c][e] >= charges[c][e]
           /\ NightChargedOnce'
           /\ item[r][b].kind = "room_charge" => charges'[b][d] = 1
<1>1. charges \in [Bookings -> [Days -> Nat]] /\ stay \in [Bookings -> StayRow]
  BY DEF Typed
<1>2. CASE item[r][b].kind = "room_charge"
  <2>1. charges' = [charges EXCEPT ![b][d] = charges[b][d] + 1] /\ stay' = stay
    BY <1>2 DEF Post
  <2>2. charges[b][d] = 0
    BY <1>2 DEF Duplicate
  <2>3. charges' = [charges EXCEPT ![b] = [charges[b] EXCEPT ![d] = 1]]
    BY <2>1, <2>2
  <2>4. charges[b] \in [Days -> Nat] /\ [charges[b] EXCEPT ![d] = 1] \in [Days -> Nat]
    BY <1>1
  <2>5. charges' \in [Bookings -> [Days -> Nat]]
    BY <1>1, <2>3, <2>4
  <2>6. /\ \A c \in Bookings \ {b} : charges'[c] = charges[c]
        /\ charges'[b] = [charges[b] EXCEPT ![d] = 1]
    BY <1>1, <2>3
  <2>7. \A c \in Bookings, e \in Days :
           charges'[c][e] = IF c = b /\ e = d THEN 1 ELSE charges[c][e]
    BY <2>4, <2>6
  <2>8. \A c \in Bookings, e \in Days : charges[c][e] \in Nat
    BY <1>1
  <2> QED
    BY <1>1, <2>1, <2>2, <2>5, <2>7, <2>8 DEF NightChargedOnce
<1>3. CASE item[r][b].kind # "room_charge"
  <2>1. charges' = charges /\ stay' = [stay EXCEPT ![b].status = "no_show"]
    BY <1>3 DEF Post
  <2>2. stay' \in [Bookings -> StayRow]
    BY <1>1, <2>1 DEF StayRow
  <2>3. \A c \in Bookings, e \in Days : charges[c][e] \in Nat
    BY <1>1
  <2> QED
    BY <1>1, <1>3, <2>1, <2>2, <2>3 DEF NightChargedOnce
<1> QED
  BY <1>2, <1>3

LEMMA ContestedGrows ==
    ASSUME Typed, NEW d \in Days, contested' = Contested(d)
    PROVE  /\ contested \subseteq contested' /\ contested' \subseteq Days
           /\ (\E g \in Handlers : hd[g].pc # "idle" /\ hd[g].day = d) => d \in contested'
BY DEF Contested, Typed

-----------------------------------------------------------------------------
(* One step of one handler *)

\* What a step may do to the runs: none disappears, changes its day or its kind.
RunsKept ==
    \A r \in RunIds : run[r].status # "none" =>
        /\ run'[r].status # "none" /\ run'[r].day = run[r].day /\ run'[r].dry = run[r].dry

\* Items change, and a run is completed, only by a handler that has the run.
RunsLocal(h) ==
    \A r \in RunIds :
        \/ hd[h].pc # "idle" /\ r = hd[h].run
        \/ item'[r] = item[r] /\ (run'[r].status = "completed" => run[r].status = "completed")

\* The handler goes on for its day, ends, or begins and marks a contested day.
Lawful(h) ==
    /\ contested \subseteq contested'
    /\ \/ hd'[h].pc = "idle"
       \/ hd[h].pc # "idle" /\ hd'[h].day = hd[h].day
       \/ contested' = Contested(hd'[h].day)

LEMMA OthersOK ==
    ASSUME AInv, NEW h \in Handlers, Frame(h), RunsKept, RunsLocal(h), contested \subseteq contested'
    PROVE  \A g \in Handlers \ {h} : HandlerOK(g)'
<1> SUFFICES ASSUME NEW g \in Handlers, g # h PROVE HandlerOK(g)'
  OBVIOUS
<1>1. hd'[g] = hd[g] /\ HandlerOK(g)
  BY DEF Frame, AInv
<1>2. hd[g].run \in 0 .. MaxRuns
  BY DEF AInv, Typed, HandlerState
<1>3. hd[g].run # 0 => hd[g].run \in RunIds
  BY <1>2, AuditAssumption DEF RunIds
<1>4. hd[g].run # 0 => /\ run'[hd[g].run].status # "none" /\ run'[hd[g].run].day = hd[g].day
                       /\ run'[hd[g].run].dry = run[hd[g].run].dry
  BY <1>1, <1>3 DEF HandlerOK, RunsKept
<1>5. hd[g].pc # "idle" /\ hd[g].run # 0 /\ hd[g].day \notin contested =>
         /\ item'[hd[g].run] = item[hd[g].run]
         /\ run'[hd[g].run].status = "completed" => run[hd[g].run].status = "completed"
  <2> SUFFICES ASSUME hd[g].pc # "idle", hd[g].run # 0, hd[g].day \notin contested,
                      hd[h].pc # "idle", hd[h].run = hd[g].run
               PROVE  FALSE
    BY <1>3 DEF RunsLocal
  <2>1. hd[h].day = hd[g].day
    BY <1>1 DEF AInv, HandlerOK
  <2> QED
    BY <2>1 DEF AInv, OneByOne
<1>6. hd[g].pc \notin Searching => hd[g].pc # "idle" /\ hd[g].run \in RunIds /\ hd[g].run # 0
  BY <1>1, Bounds DEF HandlerOK, Searching
<1>7. hd[g].day \notin contested' => hd[g].day \notin contested
  OBVIOUS
<1>8. hd[g].pc \in Committing \cup Building =>
         hd[g].pc \notin Searching
  BY DEF Searching, Committing, Building
<1>9. /\ hd[g].pc \notin Searching => hd[g].run \in RunIds
      /\ hd[g].run # 0 => run'[hd[g].run].status # "none" /\ run'[hd[g].run].day = hd[g].day
      /\ hd[g].pc \in Building /\ hd[g].kind = "live" => ~run'[hd[g].run].dry
      /\ hd[g].pc \in Committing => ~run'[hd[g].run].dry
  BY <1>1, <1>4, <1>6, <1>8 DEF HandlerOK
<1>10. ASSUME hd[g].day \notin contested'
       PROVE  /\ hd[g].pc \notin Searching \cup Looking => run'[hd[g].run].status # "completed"
              /\ hd[g].pc = "post" =>
                    \A b \in hd[g].todo : item'[hd[g].run][b].status = "pending"
              /\ hd[g].pc = "remaining" =>
                    \A b \in Bookings : item'[hd[g].run][b].status \notin {"failed"}
              /\ hd[g].pc \in {"roll", "complete"} =>
                    \A b \in Bookings : item'[hd[g].run][b].status \notin {"failed", "pending"}
  <2>1. hd[g].pc \notin Searching =>
           /\ item'[hd[g].run] = item[hd[g].run]
           /\ run'[hd[g].run].status = "completed" => run[hd[g].run].status = "completed"
    BY <1>5, <1>6, <1>7, <1>10
  <2>2. {"post", "remaining", "roll", "complete"} \cap Searching = {}
    BY DEF Searching
  <2> QED
    BY <1>1, <1>7, <1>10, <2>1, <2>2, SMTT(30) DEF HandlerOK, Without
<1> QED
  BY <1>1, <1>9, <1>10 DEF HandlerOK, Without, Building

LEMMA StillOneByOne ==
    ASSUME AInv, NEW h \in Handlers, Frame(h), Lawful(h), hd' \in [Handlers -> HandlerState]
    PROVE  OneByOne'
<1>1. SUFFICES ASSUME NEW g \in Handlers, NEW k \in Handlers, g # k, hd'[g].pc # "idle",
                      hd'[k].pc # "idle", hd'[g].day = hd'[k].day
               PROVE  hd'[k].day \in contested'
  BY DEF OneByOne
<1>2. CASE g # h /\ k # h
  BY <1>1, <1>2 DEF AInv, OneByOne, Frame, Lawful
<1>3. ASSUME NEW o \in Handlers, o # h, hd'[o].pc # "idle", hd'[h].pc # "idle",
             hd'[o].day = hd'[h].day
      PROVE  hd'[h].day \in contested'
  <2>1. hd'[o] = hd[o]
    BY <1>3 DEF Frame
  <2>2. CASE hd[h].pc # "idle" /\ hd'[h].day = hd[h].day
    BY <1>3, <2>1, <2>2 DEF AInv, OneByOne, Lawful
  <2>3. CASE contested' = Contested(hd'[h].day)
    <3>1. hd'[h].day \in Days
      BY DEF HandlerState
    <3> QED
      BY <1>3, <2>1, <2>3, <3>1, ContestedGrows DEF AInv
  <2> QED
    BY <1>3, <2>2, <2>3 DEF Lawful
<1>4. CASE g = h
  BY <1>1, <1>3, <1>4
<1>5. CASE k = h
  BY <1>1, <1>3, <1>5
<1> QED
  BY <1>2, <1>4, <1>5

\* The runs the step does not work on.
LEMMA OtherRunsOK ==
    ASSUME AInv, NEW r \in RunIds, RunsKept, contested \subseteq contested',
           NightChargedOnce', charges' \in [Bookings -> [Days -> Nat]],
           \A b \in Bookings, d \in Days : charges'[b][d] >= charges[b][d],
           item'[r] = item[r], run'[r].status = "completed" => run[r].status = "completed"
    PROVE  RunOK(r)'
<1>1. RunOK(r)
  BY DEF AInv
<1>2. CASE run[r].status = "none"
  <2>1. \A b \in Bookings : item'[r][b].kind = "none"
    BY <1>1, <1>2 DEF RunOK
  <2> QED
    BY <1>2, <2>1 DEF RunOK, Without
<1>3. CASE run[r].status # "none"
  <2>1. run'[r].status # "none" /\ run'[r].day = run[r].day /\ run[r].day \in Days
    BY <1>3 DEF RunsKept, AInv, Typed, RunRow
  <2>2. \A b \in Bookings : charges[b][run[r].day] = 1 => charges'[b][run[r].day] = 1
    <3>1. \A b \in Bookings : charges'[b][run[r].day] \in Nat /\ charges'[b][run[r].day] <= 1
      BY <2>1 DEF NightChargedOnce
    <3> QED
      BY <2>1, <3>1
  <2> QED
    BY <1>1, <2>1, <2>2 DEF RunOK, Without
<1> QED
  BY <1>2, <1>3

LEMMA StepKeeps ==
    ASSUME AInv, NEW h \in Handlers, Typed', NightChargedOnce', Frame(h), HandlerOK(h)',
           RunsKept, RunsLocal(h), Lawful(h),
           \A b \in Bookings, d \in Days : charges'[b][d] >= charges[b][d],
           \A r \in RunIds : hd[h].pc # "idle" /\ r = hd[h].run => RunOK(r)'
    PROVE  AInv'
<1>1. contested \subseteq contested' /\ hd' \in [Handlers -> HandlerState]
      /\ charges' \in [Bookings -> [Days -> Nat]]
  BY DEF Lawful, Typed
<1>2. \A g \in Handlers : HandlerOK(g)'
  BY <1>1, OthersOK
<1>3. OneByOne'
  BY <1>1, StillOneByOne
<1>4. ASSUME NEW r \in RunIds PROVE RunOK(r)'
  <2>1. CASE hd[h].pc # "idle" /\ r = hd[h].run
    BY <2>1
  <2>2. CASE item'[r] = item[r] /\ (run'[r].status = "completed" => run[r].status = "completed")
    BY <1>1, <2>2, OtherRunsOK
  <2> QED
    BY <2>1, <2>2 DEF RunsLocal
<1> QED
  BY <1>2, <1>3, <1>4 DEF AInv

\* A step that leaves items and charges alone and completes no run.
LEMMA QuietKeeps ==
    ASSUME AInv, NEW h \in Handlers, Frame(h), HandlerOK(h)', Lawful(h), RunsKept,
           hd' \in [Handlers -> HandlerState], run' \in [RunIds -> RunRow], contested' \subseteq Days,
           date' \in 1 .. LastDay + 1, faults' \in 0 .. MaxFaults, resumes' \in 0 .. MaxResumes,
           UNCHANGED <<item, charges, stay>>,
           \A r \in RunIds : run'[r].status = "completed" => run[r].status = "completed"
    PROVE  AInv'
<1>1. Typed'
  BY DEF AInv, Typed
<1>2. NightChargedOnce' /\ RunsLocal(h)
  BY DEF AInv, NightChargedOnce, RunsLocal
<1>3. charges' \in [Bookings -> [Days -> Nat]] /\ contested \subseteq contested'
  BY <1>1 DEF Typed, Lawful
<1>4. \A b \in Bookings, d \in Days : charges'[b][d] >= charges[b][d]
  BY <1>3
<1>5. \A r \in RunIds : RunOK(r)'
  BY <1>2, <1>3, <1>4, OtherRunsOK
<1> QED
  BY <1>1, <1>2, <1>4, <1>5, StepKeeps

\* A step that leaves the runs alone, too.
LEMMA WalkKeeps ==
    ASSUME AInv, NEW h \in Handlers, Frame(h), HandlerOK(h)', Lawful(h),
           hd' \in [Handlers -> HandlerState], contested' \subseteq Days,
           date' \in 1 .. LastDay + 1, faults' \in 0 .. MaxFaults, resumes' \in 0 .. MaxResumes,
           UNCHANGED <<run, item, charges, stay>>
    PROVE  AInv'
<1>1. RunsKept /\ run' \in [RunIds -> RunRow]
  BY DEF RunsKept, AInv, Typed
<1> QED
  BY <1>1, QuietKeeps

\* A handler that has a run gives it a status other than completed and ends.
LEMMA StopKeeps ==
    ASSUME AInv, NEW h \in Handlers, hd[h].pc \notin Searching,
           NEW s \in RunStatuses \ {"none", "completed"}, SetStatus(hd[h].run, s), Done(h),
           faults' \in 0 .. MaxFaults, UNCHANGED <<date, item, stay, charges, history>>
    PROVE  AInv'
<1>1. hd[h].run \in RunIds
  BY DEF AInv, HandlerOK
<1>2. /\ run' \in [RunIds -> RunRow] /\ run'[hd[h].run].status = s
      /\ \A q \in RunIds : run'[q].day = run[q].day /\ run'[q].dry = run[q].dry
      /\ \A q \in RunIds \ {hd[h].run} : run'[q] = run[q]
  BY <1>1, StatusEffect DEF AInv
<1>3. /\ hd' \in [Handlers -> HandlerState] /\ Frame(h)
      /\ hd'[h].pc = "idle" /\ HandlerOK(h)'
  BY DoneEffect DEF AInv
<1>4. RunsKept /\ \A r \in RunIds : run'[r].status = "completed" => run[r].status = "completed"
  BY <1>2 DEF RunsKept
<1>5. Lawful(h)
  BY <1>3 DEF Lawful, history
<1>6. /\ contested' \subseteq Days /\ date' \in 1 .. LastDay + 1 /\ resumes' \in 0 .. MaxResumes
  BY DEF AInv, Typed, history
<1> QED
  BY <1>2, <1>3, <1>4, <1>5, <1>6, QuietKeeps

\* A handler that has a run goes on to another step.
LEMMA MoveKeeps ==
    ASSUME AInv, NEW h \in Handlers, hd[h].pc # "idle", hd' \in [Handlers -> HandlerState], Frame(h),
           hd'[h].day = hd[h].day, HandlerOK(h)', date' \in 1 .. LastDay + 1,
           faults' \in 0 .. MaxFaults, UNCHANGED <<run, item, stay, charges, history>>
    PROVE  AInv'
<1>1. Lawful(h)
  BY DEF Lawful, history
<1>2. contested' \subseteq Days /\ resumes' \in 0 .. MaxResumes
  BY DEF AInv, Typed, history
<1> QED
  BY <1>1, <1>2, WalkKeeps

-----------------------------------------------------------------------------
(* Starting a run *)

LEMMA RequestKeeps ==
    ASSUME AInv, NEW h \in Handlers, NEW kind \in {"live", "dry", "rerun"}, Request(h, kind)
    PROVE  AInv'
<1>1. /\ date \in Days /\ contested' = Contested(date)
      /\ hd' = [hd EXCEPT ![h] = [Idle EXCEPT !.pc = "insert", !.kind = kind, !.day = date]]
      /\ UNCHANGED <<date, run, item, stay, charges, faults, resumes>>
  BY DEF Request
<1>2. /\ [Idle EXCEPT !.pc = "insert", !.kind = kind, !.day = date] \in HandlerState
      /\ [Idle EXCEPT !.pc = "insert", !.kind = kind, !.day = date].pc = "insert"
      /\ [Idle EXCEPT !.pc = "insert", !.kind = kind, !.day = date].run = 0
      /\ [Idle EXCEPT !.pc = "insert", !.kind = kind, !.day = date].day = date
  BY <1>1, Bounds DEF Idle, HandlerState, Pcs, Kinds
<1>3. /\ hd' \in [Handlers -> HandlerState] /\ Frame(h)
      /\ hd'[h].pc = "insert" /\ hd'[h].run = 0 /\ hd'[h].day = date
  BY <1>1, <1>2, SetHandler DEF AInv
<1>4. HandlerOK(h)'
  BY <1>3 DEF HandlerOK, Searching, Looking, Committing, Building
<1>5. Lawful(h) /\ contested' \subseteq Days
  BY <1>1, <1>3, ContestedGrows DEF AInv, Lawful
<1>6. date' \in 1 .. LastDay + 1 /\ faults' \in 0 .. MaxFaults /\ resumes' \in 0 .. MaxResumes
  BY <1>1 DEF AInv, Typed
<1> QED
  BY <1>1, <1>3, <1>4, <1>5, <1>6, WalkKeeps

\* A fresh run: nothing was known of it.
LEMMA InsertRunKeeps ==
    ASSUME AInv, NEW h \in Handlers, NEW r \in RunIds, hd[h].pc # "idle", InsertRun(h, r),
           UNCHANGED <<date, item, stay, charges, faults, history>>
    PROVE  AInv'
<1> DEFINE row == [status |-> "running", day |-> hd[h].day, dry |-> hd[h].kind # "live", indexed |-> TRUE]
<1>1. /\ run[r].status = "none" /\ run' = [run EXCEPT ![r] = row]
      /\ Take(h, "validate", r)
  BY DEF InsertRun, Take
<1>2. row \in RunRow /\ row.status = "running" /\ row.day = hd[h].day /\ row.dry = (hd[h].kind # "live")
  BY DEF AInv, Typed, HandlerState, RunRow, RunStatuses
<1> HIDE DEF row
<1>3. run' \in [RunIds -> RunRow] /\ run'[r] = row /\ \A q \in RunIds \ {r} : run'[q] = run[q]
  BY <1>1, <1>2 DEF AInv, Typed
<1>4. /\ hd' \in [Handlers -> HandlerState] /\ Frame(h)
      /\ hd'[h].pc = "validate" /\ hd'[h].run = r /\ hd'[h].day = hd[h].day
      /\ hd'[h].kind = hd[h].kind
  <2>1. hd \in [Handlers -> HandlerState] /\ "validate" \in Pcs /\ r \in 0 .. MaxRuns
    BY Bounds DEF AInv, Typed, Pcs
  <2> QED
    BY <1>1, <2>1, TakeEffect
<1>5. HandlerOK(h)'
  BY <1>2, <1>3, <1>4 DEF HandlerOK, Committing, Building
<1>6. RunsKept /\ \A q \in RunIds : run'[q].status = "completed" => run[q].status = "completed"
  BY <1>1, <1>2, <1>3 DEF RunsKept
<1>7. Lawful(h)
  BY <1>4 DEF Lawful, history
<1>8. /\ contested' \subseteq Days /\ date' \in 1 .. LastDay + 1 /\ resumes' \in 0 .. MaxResumes
      /\ faults' \in 0 .. MaxFaults
  BY DEF AInv, Typed, history
<1> QED
  BY <1>3, <1>4, <1>5, <1>6, <1>7, <1>8, QuietKeeps

LEMMA SearchKeeps ==
    ASSUME AInv, NEW h \in Handlers, Insert(h) \/ Reinsert(h)
    PROVE  AInv'
<1>1. hd[h].pc # "idle" /\ UNCHANGED <<date, item, stay, charges, faults, history>>
  BY DEF Insert, Reinsert
<1>2. ASSUME NEW r \in RunIds, InsertRun(h, r) PROVE AInv'
  BY <1>1, <1>2, InsertRunKeeps
<1>3. ASSUME NEW pc \in {"existing", "again"}, Goto(h, pc), UNCHANGED run PROVE AInv'
  <2>1. /\ hd' \in [Handlers -> HandlerState] /\ Frame(h)
        /\ hd'[h].pc = pc /\ hd'[h].run = hd[h].run /\ hd'[h].day = hd[h].day
    BY <1>3, GotoEffect DEF AInv, Pcs
  <2>2. HandlerOK(h)
    BY DEF AInv
  <2>3. HandlerOK(h)'
    BY <1>3, <2>1, <2>2 DEF HandlerOK, Searching, Looking, Committing, Building
  <2>4. date' \in 1 .. LastDay + 1 /\ faults' \in 0 .. MaxFaults
    BY <1>1 DEF AInv, Typed
  <2> QED
    BY <1>1, <1>3, <2>1, <2>3, <2>4, MoveKeeps
<1> QED
  BY <1>2, <1>3 DEF Insert, Reinsert

\* A handler ends without a word.
LEMMA EndKeeps ==
    ASSUME AInv, NEW h \in Handlers, Done(h), faults' \in 0 .. MaxFaults,
           UNCHANGED <<date, run, item, stay, charges, history>>
    PROVE  AInv'
<1>1. /\ hd' \in [Handlers -> HandlerState] /\ Frame(h)
      /\ hd'[h].pc = "idle" /\ HandlerOK(h)'
  BY DoneEffect DEF AInv
<1>2. Lawful(h)
  BY <1>1 DEF Lawful, history
<1>3. contested' \subseteq Days /\ resumes' \in 0 .. MaxResumes /\ date' \in 1 .. LastDay + 1
  BY DEF AInv, Typed, history
<1> QED
  BY <1>1, <1>2, <1>3, WalkKeeps

LEMMA LookUpKeeps ==
    ASSUME AInv, NEW h \in Handlers, NEW stale \in BOOLEAN, LookUpExisting(h, stale)
    PROVE  AInv'
<1>1. /\ hd[h].pc \in {"existing", "again"}
      /\ UNCHANGED <<date, run, item, stay, charges, faults, history>>
  BY DEF LookUpExisting
<1>2. date' \in 1 .. LastDay + 1 /\ faults' \in 0 .. MaxFaults
  BY <1>1 DEF AInv, Typed
<1>3. CASE Done(h)
  BY <1>1, <1>2, <1>3, EndKeeps
<1>4. ASSUME NEW r \in Indexed(hd[h].day), run[r].status # "none",
             NEW pc \in Looking,
             Take(h, pc, r)
      PROVE  AInv'
  <2>1. r \in RunIds /\ run[r].day = hd[h].day
    BY DEF Indexed
  <2>2. /\ hd' \in [Handlers -> HandlerState] /\ Frame(h)
        /\ hd'[h].pc = pc /\ hd'[h].run = r /\ hd'[h].day = hd[h].day
    <3>1. hd \in [Handlers -> HandlerState] /\ pc \in Pcs /\ r \in 0 .. MaxRuns
      BY <2>1, Bounds DEF AInv, Typed, Pcs, Looking
    <3> QED
      BY <1>4, <3>1, TakeEffect
  <2>3. HandlerOK(h)'
    BY <1>1, <1>4, <2>1, <2>2 DEF HandlerOK, Looking, Committing, Building, Searching
  <2> QED
    BY <1>1, <1>2, <2>2, <2>3, MoveKeeps
<1>5. ASSUME NEW r \in Indexed(hd[h].day),
             IF \/ hd[h].kind = "rerun" /\ hd[h].pc = "existing" /\ run[r].status \in Terminal
                \/ run[r].status = "dry_completed"
                \/ run[r].dry /\ run[r].status \in Resumable
             THEN hd' = [hd EXCEPT ![h].pc = IF hd[h].pc = "existing" THEN "supersede" ELSE "drop",
                                   ![h].run = r]
             ELSE IF stale /\ MayBeStale(r)
             THEN hd' = [hd EXCEPT ![h].pc = "stale", ![h].run = r]
             ELSE Done(h)
      PROVE  AInv'
  <2>1. "none" \notin Terminal \cup Resumable \cup {"dry_completed", "running"}
    BY DEF Terminal, Resumable
  <2>2. CASE /\ run[r].status \in Terminal \cup Resumable \cup {"dry_completed"}
             /\ hd' = [hd EXCEPT ![h].pc = IF hd[h].pc = "existing" THEN "supersede" ELSE "drop",
                                 ![h].run = r]
    <3>1. \E pc \in Looking : Take(h, pc, r)
      <4>1. (IF hd[h].pc = "existing" THEN "supersede" ELSE "drop") \in Looking
        BY DEF Looking
      <4> QED
        BY <2>2, <4>1 DEF Take
    <3> QED
      BY <1>4, <2>1, <2>2, <3>1
  <2>3. CASE MayBeStale(r) /\ hd' = [hd EXCEPT ![h].pc = "stale", ![h].run = r]
    <3>1. run[r].status = "running" /\ "stale" \in Looking /\ Take(h, "stale", r)
      BY <2>3 DEF MayBeStale, Looking, Take
    <3> QED
      BY <1>4, <2>1, <2>3, <3>1
  <2> QED
    BY <1>3, <1>5, <2>2, <2>3
<1> QED
  BY <1>3, <1>5 DEF LookUpExisting

LEMMA SupersedeEffect ==
    ASSUME run \in [RunIds -> RunRow], NEW r \in RunIds, NEW s \in RunStatuses,
           run' = [run EXCEPT ![r].status = s, ![r].indexed = FALSE]
    PROVE  /\ run' \in [RunIds -> RunRow] /\ run'[r].status = s
           /\ \A q \in RunIds : run'[q].day = run[q].day /\ run'[q].dry = run[q].dry
           /\ \A q \in RunIds \ {r} : run'[q] = run[q]
<1>1. DOMAIN run' = RunIds
  OBVIOUS
<1>2. \A q \in RunIds \ {r} : run'[q] = run[q]
  OBVIOUS
<1>3. run'[r] = [status |-> s, day |-> run[r].day, dry |-> run[r].dry, indexed |-> FALSE]
  BY DEF RunRow
<1>4. run'[r] \in RunRow
  BY <1>3 DEF RunRow
<1>5. run' \in [RunIds -> RunRow]
  BY <1>1, <1>2, <1>4
<1> QED
  BY <1>2, <1>3, <1>5

LEMMA SupersedeKeeps ==
    ASSUME AInv, NEW h \in Handlers, Supersede(h)
    PROVE  AInv'
<1>1. /\ hd[h].pc \in {"supersede", "drop"} /\ hd[h].run \in RunIds
      /\ run' = [run EXCEPT ![hd[h].run].status = "superseded", ![hd[h].run].indexed = FALSE]
      /\ UNCHANGED <<date, item, stay, charges, faults, history>>
  BY DEF Supersede, AInv, HandlerOK, Searching
<1>2. /\ run' \in [RunIds -> RunRow]
      /\ \A q \in RunIds : run'[q].day = run[q].day /\ run'[q].dry = run[q].dry
      /\ run'[hd[h].run].status = "superseded"
      /\ \A q \in RunIds \ {hd[h].run} : run'[q] = run[q]
  <2>1. run \in [RunIds -> RunRow] /\ "superseded" \in RunStatuses
    BY DEF AInv, Typed, RunStatuses, Terminal
  <2> QED
    BY <1>1, <2>1, SupersedeEffect
<1>3. RunsKept /\ \A r \in RunIds : run'[r].status = "completed" => run[r].status = "completed"
  BY <1>2 DEF RunsKept
<1>4. /\ hd' \in [Handlers -> HandlerState] /\ Frame(h) /\ HandlerOK(h)'
      /\ hd'[h].pc = "idle" \/ hd'[h].day = hd[h].day
  <2>1. CASE Done(h)
    BY <2>1, DoneEffect DEF AInv
  <2>2. CASE hd' = [hd EXCEPT ![h].pc = "reinsert", ![h].run = 0]
    <3>1. /\ hd' \in [Handlers -> HandlerState] /\ Frame(h)
          /\ hd'[h].pc = "reinsert" /\ hd'[h].run = 0 /\ hd'[h].day = hd[h].day
      <4>1. hd \in [Handlers -> HandlerState] /\ "reinsert" \in Pcs
        BY DEF AInv, Typed, Pcs
      <4>2. Take(h, "reinsert", 0) /\ 0 \in 0 .. MaxRuns
        BY <2>2, Bounds DEF Take
      <4> QED
        BY <4>1, <4>2, TakeEffect
    <3> QED
      BY <3>1 DEF HandlerOK, Searching, Looking, Committing, Building
  <2> QED
    BY <2>1, <2>2 DEF Supersede
<1>5. Lawful(h)
  BY <1>1, <1>4 DEF Lawful, history
<1>6. /\ contested' \subseteq Days /\ date' \in 1 .. LastDay + 1 /\ resumes' \in 0 .. MaxResumes
      /\ faults' \in 0 .. MaxFaults
  BY <1>1 DEF AInv, Typed, history
<1> QED
  BY <1>1, <1>2, <1>3, <1>4, <1>5, <1>6, QuietKeeps

LEMMA StartKeeps ==
    ASSUME AInv, NEW h \in Handlers, Start(h)
    PROVE  AInv'
<1>1. CASE MarkStale(h)
  <2>1. /\ hd[h].pc \notin Searching /\ "partial" \in RunStatuses \ {"none", "completed"}
        /\ faults' \in 0 .. MaxFaults
    BY <1>1 DEF MarkStale, Searching, RunStatuses, Terminal, AInv, Typed
  <2> QED
    BY <1>1, <2>1, StopKeeps DEF MarkStale
<1> QED
  BY <1>1, RequestKeeps, SearchKeeps, LookUpKeeps, SupersedeKeeps DEF Start

-----------------------------------------------------------------------------
(* The pipeline *)

\* The facts about a handler that has a run.
LEMMA HasRun ==
    ASSUME AInv, NEW h \in Handlers, hd[h].pc \notin Searching
    PROVE  /\ hd[h].pc # "idle" /\ hd[h].run \in RunIds /\ hd[h].run # 0
           /\ run[hd[h].run].status # "none" /\ run[hd[h].run].day = hd[h].day /\ hd[h].day \in Days
           /\ HandlerOK(h) /\ RunOK(hd[h].run) /\ Typed /\ NightChargedOnce
           /\ date \in 1 .. LastDay + 1 /\ faults \in 0 .. MaxFaults
BY Bounds DEF AInv, HandlerOK, Searching, Typed, HandlerState

\* It goes on, with the same run, to a step about whose items there is nothing
\* more to say, or of whose items the step has just found something out.
LEMMA GoOn ==
    ASSUME AInv, NEW h \in Handlers, hd[h].pc \notin Searching \cup Looking, NEW pc \in Pcs,
           Goto(h, pc), pc \notin Searching \cup Looking,
           pc \in Building => hd[h].pc \in Building, pc # "post",
           pc \in Committing => hd[h].pc \in Committing,
           hd[h].day \notin contested =>
               /\ pc = "remaining" => Without(hd[h].run, {"failed"})
               /\ pc \in {"roll", "complete"} => Without(hd[h].run, {"failed", "pending"}),
           date' \in 1 .. LastDay + 1, faults' \in 0 .. MaxFaults,
           UNCHANGED <<run, item, stay, charges, history>>
    PROVE  AInv'
<1>1. /\ hd' \in [Handlers -> HandlerState] /\ Frame(h)
      /\ hd'[h].pc = pc /\ hd'[h].run = hd[h].run /\ hd'[h].day = hd[h].day
      /\ hd'[h].kind = hd[h].kind
  BY GotoEffect DEF AInv
<1>2. HandlerOK(h) /\ hd[h].run \in RunIds /\ hd[h].pc # "idle"
  BY HasRun
<1>3. contested' = contested
  BY DEF history
<1>4. HandlerOK(h)'
  BY <1>1, <1>2, <1>3 DEF HandlerOK, Without
<1> QED
  BY <1>1, <1>2, <1>4, MoveKeeps

LEMMA ValidateKeeps ==
    ASSUME AInv, NEW h \in Handlers, NEW blocked \in BOOLEAN,
           Validate(h, blocked) \/ Revalidate(h, blocked)
    PROVE  AInv'
<1>1. /\ hd[h].pc \in {"validate", "revalidate"}
      /\ UNCHANGED <<date, item, stay, charges, faults, history>>
  BY DEF Validate, Revalidate
<1>2. hd[h].pc \notin Searching \cup Looking
  BY <1>1 DEF Searching, Looking
<1>3. date' \in 1 .. LastDay + 1 /\ faults' \in 0 .. MaxFaults
  BY <1>1, <1>2, HasRun
<1>4. CASE SetStatus(hd[h].run, "blocked") /\ Done(h)
  <2>1. "blocked" \in RunStatuses \ {"none", "completed"}
    BY DEF RunStatuses, Terminal
  <2> QED
    BY <1>1, <1>2, <1>3, <1>4, <2>1, StopKeeps
<1>5. CASE hd[h].pc = "validate" /\ Goto(h, "build") /\ UNCHANGED run
  <2>1. /\ "build" \in Pcs /\ "build" \notin Searching \cup Looking \cup Committing
        /\ hd[h].pc \in Building
    BY <1>5 DEF Pcs, Searching, Looking, Committing, Building
  <2> QED
    BY <1>1, <1>2, <1>3, <1>5, <2>1, GoOn
<1>6. CASE hd[h].pc = "revalidate" /\ Goto(h, "reopen") /\ UNCHANGED run
  <2>1. /\ "reopen" \in Pcs /\ "reopen" \notin Searching \cup Looking \cup Building /\ hd[h].pc \in Committing
    BY <1>6 DEF Pcs, Searching, Looking, Committing, Building
  <2> QED
    BY <1>1, <1>2, <1>3, <1>6, <2>1, GoOn
<1> QED
  BY <1>4, <1>5, <1>6 DEF Validate, Revalidate

LEMMA CountKeeps ==
    ASSUME AInv, NEW h \in Handlers, PostingDone(h) \/ CountFailed(h) \/ CountRemaining(h)
    PROVE  AInv'
<1>1. /\ hd[h].pc \in {"post", "reconcile", "remaining"}
      /\ UNCHANGED <<date, item, stay, charges, faults, history>>
  BY DEF PostingDone, CountFailed, CountRemaining
<1>2. hd[h].pc \notin Searching \cup Looking /\ hd[h].pc \in Committing
  BY <1>1 DEF Searching, Looking, Committing
<1>3. date' \in 1 .. LastDay + 1 /\ faults' \in 0 .. MaxFaults /\ HandlerOK(h)
  BY <1>1, <1>2, HasRun
<1>4. ASSUME NEW s \in {"partial", "failed"}, SetStatus(hd[h].run, s), Done(h) PROVE AInv'
  <2>1. s \in RunStatuses \ {"none", "completed"}
    BY DEF RunStatuses, Terminal
  <2> QED
    BY <1>1, <1>2, <1>3, <1>4, <2>1, StopKeeps
<1>5. ASSUME NEW pc \in {"reconcile", "remaining", "roll"}, Goto(h, pc), UNCHANGED run,
             hd[h].day \notin contested =>
                 /\ pc = "remaining" => Without(hd[h].run, {"failed"})
                 /\ pc = "roll" => Without(hd[h].run, {"failed", "pending"})
      PROVE  AInv'
  <2>1. pc \in Pcs /\ pc \notin Searching \cup Looking \cup Building \cup {"complete", "post"}
    BY DEF Pcs, Searching, Looking, Building
  <2> QED
    BY <1>1, <1>2, <1>3, <1>5, <2>1, GoOn
<1>6. CASE PostingDone(h)
  BY <1>5, <1>6 DEF PostingDone
<1>7. CASE CountFailed(h)
  <2>1. Items(hd[h].run, "failed") = {} => Without(hd[h].run, {"failed"})
    BY DEF Items, Without
  <2> QED
    BY <1>4, <1>5, <1>7, <2>1 DEF CountFailed
<1>8. CASE CountRemaining(h)
  <2>1. hd[h].pc = "remaining"
    BY <1>8 DEF CountRemaining
  <2>2. hd[h].day \notin contested /\ Items(hd[h].run, "pending") = {} =>
           Without(hd[h].run, {"failed", "pending"})
    BY <1>3, <2>1 DEF Items, Without, HandlerOK
  <2> QED
    BY <1>4, <1>5, <1>8, <2>2 DEF CountRemaining
<1> QED
  BY <1>6, <1>7, <1>8

LEMMA StartPostingKeeps ==
    ASSUME AInv, NEW h \in Handlers, NEW blocked \in BOOLEAN, StartPosting(h, blocked)
    PROVE  AInv'
<1>1. hd[h].pc = "mapping" /\ UNCHANGED <<date, item, stay, charges, faults, history>>
  BY DEF StartPosting
<1>2. hd[h].pc \notin Searching \cup Looking
  BY <1>1 DEF Searching, Looking
<1>3. /\ date' \in 1 .. LastDay + 1 /\ faults' \in 0 .. MaxFaults /\ HandlerOK(h)
      /\ hd[h].run \in RunIds /\ hd \in [Handlers -> HandlerState]
  BY <1>1, <1>2, HasRun DEF Typed
<1>4. CASE SetStatus(hd[h].run, "blocked") /\ Done(h)
  <2>1. "blocked" \in RunStatuses \ {"none", "completed"}
    BY DEF RunStatuses, Terminal
  <2> QED
    BY <1>1, <1>2, <1>3, <1>4, <2>1, StopKeeps
<1>5. CASE /\ UNCHANGED run
           /\ hd' = [hd EXCEPT ![h].pc = "post", ![h].todo = Items(hd[h].run, "pending")]
  <2>1. Queue(h, "post", Items(hd[h].run, "pending"))
    BY <1>5 DEF Queue
  <2>2. Items(hd[h].run, "pending") \in SUBSET Bookings /\ "post" \in Pcs
    BY DEF Items, Pcs
  <2>3. /\ hd' \in [Handlers -> HandlerState] /\ Frame(h)
        /\ hd'[h].pc = "post" /\ hd'[h].run = hd[h].run /\ hd'[h].day = hd[h].day
        /\ hd'[h].todo = Items(hd[h].run, "pending")
    BY <1>3, <2>1, <2>2, QueueEffect
  <2>4. \A b \in hd'[h].todo : item'[hd'[h].run][b].status = "pending"
    BY <1>1, <2>3 DEF Items
  <2>5. /\ run' = run /\ contested' = contested /\ "post" \notin Searching \cup Looking
        /\ hd[h].pc \in Committing
    BY <1>1, <1>5 DEF Committing, Searching, Looking, history
  <2>6. HandlerOK(h)'
    BY <1>1, <1>2, <1>3, <2>3, <2>4, <2>5, SMTT(30) DEF HandlerOK, Building
  <2> QED
    BY <1>1, <1>3, <1>5, <2>3, <2>6, MoveKeeps
<1> QED
  BY <1>4, <1>5 DEF StartPosting

LEMMA CloseKeeps ==
    ASSUME AInv, NEW h \in Handlers,
           (\E blocked \in BOOLEAN : RollBusinessDate(h, blocked)) \/ Complete(h)
    PROVE  AInv'
<1>1. hd[h].pc \in {"roll", "complete"} /\ UNCHANGED <<item, stay, charges, faults, history>>
  BY DEF RollBusinessDate, Complete
<1>2. hd[h].pc \notin Searching \cup Looking /\ hd[h].pc \in Committing
  BY <1>1 DEF Searching, Looking, Committing
<1>3. /\ date \in 1 .. LastDay + 1 /\ faults' \in 0 .. MaxFaults /\ HandlerOK(h)
      /\ hd[h].run \in RunIds /\ hd[h].day \in Days /\ hd[h].pc # "idle"
      /\ run[hd[h].run].day = hd[h].day
  BY <1>1, <1>2, HasRun
<1>4. CASE SetStatus(hd[h].run, "failed") /\ Done(h) /\ UNCHANGED date
  <2>1. "failed" \in RunStatuses \ {"none", "completed"}
    BY DEF RunStatuses, Terminal
  <2> QED
    BY <1>1, <1>2, <1>3, <1>4, <2>1, StopKeeps
<1>5. CASE date' = hd[h].day + 1 /\ Goto(h, "complete") /\ UNCHANGED run
  <2>1. /\ "complete" \in Pcs /\ "complete" \notin Searching \cup Looking \cup Building
        /\ date' \in 1 .. LastDay + 1
    BY <1>3, <1>5, Bounds DEF Pcs, Searching, Looking, Building
  <2>2. hd[h].day \notin contested => Without(hd[h].run, {"failed", "pending"})
    BY <1>1, <1>3 DEF HandlerOK
  <2> QED
    BY <1>1, <1>2, <1>3, <1>5, <2>1, <2>2, GoOn
<1>6. CASE Complete(h)
  <2>1. SetStatus(hd[h].run, "completed") /\ Done(h) /\ UNCHANGED date /\ hd[h].pc = "complete"
    BY <1>6 DEF Complete
  <2>2. /\ run' \in [RunIds -> RunRow] /\ run'[hd[h].run].status = "completed"
        /\ \A q \in RunIds : run'[q].day = run[q].day /\ run'[q].dry = run[q].dry
        /\ \A q \in RunIds \ {hd[h].run} : run'[q] = run[q]
    BY <1>3, <2>1, StatusEffect DEF AInv, RunStatuses, Terminal
  <2>3. /\ hd' \in [Handlers -> HandlerState] /\ Frame(h)
        /\ hd'[h].pc = "idle" /\ HandlerOK(h)'
    BY <2>1, DoneEffect DEF AInv
  <2>4. RunsKept /\ RunsLocal(h) /\ Lawful(h)
    BY <1>1, <1>3, <2>2, <2>3 DEF RunsKept, RunsLocal, Lawful, history
  <2>5. Typed' /\ NightChargedOnce' /\ charges' = charges
    BY <1>1, <1>3, <2>1, <2>2, <2>3 DEF AInv, Typed, NightChargedOnce, history
  <2>6. \A b \in Bookings, d \in Days : charges'[b][d] >= charges[b][d]
    BY <2>5 DEF AInv, Typed
  <2>7. ASSUME NEW r \in RunIds, r = hd[h].run PROVE RunOK(r)'
    <3>1. RunOK(r)
      BY DEF AInv
    <3>2. hd[h].day \notin contested => Without(r, {"failed", "pending"})
      BY <1>1, <1>3, <2>1, <2>7 DEF HandlerOK
    <3> QED
      BY <1>1, <1>3, <2>2, <2>7, <3>1, <3>2 DEF RunOK, Without, history
  <2> QED
    BY <2>3, <2>4, <2>5, <2>6, <2>7, StepKeeps
<1> QED
  BY <1>4, <1>5, <1>6 DEF RollBusinessDate

LEMMA FailKeeps ==
    ASSUME AInv, NEW h \in Handlers, FailRun(h) \/ CompleteSimulation(h)
    PROVE  AInv'
<1>1. PICK s \in {"failed", "dry_completed"} : SetStatus(hd[h].run, s)
  BY DEF FailRun, CompleteSimulation
<1>2. s \in RunStatuses \ {"none", "completed"}
  BY DEF RunStatuses, Terminal
<1>3. hd[h].pc \notin Searching /\ Done(h) /\ UNCHANGED <<date, item, stay, charges, history>>
  BY DEF FailRun, CompleteSimulation, Searching
<1>4. faults' \in 0 .. MaxFaults
  BY DEF FailRun, CompleteSimulation, AInv, Typed
<1> QED
  BY <1>1, <1>2, <1>3, <1>4, StopKeeps

LEMMA RaiseKeeps ==
    ASSUME AInv, NEW h \in Handlers, StageFails(h)
    PROVE  AInv'
<1>1. /\ hd[h].pc \in {"validate", "build", "mapping", "post", "reconcile", "remaining", "roll"}
      /\ faults < MaxFaults /\ faults' = faults + 1 /\ Goto(h, "fail")
      /\ UNCHANGED <<date, run, item, stay, charges, history>>
  BY DEF StageFails
<1>2. /\ hd[h].pc \notin Searching \cup Looking /\ "fail" \in Pcs
      /\ "fail" \notin Searching \cup Looking \cup Building \cup Committing
  BY <1>1 DEF Searching, Looking, Building, Committing, Pcs
<1>3. date' \in 1 .. LastDay + 1 /\ faults' \in 0 .. MaxFaults
  BY <1>1, <1>2, HasRun, Bounds
<1> QED
  BY <1>1, <1>2, <1>3, GoOn

-----------------------------------------------------------------------------
(* The steps that write items *)

\* Only the items of the handler's run change, none into a status whose charge
\* is missing; the run is not completed, or its day is contested.
LEMMA ItemsKeep ==
    ASSUME AInv, NEW h \in Handlers, hd[h].pc \notin Searching \cup Looking,
           hd' \in [Handlers -> HandlerState], Frame(h), HandlerOK(h)',
           hd'[h].pc = "idle" \/ hd'[h].day = hd[h].day,
           item' \in [RunIds -> [Bookings -> ItemRow]],
           \A q \in RunIds \ {hd[h].run} : item'[q] = item[q],
           run' = run \/ SetStatus(hd[h].run, "running"),
           charges' \in [Bookings -> [Days -> Nat]], stay' \in [Bookings -> StayRow],
           \A b \in Bookings, d \in Days : charges'[b][d] >= charges[b][d],
           NightChargedOnce', faults' \in 0 .. MaxFaults, UNCHANGED <<date, history>>,
           \A b \in Bookings : item'[hd[h].run][b].kind = "room_charge" =>
              /\ item'[hd[h].run][b].status # "none"
              /\ item'[hd[h].run][b].status \in {"posted", "skipped"} => charges'[b][hd[h].day] = 1
    PROVE  AInv'
<1>1. /\ hd[h].pc # "idle" /\ hd[h].run \in RunIds /\ Typed /\ HandlerOK(h)
      /\ run[hd[h].run].status # "none" /\ run[hd[h].run].day = hd[h].day
  BY HasRun
<1>2. /\ run' \in [RunIds -> RunRow]
      /\ \A q \in RunIds : run'[q].day = run[q].day /\ run'[q].dry = run[q].dry
      /\ \A q \in RunIds \ {hd[h].run} : run'[q] = run[q]
      /\ run'[hd[h].run].status \in {run[hd[h].run].status, "running"}
  <2>1. CASE run' = run
    BY <1>1, <2>1 DEF Typed
  <2>2. CASE SetStatus(hd[h].run, "running")
    BY <1>1, <2>2, StatusEffect DEF RunStatuses
  <2> QED
    BY <2>1, <2>2
<1>3. Typed'
  BY <1>1, <1>2 DEF Typed, history
<1>4. RunsKept /\ RunsLocal(h) /\ Lawful(h)
  BY <1>1, <1>2 DEF RunsKept, RunsLocal, Lawful, history
<1>5. ASSUME NEW r \in RunIds, r = hd[h].run PROVE RunOK(r)'
  <2>1. run'[r].day = hd[h].day /\ run'[r].status # "none"
    BY <1>1, <1>2, <1>5
  <2>2. hd[h].day \notin contested => run'[r].status # "completed"
    BY <1>1, <1>2, <1>5 DEF HandlerOK
  <2> QED
    BY <1>5, <2>1, <2>2 DEF RunOK, history
<1> QED
  BY <1>3, <1>4, <1>5, StepKeeps

LEMMA ListKeeps ==
    ASSUME AInv, NEW h \in Handlers, ListInHouse(h)
    PROVE  AInv'
<1>1. hd[h].pc = "build" /\ UNCHANGED <<date, run, item, stay, charges, faults, history>>
  BY DEF ListInHouse
<1>2. hd[h].pc \notin Searching \cup Looking
  BY <1>1 DEF Searching, Looking
<1>3. /\ date' \in 1 .. LastDay + 1 /\ faults' \in 0 .. MaxFaults /\ HandlerOK(h)
      /\ hd[h].run \in RunIds /\ hd \in [Handlers -> HandlerState] /\ hd[h].pc # "idle"
  BY <1>1, <1>2, HasRun DEF Typed
<1>4. \E S \in SUBSET Bookings : Queue(h, "arrivals", S)
  BY DEF ListInHouse, Queue
<1>5. /\ hd' \in [Handlers -> HandlerState] /\ Frame(h)
      /\ hd'[h].pc = "arrivals" /\ hd'[h].run = hd[h].run /\ hd'[h].day = hd[h].day
      /\ hd'[h].kind = hd[h].kind
  BY <1>3, <1>4, QueueEffect DEF Pcs
<1>6. HandlerOK(h)'
  BY <1>1, <1>2, <1>3, <1>5 DEF HandlerOK, Committing, Building, Searching, Looking, history
<1> QED
  BY <1>1, <1>3, <1>5, <1>6, MoveKeeps

LEMMA BuildKeeps ==
    ASSUME AInv, NEW h \in Handlers, NEW landed \in SUBSET Bookings,
           BuildCandidates(h) \/ BuildFails(h, landed)
    PROVE  AInv'
<1>1. PICK S \in SUBSET Bookings : Candidates(h, S)
  BY DEF BuildCandidates, BuildFails
<1> DEFINE new(b) == Candidate(b, hd[h].day, hd[h].todo)
           set == [b \in Bookings |-> IF b \in S THEN new(b) ELSE NoItem]
<1>2. /\ hd[h].pc = "arrivals" /\ item' = [item EXCEPT ![hd[h].run] = set]
      /\ UNCHANGED <<date, run, stay, charges, history>>
  BY <1>1 DEF BuildCandidates, BuildFails, Candidates
<1>3. hd[h].pc \notin Searching \cup Looking
  BY <1>2 DEF Searching, Looking
<1>4. /\ hd[h].pc # "idle" /\ hd[h].run \in RunIds /\ Typed /\ HandlerOK(h) /\ hd[h].day \in Days
      /\ NightChargedOnce /\ faults \in 0 .. MaxFaults
  BY <1>3, HasRun
<1>5. \A b \in Bookings :
         /\ set[b] \in ItemRow
         /\ set[b].kind = "room_charge" =>
              /\ set[b].status # "none"
              /\ set[b].status \in {"posted", "skipped"} => charges[b][hd[h].day] # 0
  BY DEF Candidate, ItemRow, NoItem
<1>6. set \in [Bookings -> ItemRow]
  BY <1>5
<1> HIDE DEF set
<1>7. /\ item' \in [RunIds -> [Bookings -> ItemRow]] /\ item'[hd[h].run] = set
      /\ \A q \in RunIds \ {hd[h].run} : item'[q] = item[q]
  BY <1>2, <1>4, <1>6 DEF Typed
<1>8. \A b \in Bookings : charges[b][hd[h].day] # 0 => charges[b][hd[h].day] = 1
  <2>1. \A b \in Bookings : charges[b][hd[h].day] \in Nat /\ charges[b][hd[h].day] <= 1
    BY <1>4 DEF Typed, NightChargedOnce
  <2> QED
    BY <2>1
<1>9. PICK pc \in {"mapping", "simulate", "fail"} :
         /\ hd' = [hd EXCEPT ![h].pc = pc, ![h].todo = {}]
         /\ pc = "mapping" => hd[h].kind = "live"
  BY DEF BuildCandidates, BuildFails
<1>10. /\ hd' \in [Handlers -> HandlerState] /\ Frame(h)
      /\ hd'[h].pc = pc /\ hd'[h].run = hd[h].run /\ hd'[h].day = hd[h].day
  <2>1. Queue(h, pc, {}) /\ pc \in Pcs /\ hd \in [Handlers -> HandlerState]
    BY <1>4, <1>9 DEF Queue, Pcs, Typed
  <2> QED
    BY <2>1, QueueEffect
<1>11. HandlerOK(h)'
  BY <1>2, <1>3, <1>4, <1>9, <1>10
  DEF HandlerOK, Committing, Building, Searching, Looking, history
<1>12. /\ charges' \in [Bookings -> [Days -> Nat]] /\ stay' \in [Bookings -> StayRow]
       /\ NightChargedOnce'
  BY <1>2, <1>4 DEF Typed, NightChargedOnce
<1>13. \A b \in Bookings, d \in Days : charges'[b][d] >= charges[b][d]
  BY <1>2, <1>12
<1>14. \A b \in Bookings : item'[hd[h].run][b].kind = "room_charge" =>
         /\ item'[hd[h].run][b].status # "none"
         /\ item'[hd[h].run][b].status \in {"posted", "skipped"} => charges'[b][hd[h].day] = 1
  BY <1>2, <1>5, <1>7, <1>8
<1>15. faults' \in 0 .. MaxFaults
  BY <1>4, Bounds DEF BuildCandidates, BuildFails
<1> QED
  BY <1>2, <1>3, <1>4, <1>7, <1>10, <1>11, <1>12, <1>13, <1>14, <1>15, ItemsKeep

\* An item is taken off the list and ends posted with its charge, skipped beside
\* the charge that was there, or failed with or without it.
LEMMA PostKeeps ==
    ASSUME AInv, NEW h \in Handlers, NEW b \in Bookings, PostItem(h, b) \/ PostingFails(h, b)
    PROVE  AInv'
<1> DEFINE r == hd[h].run
           d == hd[h].day
<1>1. /\ hd[h].pc = "post" /\ hd' = [hd EXCEPT ![h].todo = hd[h].todo \ {b}]
      /\ UNCHANGED <<date, run, history>>
  BY DEF PostItem, PostingFails
<1>2. hd[h].pc \notin Searching \cup Looking
  BY <1>1 DEF Searching, Looking
<1>3. /\ hd[h].pc # "idle" /\ r \in RunIds /\ Typed /\ HandlerOK(h) /\ d \in Days
      /\ NightChargedOnce /\ RunOK(r) /\ faults \in 0 .. MaxFaults /\ run[r].day = d
  BY <1>1, <1>2, HasRun
<1>4. /\ hd' \in [Handlers -> HandlerState] /\ Frame(h)
      /\ hd'[h].pc = "post" /\ hd'[h].run = r /\ hd'[h].day = d
      /\ hd'[h].todo = hd[h].todo \ {b} /\ hd[h].todo \subseteq Bookings
  <2>1. Queue(h, "post", hd[h].todo \ {b}) /\ "post" \in Pcs
    BY <1>1 DEF Queue, Pcs
  <2>2. hd[h].todo \ {b} \in SUBSET Bookings /\ hd \in [Handlers -> HandlerState]
    BY <1>3 DEF Typed, HandlerState
  <2> QED
    BY <2>1, <2>2, QueueEffect
<1>5. ASSUME \A c \in Bookings \ {b} : item'[r][c].status = item[r][c].status
      PROVE  HandlerOK(h)'
  BY <1>1, <1>2, <1>3, <1>4, <1>5
  DEF HandlerOK, Committing, Building, Searching, Looking, history
<1>6. faults' \in 0 .. MaxFaults
  BY <1>3, Bounds DEF PostItem, PostingFails
<1>7. /\ charges \in [Bookings -> [Days -> Nat]] /\ stay \in [Bookings -> StayRow]
      /\ \A c \in Bookings, e \in Days : charges[c][e] \in Nat /\ charges[c][e] >= charges[c][e]
      /\ item \in [RunIds -> [Bookings -> ItemRow]]
  BY <1>3 DEF Typed
<1> HIDE DEF r, d
<1>8. ASSUME NEW s \in {"posted", "skipped", "failed"}, SetItem(r, b, s),
             charges' \in [Bookings -> [Days -> Nat]], stay' \in [Bookings -> StayRow],
             \A c \in Bookings, e \in Days : charges'[c][e] >= charges[c][e], NightChargedOnce',
             s # "failed" /\ item[r][b].kind = "room_charge" => charges'[b][d] = 1
      PROVE  AInv'
  <2>1. /\ item' \in [RunIds -> [Bookings -> ItemRow]]
        /\ \A q \in RunIds \ {r} : item'[q] = item[q]
        /\ \A c \in Bookings : /\ item'[r][c].kind = item[r][c].kind
                               /\ item'[r][c].status = IF c = b THEN s ELSE item[r][c].status
    BY <1>3, <1>8, ItemEffect
  <2>2. \A c \in Bookings : charges[c][d] = 1 => charges'[c][d] = 1
    <3>1. \A c \in Bookings : charges'[c][d] \in Nat /\ charges'[c][d] <= 1
      BY <1>3, <1>8 DEF NightChargedOnce
    <3> QED
      BY <1>3, <1>8, <3>1
  <2>3. \A c \in Bookings : item'[r][c].kind = "room_charge" =>
           /\ item'[r][c].status # "none"
           /\ item'[r][c].status \in {"posted", "skipped"} => charges'[c][d] = 1
    BY <1>3, <1>8, <2>1, <2>2 DEF RunOK
  <2> QED
    BY <1>1, <1>2, <1>4, <1>5, <1>6, <1>8, <2>1, <2>3, ItemsKeep DEF r, d
<1>9. CASE UNCHANGED <<item, charges, stay>>
  BY <1>1, <1>3, <1>4, <1>5, <1>6, <1>9, MoveKeeps DEF d, Typed
<1>10. CASE SetItem(r, b, "failed") /\ UNCHANGED <<charges, stay>>
  <2>1. NightChargedOnce' /\ charges' = charges /\ stay' = stay
    BY <1>3, <1>10 DEF NightChargedOnce
  <2> QED
    BY <1>7, <1>8, <1>10, <2>1
<1>11. CASE Duplicate(r, b, d) /\ SetItem(r, b, "skipped") /\ UNCHANGED <<charges, stay>>
  <2>1. NightChargedOnce' /\ charges' = charges /\ stay' = stay
    BY <1>3, <1>11 DEF NightChargedOnce
  <2>2. charges[b][d] = 1
    <3>1. charges[b][d] # 0 /\ charges[b][d] \in Nat /\ charges[b][d] <= 1
      BY <1>3, <1>7, <1>11 DEF Duplicate, NightChargedOnce
    <3> QED
      BY <3>1
  <2> QED
    BY <1>7, <1>8, <1>11, <2>1, <2>2
<1>12. ASSUME NEW s \in {"posted", "failed"}, SetItem(r, b, s), ~Duplicate(r, b, d), Post(r, b, d)
       PROVE  AInv'
  BY <1>3, <1>8, <1>12, PostEffect
<1>13. CASE PostItem(h, b)
  BY <1>9, <1>11, <1>12, <1>13 DEF PostItem, r, d
<1>14. CASE PostingFails(h, b)
  BY <1>9, <1>10, <1>12, <1>14 DEF PostingFails, r, d
<1> QED
  BY <1>13, <1>14

\* Items go from failed to pending, or from pending to aborted.
LEMMA RelabelKeeps ==
    ASSUME AInv, NEW h \in Handlers, hd[h].pc \notin Searching \cup Looking,
           NEW from \in {"failed", "pending"}, NEW to \in {"pending", "aborted"},
           item' = [item EXCEPT ![hd[h].run] =
                      [b \in Bookings |-> IF item[hd[h].run][b].status = from
                                          THEN [item[hd[h].run][b] EXCEPT !.status = to]
                                          ELSE item[hd[h].run][b]]],
           hd' \in [Handlers -> HandlerState], Frame(h), HandlerOK(h)',
           hd'[h].pc = "idle" \/ hd'[h].day = hd[h].day,
           run' = run \/ SetStatus(hd[h].run, "running"),
           UNCHANGED <<date, stay, charges, faults, history>>
    PROVE  AInv'
<1>1. /\ hd[h].run \in RunIds /\ Typed /\ NightChargedOnce /\ RunOK(hd[h].run)
      /\ run[hd[h].run].day = hd[h].day /\ faults' \in 0 .. MaxFaults
  BY HasRun
<1> DEFINE old == item[hd[h].run]
           new == [b \in Bookings |-> IF old[b].status = from THEN [old[b] EXCEPT !.status = to]
                                      ELSE old[b]]
<1>2. old \in [Bookings -> ItemRow]
  BY <1>1 DEF Typed
<1>3. /\ new \in [Bookings -> ItemRow]
      /\ \A b \in Bookings : /\ new[b].kind = old[b].kind
                             /\ new[b].status = IF old[b].status = from THEN to ELSE old[b].status
  <2>1. ASSUME NEW b \in Bookings
        PROVE  /\ new[b] \in ItemRow /\ new[b].kind = old[b].kind
               /\ new[b].status = IF old[b].status = from THEN to ELSE old[b].status
    <3>1. old[b] \in ItemRow
      BY <1>2
    <3>2. \A x \in ItemRow : /\ [x EXCEPT !.status = to] \in ItemRow
                             /\ [x EXCEPT !.status = to].kind = x.kind
                             /\ [x EXCEPT !.status = to].status = to
      BY DEF ItemRow
    <3>3. new[b] = IF old[b].status = from THEN [old[b] EXCEPT !.status = to] ELSE old[b]
      OBVIOUS
    <3> HIDE DEF new, old
    <3> QED
      BY <3>1, <3>2, <3>3
  <2>2. new = [b \in Bookings |-> new[b]]
    OBVIOUS
  <2> HIDE DEF new, old
  <2> QED
    BY <2>1, <2>2
<1>4. item' = [item EXCEPT ![hd[h].run] = new]
  OBVIOUS
<1> HIDE DEF new
<1>5. /\ item' \in [RunIds -> [Bookings -> ItemRow]] /\ item'[hd[h].run] = new
      /\ \A q \in RunIds \ {hd[h].run} : item'[q] = item[q]
  BY <1>1, <1>3, <1>4 DEF Typed
<1>6. \A b \in Bookings : item'[hd[h].run][b].kind = "room_charge" =>
         /\ item'[hd[h].run][b].status # "none"
         /\ item'[hd[h].run][b].status \in {"posted", "skipped"} => charges'[b][hd[h].day] = 1
  <2> SUFFICES ASSUME NEW b \in Bookings, new[b].kind = "room_charge"
               PROVE  /\ new[b].status # "none"
                      /\ new[b].status \in {"posted", "skipped"} => charges'[b][hd[h].day] = 1
    BY <1>5
  <2>1. /\ old[b].status # "none"
        /\ old[b].status \in {"posted", "skipped"} => charges[b][hd[h].day] = 1
    BY <1>1, <1>3 DEF RunOK
  <2>2. new[b].status \in {old[b].status, "pending", "aborted"}
    BY <1>3
  <2> QED
    BY <2>1, <2>2
<1>7. /\ charges' \in [Bookings -> [Days -> Nat]] /\ stay' \in [Bookings -> StayRow]
      /\ NightChargedOnce'
  BY <1>1 DEF Typed, NightChargedOnce
<1>8. \A b \in Bookings, d \in Days : charges'[b][d] >= charges[b][d]
  BY <1>7
<1> QED
  BY <1>1, <1>5, <1>6, <1>7, <1>8, ItemsKeep

LEMMA ResetKeeps ==
    ASSUME AInv, NEW h \in Handlers, ResetFailedItems(h)
    PROVE  AInv'
<1>1. /\ hd[h].pc = "reset" /\ UNCHANGED <<date, stay, charges, faults, history>>
      /\ item' = [item EXCEPT ![hd[h].run] =
                    [b \in Bookings |-> IF item[hd[h].run][b].status = "failed"
                                        THEN [item[hd[h].run][b] EXCEPT !.status = "pending"]
                                        ELSE item[hd[h].run][b]]]
  BY DEF ResetFailedItems
<1>2. hd[h].pc \notin Searching \cup Looking
  BY <1>1 DEF Searching, Looking
<1>3. hd[h].run \in RunIds /\ Typed /\ HandlerOK(h)
  BY <1>1, <1>2, HasRun
<1>4. PICK pc \in {"revalidate", "reopen"} : Goto(h, pc)
  BY DEF ResetFailedItems
<1>5. run' = run \/ SetStatus(hd[h].run, "running")
  BY DEF ResetFailedItems, SetStatus
<1>6. /\ run'[hd[h].run].status \in {run[hd[h].run].status, "running"}
      /\ run'[hd[h].run].day = run[hd[h].run].day /\ run'[hd[h].run].dry = run[hd[h].run].dry
  BY <1>3, <1>5, StatusEffect DEF RunStatuses
<1>7. /\ hd' \in [Handlers -> HandlerState] /\ Frame(h)
      /\ hd'[h].pc = pc /\ hd'[h].run = hd[h].run /\ hd'[h].day = hd[h].day
  BY <1>3, <1>4, GotoEffect DEF Pcs
<1>8. HandlerOK(h)'
  BY <1>1, <1>2, <1>3, <1>6, <1>7 DEF HandlerOK, Committing, Building, Searching, Looking, history
<1> QED
  BY <1>1, <1>2, <1>5, <1>7, <1>8, RelabelKeeps

LEMMA CancelKeeps ==
    ASSUME AInv, NEW h \in Handlers, CancelItems(h)
    PROVE  AInv'
<1>1. hd[h].pc \notin Searching \cup Looking
  BY DEF CancelItems, Searching, Looking
<1>2. /\ hd' \in [Handlers -> HandlerState] /\ Frame(h)
      /\ hd'[h].pc = "idle" /\ HandlerOK(h)'
  BY DoneEffect DEF AInv, CancelItems
<1> QED
  BY <1>1, <1>2, RelabelKeeps DEF CancelItems

-----------------------------------------------------------------------------
(* Resume, abort, crash and the environment *)

LEMMA ResumeKeeps ==
    ASSUME AInv, NEW h \in Handlers, NEW r \in RunIds, ResumeRun(h, r)
    PROVE  AInv'
<1>1. /\ run[r].status \in Resumable /\ ~run[r].dry /\ contested' = Contested(run[r].day)
      /\ resumes < MaxResumes /\ resumes' = resumes + 1
      /\ UNCHANGED <<date, run, item, stay, charges, faults>>
  BY DEF ResumeRun
<1>2. PICK kind \in {"resume", "live"} :
         hd' = [hd EXCEPT ![h] = [pc |-> "reset", run |-> r, day |-> run[r].day, todo |-> {},
                                  kind |-> kind]]
  BY DEF ResumeRun
<1>3. run[r].day \in Days /\ Typed
  BY DEF AInv, Typed, RunRow
<1>4. [pc |-> "reset", run |-> r, day |-> run[r].day, todo |-> {}, kind |-> kind] \in HandlerState
  BY <1>3, Bounds DEF HandlerState, Pcs, Kinds
<1>5. /\ hd' \in [Handlers -> HandlerState] /\ Frame(h)
      /\ hd'[h] = [pc |-> "reset", run |-> r, day |-> run[r].day, todo |-> {}, kind |-> kind]
  BY <1>2, <1>3, <1>4, SetHandler
<1>6. HandlerOK(h)'
  BY <1>1, <1>5 DEF HandlerOK, Resumable, Committing, Building
<1>7. Lawful(h) /\ contested' \subseteq Days
  BY <1>1, <1>3, <1>5, ContestedGrows DEF Lawful
<1>8. date' \in 1 .. LastDay + 1 /\ faults' \in 0 .. MaxFaults /\ resumes' \in 0 .. MaxResumes
  BY <1>1, <1>3, Bounds DEF Typed
<1> QED
  BY <1>1, <1>5, <1>6, <1>7, <1>8, WalkKeeps

LEMMA AbortKeeps ==
    ASSUME AInv, NEW h \in Handlers, NEW r \in RunIds, AbortRun(h, r)
    PROVE  AInv'
<1>1. /\ run[r].status \notin {"none", "completed"} /\ contested' = Contested(run[r].day)
      /\ resumes < MaxResumes /\ resumes' = resumes + 1
      /\ hd' = [hd EXCEPT ![h] = [pc |-> "abort", kind |-> "abort", run |-> r,
                                  day |-> run[r].day, todo |-> {}]]
      /\ UNCHANGED <<date, run, item, stay, charges, faults>>
  BY DEF AbortRun
<1>2. run[r].day \in Days /\ Typed
  BY DEF AInv, Typed, RunRow
<1>3. [pc |-> "abort", kind |-> "abort", run |-> r, day |-> run[r].day, todo |-> {}] \in HandlerState
  BY <1>2, Bounds DEF HandlerState, Pcs, Kinds
<1>4. /\ hd' \in [Handlers -> HandlerState] /\ Frame(h)
      /\ hd'[h] = [pc |-> "abort", kind |-> "abort", run |-> r, day |-> run[r].day, todo |-> {}]
  BY <1>1, <1>2, <1>3, SetHandler
<1>5. HandlerOK(h)'
  BY <1>1, <1>4 DEF HandlerOK, Committing, Building
<1>6. Lawful(h) /\ contested' \subseteq Days
  BY <1>1, <1>2, <1>4, ContestedGrows DEF Lawful
<1>7. date' \in 1 .. LastDay + 1 /\ faults' \in 0 .. MaxFaults /\ resumes' \in 0 .. MaxResumes
  BY <1>1, <1>2, Bounds DEF Typed
<1> QED
  BY <1>1, <1>4, <1>5, <1>6, <1>7, WalkKeeps

\* The run of the handler gets a status, and the handler goes on.
LEMMA StatusKeeps ==
    ASSUME AInv, NEW h \in Handlers, FailAborted(h) \/ Reopen(h)
    PROVE  AInv'
<1>1. PICK s \in {"failed", "running"}, pc \in {"cancel", "mapping"} :
         /\ SetStatus(hd[h].run, s) /\ Goto(h, pc)
         /\ pc = "mapping" => hd[h].pc = "reopen"
  BY DEF FailAborted, Reopen, SetStatus
<1>2. /\ hd[h].pc \in {"abort", "reopen"} /\ hd[h].pc \notin Searching
      /\ UNCHANGED <<date, item, stay, charges, faults, history>>
  BY DEF FailAborted, Reopen, Searching
<1>3. /\ hd[h].run \in RunIds /\ Typed /\ HandlerOK(h) /\ run[hd[h].run].day = hd[h].day
      /\ hd[h].pc # "idle"
  BY <1>2, HasRun
<1>4. /\ run' \in [RunIds -> RunRow] /\ run'[hd[h].run].status = s
      /\ \A q \in RunIds : run'[q].day = run[q].day /\ run'[q].dry = run[q].dry
      /\ \A q \in RunIds \ {hd[h].run} : run'[q] = run[q]
  BY <1>1, <1>3, StatusEffect DEF RunStatuses, Terminal
<1>5. /\ hd' \in [Handlers -> HandlerState] /\ Frame(h)
      /\ hd'[h].pc = pc /\ hd'[h].run = hd[h].run /\ hd'[h].day = hd[h].day
  BY <1>1, <1>3, GotoEffect DEF Pcs
<1>6. HandlerOK(h)'
  BY <1>1, <1>2, <1>3, <1>4, <1>5 DEF HandlerOK, Committing, Building
<1>7. RunsKept /\ \A q \in RunIds : run'[q].status = "completed" => run[q].status = "completed"
  BY <1>4 DEF RunsKept
<1>8. /\ Lawful(h) /\ contested' \subseteq Days /\ resumes' \in 0 .. MaxResumes
      /\ date' \in 1 .. LastDay + 1 /\ faults' \in 0 .. MaxFaults
  BY <1>2, <1>3, <1>5 DEF Lawful, Typed, history
<1> QED
  BY <1>2, <1>4, <1>5, <1>6, <1>7, <1>8, QuietKeeps

LEMMA CrashKeeps ==
    ASSUME AInv, NEW h \in Handlers, Crash(h)
    PROVE  AInv'
<1>1. faults < MaxFaults /\ faults' = faults + 1 /\ faults \in 0 .. MaxFaults
  BY DEF Crash, AInv, Typed
<1>2. faults' \in 0 .. MaxFaults
  BY <1>1, Bounds
<1> QED
  BY <1>2, EndKeeps DEF Crash

\* The front desk changes the stays only.
LEMMA StaysKeep ==
    ASSUME AInv, stay' \in [Bookings -> StayRow],
           UNCHANGED <<date, run, item, charges, hd, faults, history>>
    PROVE  AInv'
<1>1. Typed' /\ NightChargedOnce' /\ OneByOne'
  BY DEF AInv, Typed, NightChargedOnce, OneByOne, history
<1>2. \A h \in Handlers : HandlerOK(h)'
  BY DEF AInv, HandlerOK, Without, history
<1>3. \A r \in RunIds : RunOK(r)'
  BY DEF AInv, RunOK, Without, history
<1> QED
  BY <1>1, <1>2, <1>3 DEF AInv

LEMMA FrontDeskKeeps ==
    ASSUME AInv, NEW b \in Bookings, Reserve(b) \/ CheckIn(b)
    PROVE  AInv'
<1>1. stay \in [Bookings -> StayRow] /\ date \in 1 .. LastDay + 1
  BY DEF AInv, Typed
<1>2. CASE Reserve(b)
  <2>1. stay' = [stay EXCEPT ![b] = [status |-> "confirmed", checkIn |-> date]]
    BY <1>2 DEF Reserve
  <2>2. [status |-> "confirmed", checkIn |-> date] \in StayRow
    BY <1>1 DEF StayRow
  <2> QED
    BY <1>1, <1>2, <2>1, <2>2, StaysKeep DEF Reserve
<1>3. CASE CheckIn(b)
  <2>1. stay' = [stay EXCEPT ![b].status = "checked_in"]
    BY <1>3 DEF CheckIn
  <2>2. stay' \in [Bookings -> StayRow]
    BY <1>1, <2>1 DEF StayRow
  <2> QED
    BY <1>3, <2>2, StaysKeep DEF CheckIn
<1> QED
  BY <1>2, <1>3

LEMMA AInvNext ==
    ASSUME AInv, [Next]_vars
    PROVE  AInv'
<1>1. ASSUME NEW h \in Handlers, Pipeline(h) PROVE AInv'
  BY <1>1, ValidateKeeps, StartPostingKeeps, CloseKeeps, ListKeeps, BuildKeeps, FailKeeps,
     RaiseKeeps, PostKeeps, CountKeeps
  DEF Pipeline
<1>2. ASSUME NEW h \in Handlers, Recovery(h) PROVE AInv'
  BY <1>2, ResumeKeeps, AbortKeeps, ResetKeeps, StatusKeeps, CancelKeeps, ValidateKeeps
  DEF Recovery
<1>3. CASE UNCHANGED vars
  BY <1>3, StaysKeep DEF vars, history, AInv, Typed
<1> QED
  BY <1>1, <1>2, <1>3, StartKeeps, CrashKeeps, FrontDeskKeeps DEF Next

LEMMA AInvHolds == Spec => []AInv
BY AInvInit, AInvNext, PTL DEF Spec

-----------------------------------------------------------------------------
(* The days behind the business date *)

\* Where a day is left behind: by the date, by a request or by a run.
Behind(d) == \/ d < date
             \/ \E h \in Handlers : hd[h].pc # "idle" /\ d < hd[h].day
             \/ \E r \in RunIds : run[r].status # "none" /\ d < run[r].day

\* A real run of the day whose items are settled for good.
AuditedBy(r, d) ==
    /\ run[r].status # "none" /\ run[r].day = d /\ ~run[r].dry
    /\ Without(r, {"failed", "pending"})
    /\ \A h \in Handlers : hd[h].run = r => hd[h].pc \notin Building

Audited == \A d \in Days \ contested : Behind(d) => \E r \in RunIds : AuditedBy(r, d)

\* What a step of a handler may do to them.
BirthsKept(h) ==
    \A r \in RunIds : run[r].status = "none" /\ run'[r].status # "none" =>
        hd[h].pc # "idle" /\ run'[r].day = hd[h].day

DayKnown(h) ==
    \/ hd'[h].pc = "idle"
    \/ hd[h].pc # "idle" /\ hd'[h].day = hd[h].day
    \/ hd'[h].day = date
    \/ \E r \in RunIds : run[r].status # "none" /\ run[r].day = hd'[h].day

BuildsFresh(h) ==
    hd'[h].pc \in Building =>
        \/ hd[h].pc \in Building /\ hd'[h].run = hd[h].run
        \/ run[hd'[h].run].status = "none"

SettledKept(h) ==
    \A r \in RunIds :
        \/ item'[r] = item[r]
        \/ r = hd[h].run /\ hd[h].pc \in Building
        \/ r = hd[h].run /\ hd[h].pc # "idle" /\
              (hd[h].day \notin contested /\ Without(r, {"failed", "pending"}) =>
                  Without(r, {"failed", "pending"})')

LEMMA AuditedStays ==
    ASSUME AInv, Audited, NEW h \in Handlers, NEW d \in Days \ contested,
           Frame(h), RunsKept, BuildsFresh(h), SettledKept(h),
           NEW r \in RunIds, AuditedBy(r, d)
    PROVE  AuditedBy(r, d)'
<1>1. run'[r].status # "none" /\ run'[r].day = d /\ ~run'[r].dry
  BY DEF AuditedBy, RunsKept
<1>2. \A g \in Handlers : hd'[g].run = r => hd'[g].pc \notin Building
  <2> SUFFICES ASSUME NEW g \in Handlers, hd'[g].run = r, hd'[g].pc \in Building PROVE FALSE
    OBVIOUS
  <2>1. CASE g = h
    BY <2>1 DEF AuditedBy, BuildsFresh
  <2>2. CASE g # h
    BY <2>2 DEF AuditedBy, Frame
  <2> QED
    BY <2>1, <2>2
<1>3. Without(r, {"failed", "pending"})'
  <2>1. Without(r, {"failed", "pending"})
    BY DEF AuditedBy
  <2>2. CASE item'[r] = item[r]
    BY <2>1, <2>2 DEF Without
  <2>3. CASE /\ r = hd[h].run /\ hd[h].pc # "idle"
             /\ hd[h].day \notin contested /\ Without(r, {"failed", "pending"}) =>
                   Without(r, {"failed", "pending"})'
    <3>1. hd[h].day = d
      <4>1. HandlerOK(h) /\ r # 0
        BY Bounds DEF AInv
      <4> QED
        BY <2>3, <4>1 DEF HandlerOK, AuditedBy
    <3> QED
      BY <2>1, <2>3, <3>1
  <2> QED
    BY <2>2, <2>3 DEF SettledKept, AuditedBy
<1> QED
  BY <1>1, <1>2, <1>3 DEF AuditedBy

LEMMA AuditedKeeps ==
    ASSUME AInv, Audited, NEW h \in Handlers, AInv', Frame(h), RunsKept, BirthsKept(h), DayKnown(h),
           BuildsFresh(h), SettledKept(h), contested \subseteq contested',
           date' = date \/ (hd[h].pc = "roll" /\ date' = hd[h].day + 1)
    PROVE  Audited'
<1> SUFFICES ASSUME NEW d \in Days \ contested', Behind(d)'
             PROVE  \E r \in RunIds : AuditedBy(r, d)'
  BY DEF Audited, Days
<1>1. d \in Days \ contested /\ d \in Nat
  BY DEF Days
<1>2. CASE Behind(d)
  BY <1>1, <1>2, AuditedStays DEF Audited
<1>3. CASE ~Behind(d)
  <2>1. ~ \E r \in RunIds : run'[r].status # "none" /\ d < run'[r].day
    <3> SUFFICES ASSUME NEW r \in RunIds, run'[r].status # "none", d < run'[r].day PROVE FALSE
      OBVIOUS
    <3>1. CASE run[r].status = "none"
      BY <1>3, <3>1 DEF Behind, BirthsKept
    <3>2. CASE run[r].status # "none"
      BY <1>3, <3>2 DEF Behind, RunsKept
    <3> QED
      BY <3>1, <3>2
  <2>2. ~ \E g \in Handlers : hd'[g].pc # "idle" /\ d < hd'[g].day
    <3> SUFFICES ASSUME NEW g \in Handlers, hd'[g].pc # "idle", d < hd'[g].day PROVE FALSE
      OBVIOUS
    <3>1. CASE g # h
      BY <1>3, <3>1 DEF Behind, Frame
    <3>2. CASE g = h
      BY <1>3, <3>2 DEF Behind, DayKnown
    <3> QED
      BY <3>1, <3>2
  <2>3. d < date' /\ ~(d < date)
    BY <1>3, <2>1, <2>2 DEF Behind
  <2>4. hd[h].pc = "roll" /\ date' = hd[h].day + 1 /\ hd[h].pc # "idle"
    BY <2>3
  <2>5. hd[h].day \in Nat /\ ~(d < hd[h].day)
    <3>1. hd[h].day \in Days
      BY DEF AInv, Typed, HandlerState
    <3> QED
      BY <1>3, <2>4, <3>1 DEF Behind, Days
  <2>6. hd[h].day = d
    BY <1>1, <2>3, <2>4, <2>5
  <2>7. /\ HandlerOK(h) /\ hd[h].run \in RunIds /\ hd[h].run # 0
        /\ run[hd[h].run].status # "none" /\ run[hd[h].run].day = d
    <3>1. hd[h].pc \notin Searching
      BY <2>4 DEF Searching
    <3> QED
      BY <2>6, <3>1, HasRun
  <2>8. Without(hd[h].run, {"failed", "pending"}) /\ ~run[hd[h].run].dry
    BY <1>1, <2>4, <2>6, <2>7 DEF HandlerOK, Committing
  <2>9. \A g \in Handlers : hd[g].run = hd[h].run => hd[g].pc \notin Building
    <3> SUFFICES ASSUME NEW g \in Handlers, hd[g].run = hd[h].run, hd[g].pc \in Building PROVE FALSE
      OBVIOUS
    <3>1. hd[g].pc # "idle" /\ g # h
      BY <2>4 DEF Building
    <3>2. hd[g].day = hd[h].day
      BY <2>6, <2>7 DEF AInv, HandlerOK
    <3> QED
      BY <1>1, <2>4, <2>6, <3>1, <3>2 DEF AInv, OneByOne
  <2>10. AuditedBy(hd[h].run, d)
    BY <2>7, <2>8, <2>9 DEF AuditedBy
  <2> QED
    BY <1>1, <2>7, <2>10, AuditedStays
<1> QED
  BY <1>2, <1>3

\* A handler goes on or ends; its run may get another status.
LEMMA AuditedMove ==
    ASSUME AInv, Audited, NEW h \in Handlers, AInv', Frame(h), hd[h].pc # "idle",
           run' = run \/ (hd[h].run \in RunIds /\
                             \E s \in RunStatuses \ {"none"} : SetStatus(hd[h].run, s)),
           hd'[h].pc = "idle" \/ hd'[h].day = hd[h].day,
           hd'[h].pc \in Building => hd[h].pc \in Building /\ hd'[h].run = hd[h].run,
           SettledKept(h), contested' = contested,
           date' = date \/ (hd[h].pc = "roll" /\ date' = hd[h].day + 1)
    PROVE  Audited'
<1>1. RunsKept /\ BirthsKept(h)
  <2>1. CASE run' = run
    BY <2>1 DEF RunsKept, BirthsKept
  <2>2. CASE hd[h].run \in RunIds /\ \E s \in RunStatuses \ {"none"} : SetStatus(hd[h].run, s)
    <3>1. PICK s \in RunStatuses \ {"none"} : SetStatus(hd[h].run, s)
      BY <2>2
    <3>2. /\ run'[hd[h].run].status = s
          /\ \A q \in RunIds : run'[q].day = run[q].day /\ run'[q].dry = run[q].dry
          /\ \A q \in RunIds \ {hd[h].run} : run'[q] = run[q]
      BY <2>2, <3>1, StatusEffect DEF AInv
    <3>3. hd[h].run # 0 => run[hd[h].run].status # "none" /\ run[hd[h].run].day = hd[h].day
      BY DEF AInv, HandlerOK
    <3> QED
      BY <2>2, <3>1, <3>2, <3>3, Bounds DEF RunsKept, BirthsKept
  <2> QED
    BY <2>1, <2>2
<1>2. DayKnown(h) /\ BuildsFresh(h)
  BY DEF DayKnown, BuildsFresh
<1> QED
  BY <1>1, <1>2, AuditedKeeps

LEMMA AuditedDone ==
    ASSUME AInv, Audited, NEW h \in Handlers, AInv', Done(h), hd[h].pc # "idle",
           run' = run \/ (hd[h].run \in RunIds /\
                             \E s \in RunStatuses \ {"none"} : SetStatus(hd[h].run, s)),
           SettledKept(h), contested' = contested, date' = date
    PROVE  Audited'
<1>1. Frame(h) /\ hd'[h].pc = "idle"
  BY DoneEffect DEF AInv
<1>2. hd'[h].pc \notin Building
  BY <1>1 DEF Building
<1> QED
  BY <1>1, <1>2, AuditedMove

LEMMA AuditedGoto ==
    ASSUME AInv, Audited, NEW h \in Handlers, AInv', NEW pc \in Pcs, Goto(h, pc), hd[h].pc # "idle",
           pc \in Building => hd[h].pc \in Building,
           run' = run \/ (hd[h].run \in RunIds /\
                             \E s \in RunStatuses \ {"none"} : SetStatus(hd[h].run, s)),
           SettledKept(h), contested' = contested,
           date' = date \/ (hd[h].pc = "roll" /\ date' = hd[h].day + 1)
    PROVE  Audited'
<1>1. Frame(h) /\ hd'[h].pc = pc /\ hd'[h].run = hd[h].run /\ hd'[h].day = hd[h].day
  BY GotoEffect DEF AInv
<1> QED
  BY <1>1, AuditedMove

LEMMA AuditedQueue ==
    ASSUME AInv, Audited, NEW h \in Handlers, AInv', NEW pc \in Pcs, NEW S \in SUBSET Bookings,
           Queue(h, pc, S), hd[h].pc # "idle", pc \in Building => hd[h].pc \in Building,
           SettledKept(h), UNCHANGED <<date, run, contested>>
    PROVE  Audited'
<1>1. Frame(h) /\ hd'[h].pc = pc /\ hd'[h].run = hd[h].run /\ hd'[h].day = hd[h].day
  BY QueueEffect DEF AInv, Typed
<1> QED
  BY <1>1, AuditedMove

LEMMA SameItems ==
    ASSUME NEW h \in Handlers, item' = item
    PROVE  SettledKept(h)
BY DEF SettledKept

\* The steps before a request has a run of its own.
LEMMA AuditedStart ==
    ASSUME AInv, Audited, NEW h \in Handlers, AInv', Start(h)
    PROVE  Audited'
<1>1. item' = item /\ SettledKept(h)
  <2>1. item' = item
    BY DEF Start, Request, Insert, Supersede, Reinsert, MarkStale, LookUpExisting
  <2> QED
    BY <2>1, SameItems
<1>2. ASSUME NEW kind \in {"live", "dry", "rerun"}, Request(h, kind) PROVE Audited'
  <2>1. /\ date \in Days /\ contested' = Contested(date) /\ date' = date /\ run' = run
        /\ hd' = [hd EXCEPT ![h] = [Idle EXCEPT !.pc = "insert", !.kind = kind, !.day = date]]
    BY <1>2 DEF Request
  <2>2. /\ [Idle EXCEPT !.pc = "insert", !.kind = kind, !.day = date] \in HandlerState
        /\ [Idle EXCEPT !.pc = "insert", !.kind = kind, !.day = date].pc = "insert"
        /\ [Idle EXCEPT !.pc = "insert", !.kind = kind, !.day = date].day = date
    BY <2>1, Bounds DEF Idle, HandlerState, Pcs, Kinds
  <2>3. Frame(h) /\ hd'[h].pc = "insert" /\ hd'[h].day = date
    BY <2>1, <2>2, SetHandler DEF AInv
  <2>4. RunsKept /\ BirthsKept(h) /\ DayKnown(h) /\ BuildsFresh(h)
    BY <2>1, <2>3 DEF RunsKept, BirthsKept, DayKnown, BuildsFresh, Building
  <2>5. contested \subseteq contested'
    BY <2>1, ContestedGrows DEF AInv
  <2> QED
    BY <1>1, <2>1, <2>3, <2>4, <2>5, AuditedKeeps
<1>3. ASSUME NEW r \in RunIds, InsertRun(h, r), hd[h].pc # "idle", UNCHANGED <<date, contested>>
      PROVE  Audited'
  <2> DEFINE row == [status |-> "running", day |-> hd[h].day, dry |-> hd[h].kind # "live",
                     indexed |-> TRUE]
  <2>1. /\ run[r].status = "none" /\ run' = [run EXCEPT ![r] = row] /\ Take(h, "validate", r)
    BY <1>3 DEF InsertRun, Take
  <2>2. row.status = "running" /\ row.day = hd[h].day
    OBVIOUS
  <2> HIDE DEF row
  <2>3. run'[r] = row /\ \A q \in RunIds \ {r} : run'[q] = run[q]
    BY <2>1 DEF AInv, Typed
  <2>4. /\ Frame(h) /\ hd'[h].pc = "validate" /\ hd'[h].run = r /\ hd'[h].day = hd[h].day
    <3>1. hd \in [Handlers -> HandlerState] /\ "validate" \in Pcs /\ r \in 0 .. MaxRuns
      BY Bounds DEF AInv, Typed, Pcs
    <3> QED
      BY <2>1, <3>1, TakeEffect
  <2>5. RunsKept /\ BirthsKept(h) /\ DayKnown(h) /\ BuildsFresh(h)
    BY <1>3, <2>1, <2>2, <2>3, <2>4 DEF RunsKept, BirthsKept, DayKnown, BuildsFresh
  <2> QED
    BY <1>1, <1>3, <2>4, <2>5, AuditedKeeps
<1>4. CASE Insert(h) \/ Reinsert(h)
  <2>1. hd[h].pc # "idle" /\ UNCHANGED <<date, contested>>
    BY <1>4 DEF Insert, Reinsert, history
  <2>2. ASSUME NEW pc \in {"existing", "again"}, Goto(h, pc), run' = run PROVE Audited'
    <3>1. pc \in Pcs /\ pc \notin Building
      BY DEF Pcs, Building
    <3> QED
      BY <1>1, <2>1, <2>2, <3>1, AuditedGoto
  <2> QED
    BY <1>3, <1>4, <2>1, <2>2 DEF Insert, Reinsert
<1>5. ASSUME NEW stale \in BOOLEAN, LookUpExisting(h, stale) PROVE Audited'
  <2>1. hd[h].pc # "idle" /\ UNCHANGED <<date, run, contested>>
    BY <1>5 DEF LookUpExisting, history
  <2>2. CASE Done(h)
    BY <1>1, <2>1, <2>2, AuditedDone
  <2>3. ASSUME NEW r \in Indexed(hd[h].day), NEW pc \in Looking, Take(h, pc, r) PROVE Audited'
    <3>1. hd \in [Handlers -> HandlerState] /\ pc \in Pcs /\ r \in 0 .. MaxRuns
      BY Bounds DEF AInv, Typed, Pcs, Looking, Indexed
    <3>2. Frame(h) /\ hd'[h].pc = pc /\ hd'[h].day = hd[h].day
      BY <2>3, <3>1, TakeEffect
    <3>3. hd'[h].pc \notin Building
      BY <3>2 DEF Looking, Building
    <3> QED
      BY <1>1, <2>1, <3>2, <3>3, AuditedMove
  <2>4. ASSUME NEW r \in Indexed(hd[h].day),
               \/ hd' = [hd EXCEPT ![h].pc = IF hd[h].pc = "existing" THEN "supersede" ELSE "drop",
                                   ![h].run = r]
               \/ hd' = [hd EXCEPT ![h].pc = "stale", ![h].run = r]
        PROVE  Audited'
    <3>1. (IF hd[h].pc = "existing" THEN "supersede" ELSE "drop") \in Looking /\ "stale" \in Looking
      BY DEF Looking
    <3>2. \E pc \in Looking : Take(h, pc, r)
      BY <2>4, <3>1 DEF Take
    <3> QED
      BY <2>3, <3>2
  <2> QED
    BY <1>5, <2>2, <2>4 DEF LookUpExisting
<1>6. CASE Supersede(h)
  <2>1. /\ hd[h].pc \in {"supersede", "drop"} /\ hd[h].run \in RunIds
        /\ run' = [run EXCEPT ![hd[h].run].status = "superseded", ![hd[h].run].indexed = FALSE]
        /\ UNCHANGED <<date, contested>>
    BY <1>6 DEF Supersede, AInv, HandlerOK, Searching, history
  <2>2. /\ \A q \in RunIds : run'[q].day = run[q].day /\ run'[q].dry = run[q].dry
        /\ run'[hd[h].run].status = "superseded"
        /\ \A q \in RunIds \ {hd[h].run} : run'[q] = run[q]
    <3>1. run \in [RunIds -> RunRow] /\ "superseded" \in RunStatuses
      BY DEF AInv, Typed, RunStatuses, Terminal
    <3> QED
      BY <2>1, <3>1, SupersedeEffect
  <2>3. /\ Frame(h) /\ hd'[h].pc \in {"idle", "reinsert"}
        /\ hd'[h].pc = "idle" \/ hd'[h].day = hd[h].day
    <3>1. CASE Done(h)
      BY <3>1, DoneEffect DEF AInv
    <3>2. CASE hd' = [hd EXCEPT ![h].pc = "reinsert", ![h].run = 0]
      <4>1. hd \in [Handlers -> HandlerState] /\ "reinsert" \in Pcs
        BY DEF AInv, Typed, Pcs
      <4>2. Take(h, "reinsert", 0) /\ 0 \in 0 .. MaxRuns
        BY <3>2, Bounds DEF Take
      <4> QED
        BY <4>1, <4>2, TakeEffect
    <3> QED
      BY <1>6, <3>1, <3>2 DEF Supersede
  <2>4. hd[h].run # 0 /\ run[hd[h].run].status # "none"
    BY <2>1, Bounds DEF AInv, HandlerOK
  <2>5. RunsKept /\ BirthsKept(h)
    BY <2>2, <2>4 DEF RunsKept, BirthsKept
  <2>6. DayKnown(h) /\ BuildsFresh(h)
    BY <2>1, <2>3 DEF DayKnown, BuildsFresh, Building
  <2> QED
    BY <1>1, <2>1, <2>3, <2>5, <2>6, AuditedKeeps, SMTT(30)
<1>7. CASE MarkStale(h)
  <2>1. /\ hd[h].pc = "stale" /\ SetStatus(hd[h].run, "partial") /\ Done(h)
        /\ UNCHANGED <<date, contested>>
    BY <1>7 DEF MarkStale, history
  <2>2. hd[h].run \in RunIds /\ "partial" \in RunStatuses \ {"none"}
    BY <2>1, HasRun DEF Searching, RunStatuses, Terminal
  <2> QED
    BY <1>1, <2>1, <2>2, AuditedDone
<1> QED
  BY <1>2, <1>4, <1>5, <1>6, <1>7 DEF Start

\* The steps of a run that leave its items alone.
LEMMA AuditedWork ==
    ASSUME AInv, Audited, NEW h \in Handlers, AInv',
           \/ \E blocked \in BOOLEAN : \/ Validate(h, blocked) \/ StartPosting(h, blocked)
                                       \/ RollBusinessDate(h, blocked) \/ Revalidate(h, blocked)
           \/ ListInHouse(h) \/ CompleteSimulation(h) \/ PostingDone(h) \/ CountFailed(h)
           \/ CountRemaining(h) \/ Complete(h) \/ StageFails(h) \/ FailRun(h) \/ Reopen(h)
           \/ FailAborted(h)
    PROVE  Audited'
<1>1. /\ hd[h].pc \in {"validate", "build", "simulate", "mapping", "post", "reconcile", "remaining",
                       "roll", "complete", "fail", "revalidate", "reopen", "abort"}
      /\ item' = item /\ contested' = contested
  BY DEF Validate, StartPosting, RollBusinessDate, Revalidate, ListInHouse, CompleteSimulation,
         PostingDone, CountFailed, CountRemaining, Complete, StageFails, FailRun, Reopen, FailAborted,
         history
<1>2. hd[h].pc # "idle" /\ hd[h].run \in RunIds /\ SettledKept(h)
  <2>1. hd[h].pc \notin Searching
    BY <1>1 DEF Searching
  <2> QED
    BY <1>1, <2>1, HasRun, SameItems
<1>3. ASSUME NEW s \in RunStatuses \ {"none"}, SetStatus(hd[h].run, s), Done(h), date' = date
      PROVE  Audited'
  BY <1>1, <1>2, <1>3, AuditedDone
<1>4. ASSUME NEW pc \in Pcs, Goto(h, pc), pc \in Building => hd[h].pc \in Building,
             run' = run \/ \E s \in RunStatuses \ {"none"} : SetStatus(hd[h].run, s),
             date' = date \/ (hd[h].pc = "roll" /\ date' = hd[h].day + 1)
      PROVE  Audited'
  BY <1>1, <1>2, <1>4, AuditedGoto
<1>5. {"blocked", "partial", "failed", "completed", "dry_completed", "running"}
         \subseteq RunStatuses \ {"none"}
  BY DEF RunStatuses, Terminal
<1>6. /\ {"reconcile", "remaining", "roll", "complete", "fail", "reopen", "mapping", "cancel"}
            \subseteq Pcs \ Building
      /\ {"validate", "build", "arrivals"} = Building /\ Building \subseteq Pcs /\ "post" \in Pcs \ Building
  BY DEF Pcs, Building
<1>7. CASE \E blocked \in BOOLEAN : Validate(h, blocked) \/ Revalidate(h, blocked)
  BY <1>3, <1>4, <1>5, <1>6, <1>7 DEF Validate, Revalidate
<1>8. CASE CompleteSimulation(h) \/ CountFailed(h) \/ CountRemaining(h)
           \/ Complete(h) \/ FailRun(h) \/ PostingDone(h) \/ StageFails(h)
  BY <1>3, <1>4, <1>5, <1>6, <1>8
  DEF CompleteSimulation, CountFailed, CountRemaining, Complete, FailRun, PostingDone, StageFails
<1>9. CASE \E blocked \in BOOLEAN : RollBusinessDate(h, blocked)
  BY <1>3, <1>4, <1>5, <1>6, <1>9 DEF RollBusinessDate
<1>10. CASE Reopen(h) \/ FailAborted(h)
  BY <1>4, <1>5, <1>6, <1>10 DEF Reopen, FailAborted, SetStatus
<1>11. CASE ListInHouse(h)
  <2>1. \E S \in SUBSET Bookings : Queue(h, "arrivals", S)
    BY <1>11 DEF ListInHouse, Queue
  <2>2. hd[h].pc \in Building /\ UNCHANGED <<date, run, contested>>
    BY <1>6, <1>11 DEF ListInHouse, history
  <2> QED
    BY <1>2, <1>6, <2>1, <2>2, AuditedQueue
<1>12. CASE \E blocked \in BOOLEAN : StartPosting(h, blocked)
  <2>1. CASE SetStatus(hd[h].run, "blocked") /\ Done(h)
    BY <1>3, <1>5, <1>12, <2>1 DEF StartPosting
  <2>2. CASE run' = run /\ hd' = [hd EXCEPT ![h].pc = "post", ![h].todo = Items(hd[h].run, "pending")]
    <3>1. Queue(h, "post", Items(hd[h].run, "pending")) /\ Items(hd[h].run, "pending") \in SUBSET Bookings
      BY <2>2 DEF Queue, Items
    <3>2. UNCHANGED <<date, run, contested>>
      BY <1>12, <2>2 DEF StartPosting, history
    <3> QED
      BY <1>2, <1>6, <3>1, <3>2, AuditedQueue
  <2> QED
    BY <1>12, <2>1, <2>2 DEF StartPosting
<1> QED
  BY <1>7, <1>8, <1>9, <1>10, <1>11, <1>12

\* The steps that write items: of a run that was settled they find nothing to write.
LEMMA AuditedItems ==
    ASSUME AInv, Audited, NEW h \in Handlers, AInv',
           \/ BuildCandidates(h) \/ \E landed \in SUBSET Bookings : BuildFails(h, landed)
           \/ \E b \in Bookings : PostItem(h, b) \/ PostingFails(h, b)
           \/ ResetFailedItems(h) \/ CancelItems(h)
    PROVE  Audited'
<1>1. /\ hd[h].pc \in {"arrivals", "post", "reset", "cancel"} /\ hd[h].pc \notin Searching
      /\ date' = date /\ contested' = contested
  BY DEF BuildCandidates, BuildFails, PostItem, PostingFails, ResetFailedItems, CancelItems, history,
         Searching
<1>2. /\ hd[h].pc # "idle" /\ hd[h].run \in RunIds /\ HandlerOK(h)
      /\ item \in [RunIds -> [Bookings -> ItemRow]] /\ hd \in [Handlers -> HandlerState]
      /\ hd[h].todo \subseteq Bookings
  BY <1>1, HasRun DEF Typed, HandlerState
<1>3. CASE BuildCandidates(h) \/ \E landed \in SUBSET Bookings : BuildFails(h, landed)
  <2>1. /\ hd[h].pc \in Building /\ run' = run
        /\ \E S : item' = [item EXCEPT ![hd[h].run] = S]
        /\ \E pc \in Pcs \ Building : Queue(h, pc, {})
    BY <1>3 DEF BuildCandidates, BuildFails, Candidates, Queue, Building, Pcs
  <2>2. SettledKept(h)
    BY <1>2, <2>1 DEF SettledKept
  <2> QED
    BY <1>1, <1>2, <2>1, <2>2, AuditedQueue
<1>4. ASSUME NEW b \in Bookings, PostItem(h, b) \/ PostingFails(h, b) PROVE Audited'
  <2>1. /\ hd[h].pc = "post" /\ b \in hd[h].todo /\ run' = run
        /\ Queue(h, "post", hd[h].todo \ {b}) /\ "post" \in Pcs \ Building
    BY <1>4 DEF PostItem, PostingFails, Queue, Pcs, Building
  <2>2. hd[h].day \notin contested => ~Without(hd[h].run, {"failed", "pending"})
    BY <1>2, <2>1 DEF HandlerOK, Without
  <2>3. \A r \in RunIds \ {hd[h].run} : item'[r] = item[r]
    BY <1>2, <1>4 DEF PostItem, PostingFails, SetItem
  <2>4. SettledKept(h)
    BY <1>2, <2>2, <2>3, SMTT(30) DEF SettledKept
  <2> QED
    BY <1>1, <1>2, <2>1, <2>4, AuditedQueue, SMTT(30)
<1>5. CASE ResetFailedItems(h) \/ CancelItems(h)
  <2>1. \A r \in RunIds \ {hd[h].run} : item'[r] = item[r]
    BY <1>2, <1>5 DEF ResetFailedItems, CancelItems
  <2>2. \A b \in Bookings : item[hd[h].run][b].status \notin {"failed", "pending"} =>
           item'[hd[h].run][b] = item[hd[h].run][b]
    <3> DEFINE new(from, to) == [b \in Bookings |-> IF item[hd[h].run][b].status = from
                                                    THEN [item[hd[h].run][b] EXCEPT !.status = to]
                                                    ELSE item[hd[h].run][b]]
    <3>1. ASSUME NEW from \in {"failed", "pending"}, NEW to
          PROVE  \A b \in Bookings : item[hd[h].run][b].status \notin {"failed", "pending"} =>
                    new(from, to)[b] = item[hd[h].run][b]
      OBVIOUS
    <3>2. ResetFailedItems(h) => item' = [item EXCEPT ![hd[h].run] = new("failed", "pending")]
      BY DEF ResetFailedItems
    <3>3. CancelItems(h) => item' = [item EXCEPT ![hd[h].run] = new("pending", "aborted")]
      BY DEF CancelItems
    <3> HIDE DEF new
    <3>4. \E from \in {"failed", "pending"}, to \in {"pending", "aborted"} :
             item'[hd[h].run] = new(from, to)
      BY <1>2, <1>5, <3>2, <3>3
    <3> QED
      BY <3>1, <3>4
  <2>3. SettledKept(h)
    BY <1>2, <2>1, <2>2 DEF SettledKept, Without
  <2>4. CASE ResetFailedItems(h)
    <3>1. /\ \E pc \in Pcs \ Building : Goto(h, pc)
          /\ run' = run \/ SetStatus(hd[h].run, "running")
      BY <2>4 DEF ResetFailedItems, SetStatus, Pcs, Building
    <3>2. "running" \in RunStatuses \ {"none"}
      BY DEF RunStatuses
    <3> QED
      BY <1>1, <1>2, <2>3, <3>1, <3>2, AuditedGoto
  <2>5. CASE CancelItems(h)
    BY <1>1, <1>2, <2>3, <2>5, AuditedDone DEF CancelItems
  <2> QED
    BY <1>5, <2>4, <2>5
<1> QED
  BY <1>3, <1>4, <1>5

\* A resume or an abort begins.
LEMMA AuditedRecovery ==
    ASSUME AInv, Audited, NEW h \in Handlers, AInv', NEW r \in RunIds, ResumeRun(h, r) \/ AbortRun(h, r)
    PROVE  Audited'
<1>1. /\ run[r].status # "none" /\ run' = run /\ item' = item /\ date' = date
      /\ contested' = Contested(run[r].day) /\ run[r].day \in Days
  BY DEF ResumeRun, AbortRun, Resumable, AInv, Typed, RunRow
<1>2. PICK pc \in {"reset", "abort"}, kind \in Kinds :
         hd' = [hd EXCEPT ![h] = [pc |-> pc, run |-> r, day |-> run[r].day, todo |-> {}, kind |-> kind]]
  BY DEF ResumeRun, AbortRun, Kinds
<1>3. [pc |-> pc, run |-> r, day |-> run[r].day, todo |-> {}, kind |-> kind] \in HandlerState
  BY <1>1, Bounds DEF HandlerState, Pcs
<1>4. Frame(h) /\ hd'[h].pc \notin Building /\ hd'[h].day = run[r].day
  BY <1>2, <1>3, SetHandler DEF AInv, Building
<1>5. RunsKept /\ BirthsKept(h) /\ DayKnown(h) /\ BuildsFresh(h)
  BY <1>1, <1>4 DEF RunsKept, BirthsKept, DayKnown, BuildsFresh
<1>6. SettledKept(h) /\ contested \subseteq contested'
  BY <1>1, SameItems, ContestedGrows DEF AInv
<1> QED
  BY <1>1, <1>4, <1>5, <1>6, AuditedKeeps

LEMMA AuditedNext ==
    ASSUME AInv, Audited, [Next]_vars, AInv'
    PROVE  Audited'
<1>1. CASE UNCHANGED <<date, run, item, hd, contested>>
  BY <1>1 DEF Audited, Behind, AuditedBy, Without
<1>2. ASSUME NEW h \in Handlers, Crash(h) PROVE Audited'
  BY <1>2, SameItems, AuditedDone DEF Crash, history
<1>3. ASSUME NEW h \in Handlers, Pipeline(h) \/ Recovery(h) PROVE Audited'
  BY <1>3, AuditedWork, AuditedItems, AuditedRecovery DEF Pipeline, Recovery
<1>4. CASE \E b \in Bookings : Reserve(b) \/ CheckIn(b)
  BY <1>1, <1>4 DEF Reserve, CheckIn, history
<1>5. CASE UNCHANGED vars
  BY <1>1, <1>5 DEF vars, history
<1> QED
  BY <1>2, <1>3, <1>4, <1>5, AuditedStart DEF Next

LEMMA AuditedInit == Init => Audited
<1> SUFFICES ASSUME Init, NEW d \in Days PROVE ~Behind(d)
  BY DEF Audited
<1>1. ~(d < date)
  BY DEF Init, Days
<1> QED
  BY <1>1 DEF Init, Behind, Idle, NoRun

LEMMA AuditedHolds == Spec => []Audited
<1>1. AInv /\ AInv' /\ Audited /\ [Next]_vars => Audited'
  BY AuditedNext
<1> QED
  BY <1>1, AuditedInit, AInvHolds, PTL DEF Spec

-----------------------------------------------------------------------------

\* The type invariant of the night audit.
THEOREM TypeCorrect == Spec => []TypeOK
<1>1. AInv => TypeOK
  BY TypedIsTypeOK DEF AInv
<1> QED
  BY <1>1, AInvHolds, PTL

\* A completed run of a day whose requests came one after the other has a
\* charge for every room-charge candidate that was not aborted.
THEOREM ClosedMeansCharged == Spec => []ClosedDayIsCharged
<1>1. AInv => ClosedDayIsCharged
  <2> SUFFICES ASSUME AInv, NEW r \in RunIds, NEW b \in Bookings, run[r].status = "completed",
                      run[r].day \notin contested, item[r][b].kind = "room_charge",
                      item[r][b].status # "aborted"
               PROVE  charges[b][run[r].day] = 1
    BY DEF ClosedDayIsCharged
  <2>1. item[r][b].status \in {"none", "pending", "posted", "skipped", "aborted", "failed"}
    BY DEF AInv, Typed, ItemRow
  <2>2. item[r][b].status \notin {"none", "failed", "pending"}
    BY DEF AInv, RunOK, Without
  <2> QED
    BY <2>1, <2>2 DEF AInv, RunOK
<1> QED
  BY <1>1, AInvHolds, PTL

\* Behind the business date every day whose requests came one after the other has
\* a real run that left nothing failed or pending and charged its items, through
\* crashes between the roll and the completion, resumes and aborts.
THEOREM RollMeansAudited == Spec => []RolledAfterAudit
<1>1. AInv /\ Audited => RolledAfterAudit
  <2> SUFFICES ASSUME AInv, Audited, NEW d \in Days \ contested, d < date
               PROVE  \E r \in RunIds :
                         /\ run[r].status # "none" /\ run[r].day = d /\ ~run[r].dry
                         /\ \A b \in Bookings :
                              /\ item[r][b].status \notin {"failed", "pending"}
                              /\ item[r][b].kind = "room_charge" /\ item[r][b].status # "aborted" =>
                                   charges[b][d] = 1
    BY DEF RolledAfterAudit
  <2>1. PICK r \in RunIds : AuditedBy(r, d)
    BY DEF Audited, Behind
  <2>2. \A b \in Bookings : item[r][b].status \notin {"failed", "pending"}
    BY <2>1 DEF AuditedBy, Without
  <2>3. ASSUME NEW b \in Bookings, item[r][b].kind = "room_charge", item[r][b].status # "aborted"
        PROVE  charges[b][d] = 1
    <3>1. item[r][b].status \in {"none", "pending", "posted", "skipped", "aborted", "failed"}
      BY DEF AInv, Typed, ItemRow
    <3>2. run[r].day = d /\ RunOK(r)
      BY <2>1 DEF AuditedBy, AInv
    <3> QED
      BY <2>2, <2>3, <3>1, <3>2 DEF RunOK
  <2> QED
    BY <2>1, <2>2, <2>3 DEF AuditedBy
<1> QED
  BY <1>1, AInvHolds, AuditedHolds, PTL

\* A step for a simulation writes no charge, no stay and no business date, also
\* after a crash, an abort or a resume.
THEOREM SimulationIsDry == Spec => SimulationChangesNothing
<1> DEFINE Dry == \A h \in Handlers :
                    hd[h].run # 0 /\ run[hd[h].run].dry /\ hd'[h] # hd[h] =>
                       UNCHANGED <<date, charges, stay>>
<1>1. ASSUME AInv, [Next]_vars PROVE [Dry]_vars
  <2>1. CASE UNCHANGED vars
    BY <2>1
  <2>2. ASSUME NEW b \in Bookings, Reserve(b) \/ CheckIn(b) PROVE Dry
    BY <2>2 DEF Reserve, CheckIn
  <2>3. ASSUME NEW h \in Handlers, hd[h].pc \in Committing, Frame(h) PROVE Dry
    BY <1>1, <2>3 DEF AInv, HandlerOK, Frame
  <2>4. ASSUME NEW h \in Handlers,
               \/ \E b \in Bookings : PostItem(h, b) \/ PostingFails(h, b)
               \/ \E blocked \in BOOLEAN : RollBusinessDate(h, blocked)
        PROVE  Dry
    <3>1. hd[h].pc \in Committing
      BY <2>4 DEF PostItem, PostingFails, RollBusinessDate, Committing
    <3>2. Frame(h)
      BY <1>1, <2>4 DEF PostItem, PostingFails, RollBusinessDate, Goto, Done, Frame, AInv, Typed
    <3> QED
      BY <2>3, <3>1, <3>2
  <2>5. ASSUME NEW h \in Handlers, Start(h) \/ Recovery(h) \/ Crash(h)
        PROVE  UNCHANGED <<date, charges, stay>>
    BY <2>5 DEF Start, Request, Insert, Supersede, Reinsert, MarkStale, LookUpExisting,
                Recovery, ResumeRun, AbortRun, ResetFailedItems, Reopen, FailAborted, CancelItems, Revalidate, Crash
  <2>6. ASSUME NEW h \in Handlers,
               \/ \E blocked \in BOOLEAN : Validate(h, blocked) \/ StartPosting(h, blocked)
               \/ ListInHouse(h) \/ BuildCandidates(h) \/ \E landed \in SUBSET Bookings : BuildFails(h, landed)
               \/ CompleteSimulation(h) \/ PostingDone(h) \/ CountFailed(h)
               \/ CountRemaining(h) \/ Complete(h) \/ StageFails(h) \/ FailRun(h)
        PROVE  UNCHANGED <<date, charges, stay>>
    BY <2>6 DEF Validate, StartPosting, ListInHouse, BuildCandidates, BuildFails,
                CompleteSimulation, PostingDone, CountFailed, CountRemaining, Complete, StageFails,
                FailRun
  <2>7. ASSUME UNCHANGED <<date, charges, stay>> PROVE Dry
    BY <2>7
  <2> HIDE DEF Dry
  <2>8. ASSUME NEW h \in Handlers, Pipeline(h) PROVE Dry
    BY <2>4, <2>6, <2>7, <2>8 DEF Pipeline
  <2> QED
    BY <1>1, <2>1, <2>2, <2>5, <2>7, <2>8 DEF Next
<1>2. SimulationChangesNothing <=> [][Dry]_vars
  BY DEF SimulationChangesNothing
<1> QED
  BY <1>1, <1>2, AInvHolds, PTL DEF Spec
=============================================================================
