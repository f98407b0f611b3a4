--------------------------- MODULE EditLeaseProofs ---------------------------
(***************************************************************************)
(* Proofs about EditLease for every set of views and every value of the    *)
(* times: its type invariant, that it implements Lease, and that a guarded *)
(* write lands under the lease when the lease is long enough.              *)
(***************************************************************************)
EXTENDS EditLease, TLAPS

\* A call is younger than its limit.  TypeOK needs it: the lease a call sets
\* runs from the clock reading of the call, so its age bounds the time left.
CallsInTime == \A c \in calls : c[3] < Limit(c[2])

IInv == TypeOK /\ CallsInTime

-----------------------------------------------------------------------------
(* The parts of the actions that several of them share *)

LEMMA SendTyped ==
    ASSUME IInv, NEW v \in Views, NEW k \in Kinds, Send(v, k)
    PROVE  (calls \subseteq Views \X Kinds \X Ages /\ CallsInTime)'
<1>1. <<v, k, 0>> \in Views \X Kinds \X Ages
  BY EditAssumption DEF Ages
<1>2. 0 < Limit(k)
  BY EditAssumption DEF Limit
<1> QED
  BY <1>1, <1>2 DEF IInv, TypeOK, CallsInTime, Send

LEMMA DoneTyped ==
    ASSUME IInv, NEW c, Done(c)
    PROVE  (calls \subseteq Views \X Kinds \X Ages /\ CallsInTime)'
BY DEF IInv, TypeOK, CallsInTime, Done

LEMMA AnswerTyped ==
    ASSUME TypeOK, NEW v \in Views, NEW s \in {"acquired", "blocked", "lost"}, Answer(v, s)
    PROVE  /\ view' \in [Views -> {"idle", "acquiring", "acquired", "blocked", "lost", "closed"}]
           /\ since' \in [Views -> 0 .. Beat]
BY EditAssumption DEF TypeOK, Answer, SetStatus

LEMMA TakeRowTyped ==
    ASSUME IInv, NEW v \in Views, NEW k \in Kinds \ {"landing"}, NEW age \in Ages,
           <<v, k, age>> \in calls, TakeRow(v, age)
    PROVE  row' \in [owner : Views \cup {NoView}, left : (0 - CallTime) .. LeaseTime]
<1>1. age < CallTime
  BY DEF IInv, CallsInTime, Limit, Kinds
<1>2. LeaseTime - age \in (0 - CallTime) .. LeaseTime
  BY <1>1, EditAssumption DEF Ages
<1> QED
  BY <1>2 DEF TakeRow

-----------------------------------------------------------------------------
(* The type invariant *)

LEMMA IInvInit == Init => IInv
BY EditAssumption DEF Init, IInv, TypeOK, CallsInTime, NoRow

LEMMA BrowserKeepsIInv ==
    ASSUME IInv, NEW v \in Views, Open(v) \/ Heartbeat(v) \/ Write(v) \/ Close(v)
    PROVE  IInv'
<1>1. CASE Open(v)
  <2>1. (calls \subseteq Views \X Kinds \X Ages /\ CallsInTime)'
    BY <1>1, SendTyped DEF Open, Kinds
  <2> QED
    BY <1>1, <2>1 DEF Open, SetStatus, IInv, TypeOK
<1>2. CASE Heartbeat(v)
  <2>1. (calls \subseteq Views \X Kinds \X Ages /\ CallsInTime)'
    BY <1>2, SendTyped DEF Heartbeat, Kinds
  <2> QED
    BY <1>2, <2>1, EditAssumption DEF Heartbeat, IInv, TypeOK
<1>3. CASE Write(v)
  <2>1. (calls \subseteq Views \X Kinds \X Ages /\ CallsInTime)'
    BY <1>3, SendTyped DEF Write, Kinds
  <2> QED
    BY <1>3, <2>1 DEF Write, IInv, TypeOK
<1>4. CASE Close(v)
  <2>1. (calls \subseteq Views \X Kinds \X Ages /\ CallsInTime)'
    <3>1. CASE view[v] = "acquired"
      BY <1>4, <3>1, SendTyped DEF Close, Kinds
    <3>2. CASE view[v] # "acquired"
      BY <1>4, <3>2 DEF Close, IInv, TypeOK, CallsInTime
    <3> QED
      BY <3>1, <3>2
  <2> QED
    BY <1>4, <2>1, EditAssumption DEF Close, SetStatus, IInv, TypeOK
<1> QED
  BY <1>1, <1>2, <1>3, <1>4

LEMMA ServerKeepsIInv ==
    ASSUME IInv, NEW v \in Views, NEW age \in Ages, Serve(v, age)
    PROVE  IInv'
<1>1. CASE Acquire(v, age)
  <2>1. (calls \subseteq Views \X Kinds \X Ages /\ CallsInTime)'
    BY <1>1, DoneTyped DEF Acquire
  <2>2. row' \in [owner : Views \cup {NoView}, left : (0 - CallTime) .. LeaseTime]
    BY <1>1, TakeRowTyped DEF Acquire, Kinds, IInv, TypeOK
  <2>3. \E s \in {"acquired", "blocked", "lost"} : Answer(v, s)
    BY <1>1 DEF Acquire
  <2> QED
    BY <2>1, <2>2, <2>3, AnswerTyped DEF IInv, TypeOK
<1>2. CASE Renew(v, age)
  <2>1. (calls \subseteq Views \X Kinds \X Ages /\ CallsInTime)'
    BY <1>2, DoneTyped DEF Renew
  <2>2. row' \in [owner : Views \cup {NoView}, left : (0 - CallTime) .. LeaseTime]
    BY <1>2, TakeRowTyped DEF Renew, Kinds, IInv, TypeOK
  <2>3. UNCHANGED <<view, since>> \/ Answer(v, "lost")
    BY <1>2 DEF Renew
  <2> QED
    BY <2>1, <2>2, <2>3, AnswerTyped DEF IInv, TypeOK
<1>3. CASE Release(v, age)
  <2>1. (calls \subseteq Views \X Kinds \X Ages /\ CallsInTime)'
    BY <1>3, DoneTyped DEF Release
  <2> QED
    BY <1>3, <2>1, EditAssumption DEF Release, NoRow, IInv, TypeOK
<1>4. CASE Guard(v, age)
  <2>1. <<v, "landing", 0>> \in Views \X Kinds \X Ages /\ 0 < Limit("landing")
    BY EditAssumption DEF Ages, Kinds, Limit
  <2> QED
    BY <1>4, <2>1 DEF Guard, IInv, TypeOK, CallsInTime
<1>5. CASE Land(v, age)
  <2>1. (calls \subseteq Views \X Kinds \X Ages /\ CallsInTime)'
    BY <1>5, DoneTyped DEF Land
  <2> QED
    BY <1>5, <2>1 DEF Land, IInv, TypeOK
<1> QED
  BY <1>1, <1>2, <1>3, <1>4, <1>5 DEF Serve

LEMMA DropKeepsIInv ==
    ASSUME IInv, NEW v \in Views, NEW age \in Ages, NEW k \in Kinds, Drop(v, k, age)
    PROVE  IInv'
<1>1. (calls \subseteq Views \X Kinds \X Ages /\ CallsInTime)'
  BY DoneTyped DEF Drop
<1>2. UNCHANGED <<view, since>> \/ Answer(v, "lost")
  BY DEF Drop
<1> QED
  BY <1>1, <1>2, AnswerTyped DEF Drop, IInv, TypeOK

LEMMA TickKeepsIInv == IInv /\ Tick => IInv'
<1> SUFFICES ASSUME IInv, Tick PROVE IInv'
  OBVIOUS
<1>1. row' \in [owner : Views \cup {NoView}, left : (0 - CallTime) .. LeaseTime]
  BY EditAssumption DEF Tick, IInv, TypeOK
<1>2. since' \in [Views -> 0 .. Beat]
  BY EditAssumption DEF Tick, IInv, TypeOK
<1>3. ASSUME NEW c \in calls
      PROVE  /\ <<c[1], c[2], c[3] + 1>> \in Views \X Kinds \X Ages
             /\ c[3] + 1 < Limit(c[2])
  BY EditAssumption DEF Tick, IInv, TypeOK, Ages, Limit
<1>4. (calls \subseteq Views \X Kinds \X Ages /\ CallsInTime)'
  BY <1>3 DEF Tick, CallsInTime
<1> QED
  BY <1>1, <1>2, <1>4 DEF Tick, IInv, TypeOK

LEMMA NextKeepsIInv == IInv /\ [Next]_vars => IInv'
<1> SUFFICES ASSUME IInv, [Next]_vars PROVE IInv'
  OBVIOUS
<1>1. CASE \E v \in Views : Open(v) \/ Heartbeat(v) \/ Write(v) \/ Close(v)
  BY <1>1, BrowserKeepsIInv
<1>2. CASE \E v \in Views : \E age \in Ages : Serve(v, age)
  BY <1>2, ServerKeepsIInv
<1>3. CASE \E v \in Views : \E age \in Ages : \E k \in Kinds : Drop(v, k, age)
  BY <1>3, DropKeepsIInv
<1>4. CASE Expire
  BY <1>4, EditAssumption DEF Expire, NoRow, IInv, TypeOK, CallsInTime
<1>5. CASE Tick
  BY <1>5, TickKeepsIInv
<1>6. CASE UNCHANGED vars
  BY <1>6 DEF vars, IInv, TypeOK, CallsInTime
<1> QED
  BY <1>1, <1>2, <1>3, <1>4, <1>5, <1>6 DEF Next

LEMMA AlwaysIInv == Spec => []IInv
<1>1. Init => IInv
  BY IInvInit
<1>2. IInv /\ [Next]_vars => IInv'
  BY NextKeepsIInv
<1> QED
  BY <1>1, <1>2, PTL DEF Spec

\* Every reachable state of the edit lease has the types of TypeOK, whatever
\* the lease, heartbeat, call and write times are.
THEOREM TypeCorrect == Spec => []TypeOK
<1>1. IInv => TypeOK
  BY DEF IInv
<1> QED
  BY <1>1, AlwaysIInv, PTL

-----------------------------------------------------------------------------
(* The edit lease implements Lease *)

\* A step that leaves the holder, ends the lease, or grants a free one is a step
\* of Lease or a stutter of it.
LEMMA HolderStep ==
    ASSUME \/ Holder' = Holder
           \/ Holder' = NoView
           \/ Holder = NoView /\ Holder' \in Views
    PROVE  [EditLock!Next]_Holder
BY DEF EditLock!Next, EditLock!Grant, EditLock!End

LEMMA ServerRefines ==
    ASSUME IInv, NEW v \in Views, NEW age \in Ages, Serve(v, age)
    PROVE  [EditLock!Next]_Holder
<1>1. CASE Acquire(v, age)
  <2>1. CASE Acquirable(v, age) /\ TakeRow(v, age)
    <3>1. Holder \in {NoView, v}
      BY <2>1, EditAssumption DEF Acquirable, Holder, IInv, TypeOK, Ages
    <3>2. Holder' \in {NoView, v}
      BY <2>1 DEF TakeRow, Holder
    <3> QED
      BY <3>1, <3>2, HolderStep
  <2>2. CASE UNCHANGED row
    BY <2>2, HolderStep DEF Holder
  <2> QED
    BY <1>1, <2>1, <2>2 DEF Acquire
<1>2. CASE Renew(v, age)
  <2>1. CASE Valid(v, age) /\ TakeRow(v, age)
    <3>1. Holder \in {NoView, v}
      BY <2>1 DEF Valid, Holder
    <3>2. Holder' \in {NoView, v}
      BY <2>1 DEF TakeRow, Holder
    <3> QED
      BY <3>1, <3>2, HolderStep
  <2>2. CASE UNCHANGED row
    BY <2>2, HolderStep DEF Holder
  <2> QED
    BY <1>2, <2>1, <2>2 DEF Renew
<1>3. CASE Release(v, age)
  BY <1>3, HolderStep DEF Release, NoRow, Holder
<1>4. CASE Guard(v, age) \/ Land(v, age)
  BY <1>4, HolderStep DEF Guard, Land, Holder
<1> QED
  BY <1>1, <1>2, <1>3, <1>4 DEF Serve

LEMMA NextRefines == IInv /\ [Next]_vars => [EditLock!Next]_Holder
<1> SUFFICES ASSUME IInv, [Next]_vars PROVE [EditLock!Next]_Holder
  OBVIOUS
<1>1. CASE UNCHANGED row
  BY <1>1, HolderStep DEF Holder
<1>2. CASE \E v \in Views : \E age \in Ages : Serve(v, age)
  BY <1>2, ServerRefines
<1>3. CASE Expire
  BY <1>3, HolderStep DEF Expire, NoRow, Holder
<1>4. CASE Tick
  <2>1. Holder' \in {Holder, NoView}
    BY <1>4, EditAssumption DEF Tick, Holder, IInv, TypeOK
  <2> QED
    BY <2>1, HolderStep
<1>5. \/ UNCHANGED row
      \/ \E v \in Views : \E age \in Ages : Serve(v, age)
      \/ Expire
      \/ Tick
  BY DEF Next, vars, Open, Heartbeat, Write, Close, Drop
<1> QED
  BY <1>1, <1>2, <1>3, <1>4, <1>5

\* Delayed and lost acquires, heartbeats and releases, expiry and the TTL sweep
\* never pass an unexpired edit lease to another view, for any number of views
\* and any times: every behaviour of the edit lock is a behaviour of Lease.
THEOREM Refinement == Spec => ImplementsLease
<1>1. Init => EditLock!Init
  BY DEF Init, NoRow, EditLock!Init, Holder
<1>2. IInv /\ [Next]_vars => [EditLock!Next]_Holder
  BY NextRefines
<1> QED
  BY <1>1, <1>2, AlwaysIInv, PTL DEF Spec, ImplementsLease, EditLock!Spec
-----------------------------------------------------------------------------
(* Writes land under the lease *)

\* The lease outlives one heartbeat period, three calls (the acquire or the last
\* renewal, the heartbeat that is lost, the guarded write) and one write.
LeaseOutlivesWrites == LeaseTime > Beat + 3 * (CallTime - 1) + (WriteTime - 1)

\* v owns the row and has at least this time left.
Covers(v, time) == row.owner = v /\ row.left >= time

\* The browser has at most one call of a kind under way.
OneCall == \A c, d \in calls : c[1] = d[1] /\ c[2] = d[2] => c = d

\* What a call under way says of its view: an acquire is not answered yet, the
\* heartbeat timer was reset when the heartbeat was sent, a release is the last.
CallsOfView ==
    \A c \in calls :
        /\ c[2] = "acquire" => view[c[1]] \in {"acquiring", "closed"}
        /\ c[2] = "heartbeat" => \/ view[c[1]] = "closed"
                                 \/ view[c[1]] = "acquired" /\ since[c[1]] = c[3]
        /\ c[2] = "release" => view[c[1]] = "closed"

\* An acquired view has what its last renewal left it, less the time since the
\* timer fired, and less one period more while the next renewal is under way.
AcquiredCovered ==
    \A v \in Views : view[v] = "acquired" =>
        \/ Covers(v, LeaseTime - (CallTime - 1) - since[v])
        \/ /\ InFlight(v, "heartbeat")
           /\ Covers(v, LeaseTime - (CallTime - 1) - Beat - since[v])

\* The write of a view that has lost its heartbeat since, before and after the
\* guard.
WritesCovered ==
    \A c \in calls : view[c[1]] # "closed" =>
        /\ c[2] = "write" => Covers(c[1], LeaseTime - Beat - 2 * (CallTime - 1) - c[3])
        /\ c[2] = "landing" => Covers(c[1], LeaseTime - Beat - 3 * (CallTime - 1) - c[3])

CoverInv == IInv /\ OneCall /\ CallsOfView /\ AcquiredCovered /\ WritesCovered

LEMMA AcquiredLeft ==
    ASSUME CoverInv, NEW v \in Views, view[v] = "acquired"
    PROVE  Covers(v, LeaseTime - Beat - 2 * (CallTime - 1))
<1>1. since[v] \in 0 .. Beat /\ row.left \in Int
  BY DEF CoverInv, IInv, TypeOK
<1>2. CASE Covers(v, LeaseTime - (CallTime - 1) - since[v])
  BY <1>1, <1>2, EditAssumption DEF Covers
<1>3. CASE /\ InFlight(v, "heartbeat")
           /\ Covers(v, LeaseTime - (CallTime - 1) - Beat - since[v])
  <2>1. PICK c \in calls : c[1] = v /\ c[2] = "heartbeat"
    BY <1>3 DEF InFlight
  <2>2. since[v] = c[3]
    BY <2>1 DEF CoverInv, CallsOfView
  <2>3. c[3] < CallTime
    BY <2>1 DEF CoverInv, IInv, CallsInTime, Limit
  <2> QED
    BY <1>1, <1>3, <2>2, <2>3, EditAssumption DEF Covers
<1> QED
  BY <1>2, <1>3 DEF CoverInv, AcquiredCovered

\* A view is protected while it is acquired or has a write under way.
Protected(v) ==
    \/ view[v] = "acquired"
    \/ view[v] # "closed" /\ (InFlight(v, "write") \/ InFlight(v, "landing"))

LEMMA ProtectedHolds ==
    ASSUME CoverInv, LeaseOutlivesWrites, NEW v \in Views, Protected(v)
    PROVE  row.owner = v /\ row.left > 0
<1>1. row.left \in Int
  BY DEF CoverInv, IInv, TypeOK
<1>2. CASE view[v] = "acquired"
  BY <1>1, <1>2, AcquiredLeft, EditAssumption DEF Covers, LeaseOutlivesWrites
<1>3. ASSUME NEW c \in calls, view[v] # "closed", c[1] = v, c[2] \in {"write", "landing"}
      PROVE  row.owner = v /\ row.left > 0
  <2>1. c[3] \in Nat /\ c[3] < Limit(c[2])
    BY EditAssumption DEF CoverInv, IInv, TypeOK, CallsInTime, Ages
  <2>2. CASE c[2] = "write"
    BY <1>1, <1>3, <2>1, <2>2, EditAssumption
       DEF CoverInv, WritesCovered, Covers, Limit, LeaseOutlivesWrites
  <2>3. CASE c[2] = "landing"
    BY <1>1, <1>3, <2>1, <2>3, EditAssumption
       DEF CoverInv, WritesCovered, Covers, Limit, LeaseOutlivesWrites
  <2> QED
    BY <1>3, <2>2, <2>3
<1> QED
  BY <1>2, <1>3 DEF Protected, InFlight

LEMMA SendOneCall ==
    ASSUME OneCall, NEW v, NEW k, Send(v, k)
    PROVE  OneCall'
BY DEF OneCall, Send, InFlight

LEMMA DoneOneCall ==
    ASSUME OneCall, NEW c, Done(c)
    PROVE  OneCall'
BY DEF OneCall, Done

LEMMA BrowserKeepsCover ==
    ASSUME CoverInv, IInv', NEW v \in Views, Open(v) \/ Heartbeat(v) \/ Write(v) \/ Close(v)
    PROVE  CoverInv'
<1>t. /\ calls \subseteq Views \X Kinds \X Ages
      /\ view \in [Views -> {"idle", "acquiring", "acquired", "blocked", "lost", "closed"}]
      /\ since \in [Views -> 0 .. Beat]
      /\ row.left \in Int
  BY DEF CoverInv, IInv, TypeOK
<1>1. CASE Open(v)
  <2>1. OneCall'
    BY <1>1, SendOneCall DEF Open, CoverInv
  <2>2. CallsOfView'
    BY <1>1, <1>t DEF Open, Send, SetStatus, CoverInv, CallsOfView
  <2>3. AcquiredCovered'
    BY <1>1, <1>t DEF Open, Send, SetStatus, CoverInv, AcquiredCovered, InFlight, Covers
  <2>4. WritesCovered'
    BY <1>1, <1>t DEF Open, Send, SetStatus, CoverInv, WritesCovered, Covers
  <2> QED
    BY <2>1, <2>2, <2>3, <2>4 DEF CoverInv
<1>2. CASE Heartbeat(v)
  <2>1. OneCall'
    BY <1>2, SendOneCall DEF Heartbeat, CoverInv
  <2>2. CallsOfView'
    <3>1. ~InFlight(v, "heartbeat")
      BY <1>2 DEF Heartbeat, Send
    <3> QED
      BY <1>2, <1>t, <3>1 DEF Heartbeat, Send, CoverInv, CallsOfView, InFlight
  <2>3. AcquiredCovered'
    <3>1. ~InFlight(v, "heartbeat") /\ Covers(v, LeaseTime - (CallTime - 1) - Beat)
      BY <1>2 DEF Heartbeat, Send, CoverInv, AcquiredCovered
    <3>2. InFlight(v, "heartbeat")'
      <4>1. <<v, "heartbeat", 0>> \in calls'
        BY <1>2 DEF Heartbeat, Send
      <4> QED
        BY <4>1 DEF InFlight
    <3>3. since'[v] = 0 /\ UNCHANGED row
      BY <1>2, <1>t DEF Heartbeat
    <3>4. Covers(v, LeaseTime - (CallTime - 1) - Beat - since[v])'
      BY <3>1, <3>3, EditAssumption DEF Covers
    <3>5. ASSUME NEW w \in Views, w # v, (view[w] = "acquired")'
          PROVE  \/ Covers(w, LeaseTime - (CallTime - 1) - since[w])'
                 \/ /\ InFlight(w, "heartbeat")'
                    /\ Covers(w, LeaseTime - (CallTime - 1) - Beat - since[w])'
      BY <1>2, <1>t, <3>5
         DEF Heartbeat, Send, CoverInv, AcquiredCovered, InFlight, Covers
    <3> QED
      BY <3>2, <3>4, <3>5 DEF AcquiredCovered
  <2>4. WritesCovered'
    BY <1>2 DEF Heartbeat, Send, CoverInv, WritesCovered, Covers
  <2> QED
    BY <2>1, <2>2, <2>3, <2>4 DEF CoverInv
<1>3. CASE Write(v)
  <2>1. OneCall'
    BY <1>3, SendOneCall DEF Write, CoverInv
  <2>2. CallsOfView'
    BY <1>3 DEF Write, Send, CoverInv, CallsOfView
  <2>3. AcquiredCovered'
    BY <1>3 DEF Write, Send, CoverInv, AcquiredCovered, InFlight, Covers
  <2>4. WritesCovered'
    <3>1. Covers(v, LeaseTime - Beat - 2 * (CallTime - 1))
      BY <1>3, AcquiredLeft DEF Write
    <3>2. Covers(v, LeaseTime - Beat - 2 * (CallTime - 1) - 0)
      BY <3>1, EditAssumption DEF Covers
    <3> QED
      BY <1>3, <3>2 DEF Write, Send, CoverInv, WritesCovered, Covers
  <2> QED
    BY <2>1, <2>2, <2>3, <2>4 DEF CoverInv
<1>4. CASE Close(v)
  <2>0. Send(v, "release") \/ UNCHANGED calls
    BY <1>4 DEF Close
  <2>1. OneCall'
    BY <2>0, SendOneCall DEF CoverInv, OneCall
  <2>2. CallsOfView'
    BY <1>4, <1>t, <2>0 DEF Close, Send, SetStatus, CoverInv, CallsOfView
  <2>3. AcquiredCovered'
    BY <1>4, <1>t, <2>0 DEF Close, Send, SetStatus, CoverInv, AcquiredCovered, InFlight, Covers
  <2>4. WritesCovered'
    BY <1>4, <1>t, <2>0 DEF Close, Send, SetStatus, CoverInv, WritesCovered, Covers
  <2> QED
    BY <2>1, <2>2, <2>3, <2>4 DEF CoverInv
<1> QED
  BY <1>1, <1>2, <1>3, <1>4

\* An acquire or a renewal that takes the row leaves every other protected view
\* alone, because there is none.
LEMMA TakenFromNobody ==
    ASSUME CoverInv, LeaseOutlivesWrites, NEW v \in Views, NEW age \in Ages,
           Acquirable(v, age) \/ Valid(v, age), NEW w \in Views, Protected(w)
    PROVE  w = v
<1>1. row.owner = w /\ row.left > 0
  BY ProtectedHolds
<1> QED
  BY <1>1, EditAssumption DEF Acquirable, Valid, Ages, CoverInv, IInv, TypeOK

LEMMA AcquireKeepsCover ==
    ASSUME CoverInv, LeaseOutlivesWrites, IInv', NEW v \in Views, NEW age \in Ages,
           Acquire(v, age)
    PROVE  CoverInv'
<1> DEFINE c == <<v, "acquire", age>>
<1>t. /\ calls \subseteq Views \X Kinds \X Ages
      /\ view \in [Views -> {"idle", "acquiring", "acquired", "blocked", "lost", "closed"}]
      /\ since \in [Views -> 0 .. Beat]
      /\ row.left \in Int
  BY DEF CoverInv, IInv, TypeOK
<1>a. c \in calls /\ Done(c) /\ age < CallTime /\ view[v] \in {"acquiring", "closed"}
  BY DEF Acquire, CoverInv, IInv, CallsInTime, Limit, CallsOfView
<1>b. \E s \in {"acquired", "blocked", "lost"} : Answer(v, s)
  BY DEF Acquire
<1>c. view[v] = "closed" => UNCHANGED <<view, since>>
  BY <1>b DEF Answer
<1>d. ASSUME NEW w \in Views, w # v
      PROVE  view'[w] = view[w] /\ since'[w] = since[w]
  BY <1>b, <1>d, <1>t DEF Answer, SetStatus
<1>e. view[v] # "closed" => view'[v] \in {"acquired", "blocked", "lost"} /\ since'[v] = 0
  BY <1>b, <1>t DEF Answer, SetStatus
<1>1. OneCall'
  BY <1>a, DoneOneCall DEF CoverInv
<1>2. CallsOfView'
  <2>1. ASSUME NEW d \in calls' PROVE d \in calls /\ (d[1] = v => d[2] # "acquire")
    BY <1>a DEF Done, CoverInv, OneCall
  <2>2. ASSUME NEW d \in calls', d[1] = v, view[v] # "closed"
        PROVE  d[2] \notin {"acquire", "heartbeat", "release"}
    BY <2>1, <2>2, <1>a DEF CoverInv, CallsOfView
  <2>3. ASSUME NEW d \in calls' PROVE d[1] \in Views
    BY <2>1, <1>t
  <2> QED
    BY <2>1, <2>2, <2>3, <1>c, <1>d DEF CoverInv, CallsOfView
<1>3. ASSUME NEW w \in Views, w # v, Protected(w) PROVE UNCHANGED row
  BY <1>3, TakenFromNobody DEF Acquire
<1>4. AcquiredCovered'
  <2> SUFFICES ASSUME NEW w \in Views, view'[w] = "acquired"
               PROVE  \/ Covers(w, LeaseTime - (CallTime - 1) - since[w])'
                      \/ /\ InFlight(w, "heartbeat")'
                         /\ Covers(w, LeaseTime - (CallTime - 1) - Beat - since[w])'
    BY DEF AcquiredCovered
  <2>1. CASE w = v
    <3>1. view[v] # "closed"
      BY <1>c, <2>1
    <3>2. TakeRow(v, age)
      BY <1>a, <1>t, <2>1, <3>1 DEF Acquire, Answer, SetStatus
    <3> QED
      BY <1>a, <1>e, <2>1, <3>1, <3>2, EditAssumption DEF TakeRow, Covers, Ages
  <2>2. CASE w # v
    <3>1. view[w] = "acquired" /\ since'[w] = since[w]
      BY <1>d, <2>2
    <3>2. UNCHANGED row
      BY <1>3, <2>2, <3>1 DEF Protected
    <3>3. InFlight(w, "heartbeat") => InFlight(w, "heartbeat")'
      BY <1>a, <2>2 DEF Done, InFlight
    <3> QED
      BY <3>1, <3>2, <3>3 DEF CoverInv, AcquiredCovered, Covers
  <2> QED
    BY <2>1, <2>2
<1>5. WritesCovered'
  <2> SUFFICES ASSUME NEW d \in calls', view'[d[1]] # "closed", d[2] \in {"write", "landing"}
               PROVE  /\ d[2] = "write" =>
                           Covers(d[1], LeaseTime - Beat - 2 * (CallTime - 1) - d[3])'
                      /\ d[2] = "landing" =>
                           Covers(d[1], LeaseTime - Beat - 3 * (CallTime - 1) - d[3])'
    BY DEF WritesCovered
  <2>1. d \in calls /\ d[1] \in Views /\ d[3] \in Nat
    BY <1>a, <1>t, EditAssumption DEF Done, Ages
  <2>2. view[d[1]] # "closed"
    BY <1>c, <1>d, <2>1
  <2>3. CASE UNCHANGED row
    BY <2>1, <2>2, <2>3 DEF CoverInv, WritesCovered, Covers
  <2>4. CASE Acquirable(v, age) /\ TakeRow(v, age)
    <3>1. d[1] = v
      BY <2>1, <2>2, <2>4, TakenFromNobody DEF Protected, InFlight
    <3> QED
      BY <1>a, <2>1, <2>4, <3>1, EditAssumption DEF TakeRow, Covers, Ages
  <2> QED
    BY <2>3, <2>4 DEF Acquire
<1> QED
  BY <1>1, <1>2, <1>4, <1>5 DEF CoverInv

LEMMA RenewKeepsCover ==
    ASSUME CoverInv, LeaseOutlivesWrites, IInv', NEW v \in Views, NEW age \in Ages,
           Renew(v, age)
    PROVE  CoverInv'
<1> DEFINE c == <<v, "heartbeat", age>>
<1>t. /\ calls \subseteq Views \X Kinds \X Ages
      /\ view \in [Views -> {"idle", "acquiring", "acquired", "blocked", "lost", "closed"}]
      /\ since \in [Views -> 0 .. Beat]
      /\ row.left \in Int
  BY DEF CoverInv, IInv, TypeOK
<1>a. /\ c \in calls /\ Done(c) /\ age < CallTime
      /\ view[v] = "closed" \/ (view[v] = "acquired" /\ since[v] = age)
  BY DEF Renew, CoverInv, IInv, CallsInTime, Limit, CallsOfView
<1>b. \/ UNCHANGED <<view, since>>
      \/ view[v] # "closed" /\ view' = [view EXCEPT ![v] = "lost"]
                           /\ since' = [since EXCEPT ![v] = 0]
  BY DEF Renew, Answer, SetStatus
<1>1. OneCall'
  BY <1>a, DoneOneCall DEF CoverInv
<1>2. CallsOfView'
  <2>1. ASSUME NEW d \in calls'
        PROVE  d \in calls /\ d[1] \in Views /\ (d[1] = v => d[2] # "heartbeat")
    BY <1>a, <1>t DEF Done, CoverInv, OneCall
  <2>2. ASSUME NEW d \in calls', d[1] = v, view[v] # "closed"
        PROVE  d[2] \notin {"acquire", "heartbeat", "release"}
    BY <2>1, <2>2, <1>a DEF CoverInv, CallsOfView
  <2> QED
    BY <2>1, <2>2, <1>b, <1>t DEF CoverInv, CallsOfView
<1>3. ASSUME NEW w \in Views, w # v, Protected(w) PROVE UNCHANGED row
  BY <1>3, TakenFromNobody DEF Renew
<1>4. AcquiredCovered'
  <2> SUFFICES ASSUME NEW w \in Views, view'[w] = "acquired"
               PROVE  \/ Covers(w, LeaseTime - (CallTime - 1) - since[w])'
                      \/ /\ InFlight(w, "heartbeat")'
                         /\ Covers(w, LeaseTime - (CallTime - 1) - Beat - since[w])'
    BY DEF AcquiredCovered
  <2>0. view[w] = "acquired" /\ since'[w] = since[w]
    BY <1>b, <1>t
  <2>1. CASE w = v
    <3>1. TakeRow(v, age)
      BY <1>a, <1>t, <2>0, <2>1 DEF Renew, Answer, SetStatus
    <3> QED
      BY <1>a, <2>0, <2>1, <3>1, EditAssumption DEF TakeRow, Covers, Ages
  <2>2. CASE w # v
    <3>1. UNCHANGED row
      BY <1>3, <2>0, <2>2 DEF Protected
    <3>2. InFlight(w, "heartbeat") => InFlight(w, "heartbeat")'
      BY <1>a, <2>2 DEF Done, InFlight
    <3> QED
      BY <2>0, <3>1, <3>2 DEF CoverInv, AcquiredCovered, Covers
  <2> QED
    BY <2>1, <2>2
<1>5. WritesCovered'
  <2> SUFFICES ASSUME NEW d \in calls', view'[d[1]] # "closed", d[2] \in {"write", "landing"}
               PROVE  /\ d[2] = "write" =>
                           Covers(d[1], LeaseTime - Beat - 2 * (CallTime - 1) - d[3])'
                      /\ d[2] = "landing" =>
                           Covers(d[1], LeaseTime - Beat - 3 * (CallTime - 1) - d[3])'
    BY DEF WritesCovered
  <2>1. d \in calls /\ d[1] \in Views /\ d[3] \in Nat
    BY <1>a, <1>t, EditAssumption DEF Done, Ages
  <2>2. view[d[1]] # "closed"
    BY <1>b, <1>t, <2>1
  <2>3. CASE UNCHANGED row
    BY <2>1, <2>2, <2>3 DEF CoverInv, WritesCovered, Covers
  <2>4. CASE Valid(v, age) /\ TakeRow(v, age)
    <3>1. d[1] = v
      BY <2>1, <2>2, <2>4, TakenFromNobody DEF Protected, InFlight
    <3> QED
      BY <1>a, <2>1, <2>4, <3>1, EditAssumption DEF TakeRow, Covers, Ages
  <2> QED
    BY <2>3, <2>4 DEF Renew
<1> QED
  BY <1>1, <1>2, <1>4, <1>5 DEF CoverInv

\* Release, Land, Drop and Expire: a call ends without an answer that counts, or
\* with a loss, and the row stays with whoever is protected.
LEMMA EndedCallKeepsCover ==
    ASSUME CoverInv, LeaseOutlivesWrites, IInv', NEW v \in Views, NEW k \in Kinds,
           NEW age \in Ages, <<v, k, age>> \in calls, Done(<<v, k, age>>),
           UNCHANGED row \/ (view[v] = "closed" /\ row.owner = v),
           \/ UNCHANGED <<view, since>> /\ (k = "heartbeat" => view[v] = "closed")
           \/ /\ k \in {"acquire", "heartbeat"}
              /\ view[v] # "closed"
              /\ view' = [view EXCEPT ![v] = "lost"]
              /\ since' = [since EXCEPT ![v] = 0]
    PROVE  CoverInv'
<1> DEFINE c == <<v, k, age>>
<1>t. /\ calls \subseteq Views \X Kinds \X Ages
      /\ view \in [Views -> {"idle", "acquiring", "acquired", "blocked", "lost", "closed"}]
      /\ since \in [Views -> 0 .. Beat]
  BY DEF CoverInv, IInv, TypeOK
<1>a. ASSUME NEW w \in Views, Protected(w) PROVE UNCHANGED row
  BY <1>a, ProtectedHolds DEF Protected
<1>1. OneCall'
  BY DoneOneCall DEF CoverInv
<1>2. CallsOfView'
  <2>1. ASSUME NEW d \in calls'
        PROVE  d \in calls /\ d[1] \in Views /\ (d[1] = v => d[2] # k)
    BY <1>t DEF Done, CoverInv, OneCall
  <2>2. ASSUME NEW d \in calls', d[1] = v, view[v] # "closed", k \in {"acquire", "heartbeat"}
        PROVE  d[2] \notin {"acquire", "heartbeat", "release"}
    BY <2>1, <2>2 DEF CoverInv, CallsOfView
  <2> QED
    BY <2>1, <2>2, <1>t DEF CoverInv, CallsOfView
<1>3. AcquiredCovered'
  <2> SUFFICES ASSUME NEW w \in Views, view'[w] = "acquired"
               PROVE  \/ Covers(w, LeaseTime - (CallTime - 1) - since[w])'
                      \/ /\ InFlight(w, "heartbeat")'
                         /\ Covers(w, LeaseTime - (CallTime - 1) - Beat - since[w])'
    BY DEF AcquiredCovered
  <2>1. view[w] = "acquired" /\ since'[w] = since[w] /\ (w = v => k # "heartbeat")
    BY <1>t
  <2>2. UNCHANGED row
    BY <1>a, <2>1 DEF Protected
  <2>3. InFlight(w, "heartbeat") => InFlight(w, "heartbeat")'
    BY <2>1 DEF Done, InFlight
  <2> QED
    BY <2>1, <2>2, <2>3 DEF CoverInv, AcquiredCovered, Covers
<1>4. WritesCovered'
  <2> SUFFICES ASSUME NEW d \in calls', view'[d[1]] # "closed", d[2] \in {"write", "landing"}
               PROVE  /\ d[2] = "write" =>
                           Covers(d[1], LeaseTime - Beat - 2 * (CallTime - 1) - d[3])'
                      /\ d[2] = "landing" =>
                           Covers(d[1], LeaseTime - Beat - 3 * (CallTime - 1) - d[3])'
    BY DEF WritesCovered
  <2>1. d \in calls /\ d[1] \in Views /\ view[d[1]] # "closed"
    BY <1>t DEF Done
  <2>2. UNCHANGED row
    BY <1>a, <2>1 DEF Protected, InFlight
  <2> QED
    BY <2>1, <2>2 DEF CoverInv, WritesCovered, Covers
<1> QED
  BY <1>1, <1>2, <1>3, <1>4 DEF CoverInv

LEMMA GuardKeepsCover ==
    ASSUME CoverInv, IInv', NEW v \in Views, NEW age \in Ages, Guard(v, age)
    PROVE  CoverInv'
<1>t. calls \subseteq Views \X Kinds \X Ages /\ row.left \in Int
  BY DEF CoverInv, IInv, TypeOK
<1>a. /\ <<v, "write", age>> \in calls /\ age < CallTime
      /\ ~InFlight(v, "landing")
      /\ calls' \subseteq (calls \ {<<v, "write", age>>}) \cup {<<v, "landing", 0>>}
      /\ UNCHANGED <<row, view, since>>
  BY DEF Guard, CoverInv, IInv, CallsInTime, Limit
<1>1. OneCall'
  BY <1>a DEF CoverInv, OneCall, InFlight
<1>2. CallsOfView'
  BY <1>a DEF CoverInv, CallsOfView
<1>3. AcquiredCovered'
  <2>1. ASSUME NEW w \in Views, InFlight(w, "heartbeat") PROVE InFlight(w, "heartbeat")'
    BY <2>1 DEF Guard, InFlight
  <2> QED
    BY <1>a, <2>1 DEF CoverInv, AcquiredCovered, Covers
<1>4. WritesCovered'
  <2>1. view[v] # "closed" => Covers(v, LeaseTime - Beat - 3 * (CallTime - 1) - 0)
    <3>1. view[v] # "closed" => Covers(v, LeaseTime - Beat - 2 * (CallTime - 1) - age)
      BY <1>a DEF CoverInv, WritesCovered
    <3> QED
      BY <3>1, <1>a, <1>t, EditAssumption DEF Covers, Ages
  <2> QED
    BY <1>a, <2>1 DEF CoverInv, WritesCovered, Covers
<1> QED
  BY <1>1, <1>2, <1>3, <1>4 DEF CoverInv

LEMMA TickKeepsCover ==
    ASSUME CoverInv, LeaseOutlivesWrites, IInv', Tick
    PROVE  CoverInv'
<1>t. /\ calls \subseteq Views \X Kinds \X Ages
      /\ since \in [Views -> 0 .. Beat]
      /\ row \in [owner : Views \cup {NoView}, left : (0 - CallTime) .. LeaseTime]
  BY DEF CoverInv, IInv, TypeOK
<1>a. ASSUME NEW d \in calls'
      PROVE  \E c \in calls : d = <<c[1], c[2], c[3] + 1>>
  BY DEF Tick
<1>b. ASSUME NEW w \in Views, Protected(w)
      PROVE  row'.owner = row.owner /\ row'.left = row.left - 1 /\ row.left \in Int
  <2>1. row.owner # NoView /\ row.left > 0
    BY <1>b, ProtectedHolds, EditAssumption
  <2>2. row' = [row EXCEPT !.left = row.left - 1]
    BY <2>1, EditAssumption DEF Tick
  <2> QED
    BY <2>2, <1>t
<1>1. OneCall'
  BY <1>a, <1>t DEF CoverInv, OneCall
<1>2. CallsOfView'
  <2> SUFFICES ASSUME NEW d \in calls'
               PROVE  /\ d[2] = "acquire" => view'[d[1]] \in {"acquiring", "closed"}
                      /\ d[2] = "heartbeat" =>
                            \/ view'[d[1]] = "closed"
                            \/ view'[d[1]] = "acquired" /\ since'[d[1]] = d[3]
                      /\ d[2] = "release" => view'[d[1]] = "closed"
    BY DEF CallsOfView
  <2>1. PICK c \in calls : d = <<c[1], c[2], c[3] + 1>>
    BY <1>a
  <2>2. c[1] \in Views /\ UNCHANGED view
    BY <1>t DEF Tick
  <2>3. view[c[1]] = "acquired" => since'[c[1]] = since[c[1]] + 1
    BY <2>2 DEF Tick
  <2> QED
    BY <2>1, <2>2, <2>3 DEF CoverInv, CallsOfView
<1>3. AcquiredCovered'
  <2> SUFFICES ASSUME NEW w \in Views, view'[w] = "acquired"
               PROVE  \/ Covers(w, LeaseTime - (CallTime - 1) - since[w])'
                      \/ /\ InFlight(w, "heartbeat")'
                         /\ Covers(w, LeaseTime - (CallTime - 1) - Beat - since[w])'
    BY DEF AcquiredCovered
  <2>1. view[w] = "acquired" /\ since'[w] = since[w] + 1 /\ Protected(w) /\ since[w] \in Int
    BY <1>t DEF Tick, Protected
  <2>2. CASE Covers(w, LeaseTime - (CallTime - 1) - since[w])
    BY <1>b, <2>1, <2>2, EditAssumption DEF Covers
  <2>3. CASE /\ InFlight(w, "heartbeat")
             /\ Covers(w, LeaseTime - (CallTime - 1) - Beat - since[w])
    <3>1. Covers(w, LeaseTime - (CallTime - 1) - Beat - since[w])'
      BY <1>b, <2>1, <2>3, EditAssumption DEF Covers
    <3>2. InFlight(w, "heartbeat")'
      <4>1. PICK c \in calls : c[1] = w /\ c[2] = "heartbeat"
        BY <2>3 DEF InFlight
      <4>2. <<c[1], c[2], c[3] + 1>> \in calls'
        BY DEF Tick
      <4> QED
        BY <4>1, <4>2 DEF InFlight
    <3> QED
      BY <3>1, <3>2
  <2> QED
    BY <2>1, <2>2, <2>3 DEF CoverInv, AcquiredCovered
<1>4. WritesCovered'
  <2> SUFFICES ASSUME NEW d \in calls', view'[d[1]] # "closed", d[2] \in {"write", "landing"}
               PROVE  /\ d[2] = "write" =>
                           Covers(d[1], LeaseTime - Beat - 2 * (CallTime - 1) - d[3])'
                      /\ d[2] = "landing" =>
                           Covers(d[1], LeaseTime - Beat - 3 * (CallTime - 1) - d[3])'
    BY DEF WritesCovered
  <2>1. PICK c \in calls : d = <<c[1], c[2], c[3] + 1>>
    BY <1>a
  <2>2. c[1] \in Views /\ c[3] \in Int /\ UNCHANGED view
    BY <1>t, EditAssumption DEF Tick, Ages
  <2>3. Protected(c[1])
    BY <2>1, <2>2 DEF Protected, InFlight
  <2>4. CASE d[2] = "write"
    <3>1. Covers(c[1], LeaseTime - Beat - 2 * (CallTime - 1) - c[3])
      BY <2>1, <2>2, <2>4 DEF CoverInv, WritesCovered
    <3> QED
      BY <1>b, <2>1, <2>2, <2>3, <2>4, <3>1, EditAssumption DEF Covers
  <2>5. CASE d[2] = "landing"
    <3>1. Covers(c[1], LeaseTime - Beat - 3 * (CallTime - 1) - c[3])
      BY <2>1, <2>2, <2>5 DEF CoverInv, WritesCovered
    <3> QED
      BY <1>b, <2>1, <2>2, <2>3, <2>5, <3>1, EditAssumption DEF Covers
  <2> QED
    BY <2>4, <2>5
<1> QED
  BY <1>1, <1>2, <1>3, <1>4 DEF CoverInv

LEMMA NextKeepsCover ==
    ASSUME CoverInv, LeaseOutlivesWrites, [Next]_vars
    PROVE  CoverInv'
<1>i. IInv'
  BY NextKeepsIInv DEF CoverInv
<1>1. CASE \E v \in Views : Open(v) \/ Heartbeat(v) \/ Write(v) \/ Close(v)
  BY <1>1, <1>i, BrowserKeepsCover
<1>2. ASSUME NEW v \in Views, NEW age \in Ages, Serve(v, age) PROVE CoverInv'
  <2>1. CASE Acquire(v, age)
    BY <2>1, <1>i, AcquireKeepsCover
  <2>2. CASE Renew(v, age)
    BY <2>2, <1>i, RenewKeepsCover
  <2>3. CASE Release(v, age)
    <3>1. view[v] = "closed"
      BY <2>3 DEF Release, CoverInv, CallsOfView
    <3> QED
      BY <2>3, <3>1, <1>i, EndedCallKeepsCover DEF Release, Kinds
  <2>4. CASE Guard(v, age)
    BY <2>4, <1>i, GuardKeepsCover
  <2>5. CASE Land(v, age)
    BY <2>5, <1>i, EndedCallKeepsCover DEF Land, Kinds
  <2> QED
    BY <1>2, <2>1, <2>2, <2>3, <2>4, <2>5 DEF Serve
<1>3. ASSUME NEW v \in Views, NEW age \in Ages, NEW k \in Kinds, Drop(v, k, age)
      PROVE  CoverInv'
  <2>1. \/ UNCHANGED <<view, since>> /\ (k = "heartbeat" => view[v] = "closed")
        \/ /\ k \in {"acquire", "heartbeat"}
           /\ view[v] # "closed"
           /\ view' = [view EXCEPT ![v] = "lost"]
           /\ since' = [since EXCEPT ![v] = 0]
    BY <1>3 DEF Drop, Answer, SetStatus
  <2> QED
    BY <1>3, <2>1, <1>i, EndedCallKeepsCover DEF Drop
<1>4. CASE Expire
  <2>1. ASSUME NEW v \in Views PROVE ~Protected(v)
    BY <1>4, ProtectedHolds DEF Expire, CoverInv, IInv, TypeOK
  <2>2. calls \subseteq Views \X Kinds \X Ages /\ UNCHANGED <<view, since, calls>>
    BY <1>4 DEF Expire, CoverInv, IInv, TypeOK
  <2>3. AcquiredCovered'
    BY <2>1, <2>2 DEF AcquiredCovered, Protected
  <2>4. WritesCovered'
    <3>1. ASSUME NEW c \in calls, view[c[1]] # "closed" PROVE c[2] \notin {"write", "landing"}
      BY <2>1, <2>2, <3>1 DEF Protected, InFlight
    <3> QED
      BY <2>2, <3>1 DEF WritesCovered
  <2> QED
    BY <1>i, <2>2, <2>3, <2>4 DEF CoverInv, OneCall, CallsOfView
<1>5. CASE Tick
  BY <1>5, <1>i, TickKeepsCover
<1>6. CASE UNCHANGED vars
  BY <1>6, <1>i DEF vars, CoverInv, OneCall, CallsOfView, AcquiredCovered, WritesCovered,
                    Covers, InFlight
<1> QED
  BY <1>1, <1>2, <1>3, <1>4, <1>5, <1>6 DEF Next

\* For every lease that outlives a heartbeat period, three calls and a write, and
\* for any number of views: a write that the guard of the edit lock let through
\* lands while its view still holds the lease, unless the view was closed.
THEOREM WritesProtected ==
    ASSUME LeaseOutlivesWrites
    PROVE  Spec => []WriteLandsUnderLease
<1>1. Init => CoverInv
  BY IInvInit DEF Init, CoverInv, OneCall, CallsOfView, AcquiredCovered, WritesCovered
<1>2. CoverInv /\ [Next]_vars => CoverInv'
  BY NextKeepsCover
<1>3. CoverInv => WriteLandsUnderLease
  BY ProtectedHolds DEF WriteLandsUnderLease, Protected, Holder
<1> QED
  BY <1>1, <1>2, <1>3, PTL DEF Spec
=============================================================================
