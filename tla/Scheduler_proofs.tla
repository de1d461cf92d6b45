-------------------------- MODULE Scheduler_proofs --------------------------
(***************************************************************************)
(* Theorems about Scheduler for every finite set of tables and any numbers *)
(* of workers, parts and disturbances: the supervisor's books of running   *)
(* tasks agree, and initial loads leave slots to CDC.                      *)
(***************************************************************************)
EXTENDS Scheduler, SequenceTheorems, FiniteSetTheorems, TLAPS

-----------------------------------------------------------------------------
(* The cap of initial loads.                                               *)

LEMMA CapIsANumber == Cap \in 1..Workers
<1>1. SnapshotWorkers \in Int
  <2>1. CASE MaxSnapshotWorkers = {}
    BY <2>1, SchedulerAssumption DEF SnapshotWorkers, Larger
  <2>2. CASE MaxSnapshotWorkers # {}
    BY <2>2, SchedulerAssumption DEF SnapshotWorkers
  <2> QED
    BY <2>1, <2>2
<1> QED
  BY <1>1, SchedulerAssumption DEF Cap, Larger, Smaller

\* Unless configured otherwise, the cap leaves a slot to CDC; one worker alone
\* cannot be shared.
LEMMA DefaultCap ==
    ASSUME MaxSnapshotWorkers = {}, Workers > 1
    PROVE  Cap < Workers
<1> DEFINE half == Workers \div 2
<1>1. half \in Nat /\ half < Workers
  BY SchedulerAssumption
<1>2. SnapshotWorkers = Larger(1, half)
  BY DEF SnapshotWorkers
<1> HIDE DEF half
<1> QED
  BY <1>1, <1>2, SchedulerAssumption DEF Cap, Larger, Smaller

-----------------------------------------------------------------------------
(* The queues.                                                             *)

LEMMA WithoutType ==
    ASSUME NEW q \in Seq(Tables), NEW t
    PROVE  Without(q, t) \in Seq(Tables)
<1>1. CASE t \notin {q[j] : j \in DOMAIN q}
  BY <1>1 DEF Without
<1>2. CASE t \in {q[j] : j \in DOMAIN q}
  <2> DEFINE i == CHOOSE i \in DOMAIN q : q[i] = t
  <2>1. i \in DOMAIN q
    BY <1>2
  <2>2. i \in 1..Len(q) /\ Len(q) \in Nat /\ \A j \in 1..Len(q) : q[j] \in Tables
    BY <2>1
  <2> HIDE DEF i
  <2>3. SubSeq(q, 1, i - 1) \in Seq(Tables)
    BY <2>2, SubSeqProperties
  <2>4. SubSeq(q, i + 1, Len(q)) \in Seq(Tables)
    BY <2>2, SubSeqProperties
  <2>5. SubSeq(q, 1, i - 1) \o SubSeq(q, i + 1, Len(q)) \in Seq(Tables)
    BY <2>3, <2>4, ConcatProperties
  <2> QED
    BY <1>2, <2>5 DEF Without, i
<1> QED
  BY <1>1, <1>2

LEMMA BackToReadyType ==
    ASSUME ready \in Seq(Tables), waiting \in Seq(Tables), NEW t \in Tables, BackToReady(t)
    PROVE  ready' \in Seq(Tables) /\ waiting' \in Seq(Tables)
<1> DEFINE q == Without(ready, t)
<1>1. q \in Seq(Tables) /\ waiting' \in Seq(Tables)
  BY WithoutType DEF BackToReady
<1>2. PICK i \in 0..Len(q) : ready' = SubSeq(q, 1, i) \o <<t>> \o SubSeq(q, i + 1, Len(q))
  BY DEF BackToReady
<1>3. Len(q) \in Nat /\ \A j \in 1..Len(q) : q[j] \in Tables
  BY <1>1
<1> HIDE DEF q
<1>4. SubSeq(q, 1, i) \in Seq(Tables)
  BY <1>3, SubSeqProperties
<1>5. SubSeq(q, i + 1, Len(q)) \in Seq(Tables)
  BY <1>3, SubSeqProperties
<1>6. <<t>> \in Seq(Tables)
  OBVIOUS
<1>7. SubSeq(q, 1, i) \o <<t>> \in Seq(Tables)
  BY <1>4, <1>6, ConcatProperties
<1>8. SubSeq(q, 1, i) \o <<t>> \o SubSeq(q, i + 1, Len(q)) \in Seq(Tables)
  BY <1>5, <1>7, ConcatProperties
<1> QED
  BY <1>1, <1>2, <1>8

-----------------------------------------------------------------------------
(* The initial states.                                                     *)

LEMMA NoFutureFields ==
    /\ NoFuture.status = "free"
    /\ \A f \in Future : f.status # "free" /\ f.table \in Tables /\ f.tid \in Tids
BY DEF NoFuture, Future, Ended

LEMMA SchedInit == Init => SchedInv
<1> SUFFICES ASSUME Init PROVE SchedInv
  OBVIOUS
<1>1. ready \in Seq(Tables)
  <2>1. IsFiniteSet(desired)
    BY SchedulerAssumption, FS_Subset DEF Init
  <2>2. Cardinality(desired) \in Nat
    BY <2>1, FS_CardinalityType
  <2>3. ready \in [1..Cardinality(desired) -> Tables]
    BY DEF Init
  <2> QED
    BY <2>2, <2>3
<1>2. Taken = {}
  BY NoFutureFields DEF Init, Taken, Free
<1>3. TypeOK
  <2>1. /\ phase \in [Tables -> {"plan", "snapshot", "cdc"}]
        /\ parts \in [Tables -> 0..MaxParts]
        /\ done \in [Tables -> SUBSET (1..MaxParts)]
        /\ running \in [Tables -> SUBSET Tids]
        /\ blocked \in [Tables -> BOOLEAN]
    BY SchedulerAssumption DEF Init
  <2>2. slot \in [Slots -> Future \cup {NoFuture}]
    BY DEF Init
  <2>3. waiting \in Seq(Tables) /\ visit \subseteq tracked /\ batch \subseteq Slots
    BY DEF Init
  <2> QED
    BY <1>1, <2>1, <2>2, <2>3 DEF Init, TypeOK
<1>4. SlotsAccounted
  BY <1>2 DEF Init, SlotsAccounted, TasksOf
<1>5. SnapshotsCapped
  <2>1. {s \in Taken : slot[s].tid # Cdc} = {}
    BY <1>2
  <2>2. Cardinality({s \in Taken : slot[s].tid # Cdc}) = 0
    BY <2>1, FS_EmptySet
  <2> QED
    BY <2>2, CapIsANumber DEF SnapshotsCapped, SnapshotsRunning
<1> QED
  BY <1>3, <1>4, <1>5 DEF Init, SchedInv

-----------------------------------------------------------------------------
(* Types.                                                                  *)

LEMMA FutureStatus ==
    ASSUME NEW f \in Future, NEW x \in {"running", "lost"} \cup Ended
    PROVE  [f EXCEPT !.status = x] \in Future
BY DEF Future

LEMMA FutureCurrent ==
    ASSUME NEW f \in Future, NEW b \in BOOLEAN
    PROVE  [f EXCEPT !.current = b] \in Future
BY DEF Future

\* A slot that is not free holds a future.
LEMMA SlotTaken ==
    ASSUME TypeOK, NEW s \in Slots
    PROVE  /\ slot[s].status # "free" => slot[s] \in Future
           /\ s \in Taken <=> slot[s].status # "free"
BY NoFutureFields DEF TypeOK, Taken, Free

\* The environment.
LEMMA TypeEnvironment ==
    ASSUME TypeOK,
           \/ FallsDue \/ PoolBreaks
           \/ \E t \in Tables : Reconfigure(t) \/ BackoffEnds(t) \/ Request(t)
           \/ \E s \in Slots : TaskEnds(s) \/ FutureBreaks(s)
    PROVE  TypeOK'
<1> USE DEF TypeOK, tableVars, poolVars, loopVars, Event
<1>1. CASE FallsDue
  <2>1. Head(waiting) \in Tables /\ Tail(waiting) \in Seq(Tables)
    BY <1>1, HeadTailProperties DEF FallsDue
  <2>2. Append(ready, Head(waiting)) \in Seq(Tables)
    BY <2>1, AppendProperties
  <2> QED
    BY <1>1, <2>1, <2>2 DEF FallsDue
<1>2. CASE PoolBreaks
  <2>1. slot' \in [Slots -> Future \cup {NoFuture}]
    BY <1>2, SlotTaken, FutureStatus DEF PoolBreaks
  <2> QED
    BY <1>2, <2>1, SchedulerAssumption DEF PoolBreaks
<1>3. ASSUME NEW t \in Tables, Reconfigure(t) PROVE TypeOK'
  BY <1>3, SchedulerAssumption DEF Reconfigure
<1>4. ASSUME NEW t \in Tables, BackoffEnds(t) PROVE TypeOK'
  BY <1>4 DEF BackoffEnds
<1>5. ASSUME NEW t \in Tables, Request(t) PROVE TypeOK'
  BY <1>5, SchedulerAssumption DEF Request
<1>6. ASSUME NEW s \in Slots, TaskEnds(s) \/ FutureBreaks(s) PROVE TypeOK'
  <2>1. PICK x \in Ended : slot[s].status \in {"running", "lost"} /\ Becomes(s, x)
    BY <1>6 DEF TaskEnds, TaskSucceeds, TaskFails, TaskExpires, FutureBreaks, Ended
  <2>2. slot[s] \in Future
    BY <2>1, SlotTaken
  <2>3. slot' \in [Slots -> Future \cup {NoFuture}]
    BY <2>1, <2>2, FutureStatus DEF Becomes
  <2>4. events' \in 0..MaxEvents
    BY <1>6, SchedulerAssumption
    DEF TaskEnds, TaskSucceeds, TaskFails, TaskExpires, FutureBreaks, Failing
  <2> QED
    BY <2>1, <2>3, <2>4 DEF Becomes
<1> QED
  BY <1>1, <1>2, <1>3, <1>4, <1>5, <1>6

LEMMA SubmitType ==
    ASSUME TypeOK, NEW t \in Tables, NEW tid \in Tids, Submit(t, tid)
    PROVE  /\ slot' \in [Slots -> Future \cup {NoFuture}]
           /\ running' \in [Tables -> SUBSET Tids]
           /\ poolBroken' \in BOOLEAN
<1>1. [status |-> "running", table |-> t, tid |-> tid, current |-> TRUE] \in Future
  BY DEF Future
<1>2. \A r \in Slots : r \in Taken => [slot[r] EXCEPT !.current = FALSE] \in Future
  BY SlotTaken, FutureCurrent
<1>3. slot' \in [Slots -> Future \cup {NoFuture}]
  BY <1>1, <1>2 DEF Submit, TypeOK
<1> QED
  BY <1>3 DEF Submit, TypeOK

\* The supervisor.
LEMMA TypeRefresh ==
    ASSUME SchedInv, NEW t \in Tables, Track(t) \/ Untrack(t)
    PROVE  TypeOK'
<1> USE DEF SchedInv, TypeOK, poolVars, loopVars
<1>1. visit = {}
  BY DEF Track, Untrack
<1>2. CASE Track(t)
  <2>1. ready' \in Seq(Tables) /\ waiting' \in Seq(Tables)
    BY <1>2, BackToReadyType DEF Track
  <2> QED
    BY <1>1, <1>2, <2>1 DEF Track
<1>3. CASE Untrack(t)
  <2>1. ready' \in Seq(Tables) /\ waiting' \in Seq(Tables)
    BY <1>3, WithoutType DEF Untrack
  <2> QED
    BY <1>1, <1>3, <2>1 DEF Untrack
<1> QED
  BY <1>2, <1>3

LEMMA TypeVisit ==
    ASSUME SchedInv, NEW t \in Tables, Visit(t)
    PROVE  TypeOK'
<1> USE DEF SchedInv, TypeOK, tableVars, poolVars, loopVars, Leave
<1>1. CASE VisitIdle(t)
  BY <1>1 DEF VisitIdle
<1>2. CASE VisitPlan(t)
  BY <1>2, SchedulerAssumption DEF VisitPlan
<1>3. CASE VisitSubmit(t)
  <2>1. PICK p \in Open(t) : Submit(t, p)
    BY <1>3 DEF VisitSubmit
  <2>2. p \in Tids
    BY <2>1, SchedulerAssumption DEF Open, Tids
  <2> HIDE DEF SchedInv, TypeOK
  <2>3. TypeOK
    BY DEF SchedInv
  <2>4. /\ slot' \in [Slots -> Future \cup {NoFuture}]
        /\ running' \in [Tables -> SUBSET Tids]
        /\ poolBroken' \in BOOLEAN
    BY <2>1, <2>2, <2>3, SubmitType
  <2> QED
    BY <1>3, <2>3, <2>4 DEF VisitSubmit, TypeOK
<1>4. CASE VisitSnapshotEnd(t)
  BY <1>4 DEF VisitSnapshotEnd
<1>5. CASE VisitFinalize(t)
  <2>1. ready' \in Seq(Tables) /\ waiting' \in Seq(Tables)
    BY <1>5, BackToReadyType DEF VisitFinalize
  <2> QED
    BY <1>5, <2>1, SchedulerAssumption DEF VisitFinalize
<1>6. CASE VisitCdc(t)
  <2>1. Cdc \in Tids
    BY SchedulerAssumption DEF Cdc, Tids
  <2> HIDE DEF SchedInv, TypeOK
  <2>2. TypeOK
    BY DEF SchedInv
  <2>3. /\ slot' \in [Slots -> Future \cup {NoFuture}]
        /\ running' \in [Tables -> SUBSET Tids]
        /\ poolBroken' \in BOOLEAN
    BY <1>6, <2>1, <2>2, SubmitType DEF VisitCdc
  <2> QED
    BY <1>6, <2>2, <2>3 DEF VisitCdc, TypeOK
<1>7. CASE VisitFails(t)
  BY <1>7, SchedulerAssumption DEF VisitFails, Failing, Event, AfterFailure
<1> QED
  BY <1>1, <1>2, <1>3, <1>4, <1>5, <1>6, <1>7 DEF Visit

LEMMA TypeLoop ==
    ASSUME SchedInv, BeginPass \/ EndPass \/ Wait \/ EndCollect
    PROVE  TypeOK'
<1> USE DEF SchedInv, TypeOK, tableVars, poolVars, loopVars
<1>1. CASE BeginPass
  <2>1. Pass \subseteq tracked
    BY DEF Pass
  <2> QED
    BY <1>1, <2>1 DEF BeginPass
<1>2. CASE EndPass
  BY <1>2 DEF EndPass
<1>3. CASE Wait
  BY <1>3 DEF Wait, Taken
<1>4. CASE EndCollect
  <2>1. slot' \in [Slots -> Future \cup {NoFuture}]
    BY <1>4, SlotTaken, FutureCurrent DEF EndCollect, SlotsAfterRebuild, Taken
  <2> QED
    BY <1>4, <2>1 DEF EndCollect
<1> QED
  BY <1>1, <1>2, <1>3, <1>4

LEMMA TypeResult ==
    ASSUME SchedInv, NEW s \in Slots, Result(s)
    PROVE  TypeOK'
<1> USE DEF SchedInv, TypeOK
<1>1. Popped(s) /\ slot[s].status \in Ended
  BY DEF Result, ResultOfPart, ResultOfCdc, ResultResync, ResultFailure, Popped
<1>2. slot[s] \in Future /\ slot[s].table \in Tables
  BY <1>1, SlotTaken, NoFutureFields DEF Ended
<1>3. /\ slot' \in [Slots -> Future \cup {NoFuture}]
      /\ running' \in [Tables -> SUBSET Tids]
      /\ batch' \subseteq Slots
  BY <1>1, <1>2 DEF Popped
<1>4. CASE ResultOfPart(s)
  BY <1>1, <1>2, <1>3, <1>4, SchedulerAssumption DEF ResultOfPart, Popped
<1>5. CASE ResultOfCdc(s)
  <2>1. Without(waiting, slot[s].table) \in Seq(Tables) /\ Without(ready, slot[s].table) \in Seq(Tables)
    BY WithoutType
  <2>2. Append(Without(waiting, slot[s].table), slot[s].table) \in Seq(Tables)
    BY <1>2, <2>1, AppendProperties
  <2> QED
    BY <1>1, <1>3, <1>5, <2>1, <2>2 DEF ResultOfCdc, Popped
<1>6. CASE ResultResync(s)
  BY <1>1, <1>2, <1>3, <1>6 DEF ResultResync, Popped
<1>7. CASE ResultFailure(s)
  BY <1>1, <1>2, <1>3, <1>7 DEF ResultFailure, Popped, AfterFailure
<1> QED
  BY <1>4, <1>5, <1>6, <1>7 DEF Result

LEMMA TypeNext == SchedInv /\ [Next]_vars => TypeOK'
<1> SUFFICES ASSUME SchedInv, [Next]_vars PROVE TypeOK'
  OBVIOUS
<1>1. TypeOK
  BY DEF SchedInv
<1>2. CASE Next
  BY <1>1, <1>2, TypeEnvironment, TypeRefresh, TypeVisit, TypeLoop, TypeResult
  DEF Next, Step, Refresh
<1>3. CASE UNCHANGED vars
  BY <1>1, <1>3 DEF vars, tableVars, poolVars, loopVars, TypeOK
<1> QED
  BY <1>2, <1>3

-----------------------------------------------------------------------------
(* The books of running tasks, and the snapshot cap.                       *)

Snaps == {s \in Taken : slot[s].tid # Cdc}

Books == SlotsAccounted /\ SnapshotsCapped

LEMMA SlotsFinite ==
    ASSUME NEW S, S \subseteq Slots
    PROVE  IsFiniteSet(S) /\ Cardinality(S) \in Nat
<1>1. IsFiniteSet(1..Workers)
  BY SchedulerAssumption, FS_Interval
<1> QED
  BY <1>1, FS_Subset, FS_CardinalityType DEF Slots

\* Fewer snapshot tasks stay below the cap.
LEMMA CapShrinks ==
    ASSUME SnapshotsCapped, Snaps' \subseteq Snaps
    PROVE  SnapshotsCapped'
<1>1. Snaps \subseteq Slots
  BY DEF Snaps, Taken
<1>2. IsFiniteSet(Snaps) /\ Cardinality(Snaps) \in Nat /\ Cardinality(Snaps') \in Nat
  BY <1>1, SlotsFinite
<1>3. Cardinality(Snaps') <= Cardinality(Snaps)
  BY <1>2, FS_Subset
<1> QED
  BY <1>2, <1>3, CapIsANumber DEF SnapshotsCapped, SnapshotsRunning, Snaps

\* Every slot keeps its task, whatever becomes of the task.
SameTasks == \A s \in Slots :
    /\ slot'[s].status = "free" <=> slot[s].status = "free"
    /\ slot[s].status # "free" => slot'[s].table = slot[s].table /\ slot'[s].tid = slot[s].tid

LEMMA BooksKept ==
    ASSUME SchedInv, SameTasks, running' = running, tracked \subseteq tracked'
    PROVE  Books'
<1>1. Taken' = Taken
  BY DEF SameTasks, Taken, Free
<1>2. \A s \in Taken : slot'[s].table = slot[s].table /\ slot'[s].tid = slot[s].tid
  BY DEF SameTasks, Taken, Free
<1>3. SlotsAccounted'
  <2>1. \A t \in Tables : TasksOf(t)' = TasksOf(t)
    BY <1>1, <1>2 DEF TasksOf
  <2> QED
    BY <1>1, <1>2, <2>1 DEF SchedInv, SlotsAccounted, TasksOf
<1>4. Snaps' \subseteq Snaps
  BY <1>1, <1>2 DEF Snaps
<1> QED
  BY <1>3, <1>4, CapShrinks DEF Books, SchedInv

\* A task that may be submitted: of a tracked table, not running yet, and not
\* beside a task it must not run with.
LEMMA BooksOnSubmit ==
    ASSUME SchedInv, tracked' = tracked,
           NEW t \in tracked, NEW tid \in Tids, Submit(t, tid),
           tid \notin running[t], Cdc \notin running[t],
           tid = Cdc => running[t] = {},
           tid # Cdc => SnapshotRoom(t)
    PROVE  Books'
<1> USE DEF SchedInv
<1>0. t \in Tables /\ running \in [Tables -> SUBSET Tids]
  BY DEF TypeOK
<1>1. PICK s \in Free : slot' = [r \in Slots |->
          IF r = s
          THEN [status |-> "running", table |-> t, tid |-> tid, current |-> TRUE]
          ELSE IF poolBroken /\ r \in Taken THEN [slot[r] EXCEPT !.current = FALSE]
          ELSE slot[r]]
  BY DEF Submit
<1>2. s \in Slots /\ s \notin Taken
  BY DEF Free, Taken
<1>3. /\ slot'[s].status = "running" /\ slot'[s].table = t /\ slot'[s].tid = tid
      /\ \A r \in Slots \ {s} :
            /\ slot'[r].status = "free" <=> slot[r].status = "free"
            /\ slot[r].status # "free" => slot'[r].table = slot[r].table /\ slot'[r].tid = slot[r].tid
  <2>1. \A r \in Taken : [slot[r] EXCEPT !.current = FALSE].status = slot[r].status
                      /\ [slot[r] EXCEPT !.current = FALSE].table = slot[r].table
                      /\ [slot[r] EXCEPT !.current = FALSE].tid = slot[r].tid
    BY SlotTaken DEF Future, Taken
  <2> QED
    BY <1>1, <1>2, <2>1
<1>4. Taken' = Taken \cup {s}
  BY <1>2, <1>3 DEF Taken, Free
<1>5. \A r \in Taken : r # s /\ slot'[r].table = slot[r].table /\ slot'[r].tid = slot[r].tid
  BY <1>2, <1>3 DEF Taken, Free
<1>6. running' = [running EXCEPT ![t] = @ \cup {tid}]
  BY DEF Submit
<1>7. \A u \in Tables : running'[u] = {slot'[r].tid : r \in TasksOf(u)'}
  <2> TAKE u \in Tables
  <2>1. TasksOf(u)' = TasksOf(u) \cup (IF u = t THEN {s} ELSE {})
    BY <1>3, <1>4, <1>5 DEF TasksOf
  <2>2. running[u] = {slot[r].tid : r \in TasksOf(u)}
    BY DEF SlotsAccounted
  <2>3. {slot'[r].tid : r \in TasksOf(u)'} = {slot[r].tid : r \in TasksOf(u)} \cup (IF u = t THEN {tid} ELSE {})
    BY <1>3, <1>5, <2>1 DEF TasksOf
  <2> QED
    BY <1>0, <1>6, <2>2, <2>3
<1>8. \A r \in Taken : slot[r].table = t => slot[r].tid \in running[t]
  BY <1>0 DEF SlotsAccounted, TasksOf
<1>9. \A q, r \in Taken' : q # r /\ slot'[q].table = slot'[r].table
          => slot'[q].tid # slot'[r].tid /\ Cdc \notin {slot'[q].tid, slot'[r].tid}
  <2>1. \A r \in Taken : slot'[r].table = t => slot'[r].tid # tid /\ Cdc \notin {slot'[r].tid, tid}
    BY <1>5, <1>8
  <2> QED
    BY <1>3, <1>4, <1>5, <2>1 DEF SlotsAccounted
<1>10. SlotsAccounted'
  BY <1>3, <1>4, <1>5, <1>7, <1>9 DEF SlotsAccounted
<1>11. SnapshotsCapped'
  <2>1. CASE tid = Cdc
    <3>1. Snaps' \subseteq Snaps
      BY <1>3, <1>4, <1>5, <2>1 DEF Snaps
    <3> QED
      BY <3>1, CapShrinks
  <2>2. CASE tid # Cdc
    <3>1. Snaps' = Snaps \cup {s}
      BY <1>3, <1>4, <1>5, <2>2 DEF Snaps
    <3>2. IsFiniteSet(Snaps) /\ Cardinality(Snaps) \in Nat
      BY SlotsFinite DEF Snaps, Taken
    <3>3. Cardinality(Snaps') <= Cardinality(Snaps) + 1
      <4> DEFINE S == Snaps
      <4>1. IsFiniteSet(S) /\ Cardinality(S) \in Nat
        BY <3>2
      <4> HIDE DEF S
      <4>2. Cardinality(S \cup {s}) = IF s \in S THEN Cardinality(S) ELSE Cardinality(S) + 1
        BY <4>1, FS_AddElement
      <4>3. Cardinality(S \cup {s}) <= Cardinality(S) + 1
        BY <4>1, <4>2
      <4> QED
        BY <3>1, <4>3 DEF S
    <3>4. Cardinality(Snaps) < Cap
      BY <2>2 DEF SnapshotRoom, SnapshotsRunning, Snaps
    <3>5. Cardinality(Snaps') \in Nat
      BY <3>1, <1>2, SlotsFinite DEF Snaps, Taken
    <3> QED
      BY <3>2, <3>3, <3>4, <3>5, CapIsANumber DEF SnapshotsCapped, SnapshotsRunning, Snaps
  <2> QED
    BY <2>1, <2>2
<1> QED
  BY <1>10, <1>11 DEF Books

\* A future popped leaves its slot and the running set together.
LEMMA BooksOnPop ==
    ASSUME SchedInv, NEW s \in Slots, Popped(s)
    PROVE  Books'
<1> USE DEF SchedInv
<1>1. s \in Taken /\ slot[s].table \in Tables
  BY SlotTaken, NoFutureFields DEF Popped, Ended
<1>2. /\ slot' = [slot EXCEPT ![s] = NoFuture] /\ tracked' = tracked
      /\ running' = [running EXCEPT ![slot[s].table] = @ \ {slot[s].tid}]
  BY DEF Popped
<1>3. slot \in [Slots -> Future \cup {NoFuture}] /\ running \in [Tables -> SUBSET Tids]
  BY DEF TypeOK
<1>4. Taken' = Taken \ {s}
  BY <1>1, <1>2, <1>3, NoFutureFields DEF Taken, Free
<1>5. \A r \in Taken' : slot'[r] = slot[r]
  BY <1>2, <1>3, <1>4 DEF Taken
<1>6. \A u \in Tables : running'[u] = {slot'[r].tid : r \in TasksOf(u)'}
  <2> TAKE u \in Tables
  <2>1. TasksOf(u)' = TasksOf(u) \ {s}
    BY <1>4, <1>5 DEF TasksOf
  <2>2. {slot'[r].tid : r \in TasksOf(u)'} = {slot[r].tid : r \in TasksOf(u) \ {s}}
    BY <1>4, <1>5, <2>1 DEF TasksOf
  <2>3. running[u] = {slot[r].tid : r \in TasksOf(u)}
    BY DEF SlotsAccounted
  <2>4. CASE u = slot[s].table
    <3>1. s \in TasksOf(u) /\ \A r \in TasksOf(u) \ {s} : slot[r].tid # slot[s].tid
      BY <1>1, <2>4 DEF SlotsAccounted, TasksOf
    <3> QED
      BY <1>2, <1>3, <2>2, <2>3, <2>4, <3>1
  <2>5. CASE u # slot[s].table
    <3>1. TasksOf(u) \ {s} = TasksOf(u)
      BY <2>5 DEF TasksOf
    <3> QED
      BY <1>2, <1>3, <2>2, <2>3, <2>5, <3>1
  <2> QED
    BY <2>4, <2>5
<1>7. SlotsAccounted'
  BY <1>2, <1>4, <1>5, <1>6 DEF SlotsAccounted
<1>8. Snaps' \subseteq Snaps
  BY <1>4, <1>5 DEF Snaps
<1> QED
  BY <1>7, <1>8, CapShrinks DEF Books

\* A table is tracked with nothing of it running, and untracked so.
LEMMA BooksOnRefresh ==
    ASSUME SchedInv, NEW t \in Tables, Track(t) \/ Untrack(t)
    PROVE  Books'
<1> USE DEF SchedInv
<1>1. slot' = slot /\ running \in [Tables -> SUBSET Tids]
  BY DEF Track, Untrack, poolVars, TypeOK
<1>2. SameTasks
  BY <1>1 DEF SameTasks
<1>3. CASE Track(t)
  <2>1. TasksOf(t) = {}
    BY <1>3 DEF Track, SlotsAccounted, TasksOf
  <2>2. running[t] = {}
    BY <2>1 DEF SlotsAccounted
  <2>3. running' = running
    BY <1>1, <1>3, <2>2 DEF Track
  <2> QED
    BY <1>2, <1>3, <2>3, BooksKept DEF Track
<1>4. CASE Untrack(t)
  <2>1. TasksOf(t) = {}
    BY <1>4 DEF Untrack, MayUntrack, SlotsAccounted
  <2>2. Taken' = Taken /\ running' = running /\ tracked' = tracked \ {t}
    BY <1>1, <1>4 DEF Taken, Free, Untrack
  <2>3. SlotsAccounted'
    BY <1>1, <2>1, <2>2 DEF SlotsAccounted, TasksOf
  <2>4. Snaps' \subseteq Snaps
    BY <1>1, <2>2 DEF Snaps
  <2> QED
    BY <2>3, <2>4, CapShrinks DEF Books
<1> QED
  BY <1>3, <1>4

LEMMA BooksNext == SchedInv /\ [Next]_vars => Books'
<1> SUFFICES ASSUME SchedInv, [Next]_vars PROVE Books'
  OBVIOUS
<1>0. TypeOK
  BY DEF SchedInv
<1> DEFINE Quiet == slot' = slot /\ running' = running /\ tracked' = tracked
<1>1. Quiet => Books'
  <2>1. Quiet => SameTasks
    BY DEF SameTasks
  <2> QED
    BY <2>1, BooksKept
<1> USE DEF tableVars, poolVars, loopVars
<1>2. CASE FallsDue
  BY <1>1, <1>2 DEF FallsDue
<1>3. CASE PoolBreaks
  <2>1. SameTasks
    BY <1>0, <1>3, SlotTaken DEF PoolBreaks, SameTasks, Future
  <2> QED
    BY <1>3, <2>1, BooksKept DEF PoolBreaks
<1>4. ASSUME NEW t \in Tables, Reconfigure(t) \/ BackoffEnds(t) \/ Request(t)
      PROVE  Books'
  BY <1>1, <1>4 DEF Reconfigure, BackoffEnds, Request
<1>5. ASSUME NEW s \in Slots, TaskEnds(s) \/ FutureBreaks(s)
      PROVE  Books'
  <2>1. PICK x \in Ended : slot[s].status \in {"running", "lost"} /\ Becomes(s, x)
    BY <1>5 DEF TaskEnds, TaskSucceeds, TaskFails, TaskExpires, FutureBreaks, Ended
  <2>2. slot[s] \in Future /\ slot \in [Slots -> Future \cup {NoFuture}]
    BY <1>0, <2>1, SlotTaken DEF TypeOK
  <2>3. x # "free"
    BY DEF Ended
  <2>4. SameTasks
    BY <2>1, <2>2, <2>3 DEF Becomes, SameTasks, Future
  <2> QED
    BY <2>1, <2>4, BooksKept DEF Becomes
<1>6. ASSUME NEW t \in Tables, Track(t) \/ Untrack(t) PROVE Books'
  BY <1>6, BooksOnRefresh
<1>7. CASE BeginPass \/ EndPass \/ Wait
  BY <1>1, <1>7 DEF BeginPass, EndPass, Wait
<1>8. CASE EndCollect
  <2>1. SameTasks
    <3>1. \A s \in Slots : s \notin Free => slot[s] \in Future /\ slot[s].status # "free"
      BY <1>0, SlotTaken DEF Free
    <3>2. slot' \in {slot, SlotsAfterRebuild}
      BY <1>8 DEF EndCollect
    <3> QED
      BY <3>1, <3>2 DEF SlotsAfterRebuild, SameTasks, Future
  <2> QED
    BY <1>8, <2>1, BooksKept DEF EndCollect
<1>9. ASSUME NEW t \in Tables, Visit(t) PROVE Books'
  <2>1. t \in tracked /\ running \in [Tables -> SUBSET Tids]
    BY <1>9 DEF Visit, VisitIdle, VisitPlan, VisitSubmit, VisitSnapshotEnd,
                VisitFinalize, VisitCdc, VisitFails, At, SchedInv, TypeOK
  <2>2. CASE VisitSubmit(t)
    <3>1. PICK p \in Open(t) : Submit(t, p)
      BY <2>2 DEF VisitSubmit
    <3>2. p \in Tids /\ p # Cdc /\ p \notin running[t]
      BY <1>0, <2>1, <3>1, SchedulerAssumption DEF Open, Tids, Cdc, TypeOK
    <3>3. Cdc \notin running[t] /\ SnapshotRoom(t) /\ tracked' = tracked
      BY <2>2 DEF VisitSubmit, SchedInv
    <3> QED
      BY <2>1, <3>1, <3>2, <3>3, BooksOnSubmit
  <2>3. CASE VisitCdc(t)
    <3>1. Cdc \in Tids
      BY SchedulerAssumption DEF Cdc, Tids
    <3> QED
      BY <2>1, <2>3, <3>1, BooksOnSubmit DEF VisitCdc
  <2>4. CASE VisitIdle(t) \/ VisitPlan(t) \/ VisitSnapshotEnd(t) \/ VisitFinalize(t) \/ VisitFails(t)
    BY <1>1, <2>4 DEF VisitIdle, VisitPlan, VisitSnapshotEnd, VisitFinalize, VisitFails
  <2> QED
    BY <1>9, <2>2, <2>3, <2>4 DEF Visit
<1>10. ASSUME NEW s \in Slots, Result(s) PROVE Books'
  BY <1>10, BooksOnPop DEF Result, ResultOfPart, ResultOfCdc, ResultResync, ResultFailure
<1>11. CASE UNCHANGED vars
  BY <1>1, <1>11 DEF vars
<1> QED
  BY <1>2, <1>3, <1>4, <1>5, <1>6, <1>7, <1>8, <1>9, <1>10, <1>11 DEF Next, Step, Refresh

-----------------------------------------------------------------------------
(* The rest of the invariant.                                              *)

SnapshotsAlone == \A t \in Tables : phase[t] = "snapshot" => Cdc \notin running[t]

LEMMA AloneNext == SchedInv /\ [Next]_vars => SnapshotsAlone'
<1> SUFFICES ASSUME SchedInv, [Next]_vars PROVE SnapshotsAlone'
  OBVIOUS
<1>0. /\ TypeOK /\ SnapshotsAlone
      /\ phase \in [Tables -> {"plan", "snapshot", "cdc"}] /\ running \in [Tables -> SUBSET Tids]
  BY DEF SchedInv, TypeOK, SnapshotsAlone
<1> USE <1>0 DEF SnapshotsAlone, tableVars, poolVars, loopVars
<1>1. CASE FallsDue \/ PoolBreaks \/ BeginPass \/ EndPass \/ Wait \/ EndCollect
  BY <1>1 DEF FallsDue, PoolBreaks, BeginPass, EndPass, Wait, EndCollect
<1>2. ASSUME NEW t \in Tables, Reconfigure(t) \/ BackoffEnds(t) \/ Request(t) \/ Track(t) \/ Untrack(t)
      PROVE  SnapshotsAlone'
  BY <1>2 DEF Reconfigure, BackoffEnds, Request, Track, Untrack
<1>3. ASSUME NEW s \in Slots, TaskEnds(s) \/ FutureBreaks(s)
      PROVE  SnapshotsAlone'
  BY <1>3 DEF TaskEnds, TaskSucceeds, TaskFails, TaskExpires, FutureBreaks, Becomes
<1>4. ASSUME NEW t \in Tables, Visit(t) PROVE SnapshotsAlone'
  <2>1. CASE VisitPlan(t) \/ VisitFinalize(t)
    BY <2>1 DEF VisitPlan, VisitFinalize
  <2>2. CASE VisitIdle(t) \/ VisitSnapshotEnd(t) \/ VisitFails(t)
    BY <2>2 DEF VisitIdle, VisitSnapshotEnd, VisitFails
  <2>3. CASE VisitSubmit(t)
    BY <2>3, SchedulerAssumption DEF VisitSubmit, Submit, Open, Cdc, TypeOK
  <2>4. CASE VisitCdc(t)
    BY <2>4 DEF VisitCdc, Submit
  <2> QED
    BY <1>4, <2>1, <2>2, <2>3, <2>4 DEF Visit
<1>5. ASSUME NEW s \in Slots, Result(s) PROVE SnapshotsAlone'
  <2>1. Popped(s) /\ (phase' = phase \/ phase' = [phase EXCEPT ![slot[s].table] = "plan"])
    BY <1>5 DEF Result, ResultOfPart, ResultOfCdc, ResultResync, ResultFailure
  <2> QED
    BY <2>1 DEF Popped
<1>6. CASE UNCHANGED vars
  BY <1>6 DEF vars
<1> QED
  BY <1>1, <1>2, <1>3, <1>4, <1>5, <1>6 DEF Next, Step, Refresh

LoopShape ==
    /\ visit # {} => pc = "visit"
    /\ batch # {} => pc = "result"
    /\ \A s \in batch : slot[s].status \in Ended

LEMMA ShapeNext == SchedInv /\ [Next]_vars => LoopShape'
<1> SUFFICES ASSUME SchedInv, [Next]_vars PROVE LoopShape'
  OBVIOUS
<1>0. /\ TypeOK /\ LoopShape /\ batch \subseteq Slots
      /\ slot \in [Slots -> Future \cup {NoFuture}]
  BY DEF SchedInv, TypeOK, LoopShape
<1> USE <1>0 DEF LoopShape, tableVars, poolVars, loopVars
<1>1. CASE FallsDue
  BY <1>1 DEF FallsDue
<1>2. CASE PoolBreaks
  BY <1>2 DEF PoolBreaks, Ended
<1>3. ASSUME NEW t \in Tables, Reconfigure(t) \/ BackoffEnds(t) \/ Request(t) \/ Track(t) \/ Untrack(t)
      PROVE  LoopShape'
  BY <1>3 DEF Reconfigure, BackoffEnds, Request, Track, Untrack
<1>4. ASSUME NEW s \in Slots, TaskEnds(s) \/ FutureBreaks(s)
      PROVE  LoopShape'
  <2>1. PICK x \in Ended : slot[s].status \in {"running", "lost"} /\ Becomes(s, x)
    BY <1>4 DEF TaskEnds, TaskSucceeds, TaskFails, TaskExpires, FutureBreaks, Ended
  <2>2. slot[s] \in Future
    BY <2>1, SlotTaken
  <2> QED
    BY <2>1, <2>2 DEF Becomes, Future
<1>5. CASE BeginPass \/ EndPass
  BY <1>5 DEF BeginPass, EndPass
<1>6. CASE Wait
  BY <1>6 DEF Wait
<1>7. CASE EndCollect
  BY <1>7 DEF EndCollect
<1>8. ASSUME NEW t \in Tables, Visit(t) PROVE LoopShape'
  <2>1. pc = "visit" /\ batch = {}
    BY <1>8 DEF Visit, VisitIdle, VisitPlan, VisitSubmit, VisitSnapshotEnd,
                VisitFinalize, VisitCdc, VisitFails, At
  <2>2. pc' = pc /\ batch' = batch
    BY <1>8 DEF Visit, VisitIdle, VisitPlan, VisitSubmit, VisitSnapshotEnd,
                VisitFinalize, VisitCdc, VisitFails, Leave
  <2> QED
    BY <2>1, <2>2
<1>9. ASSUME NEW s \in Slots, Result(s) PROVE LoopShape'
  <2>1. Popped(s)
    BY <1>9 DEF Result, ResultOfPart, ResultOfCdc, ResultResync, ResultFailure
  <2> QED
    BY <2>1 DEF Popped
<1>10. CASE UNCHANGED vars
  BY <1>10 DEF vars
<1> QED
  BY <1>1, <1>2, <1>3, <1>4, <1>5, <1>6, <1>7, <1>8, <1>9, <1>10 DEF Next, Step, Refresh

-----------------------------------------------------------------------------
(* The theorems.                                                           *)

LEMMA SchedInvariant == Spec => []SchedInv
<1>1. SchedInv /\ [Next]_vars => SchedInv'
  BY TypeNext, BooksNext, AloneNext, ShapeNext DEF SchedInv, Books, SnapshotsAlone, LoopShape
<1> QED
  BY SchedInit, <1>1, PTL DEF Spec

\* Every variable of the scheduler keeps its type, for any tables, workers,
\* parts and disturbances.
THEOREM SchedulerTypeCorrect == Spec => []TypeOK
<1>1. SchedInv => TypeOK
  BY DEF SchedInv
<1> QED
  BY SchedInvariant, <1>1, PTL

\* rt.running and self.futures never disagree, no task runs twice, CDC runs
\* alone, and no table is dropped under its tasks, however often the pool
\* breaks and the set of tables changes.
THEOREM BooksAgree == Spec => []SlotsAccounted
<1>1. SchedInv => SlotsAccounted
  BY DEF SchedInv
<1> QED
  BY SchedInvariant, <1>1, PTL

\* Initial loads of all tables together never take more slots than the cap.
THEOREM CapHolds == Spec => []SnapshotsCapped
<1>1. SchedInv => SnapshotsCapped
  BY DEF SchedInv
<1> QED
  BY SchedInvariant, <1>1, PTL

\* "Cap on workers used for initial loads so CDC always has capacity": with the
\* default cap and more than one worker some slot is never an initial load's.
THEOREM CdcKeepsASlot ==
    ASSUME MaxSnapshotWorkers = {}, Workers > 1
    PROVE  Spec => [](SnapshotsRunning < Workers)
<1>1. SchedInv => SnapshotsRunning < Workers
  <2> SUFFICES ASSUME SchedInv PROVE SnapshotsRunning < Workers
    OBVIOUS
  <2>1. SnapshotsRunning <= Cap
    BY DEF SchedInv, SnapshotsCapped
  <2>2. SnapshotsRunning \in Nat
    BY SlotsFinite DEF SnapshotsRunning, Taken
  <2> QED
    BY <2>1, <2>2, DefaultCap, CapIsANumber, SchedulerAssumption
<1> QED
  BY SchedInvariant, <1>1, PTL
=============================================================================
