----------------------------- MODULE Scheduler -----------------------------
(***************************************************************************)
(* Many tables on one worker pool: Supervisor.step() refreshes the set of  *)
(* tables, visits the tables in order of their next_run while slots are    *)
(* free, collects what finished and starts over.  What a task does to      *)
(* ClickHouse is TableSync's; here a task takes a slot, ends one way or    *)
(* another, and its result changes what the table needs next.              *)
(*                                                                         *)
(* Time is not counted.  A table is due or waiting, and failed tables are  *)
(* blocked until their backoff ends; a backoff (two seconds or more)       *)
(* outlives the next pass (every half second).                             *)
(***************************************************************************)
EXTENDS Integers, Sequences, FiniteSets

CONSTANTS
    Tables,       \* tables this shard may own
    Sick,         \* tables whose work may fail again and again
    Workers,      \* sync.workers
    MaxSnapshotWorkers, \* sync.max_snapshot_workers, empty for None
    MaxParts,     \* sync.snapshot_partitions
    MaxEvents     \* bound on broken pools, failures of healthy tables, resyncs
                  \* and changes of the set of tables, taken together

ASSUME SchedulerAssumption ==
    /\ IsFiniteSet(Tables) /\ Sick \subseteq Tables
    /\ Workers \in Nat \ {0}
    /\ MaxSnapshotWorkers \subseteq Int /\ Cardinality(MaxSnapshotWorkers) <= 1
    /\ MaxParts \in Nat \ {0}
    /\ MaxEvents \in Nat

VARIABLES
    desired,    \* the tables configuration and discovery name
    tracked,    \* self.tables
    phase,      \* "plan" (new or resync), "snapshot" or "cdc"
    parts,      \* number of parts of the table's snapshot
    done,       \* the parts rt.progress holds as done
    running,    \* rt.running
    blocked,    \* blocked_until lies ahead
    ready,      \* tracked tables with next_run <= now, in that order
    waiting,    \* the others, in order of next_run
    slot,       \* self.futures: at most one per worker
    poolBroken, \* a process of the current pool died
    pc,         \* where step() is
    visit,      \* the tables left in the pass of _schedule
    batch,      \* what is left of the futures wait() returned
    sawBroken,  \* one of them raised BrokenProcessPool
    events      \* broken pools, failures, resyncs and changes so far

tableVars == <<tracked, phase, parts, done, running, blocked, ready, waiting>>
poolVars == <<slot, poolBroken>>
loopVars == <<pc, visit, batch, sawBroken>>
vars == <<desired, tableVars, poolVars, loopVars, events>>

Slots == 1..Workers

Larger(a, b) == IF a > b THEN a ELSE b
Smaller(a, b) == IF a < b THEN a ELSE b

\* max_snapshot_workers, half of the workers if the configuration has none.
SnapshotWorkers ==
    IF MaxSnapshotWorkers = {} THEN Larger(1, Workers \div 2)
    ELSE CHOOSE n \in MaxSnapshotWorkers : TRUE

\* snapshot_worker_cap
Cap == Larger(1, Smaller(Workers, SnapshotWorkers))

\* A task id: a part of the snapshot, or Cdc.
Cdc == 0
Tids == 0..MaxParts

\* status: the task runs, is lost with its pool, or has ended some way.
Ended == {"ok", "resync", "error", "broken"}
NoFuture == [status |-> "free"]
Future == [status : {"running", "lost"} \cup Ended, table : Tables,
           tid : Tids, current : BOOLEAN]

Free == {s \in Slots : slot[s].status = "free"}
Taken == Slots \ Free
TasksOf(t) == {s \in Taken : slot[s].table = t}
SnapshotsRunning == Cardinality({s \in Taken : slot[s].tid # Cdc})

\* A mutated form: each table counts its own snapshot tasks only.
SnapshotRoomPerTable(t) == Cardinality({s \in TasksOf(t) : slot[s].tid # Cdc}) < Cap

\* Snapshots of all tables together stay below the cap.
SnapshotRoom(t) == SnapshotsRunning < Cap

\* A run may begin with part of its disturbances used up.
Init ==
    /\ desired \in SUBSET Tables /\ tracked = desired
    /\ phase \in [Tables -> {"plan", "cdc"}]
    /\ parts = [t \in Tables |-> 0]
    /\ done = [t \in Tables |-> {}]
    /\ running = [t \in Tables |-> {}]
    /\ blocked = [t \in Tables |-> FALSE]
    /\ ready \in {q \in [1..Cardinality(desired) -> desired] :
                     \A i, j \in DOMAIN q : q[i] = q[j] => i = j}
    /\ waiting = <<>>
    /\ slot = [s \in Slots |-> NoFuture] /\ poolBroken = FALSE
    /\ pc = "idle" /\ visit = {} /\ batch = {} /\ sawBroken = FALSE
    /\ events \in 0..MaxEvents

\* Queue q, which holds no table twice, without table t.
Without(q, t) ==
    LET i == CHOOSE i \in DOMAIN q : q[i] = t IN
    IF t \in {q[j] : j \in DOMAIN q}
    THEN SubSeq(q, 1, i - 1) \o SubSeq(q, i + 1, Len(q)) ELSE q

\* A table whose next_run is 0 again sorts before every table that was polled;
\* its place among the due ones is left open.
BackToReady(t) ==
    /\ waiting' = Without(waiting, t)
    /\ LET q == Without(ready, t) IN
       \E i \in 0..Len(q) :
          ready' = SubSeq(q, 1, i) \o <<t>> \o SubSeq(q, i + 1, Len(q))

-----------------------------------------------------------------------------
(* The environment.                                                        *)

Event == events < MaxEvents /\ events' = events + 1

\* Change Tracking is enabled or disabled for a table, or the configuration
\* changes, and discovery will find the other set.
Reconfigure(t) ==
    /\ Event
    /\ desired' = IF t \in desired THEN desired \ {t} ELSE desired \cup {t}
    /\ UNCHANGED <<tableVars, poolVars, loopVars>>

\* now passes the next_run of the first waiting table.
FallsDue ==
    /\ waiting # <<>>
    /\ ready' = Append(ready, Head(waiting))
    /\ waiting' = Tail(waiting)
    /\ UNCHANGED <<desired, tracked, phase, parts, done, running, blocked,
                   poolVars, loopVars, events>>

\* now passes blocked_until, once a pass has skipped the table.
BackoffEnds(t) ==
    /\ pc = "visit"
    /\ blocked[t]
    /\ blocked' = [blocked EXCEPT ![t] = FALSE]
    /\ UNCHANGED <<desired, tracked, phase, parts, done, running, ready,
                   waiting, poolVars, loopVars, events>>

Becomes(s, status) ==
    /\ slot' = [slot EXCEPT ![s].status = status]
    /\ UNCHANGED <<desired, tableVars, poolBroken, loopVars>>

\* What may go wrong for table t: anything if it is sick, few things if not.
Failing(t) ==
    IF t \in Sick THEN UNCHANGED events
    ELSE Event

\* The worker's task ends: as it should, with an exception, or with a
\* checkpoint that Change Tracking no longer covers.
TaskSucceeds(s) ==
    /\ slot[s].status = "running"
    /\ Becomes(s, "ok")
    /\ UNCHANGED events

TaskFails(s) ==
    /\ slot[s].status = "running"
    /\ Failing(slot[s].table)
    /\ Becomes(s, "error")

TaskExpires(s) ==
    /\ slot[s].status = "running" /\ slot[s].tid = Cdc
    /\ Event
    /\ Becomes(s, "resync")

\* A worker process dies: the pool is broken, all its tasks are lost and their
\* futures fail one after the other.
PoolBreaks ==
    /\ ~poolBroken
    /\ \E s \in Taken : slot[s].status = "running" /\ slot[s].current
    /\ Event
    /\ poolBroken' = TRUE
    /\ slot' = [s \in Slots |->
          IF slot[s].status = "running" /\ slot[s].current
          THEN [slot[s] EXCEPT !.status = "lost"] ELSE slot[s]]
    /\ UNCHANGED <<desired, tableVars, loopVars>>

FutureBreaks(s) ==
    /\ slot[s].status = "lost"
    /\ Becomes(s, "broken")
    /\ UNCHANGED events

-----------------------------------------------------------------------------
(* step(): refresh, requests, schedule, collect.                           *)

\* A mutated form: a table is dropped although tasks of it still run.
MayForget(t) == t \notin desired

\* A table is only dropped when nothing of it runs.
MayUntrack(t) == t \notin desired /\ running[t] = {}

\* _refresh_tables, one table.  A table that returns has the state that was
\* flushed when it left, and a runtime of its own.
Track(t) ==
    /\ pc = "idle"
    /\ t \in desired \ tracked
    /\ tracked' = tracked \cup {t}
    /\ running' = [running EXCEPT ![t] = {}]
    /\ blocked' = [blocked EXCEPT ![t] = FALSE]
    /\ BackToReady(t)
    /\ UNCHANGED <<desired, phase, parts, done, poolVars, loopVars, events>>

Untrack(t) ==
    /\ pc = "idle"
    /\ t \in tracked
    /\ MayUntrack(t)
    /\ tracked' = tracked \ {t}
    /\ ready' = Without(ready, t) /\ waiting' = Without(waiting, t)
    /\ UNCHANGED <<desired, phase, parts, done, running, blocked, poolVars,
                   loopVars, events>>

\* _check_requests: a newer resync request for a tracked table.
Request(t) ==
    /\ pc = "idle"
    /\ t \in tracked
    /\ Event
    /\ phase' = [phase EXCEPT ![t] = "plan"]
    /\ blocked' = [blocked EXCEPT ![t] = FALSE]
    /\ UNCHANGED <<desired, tracked, parts, done, running, ready, waiting,
                   poolVars, loopVars>>

\* The tables a pass has something to do for: not blocked, and a table in CDC
\* only when due.
Pass == {t \in tracked : ~blocked[t] /\ (phase[t] = "cdc" => \E i \in DOMAIN ready : ready[i] = t)}

BeginPass ==
    /\ pc = "idle"
    /\ pc' = "visit"
    /\ visit' = Pass
    /\ UNCHANGED <<desired, tableVars, poolVars, batch, sawBroken, events>>

\* No table left to visit, or no slot left.
EndPass ==
    /\ pc = "visit"
    /\ visit = {} \/ Free = {}
    /\ pc' = "collect"
    /\ visit' = {}
    /\ UNCHANGED <<desired, tableVars, poolVars, batch, sawBroken, events>>

\* A mutated form: the pass keeps the order the tables were configured in.
BeforeByName(t, u) ==
    LET order == CHOOSE q \in [1..Cardinality(Tables) -> Tables] :
                    \A v \in Tables : \E i \in DOMAIN q : q[i] = v IN
    \E j \in DOMAIN order : \E i \in 1..j - 1 : order[i] = t /\ order[j] = u

\* The pass is sorted by next_run.
Before(t, u) ==
    LET order == ready \o waiting IN
    \E j \in DOMAIN order : \E i \in 1..j - 1 : order[i] = t /\ order[j] = u

\* The pass is at table t and a slot is free.
At(t) ==
    /\ pc = "visit" /\ Free # {}
    /\ t \in visit
    /\ \A u \in visit \ {t} : Before(t, u)

Leave(t) == visit' = visit \ {t} /\ UNCHANGED <<pc, batch, sawBroken>>

\* A mutated form: a failed table is tried again at the next pass.
AfterFailureAtOnce(t) == UNCHANGED blocked

\* _fail: the table waits.  next_run stays, so it is still first in line.
AfterFailure(t) == blocked' = [blocked EXCEPT ![t] = TRUE]

\* _schedule_table in a phase with nothing to start.
VisitIdle(t) ==
    /\ At(t)
    /\ phase[t] \in {"plan", "cdc"} /\ running[t] # {}
    /\ Leave(t)
    /\ UNCHANGED <<desired, tableVars, poolVars, events>>

VisitPlan(t) ==
    /\ At(t)
    /\ phase[t] = "plan" /\ running[t] = {}
    /\ \E n \in 1..MaxParts : parts' = [parts EXCEPT ![t] = n]
    /\ phase' = [phase EXCEPT ![t] = "snapshot"]
    /\ done' = [done EXCEPT ![t] = {}]
    /\ Leave(t)
    /\ UNCHANGED <<desired, tracked, running, blocked, ready, waiting,
                   poolVars, events>>

\* _submit: into the first free slot; a broken pool is replaced first.
Submit(t, tid) ==
    /\ \E s \in Free :
          /\ \A r \in Free : s <= r
          /\ slot' = [r \in Slots |->
                IF r = s
                THEN [status |-> "running", table |-> t, tid |-> tid, current |-> TRUE]
                ELSE IF poolBroken /\ r \in Taken THEN [slot[r] EXCEPT !.current = FALSE]
                ELSE slot[r]]
    /\ poolBroken' = FALSE
    /\ running' = [running EXCEPT ![t] = @ \cup {tid}]

\* A mutated form: the parts are counted from 0 and from 1.
OpenOneTooMany(t) == 1..(parts[t] + 1) \ (done[t] \cup running[t])

\* The parts of t that are neither done nor running.
Open(t) == 1..parts[t] \ (done[t] \cup running[t])

\* One turn of the loop over the parts: the next one that can start.
VisitSubmit(t) ==
    /\ At(t)
    /\ phase[t] = "snapshot" /\ SnapshotRoom(t)
    /\ \E p \in Open(t) : (\A q \in Open(t) : p <= q) /\ Submit(t, p)
    /\ UNCHANGED <<desired, tracked, phase, parts, done, blocked, ready,
                   waiting, loopVars, events>>

\* After the loop: everything is loaded, and nothing of the table runs.
Loaded(t) == running[t] = {} /\ 1..parts[t] \subseteq done[t]

VisitSnapshotEnd(t) ==
    /\ At(t)
    /\ phase[t] = "snapshot" /\ ~Loaded(t)
    /\ Open(t) = {} \/ ~SnapshotRoom(t)
    /\ Leave(t)
    /\ UNCHANGED <<desired, tableVars, poolVars, events>>

VisitFinalize(t) ==
    /\ At(t)
    /\ phase[t] = "snapshot" /\ Loaded(t)
    /\ phase' = [phase EXCEPT ![t] = "cdc"]
    /\ parts' = [parts EXCEPT ![t] = 0]
    /\ done' = [done EXCEPT ![t] = {}]
    /\ BackToReady(t)
    /\ Leave(t)
    /\ UNCHANGED <<desired, tracked, running, blocked, poolVars, events>>

VisitCdc(t) ==
    /\ At(t)
    /\ phase[t] = "cdc" /\ running[t] = {}
    /\ Submit(t, Cdc)
    /\ Leave(t)
    /\ UNCHANGED <<desired, tracked, phase, parts, done, blocked, ready,
                   waiting, events>>

\* _plan_snapshot or _finalize raises.
VisitFails(t) ==
    /\ At(t)
    /\ running[t] = {}
    /\ phase[t] = "plan" \/ (phase[t] = "snapshot" /\ Loaded(t))
    /\ Failing(t)
    /\ AfterFailure(t)
    /\ Leave(t)
    /\ UNCHANGED <<desired, tracked, phase, parts, done, running, ready,
                   waiting, poolVars>>

\* wait(): the futures finished by now, or none within the timeout.
Wait ==
    /\ pc = "collect"
    /\ batch' = {s \in Taken : slot[s].status \in Ended}
    /\ pc' = "result"
    /\ UNCHANGED <<desired, tableVars, poolVars, visit, sawBroken, events>>

\* The future is popped and its table's running set forgets the task.
Popped(s) ==
    /\ pc = "result" /\ s \in batch
    /\ batch' = batch \ {s}
    /\ slot' = [slot EXCEPT ![s] = NoFuture]
    /\ running' = [running EXCEPT ![slot[s].table] = @ \ {slot[s].tid}]
    /\ UNCHANGED <<desired, tracked, parts, poolBroken, pc, visit, events>>

\* _on_result of a part; a snapshot given up meanwhile has no use for it.
ResultOfPart(s) ==
    LET t == slot[s].table IN
    /\ Popped(s)
    /\ slot[s].status = "ok" /\ slot[s].tid # Cdc
    /\ done' = [done EXCEPT ![t] = @ \cup ({slot[s].tid} \cap 1..parts[t])]
    /\ UNCHANGED <<phase, blocked, ready, waiting, sawBroken>>

\* _on_result of a CDC tick: the next one is due after the poll interval.
ResultOfCdc(s) ==
    LET t == slot[s].table IN
    /\ Popped(s)
    /\ slot[s].status = "ok" /\ slot[s].tid = Cdc
    /\ ready' = Without(ready, t)
    /\ waiting' = Append(Without(waiting, t), t)
    /\ UNCHANGED <<phase, done, blocked, sawBroken>>

ResultResync(s) ==
    /\ Popped(s)
    /\ slot[s].status = "resync"
    /\ phase' = [phase EXCEPT ![slot[s].table] = "plan"]
    /\ UNCHANGED <<done, blocked, ready, waiting, sawBroken>>

ResultFailure(s) ==
    /\ Popped(s)
    /\ slot[s].status \in {"error", "broken"}
    /\ AfterFailure(slot[s].table)
    /\ sawBroken' = (sawBroken \/ slot[s].status = "broken")
    /\ UNCHANGED <<phase, done, ready, waiting>>

\* Tasks of a pool given up go on and their futures stay.
SlotsAfterRebuild ==
    [s \in Slots |-> IF s \in Free THEN slot[s] ELSE [slot[s] EXCEPT !.current = FALSE]]

\* The end of _collect: a broken pool is replaced, the current one even if
\* _submit has replaced it already.
EndCollect ==
    /\ pc = "result" /\ batch = {}
    /\ pc' = "idle"
    /\ sawBroken' = FALSE
    /\ IF sawBroken
       THEN slot' = SlotsAfterRebuild /\ poolBroken' = FALSE
       ELSE UNCHANGED poolVars
    /\ UNCHANGED <<desired, tableVars, visit, batch, events>>

-----------------------------------------------------------------------------

Visit(t) ==
    \/ VisitIdle(t) \/ VisitPlan(t) \/ VisitSubmit(t) \/ VisitSnapshotEnd(t)
    \/ VisitFinalize(t) \/ VisitCdc(t) \/ VisitFails(t)

Result(s) == ResultOfPart(s) \/ ResultOfCdc(s) \/ ResultResync(s) \/ ResultFailure(s)

Step ==
    \/ BeginPass \/ EndPass \/ Wait \/ EndCollect
    \/ \E t \in Tables : Visit(t)
    \/ \E s \in Slots : Result(s)

Refresh == \E t \in Tables : Track(t) \/ Untrack(t)

TaskEnds(s) == TaskSucceeds(s) \/ TaskFails(s) \/ TaskExpires(s)

CdcTaskEnds(s) == slot[s].status = "running" /\ slot[s].tid = Cdc /\ TaskEnds(s)

Next ==
    \/ Step \/ Refresh \/ FallsDue \/ PoolBreaks
    \/ \E t \in Tables : Reconfigure(t) \/ BackoffEnds(t) \/ Request(t)
    \/ \E s \in Slots : TaskEnds(s) \/ FutureBreaks(s)

Spec == Init /\ [][Next]_vars

\* The supervisor's loop goes on, time passes, a CDC task ends and the futures
\* of a broken pool fail.  A snapshot task may take for ever.
Fairness ==
    /\ WF_vars(Step) /\ WF_vars(FallsDue)
    /\ \A t \in Tables : SF_vars(BackoffEnds(t))
    /\ \A s \in Slots : WF_vars(FutureBreaks(s)) /\ WF_vars(CdcTaskEnds(s))

FairSpec == Spec /\ Fairness

-----------------------------------------------------------------------------
(* Properties.                                                             *)

\* Every variable has its type; a pass or a batch is only there while step()
\* is at it.
TypeOK ==
    /\ desired \subseteq Tables /\ tracked \subseteq Tables
    /\ phase \in [Tables -> {"plan", "snapshot", "cdc"}]
    /\ parts \in [Tables -> 0..MaxParts]
    /\ done \in [Tables -> SUBSET (1..MaxParts)]
    /\ running \in [Tables -> SUBSET Tids]
    /\ blocked \in [Tables -> BOOLEAN]
    /\ ready \in Seq(Tables) /\ waiting \in Seq(Tables)
    /\ slot \in [Slots -> Future \cup {NoFuture}]
    /\ poolBroken \in BOOLEAN /\ sawBroken \in BOOLEAN
    /\ pc \in {"idle", "visit", "collect", "result"}
    /\ visit \subseteq tracked
    /\ batch \subseteq Slots
    /\ events \in 0..MaxEvents

\* The books agree: what a table believes to be running is exactly what the
\* supervisor holds futures of, each task once, across broken and replaced
\* pools and tables that leave and return; and CDC of a table runs alone.
SlotsAccounted ==
    /\ \A t \in Tables : running[t] = {slot[s].tid : s \in TasksOf(t)}
    /\ \A r, s \in Taken : r # s /\ slot[r].table = slot[s].table
          => slot[r].tid # slot[s].tid /\ Cdc \notin {slot[r].tid, slot[s].tid}
    /\ \A s \in Taken : slot[s].table \in tracked

\* "Cap on workers used for initial loads so CDC always has capacity": however
\* many tables load at once, the other slots are left to CDC.
SnapshotsCapped == SnapshotsRunning <= Cap

\* What else has to hold for SlotsAccounted and SnapshotsCapped to be inductive:
\* a snapshot never loads beside CDC, and step() touches tables and futures only
\* where its loop variables allow.
SchedInv ==
    /\ TypeOK /\ SlotsAccounted /\ SnapshotsCapped
    /\ \A t \in Tables : phase[t] = "snapshot" => Cdc \notin running[t]
    /\ visit # {} => pc = "visit"
    /\ batch # {} => pc = "result"
    /\ \A s \in batch : slot[s].status \in Ended

\* A healthy table in CDC is polled again and again, whatever fails elsewhere
\* and even if snapshots that hold slots never end.
HealthyPolled ==
    \A t \in Tables \ Sick :
        LET inCdc == t \in tracked /\ phase[t] = "cdc" IN
        []<>(inCdc => Cdc \in running[t]) /\ []<>(inCdc => Cdc \notin running[t])

\* If snapshot tasks end too, every healthy table that is tracked gets to CDC,
\* though a sick one is first in line for the snapshot slots all the time.
HealthyLoaded ==
    (\A s \in Slots : WF_vars(TaskEnds(s)))
        => \A t \in Tables \ Sick : []<>(t \in tracked => phase[t] = "cdc")
=============================================================================
