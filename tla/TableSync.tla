----------------------------- MODULE TableSync -----------------------------
(***************************************************************************)
(* The life of one table under ch-sync: the supervisor process (plan,      *)
(* schedule, collect, cut over, persist), its worker processes (snapshot   *)
(* partitions and CDC ticks), the ClickHouse tables they write and the     *)
(* state they keep there, against a source that commits at any moment.     *)
(*                                                                         *)
(*   new/resync --plan--> snapshot --all parts done--> finalize --> cdc    *)
(*                                                                         *)
(* The supervisor is one thread: while it is inside _plan_snapshot or      *)
(* _finalize (pc # "idle") none of its other actions can happen, but       *)
(* commits, CT cleanup, requests, workers and a crash can.                 *)
(***************************************************************************)
EXTENDS ReplacingTable, FiniteSets

CONSTANTS
    MaxParts,        \* sync.snapshot_partitions
    BatchSize,       \* sync.batch_size
    Workers,         \* slots of the worker pool this table can occupy
    MaxSnapshots,    \* bound on snapshot ids ever drawn
    MaxRequests,     \* bound on resync requests
    MaxFaults,       \* bound on crashes, restarts, failed tasks and writes
    OrphansSurvive,  \* do worker processes outlive a killed supervisor?
    SavesMayFail     \* can sync_state refuse a write that others accept?

ASSUME SyncAssumption ==
    /\ MaxParts \in Nat \ {0}
    /\ BatchSize \in Nat \ {0}
    /\ MaxSnapshots \in Nat
    /\ MaxRequests \in Nat
    /\ MaxFaults \in Nat
    /\ OrphansSurvive \in BOOLEAN
    /\ SavesMayFail \in BOOLEAN

VARIABLES
    target,    \* the live ClickHouse table
    staging,   \* <target>__staging
    prog,      \* snapshot_progress: snapshot id -> part -> [key, done]
    saved,     \* the table's sync_state row
    req,       \* sync_requests: the latest resync request, 0 if none
    nextSid,   \* the next fresh snapshot id (uuid4 in the code)
    up,        \* the supervisor process runs
    stopping,  \* it left its loop and drains in _shutdown
    pc,        \* where it is in _plan_snapshot or _finalize
    st,        \* rt.state, the in-memory TableState
    planned,   \* the CT version recorded for the snapshot being planned
    loaded,    \* rt.progress is not None
    done,      \* the parts rt.progress holds as done
    dirty,     \* the table is in self.dirty
    task,      \* worker -> the task it runs
    faults     \* faults so far

clickhouseVars == <<target, staging, prog, saved, req>>
supervisorVars == <<up, stopping, pc, st, planned, loaded, done, dirty>>
vars == <<sourceVars, clickhouseVars, nextSid, supervisorVars, task, faults>>

Parts == 1..MaxParts
Sids == 1..MaxSnapshots

\* plan_partitions: contiguous primary-key ranges, outer bounds open, so that
\* every key, present or future, falls in exactly one part.
Plans == {p \in [Keys -> Parts] : \A i, j \in Keys : i <= j => p[i] <= p[j]}
NoPlan == [k \in Keys |-> 0]
AnyPlan == [Keys -> Parts \cup {0}]

\* A table's comment names the snapshot that built it (tag, 0 if none).  base
\* and since are ghosts: the version recorded when that snapshot was planned
\* and the latest resync request made before its first row was read.
NoTable == [exists |-> FALSE, tag |-> 0, base |-> 0, since |-> 0, rows |-> Empty]
Table == [exists : BOOLEAN, tag : Nat, base : Nat, since : Nat, rows : Rows]
CreateTable(tag, base) ==
    [exists |-> TRUE, tag |-> tag, base |-> base, since |-> req, rows |-> Empty]

TableState == [phase : {"new", "snapshot", "cdc", "resync"}, last : Nat,
               sid : Nat, sver : Nat, plan : AnyPlan, handled : Nat]
NewState == [phase |-> "new", last |-> 0, sid |-> 0, sver |-> 0,
             plan |-> NoPlan, handled |-> 0]

\* A snapshot_progress row: the last key loaded, 0 when there is none yet.
Progress == [key : Keys \cup {0}, done : BOOLEAN]
NoProgress == [key |-> 0, done |-> FALSE]

TaskKinds == {"none", "snap", "cdc"}
TaskPcs == {"idle", "start", "read", "insert", "checkpoint", "open", "apply", "result"}
TaskResults == {"none", "done", "interrupted", "ok", "resync", "error"}
Task == [kind : TaskKinds, orphan : BOOLEAN, pc : TaskPcs, res : TaskResults,
         sid : Nat, sver : Nat, plan : AnyPlan, part : Nat, pos : Nat,
         eof : BOOLEAN, last : Nat, ver : Nat, buf : Rows]
NoTask == [kind |-> "none", orphan |-> FALSE, pc |-> "idle", res |-> "none",
           sid |-> 0, sver |-> 0, plan |-> NoPlan, part |-> 0, pos |-> 0,
           eof |-> FALSE, last |-> 0, ver |-> 0, buf |-> Empty]

Free == {w \in Workers : task[w].kind = "none"}

\* rt.running: the tasks whose futures this supervisor holds.
Running == {w \in Workers : task[w].kind # "none" /\ ~task[w].orphan}

Fault == faults < MaxFaults /\ faults' = faults + 1

Init ==
    /\ SourceInit
    /\ target = NoTable /\ staging = NoTable
    /\ prog = [s \in Sids |-> [p \in Parts |-> NoProgress]]
    /\ saved = NewState
    /\ req = 0 /\ nextSid = 1
    /\ up = TRUE /\ stopping = FALSE /\ pc = "idle"
    /\ st = NewState
    /\ planned = 0 /\ loaded = FALSE /\ done = {} /\ dirty = FALSE
    /\ task = [w \in Workers |-> NoTask]
    /\ faults = 0

-----------------------------------------------------------------------------
(* The environment: the source database and the operator.                  *)

SourceStep ==
    /\ (\E k \in Keys : Commit(k)) \/ Cleanup
    /\ UNCHANGED <<clickhouseVars, nextSid, supervisorVars, task, faults>>

\* `ch-sync resync`: one more row in sync_requests.
Request ==
    /\ req < MaxRequests
    /\ req' = req + 1
    /\ UNCHANGED <<sourceVars, target, staging, prog, saved, nextSid,
                   supervisorVars, task, faults>>

-----------------------------------------------------------------------------
(* The supervisor.                                                         *)

\* The supervisor is between two calls of its step().
Scheduling == up /\ ~stopping /\ pc = "idle"

\* A mutated form: a request made while a snapshot loads is marked handled
\* but the running snapshot goes on.
AfterRequestKeepingSnapshot(s) ==
    [s EXCEPT !.handled = req, !.phase = IF @ = "snapshot" THEN @ ELSE "resync"]

\* The state _check_requests leaves when it finds a newer request.
AfterRequest(s) == [s EXCEPT !.handled = req, !.phase = "resync"]

CheckRequests ==
    /\ Scheduling
    /\ req > st.handled
    /\ st' = AfterRequest(st)
    /\ dirty' = TRUE
    /\ UNCHANGED <<sourceVars, clickhouseVars, nextSid, up, stopping, pc,
                   planned, loaded, done, task, faults>>

\* The version recorded before any row is read: max(current, min valid).
SnapshotVersion == IF cur >= minValid THEN cur ELSE minValid

\* A mutated form: planning does not wait for running tasks to drain.
MayPlanEarly == st.phase \in {"new", "resync"}

\* In-flight work drains before the table is rebuilt.
MayPlan == st.phase \in {"new", "resync"} /\ Running = {}

\* _plan_snapshot, up to the version: the target exists from here on.
PlanBegin ==
    /\ Scheduling
    /\ MayPlan
    /\ target' = IF target.exists THEN target ELSE [NoTable EXCEPT !.exists = TRUE]
    /\ planned' = SnapshotVersion
    /\ pc' = "plan_drop"
    /\ UNCHANGED <<sourceVars, staging, prog, saved, req, nextSid, up, stopping,
                   st, loaded, done, dirty, task, faults>>

PlanDropStaging ==
    /\ up /\ pc = "plan_drop"
    /\ staging' = NoTable
    /\ pc' = "plan_create"
    /\ UNCHANGED <<sourceVars, target, prog, saved, req, nextSid, up, stopping,
                   st, planned, loaded, done, dirty, task, faults>>

\* The fresh staging table carries the new snapshot id in its comment.
PlanCreateStaging ==
    /\ up /\ pc = "plan_create"
    /\ nextSid \in Sids
    /\ staging' = CreateTable(nextSid, planned)
    /\ nextSid' = nextSid + 1
    /\ pc' = "plan_save"
    /\ UNCHANGED <<sourceVars, target, prog, saved, req, up, stopping, st,
                   planned, loaded, done, dirty, task, faults>>

\* The state _plan_snapshot leaves: snapshot s at version v in ranges p.
Planned(p) == [st EXCEPT !.phase = "snapshot", !.sid = staging.tag,
                         !.sver = planned, !.plan = p]

\* Partition the key space, set the state and progress, and save the state.
\* When the save fails the memory has changed all the same and is dirty.
PlanSave ==
    /\ up /\ pc = "plan_save"
    /\ \E p \in Plans : st' = Planned(p)
    /\ loaded' = TRUE
    /\ done' = {}
    /\ \/ saved' = st' /\ dirty' = FALSE /\ UNCHANGED faults
       \/ SavesMayFail /\ Fault /\ dirty' = TRUE /\ UNCHANGED saved
    /\ pc' = "idle"
    /\ planned' = 0
    /\ UNCHANGED <<sourceVars, target, staging, prog, req, nextSid, up,
                   stopping, task>>

\* Any call of _plan_snapshot or _finalize may raise; _fail marks the table
\* dirty and a later pass of _schedule starts over from the phase.
PlanOrFinalizeFails ==
    /\ up /\ pc # "idle"
    /\ Fault
    /\ pc' = "idle"
    /\ planned' = 0
    /\ dirty' = TRUE
    /\ UNCHANGED <<sourceVars, clickhouseVars, nextSid, up, stopping, st,
                   loaded, done, task>>

\* The staging table's comment names the snapshot the state speaks of.
StagingIsOurs == staging.exists /\ staging.tag = st.sid

TargetIsOurs == target.exists /\ target.tag = st.sid

Resuming == Scheduling /\ st.phase = "snapshot" /\ ~loaded

\* _resume_snapshot: the progress of this snapshot is read back.
ResumeLoad ==
    /\ Resuming
    /\ ~TargetIsOurs
    /\ StagingIsOurs
    /\ loaded' = TRUE
    /\ done' = {p \in Parts : prog[st.sid][p].done}
    /\ UNCHANGED <<sourceVars, clickhouseVars, nextSid, up, stopping, pc, st,
                   planned, dirty, task, faults>>

\* _resume_snapshot: the staging table is missing or another snapshot's.
ResumeReplan ==
    /\ Resuming
    /\ ~TargetIsOurs
    /\ ~StagingIsOurs
    /\ st' = [st EXCEPT !.phase = "new"]
    /\ UNCHANGED <<sourceVars, clickhouseVars, nextSid, up, stopping, pc,
                   planned, loaded, done, dirty, task, faults>>

\* Submit one part that is neither done nor running.
SubmitSnapshot(w) ==
    /\ Scheduling
    /\ st.phase = "snapshot" /\ loaded
    /\ w \in Free
    /\ \E p \in {st.plan[k] : k \in Keys} \ done :
          /\ \A v \in Running : task[v].kind = "snap" => task[v].part # p
          /\ task' = [task EXCEPT ![w] =
                [NoTask EXCEPT !.kind = "snap", !.pc = "start", !.sid = st.sid,
                               !.sver = st.sver, !.plan = st.plan, !.part = p]]
    /\ UNCHANGED <<sourceVars, clickhouseVars, nextSid, supervisorVars, faults>>

\* A mutated form: a part still running counts as done.
AllPartsSubmitted == \A k \in Keys :
    \/ st.plan[k] \in done
    \/ \E v \in Running : task[v].part = st.plan[k]

\* Every part is done and nothing of this table is running.
AllPartsDone == Running = {} /\ \A k \in Keys : st.plan[k] \in done

MayFinalize ==
    /\ st.phase = "snapshot"
    /\ \/ loaded /\ AllPartsDone
       \/ ~loaded /\ TargetIsOurs

\* A mutated form: the comment of the target is not looked at.
MustExchangeAlways == TRUE

\* The target's comment tells whether the swap has already happened.
MustExchange == target.tag # st.sid

\* _finalize up to EXCHANGE TABLES, which swaps both tables atomically.
FinalizeSwap ==
    /\ Scheduling
    /\ MayFinalize
    /\ IF MustExchange
       THEN /\ staging.exists
            /\ target' = staging
            /\ staging' = target
       ELSE UNCHANGED <<target, staging>>
    /\ pc' = "fin_drop"
    /\ UNCHANGED <<sourceVars, prog, saved, req, nextSid, up, stopping, st,
                   planned, loaded, done, dirty, task, faults>>

FinalizeDropStaging ==
    /\ up /\ pc = "fin_drop"
    /\ staging' = NoTable
    /\ pc' = "fin_save"
    /\ UNCHANGED <<sourceVars, target, prog, saved, req, nextSid, up, stopping,
                   st, planned, loaded, done, dirty, task, faults>>

\* A mutated form: CDC starts from the version current at the cut-over.
CutOverAtCurrent(s) == [s EXCEPT !.phase = "cdc", !.last = cur, !.plan = NoPlan]

\* CDC starts from the version the snapshot was planned at.
CutOver(s) == [s EXCEPT !.phase = "cdc", !.last = s.sver, !.plan = NoPlan]

\* When the save fails the table is in CDC in memory and rt.progress stays.
FinalizeSave ==
    /\ up /\ pc = "fin_save"
    /\ st' = CutOver(st)
    /\ \/ saved' = st' /\ dirty' = FALSE /\ loaded' = FALSE /\ done' = {}
          /\ UNCHANGED faults
       \/ SavesMayFail /\ Fault /\ dirty' = TRUE /\ UNCHANGED <<saved, loaded, done>>
    /\ pc' = "idle"
    /\ UNCHANGED <<sourceVars, target, staging, prog, req, nextSid, up,
                   stopping, planned, task>>

\* At most one CDC task per table, from the checkpoint in memory.
SubmitCdc(w) ==
    /\ Scheduling
    /\ st.phase = "cdc" /\ Running = {}
    /\ w \in Free
    /\ task' = [task EXCEPT ![w] =
          [NoTask EXCEPT !.kind = "cdc", !.pc = "open", !.last = st.last]]
    /\ UNCHANGED <<sourceVars, clickhouseVars, nextSid, supervisorVars, faults>>

\* A finished future of this supervisor, collected in step() or _shutdown().
Collectable(w) ==
    /\ up /\ pc = "idle"
    /\ w \in Running
    /\ task[w].pc = "result"

\* _on_result of a snapshot part.
CollectSnapshot(w) ==
    /\ Collectable(w)
    /\ task[w].kind = "snap" /\ task[w].res \in {"done", "interrupted"}
    /\ done' = IF task[w].res = "done" /\ loaded THEN done \cup {task[w].part} ELSE done
    /\ dirty' = TRUE
    /\ task' = [task EXCEPT ![w] = NoTask]
    /\ UNCHANGED <<sourceVars, clickhouseVars, nextSid, up, stopping, pc, st,
                   planned, loaded, faults>>

\* _on_result of a CDC tick: the checkpoint moves.  An unchanged state is
\* marked dirty only now and then.
CollectCdc(w) ==
    /\ Collectable(w)
    /\ task[w].kind = "cdc" /\ task[w].res = "ok"
    /\ st' = [st EXCEPT !.last = task[w].ver]
    /\ \/ dirty' = TRUE
       \/ task[w].ver = st.last /\ UNCHANGED dirty
    /\ task' = [task EXCEPT ![w] = NoTask]
    /\ UNCHANGED <<sourceVars, clickhouseVars, nextSid, up, stopping, pc,
                   planned, loaded, done, faults>>

\* _on_result of a CDC tick that found its checkpoint beyond retention.
CollectResync(w) ==
    /\ Collectable(w)
    /\ task[w].kind = "cdc" /\ task[w].res = "resync"
    /\ st' = [st EXCEPT !.phase = "resync"]
    /\ dirty' = TRUE
    /\ task' = [task EXCEPT ![w] = NoTask]
    /\ UNCHANGED <<sourceVars, clickhouseVars, nextSid, up, stopping, pc,
                   planned, loaded, done, faults>>

\* _fail: only the backoff and the error text change, and the table is dirty.
CollectFailure(w) ==
    /\ Collectable(w)
    /\ task[w].res = "error"
    /\ dirty' = TRUE
    /\ task' = [task EXCEPT ![w] = NoTask]
    /\ UNCHANGED <<sourceVars, clickhouseVars, nextSid, up, stopping, pc, st,
                   planned, loaded, done, faults>>

\* A flush that fails leaves everything as it is.
Flush ==
    /\ up /\ pc = "idle"
    /\ dirty
    /\ saved' = st
    /\ dirty' = FALSE
    /\ UNCHANGED <<sourceVars, target, staging, prog, req, nextSid, up, stopping,
                   pc, st, planned, loaded, done, task, faults>>

\* SIGTERM, or an exception that leaves step(): run() enters _shutdown.
Stop ==
    /\ Scheduling
    /\ Fault
    /\ stopping' = TRUE
    /\ UNCHANGED <<sourceVars, clickhouseVars, nextSid, up, pc, st, planned,
                   loaded, done, dirty, task>>

\* What a supervisor process leaves behind in memory: nothing.
LoseMemory ==
    /\ up' = FALSE /\ stopping' = FALSE /\ pc' = "idle"
    /\ st' = NewState /\ planned' = 0 /\ loaded' = FALSE /\ done' = {}
    /\ dirty' = FALSE

\* The end of _shutdown: drained or out of time, flushed, workers terminated.
Exit ==
    /\ up /\ stopping
    /\ saved' = IF dirty THEN st ELSE saved
    /\ LoseMemory
    /\ task' = [w \in Workers |-> IF task[w].orphan THEN task[w] ELSE NoTask]
    /\ UNCHANGED <<sourceVars, target, staging, prog, req, nextSid, faults>>

\* SIGKILL or OOM at any point.  Where nothing kills the process group its
\* workers finish the task they are in.
Crash ==
    /\ up
    /\ Fault
    /\ LoseMemory
    /\ task' = [w \in Workers |->
          IF OrphansSurvive /\ task[w].kind # "none" /\ task[w].pc # "result"
          THEN [task[w] EXCEPT !.orphan = TRUE] ELSE NoTask]
    /\ UNCHANGED <<sourceVars, clickhouseVars, nextSid>>

\* start(): the table's state is read back from sync_state.
Restart ==
    /\ ~up
    /\ up' = TRUE
    /\ st' = saved
    /\ UNCHANGED <<sourceVars, clickhouseVars, nextSid, stopping, pc, planned,
                   loaded, done, dirty, task, faults>>

-----------------------------------------------------------------------------
(* The workers.  A worker's step changes its task and ClickHouse.          *)

Becomes(w, t) == task' = [task EXCEPT ![w] = t]

\* What a task returns: TaskResult, or the exception it ends with.
Result(t, res) == [NoTask EXCEPT !.kind = t.kind, !.orphan = t.orphan,
                                 !.pc = "result", !.res = res,
                                 !.part = t.part, !.ver = t.ver]

\* What every worker step leaves alone.
WorkerFrame == UNCHANGED <<sourceVars, saved, req, nextSid, supervisorVars>>

\* run_snapshot_partition reads its own progress first: done, or resume.
SnapStart(w) ==
    LET t == task[w] IN
    /\ t.kind = "snap" /\ t.pc = "start"
    /\ Becomes(w, IF prog[t.sid][t.part].done
                  THEN Result(t, "done")
                  ELSE [t EXCEPT !.pc = "read", !.pos = prog[t.sid][t.part].key])
    /\ WorkerFrame /\ UNCHANGED <<target, staging, prog, faults>>

\* The keys of the task's range after the cursor.
Remaining(t) == {k \in Keys : t.plan[k] = t.part /\ k > t.pos}

\* A snapshot row as it is written: the content of now, the version of the plan.
SnapshotCell(t, k) == [ver |-> t.sver, val |-> row[k].ver, live |-> TRUE]

\* The buffer after reading key k: a key without a row adds nothing.
BufferAfter(t, k) ==
    IF row[k].live THEN [t.buf EXCEPT ![k] = SnapshotCell(t, k)] ELSE t.buf

\* Fetch the next key of the range, in primary-key order (READ COMMITTED: the
\* row as it is at this moment).  A full buffer is checkpointed.
SnapRead(w) ==
    LET t == task[w] IN
    /\ t.kind = "snap" /\ t.pc = "read"
    /\ \E k \in Remaining(t) :
          /\ \A j \in Remaining(t) : k <= j
          /\ Becomes(w, [t EXCEPT
                !.pos = k, !.buf = BufferAfter(t, k),
                !.pc = IF Cardinality(KeysOf(BufferAfter(t, k))) >= BatchSize
                       THEN "insert" ELSE "read"])
    /\ WorkerFrame /\ UNCHANGED <<target, staging, prog, faults>>

\* The range is exhausted: the last checkpoint.
SnapEof(w) ==
    LET t == task[w] IN
    /\ t.kind = "snap" /\ t.pc = "read"
    /\ Remaining(t) = {}
    /\ Becomes(w, [t EXCEPT !.pc = "insert", !.eof = TRUE])
    /\ WorkerFrame /\ UNCHANGED <<target, staging, prog, faults>>

\* checkpoint(), first half: the rows go into whatever table is named staging
\* now; inserting into a table that does not exist raises.
SnapInsert(w) ==
    LET t == task[w] IN
    /\ t.kind = "snap" /\ t.pc = "insert"
    /\ IF t.buf # Empty /\ ~staging.exists
       THEN /\ Becomes(w, Result(t, "error"))
            /\ UNCHANGED staging
       ELSE /\ Becomes(w, [t EXCEPT !.pc = "checkpoint"])
            /\ staging' = [staging EXCEPT !.rows = Upsert(@, t.buf)]
    /\ WorkerFrame /\ UNCHANGED <<target, prog, faults>>

\* A mutated form: the key to go on from is persisted, though it is resumed
\* after, not at.
NextKeys(t) ==
    IF t.buf = Empty THEN {prog[t.sid][t.part].key}
    ELSE {k + 1 : k \in {k \in KeysOf(t.buf) : \A j \in KeysOf(t.buf) : j <= k}}

\* The key a checkpoint persists: that of the last row inserted, or the one
\* before if this checkpoint had no rows.
LastKeys(t) ==
    IF t.buf = Empty THEN {prog[t.sid][t.part].key}
    ELSE {k \in KeysOf(t.buf) : \A j \in KeysOf(t.buf) : j <= k}

\* checkpoint(), second half; after it the task is done, stops, or reads on.
SnapCheckpoint(w) ==
    LET t == task[w] IN
    /\ t.kind = "snap" /\ t.pc = "checkpoint"
    /\ \E k \in LastKeys(t) :
          prog' = [prog EXCEPT ![t.sid][t.part] = [key |-> k, done |-> t.eof]]
    /\ Becomes(w,
          IF t.eof THEN Result(t, "done")
          ELSE IF stopping /\ ~t.orphan
          THEN Result(t, "interrupted")
          ELSE [t EXCEPT !.buf = Empty, !.pc = "read"])
    /\ WorkerFrame /\ UNCHANGED <<target, staging, faults>>

\* A mutated form: the retention horizon is not compared with the checkpoint.
NeverExpired(last) == FALSE

\* The changes after last are no longer all there.
Expired(last) == last < minValid

\* A mutated form: the base table is read, so deleted keys have no row.
ChangesWithoutTombstones(last) == [k \in Keys |->
    IF k \in Changed(last) /\ row[k].live
    THEN [ver |-> row[k].ver, val |-> row[k].ver, live |-> TRUE] ELSE Absent]

\* changes_query: the changed keys joined to the base table; no base row, a
\* tombstone.
Changes(last) == [k \in Keys |->
    IF k \in Changed(last)
    THEN [ver |-> row[k].ver, val |-> row[k].ver, live |-> row[k].live] ELSE Absent]

\* change_session: one SNAPSHOT transaction reads the horizon, the current
\* version and the changes; all of them are of one moment.
CdcOpen(w) ==
    LET t == task[w] IN
    /\ t.kind = "cdc" /\ t.pc = "open"
    /\ Becomes(w, IF Expired(t.last)
                  THEN Result(t, "resync")
                  ELSE [t EXCEPT !.pc = "apply", !.buf = Changes(t.last),
                                 !.ver = IF cur > t.last THEN cur ELSE t.last])
    /\ WorkerFrame /\ UNCHANGED <<target, staging, prog, faults>>

\* Insert one batch of the changes, in whatever order they were returned.
CdcInsert(w) ==
    LET t == task[w] IN
    /\ t.kind = "cdc" /\ t.pc = "apply"
    /\ \E S \in SUBSET KeysOf(t.buf) :
          /\ S # {}
          /\ Cardinality(S) <= BatchSize
          /\ Cardinality(S) = BatchSize \/ S = KeysOf(t.buf)
          /\ target' = [target EXCEPT !.rows = Upsert(@, Only(t.buf, S))]
          /\ Becomes(w, [t EXCEPT !.buf = Only(@, Keys \ S)])
    /\ WorkerFrame /\ UNCHANGED <<staging, prog, faults>>

CdcDone(w) ==
    LET t == task[w] IN
    /\ t.kind = "cdc" /\ t.pc = "apply"
    /\ t.buf = Empty
    /\ Becomes(w, Result(t, "ok"))
    /\ WorkerFrame /\ UNCHANGED <<target, staging, prog, faults>>

\* The task raises, its inserts exhausted their retries, or the pool broke:
\* at any point, with what it wrote so far in place.
TaskFails(w) ==
    LET t == task[w] IN
    /\ t.kind # "none" /\ t.pc # "result" /\ ~t.orphan
    /\ Fault
    /\ Becomes(w, Result(t, "error"))
    /\ WorkerFrame /\ UNCHANGED <<target, staging, prog>>

\* An orphan is gone: killed, or done and without anyone to report to.
OrphanExit(w) ==
    /\ task[w].orphan
    /\ Becomes(w, NoTask)
    /\ WorkerFrame /\ UNCHANGED <<target, staging, prog, faults>>

-----------------------------------------------------------------------------

SubmitStep == \E w \in Workers : SubmitSnapshot(w) \/ SubmitCdc(w)

Collect(w) ==
    CollectSnapshot(w) \/ CollectCdc(w) \/ CollectResync(w) \/ CollectFailure(w)

PlanStep == PlanBegin \/ PlanDropStaging \/ PlanCreateStaging \/ PlanSave

ResumeStep == ResumeLoad \/ ResumeReplan

FinalizeStep == FinalizeSwap \/ FinalizeDropStaging \/ FinalizeSave

WorkerStep(w) ==
    \/ SnapStart(w) \/ SnapRead(w) \/ SnapEof(w) \/ SnapInsert(w) \/ SnapCheckpoint(w)
    \/ CdcOpen(w) \/ CdcInsert(w) \/ CdcDone(w)

Next ==
    \/ SourceStep \/ Request
    \/ CheckRequests \/ PlanStep \/ ResumeStep \/ FinalizeStep \/ SubmitStep
    \/ PlanOrFinalizeFails \/ Flush \/ Stop \/ Exit \/ Crash \/ Restart
    \/ \E w \in Workers : Collect(w) \/ WorkerStep(w) \/ TaskFails(w) \/ OrphanExit(w)

Spec == Init /\ [][Next]_vars

\* step() runs every part of the supervisor again and again, a worker process
\* runs its task to its end, and the service manager restarts what stopped.
\* Nothing is assumed of the source, the operator, flushes or faults.
Fairness ==
    /\ WF_vars(CheckRequests) /\ WF_vars(PlanStep) /\ WF_vars(ResumeStep)
    /\ WF_vars(FinalizeStep) /\ WF_vars(SubmitStep)
    /\ WF_vars(Exit) /\ WF_vars(Restart)
    /\ \A w \in Workers : WF_vars(Collect(w)) /\ WF_vars(WorkerStep(w))

FairSpec == Spec /\ Fairness

-----------------------------------------------------------------------------
(* Properties.                                                             *)

\* Every variable has its type: the tables, states, progress rows and tasks
\* are the records the code builds.
TypeOK ==
    /\ SourceTypeOK
    /\ target \in Table /\ staging \in Table
    /\ prog \in [Sids -> [Parts -> Progress]]
    /\ saved \in TableState
    /\ req \in Nat /\ nextSid \in Nat
    /\ up \in BOOLEAN /\ stopping \in BOOLEAN
    /\ pc \in {"idle", "plan_drop", "plan_create", "plan_save", "fin_drop", "fin_save"}
    /\ st \in TableState
    /\ planned \in Nat /\ loaded \in BOOLEAN /\ done \in SUBSET Parts
    /\ dirty \in BOOLEAN
    /\ task \in [Workers -> Task]
    /\ faults \in Nat

\* Readers never see a half-loaded table: from the first cut-over on, in every
\* phase, crash or resync, the live table agrees with the source on every row
\* the source has not changed since the snapshot behind it was planned.
LiveTableWhole == target.tag # 0 => Complete(target.rows, target.base)

\* No lost changes: in CDC the live table shows the latest content, or the
\* deletion, of every row whose last change is at or before the checkpoint,
\* for the checkpoint in memory and for the one a restart would resume from.
CheckpointCovered ==
    \A s \in {st, saved} : s.phase = "cdc" => Complete(target.rows, s.last)

\* The half of CheckpointCovered that is about rows that exist: whatever runs
\* beside the supervisor, no row the checkpoint covers is missing or outdated.
NoLostRow ==
    \A s \in {st, saved} : s.phase = "cdc" =>
        \A k \in Keys : row[k].live /\ row[k].ver <= s.last => Agrees(target.rows, k)

\* The other half: a row the source deleted at or before the checkpoint is not
\* shown ("rows deleted while CT history was unavailable disappear too").
NoGhostRow ==
    \A s \in {st, saved} : s.phase = "cdc" =>
        \A k \in Keys : ~row[k].live /\ row[k].ver <= s.last => ~target.rows[k].live

\* Insert first, checkpoint after: a row the source has not changed since the
\* plan and that the persisted progress of the staged snapshot passes over is
\* in the staging table, so a resumed part misses nothing.
ProgressCovered ==
    (saved.phase = "snapshot" /\ staging.exists /\ staging.tag = saved.sid) =>
        \A k \in Keys :
            LET p == prog[saved.sid][saved.plan[k]] IN
            (k <= p.key \/ p.done) /\ row[k].ver <= saved.sver
                => Agrees(staging.rows, k)

\* A resync request is never swallowed: a table in CDC with request r marked
\* handled serves a snapshot whose rows were all read after r was made.
RequestHonoured ==
    \A s \in {st, saved} : s.phase = "cdc" => target.since >= s.handled

\* A cut-over never swaps an older snapshot, or the bare table, back in.
NoSwapBack == [][target'.tag >= target.tag]_target

\* A row a reader sees is never replaced by an older content of that row,
\* across retried batches, replayed CDC windows and cut-overs.
NoReaderRegress ==
    [][\A k \in Keys : target.rows[k].live /\ target'.rows[k].live
          => target'.rows[k].val >= target.rows[k].val]_target

\* When commits, requests and faults cease the view becomes, and stays, equal
\* to the source table.
Converges == <>[](target.tag # 0 /\ \A k \in Keys : Agrees(target.rows, k))

\* Every resync request is eventually served by a table loaded after it.
RequestServed ==
    \A r \in 1..MaxRequests :
        (req >= r) ~> (st.phase = "cdc" /\ st.handled >= r /\ target.since >= r)
=============================================================================
