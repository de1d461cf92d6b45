-------------------------- MODULE TableSync_orphans --------------------------
(***************************************************************************)
(* What TableSync guarantees when workers outlive a killed supervisor and  *)
(* sync_state refuses writes, for every value of the constants: no row     *)
(* that exists is missing or outdated behind a checkpoint (OInv).          *)
(***************************************************************************)
EXTENDS TableSyncOrphans, TableSync_safety

-----------------------------------------------------------------------------
(* Facts about the operators.                                              *)

LEMMA KnownTyping ==
    ASSUME TypeInv
    PROVE  \A a \in Known : a.sid \in Nat /\ a.sver \in Nat /\ a.plan \in AnyPlan
<1>1. \A x \in TableState \cup Task :
         /\ Snapshot(x).sid \in Nat /\ Snapshot(x).sver \in Nat
         /\ Snapshot(x).plan \in AnyPlan
  BY StateTyping, TaskTyping DEF Snapshot
<1> QED
  BY <1>1, Typing DEF Known, Loaders

LEMMA EmptyTruthful == Truthful(Empty) /\ Truthful(Empty)' /\ \A k \in Keys : Empty[k] = Absent
BY DEF Truthful, Empty

\* What an insert does to a table: versions only grow, so a cell that is
\* fresh stays fresh, and rows of a fresh batch are fresh after it.
LEMMA UpsertFresh ==
    ASSUME TypeInv, NEW rows \in Rows, NEW batch \in Rows, NEW k \in Keys,
           Fresh(rows, k) \/ Fresh(batch, k)
    PROVE  Fresh(Upsert(rows, batch), k)
<1>1. /\ rows[k].ver \in Nat /\ batch[k].ver \in Nat /\ row[k].ver \in Nat
      /\ Absent.ver = 0
  BY Typing DEF Rows, Cell, Absent
<1> QED
  BY <1>1 DEF Fresh, Upsert

LEMMA UpsertTruthful ==
    ASSUME NEW rows, NEW batch, Truthful(rows), Truthful(batch)
    PROVE  Truthful(Upsert(rows, batch))
BY DEF Truthful, Upsert

\* A row the source has: a fresh and truthful cell shows it.
LEMMA FreshAgrees ==
    ASSUME NEW rows, Truthful(rows), NEW k \in Keys, row[k].live, Fresh(rows, k)
    PROVE  Agrees(rows, k)
BY DEF Truthful, Fresh, Agrees

LEMMA SnapshotFields ==
    ASSUME NEW x
    PROVE  /\ Snapshot(x).sid = x.sid /\ Snapshot(x).sver = x.sver
           /\ Snapshot(x).plan = x.plan
BY DEF Snapshot

\* A state in its snapshot phase names a snapshot, and one that is known.
LEMMA StatesKnown ==
    ASSUME OInv, NEW s \in States
    PROVE  /\ s.phase = "snapshot" => s.sid # 0
           /\ Snapshot(s) \in Known /\ Snapshot(s).sid = s.sid
           /\ s.last \in Nat /\ s.last <= cur
<1>1. s.phase = "snapshot" => s.sid # 0
  BY DEF OInv, TypeInv, InvDrawn, States, Sids
<1>2. Snapshot(s) \in Known /\ Snapshot(s).sid = s.sid
  BY SnapshotFields DEF Known, States
<1>3. s.last \in Nat /\ s.last <= cur
  BY Typing, StateTyping DEF OInv, OSafe, OCheckpoint, States
<1> QED
  BY <1>1, <1>2, <1>3

\* What is held up to a version is held up to an earlier one.
LEMMA HeldEarlier ==
    ASSUME TypeInv, NEW rows, NEW v \in Nat, NEW u \in Nat, u <= v, Held(rows, v)
    PROVE  Held(rows, u)
<1>1. \A k \in Keys : row[k].ver \in Nat
  BY Typing
<1> QED
  BY <1>1 DEF Held, Due

\* Planning and dropping leave both checkpoints where they are.
LEMMA CheckpointKept ==
    ASSUME OInv, UNCHANGED <<cur, row, st, saved>>,
           target' = target \/ (target.tag = 0 /\ target'.tag = 0),
           \A s \in States : s.phase = "snapshot" => s.sid # staging'.tag
    PROVE  OCheckpoint'
<1>1. States' = States /\ \A s \in States : s.phase = "snapshot" => s.sid # 0
  BY StatesKnown DEF States
<1>2. st \in States
  BY DEF States
<1> QED
  BY <1>1, <1>2 DEF OInv, OSafe, OCheckpoint, Held, Due, Fresh

\* What a loader knows is known.
LEMMA LoaderKnown ==
    ASSUME OInv, NEW w \in Workers, task[w].kind = "snap", task[w].pc # "result"
    PROVE  /\ Snapshot(task[w]) \in Known /\ SnapshotSound(Snapshot(task[w]))
           /\ task[w].sid \in Sids /\ task[w].part \in Parts
           /\ task[w].sid < nextSid /\ task[w].sver <= cur
           /\ task[w].sid = staging.tag => task[w].sver = staging.base
<1>1. Snapshot(task[w]) \in Known
  BY DEF Known, Loaders
<1>2. task[w].sid \in Sids /\ task[w].part \in Parts /\ task[w].sid # 0
  BY DEF OInv, TypeInv, InvDrawn, Sids
<1> QED
  BY <1>1, <1>2, SnapshotFields DEF OInv, OSafe, OKnown, SnapshotSound

-----------------------------------------------------------------------------
(* Most steps change no snapshot anybody knows, and tables only by rows    *)
(* that make no fresh cell stale.                                          *)

LEMMA KnownKept ==
    ASSUME OInv, UNCHANGED <<cur, nextSid, prog, row>>,
           target'.tag = target.tag, target'.base = target.base,
           staging'.tag = staging.tag, staging'.base = staging.base,
           \A k \in Keys : Fresh(staging.rows, k) => Fresh(staging.rows, k)',
           \A a \in Known' : a \in Known \/ (SnapshotSound(a) /\ a.plan = NoPlan)
    PROVE  OKnown' /\ OProgress'
<1> USE DEF OInv, OSafe
<1>1. \A k \in Keys : NoPlan[k] \notin Parts
  BY DEF NoPlan, Parts
<1>2. \A a \in Known' : SnapshotSound(a)'
  BY DEF OKnown, SnapshotSound
<1>3. \A a, b \in Known' :
         a.sid = b.sid /\ a.plan # NoPlan /\ b.plan # NoPlan => a.plan = b.plan
  BY DEF OKnown
<1>4. NoPlan' = NoPlan
  BY DEF NoPlan
<1>5. ASSUME NEW a \in Known', a.sid # 0, a.sid = staging'.tag, NEW k \in Keys,
             Passed(a, k)', Due(k, staging.base)'
      PROVE  Fresh(staging.rows, k)'
  <2>1. a \in Known
    BY <1>1, <1>5 DEF Passed
  <2>2. Passed(a, k) /\ Due(k, staging.base)
    BY <1>5 DEF Passed, Due
  <2> QED
    BY <1>5, <2>1, <2>2 DEF OProgress
<1> QED
  BY <1>2, <1>3, <1>4, <1>5 DEF OKnown, OProgress

\* The parts that do not depend on the progress rows.
LEMMA FramedRows ==
    ASSUME OInv,
           UNCHANGED <<cur, minValid, row, st, saved, loaded, done>>,
           target'.tag = target.tag, target'.base = target.base,
           staging'.tag = staging.tag, staging'.base = staging.base,
           \A k \in Keys : Fresh(target.rows, k) => Fresh(target.rows, k)',
           \A k \in Keys : Fresh(staging.rows, k) => Fresh(staging.rows, k)'
    PROVE  /\ InvSource' /\ OMemory' /\ OCheckpoint'
           /\ \A v \in Workers : task'[v] = task[v] => TaskHeld(task[v])'
<1> USE DEF OInv, OSafe
<1>1. InvSource'
  BY DEF InvSource
<1>2. OMemory'
  BY DEF OMemory, PartHeld, Due
<1>3. OCheckpoint'
  BY DEF OCheckpoint, States, Held, Due
<1>4. ASSUME NEW v \in Workers, task'[v] = task[v] PROVE TaskHeld(task[v])'
  <2>1. TaskHeld(task[v])
    BY DEF OTasks
  <2>2. LoaderSound(task[v]) => LoaderSound(task[v])'
    BY <1>4 DEF LoaderSound, Carried, Fresh, Due, NoPlan
  <2>3. SnapRunning(task[v]) => SnapRunning(task[v])'
    BY <1>4 DEF SnapRunning, PartHeld, Due
  <2>4. CdcRunning(task[v]) => CdcRunning(task[v])'
    BY <1>4 DEF CdcRunning, Held, Carried, Fresh, Due
  <2>5. Truthful(task[v].buf) => Truthful(task[v].buf)'
    BY <1>4 DEF Truthful
  <2> QED
    BY <1>4, <2>1, <2>2, <2>3, <2>4, <2>5 DEF TaskHeld
<1> QED
  BY <1>1, <1>2, <1>3, <1>4

LEMMA Framed ==
    ASSUME OInv,
           UNCHANGED <<cur, minValid, row, nextSid, prog, st, saved, up, loaded, done>>,
           pc' = "idle" \/ UNCHANGED <<pc, planned, stopping>>,
           target'.tag = target.tag, target'.base = target.base,
           target'.exists = target.exists,
           staging'.tag = staging.tag, staging'.base = staging.base,
           staging'.exists = staging.exists,
           \A k \in Keys : Fresh(target.rows, k) => Fresh(target.rows, k)',
           \A k \in Keys : Fresh(staging.rows, k) => Fresh(staging.rows, k)',
           Known' \subseteq Known,
           Running' = Running \/ (pc' = "idle" /\ up)
    PROVE  /\ InvSource' /\ OTables' /\ OKnown' /\ OProgress' /\ OMemory'
           /\ OControl' /\ OCheckpoint'
           /\ \A v \in Workers : task'[v] = task[v] => TaskHeld(task[v])'
<1> USE DEF OInv, OSafe
<1>1. OTables'
  BY DEF OTables
<1>2. OKnown' /\ OProgress'
  BY KnownKept
<1>3. OControl'
  BY DEF OControl
<1> QED
  BY <1>1, <1>2, <1>3, FramedRows

-----------------------------------------------------------------------------
(* The source: a row that is due at a version already reached is untouched. *)

LEMMA SourceHeld == ASSUME OInv, SourceStep PROVE OSafe'
<1> USE DEF OInv, OSafe
<1>r. /\ cur <= cur' /\ cur' \in Nat /\ cur \in Nat /\ InvSource'
      /\ \A k \in Keys : /\ row'[k] = row[k] \/ row'[k].ver > cur
                         /\ row'[k].ver \in Nat /\ row[k].ver \in Nat
  BY RowKept, Typing, TypeSource DEF TypeInv, TypeOK, SourceTypeOK
<1>u. UNCHANGED <<target, staging, prog, saved, nextSid, up, stopping, pc, st, planned,
                  loaded, done, task>>
  BY DEF SourceStep, clickhouseVars, supervisorVars
<1>k. Known' = Known /\ Running' = Running
  BY <1>u DEF Known, Loaders, Running, Snapshot
<1>v. \A k \in Keys, v \in Nat : v <= cur /\ Due(k, v)' => Due(k, v) /\ row'[k] = row[k]
  BY <1>r DEF Due
<1>t. /\ target.base \in Nat /\ staging.base \in Nat
      /\ target.base <= cur /\ staging.base <= cur
      /\ target \in Table /\ staging \in Table
      /\ st.last \in Nat /\ saved.last \in Nat /\ planned \in Nat
  BY Typing, TableTyping, StateTyping DEF OTables
<1>h. \A rows : \A v \in Nat : v <= cur /\ Held(rows, v) =>
         \A k \in Keys : Due(k, v)' => rows[k] # Absent /\ row'[k].ver <= rows[k].ver
  BY <1>v DEF Held, Fresh
<1>c. \A rows \in Rows : Truthful(rows) => \A k \in Keys : rows[k] # Absent =>
         /\ rows[k].ver <= cur'
         /\ row'[k].live /\ row'[k].ver <= rows[k].ver
               => rows[k].live /\ rows[k].val = row'[k].ver
  <2> SUFFICES ASSUME NEW rows \in Rows, Truthful(rows), NEW k \in Keys, rows[k] # Absent
               PROVE  /\ rows[k].ver <= cur'
                      /\ row'[k].live /\ row'[k].ver <= rows[k].ver
                            => rows[k].live /\ rows[k].val = row'[k].ver
    OBVIOUS
  <2>1. rows[k].ver \in Nat /\ rows[k].ver <= cur
    BY DEF Rows, Cell, Truthful
  <2> QED
    BY <1>r, <2>1 DEF Truthful
<1>1. OTables'
  BY <1>r, <1>u, <1>t DEF OTables
<1>2. OTruth'
  BY <1>c, <1>t, <1>u, TableTyping DEF OTruth, Truthful
<1>3. OKnown'
  <2>1. \A a \in Known : SnapshotSound(a)'
    BY <1>r, <1>u, KnownTyping DEF OKnown, SnapshotSound
  <2> QED
    BY <1>k, <2>1 DEF OKnown
<1>4. OProgress'
  <2>1. \A a \in Known : a.sid # 0 /\ a.sid = staging.tag => \A k \in Keys :
           Passed(a, k) /\ Due(k, staging.base)'
              => staging.rows[k] # Absent /\ row'[k].ver <= staging.rows[k].ver
    BY <1>t, <1>u, <1>v DEF OProgress, Fresh
  <2>2. \A a \in Known, k \in Keys : Passed(a, k)' => Passed(a, k)
    BY <1>u DEF Passed
  <2> QED
    BY <1>k, <1>u, <2>1, <2>2 DEF OProgress, Fresh, Due
<1>p. \A p : PartHeld(p) => PartHeld(p)'
  BY <1>t, <1>u, <1>v DEF PartHeld, Fresh
<1>5. OMemory'
  BY <1>p, <1>u DEF OMemory
<1>6. OControl'
  BY <1>r, <1>t, <1>k, <1>u DEF OControl
<1>7. OCheckpoint'
  <2>1. \A s \in States : s.last \in Nat /\ s.last <= cur
    BY <1>t DEF OCheckpoint, States
  <2>2. target.tag # 0 => Held(target.rows, target.base)'
    BY <1>h, <1>t, <1>u DEF OCheckpoint, Held, Fresh
  <2>3. \A s \in States : target.tag # 0 => Held(target.rows, s.last)'
    BY <1>h, <1>u, <2>1 DEF OCheckpoint, Held, Fresh
  <2>4. States' = States /\ \A s \in States : s.last <= cur'
    BY <1>r, <1>u, <2>1 DEF States
  <2> QED
    BY <1>u, <2>2, <2>3, <2>4 DEF OCheckpoint, Held, Due, Fresh
<1>8. OTasks'
  <2>1. ASSUME NEW w \in Workers PROVE TaskHeld(task[w])'
    <3> DEFINE t == task[w]
    <3>0. /\ TaskHeld(t) /\ t \in Task /\ t.buf \in Rows /\ t.ver \in Nat /\ t.last \in Nat
          /\ task' = task
      BY <1>u, Typing, TaskTyping DEF OTasks
    <3>1. Truthful(t.buf)'
      BY <1>c, <3>0 DEF Truthful, TaskHeld
    <3>2. LoaderSound(t) => LoaderSound(t)'
      BY <1>t, <1>u, <1>v, <3>0 DEF LoaderSound, Carried, Fresh
    <3>3. SnapRunning(t) => SnapRunning(t)'
      BY <1>p, <1>u, <3>0 DEF SnapRunning
    <3>4. CdcRunning(t) => CdcRunning(t)'
      <4> SUFFICES ASSUME CdcRunning(t) PROVE CdcRunning(t)'
        OBVIOUS
      <4>1. t.pc = "open" => t.last <= cur' /\ Held(target.rows, t.last)'
        BY <1>h, <1>r, <1>u, <3>0 DEF CdcRunning, Held, Fresh
      <4>2. t.pc = "result" /\ t.res = "ok" => t.ver <= cur' /\ Held(target.rows, t.ver)'
        BY <1>h, <1>r, <1>u, <3>0 DEF CdcRunning, Held, Fresh
      <4>3. t.pc = "apply" => t.ver <= cur' /\
               \A k \in Keys : Due(k, t.ver)' => Carried(target.rows, t, k)'
        BY <1>r, <1>u, <1>v, <3>0 DEF CdcRunning, Carried, Fresh
      <4> QED
        BY <1>u, <3>0, <4>1, <4>2, <4>3 DEF CdcRunning, Held, Due, Carried, Fresh
    <3> QED
      BY <3>0, <3>1, <3>2, <3>3, <3>4 DEF TaskHeld
  <2> QED
    BY <1>u, <2>1 DEF OTasks
<1> QED
  BY <1>r, <1>1, <1>2, <1>3, <1>4, <1>5, <1>6, <1>7, <1>8

-----------------------------------------------------------------------------
(* The workers.  A task's new value n knows the snapshot the task knew.    *)

SameTask(t, n) ==
    /\ n.kind = t.kind /\ n.orphan = t.orphan
    /\ n.kind = "snap" /\ n.pc # "result" =>
          t.pc # "result" /\ n.sid = t.sid /\ n.sver = t.sver /\ n.plan = t.plan

LEMMA FrameVars ==
    ASSUME WorkerFrame
    PROVE  UNCHANGED <<cur, minValid, row, nextSid, saved, up, stopping, pc, st, planned,
                       loaded, done>>
BY DEF WorkerFrame, supervisorVars, sourceVars

LEMMA StepKnown ==
    ASSUME TypeInv, NEW w \in Workers, NEW n, Becomes(w, n), WorkerFrame,
           SameTask(task[w], n)
    PROVE  /\ Known' \subseteq Known /\ Running' = Running
           /\ task'[w] = n /\ \A v \in Workers : v # w => task'[v] = task[v]
<1>1. task'[w] = n /\ \A v \in Workers : v # w => task'[v] = task[v]
  BY Typing DEF Becomes
<1>2. st' = st /\ saved' = saved
  BY FrameVars
<1>3. Running' = Running
  BY <1>1 DEF Running, SameTask
<1>4. \A v \in Workers : v \in Loaders' =>
         v \in Loaders /\ Snapshot(task[v])' = Snapshot(task[v])
  BY <1>1 DEF Loaders, Snapshot, SameTask
<1>5. Snapshot(st)' = Snapshot(st) /\ Snapshot(saved)' = Snapshot(saved)
  BY <1>2 DEF Snapshot
<1>6. Loaders' \subseteq Workers
  BY DEF Loaders
<1> QED
  BY <1>1, <1>3, <1>4, <1>5, <1>6 DEF Known

\* A step that inserts truthful rows, or none, and leaves a sound task.
LEMMA StepHeld ==
    ASSUME OInv, NEW w \in Workers, NEW n, Becomes(w, n), WorkerFrame, prog' = prog,
           SameTask(task[w], n),
           target'.tag = target.tag, target'.base = target.base,
           target'.exists = target.exists,
           staging'.tag = staging.tag, staging'.base = staging.base,
           staging'.exists = staging.exists,
           \A k \in Keys : Fresh(target.rows, k) => Fresh(target.rows, k)',
           \A k \in Keys : Fresh(staging.rows, k) => Fresh(staging.rows, k)',
           OTruth', TaskHeld(task[w])'
    PROVE  OSafe'
<1>1. /\ Known' \subseteq Known /\ Running' = Running
      /\ \A v \in Workers : v # w => task'[v] = task[v]
  BY StepKnown DEF OInv
<1>2. \A v \in Workers : v # w => TaskHeld(task[v])'
  BY <1>1, Framed, FrameVars
<1>3. /\ InvSource' /\ OTables' /\ OKnown' /\ OProgress' /\ OMemory'
      /\ OControl' /\ OCheckpoint'
  BY <1>1, Framed, FrameVars
<1> QED
  BY <1>2, <1>3 DEF OSafe, OTasks

\* A step that inserts nothing.
LEMMA QuietStepHeld ==
    ASSUME OInv, NEW w \in Workers, NEW n, Becomes(w, n), WorkerFrame,
           UNCHANGED <<target, staging, prog>>, SameTask(task[w], n), TaskHeld(n)
    PROVE  OSafe'
<1>1. task'[w] = n
  BY StepKnown DEF OInv
<1>2. TaskHeld(task[w])'
  BY <1>1, FrameVars DEF TaskHeld, Truthful, LoaderSound, SnapRunning, CdcRunning, PartHeld,
     Held, Carried, Fresh, Due
<1>3. OTruth'
  BY FrameVars DEF OInv, OSafe, OTruth, Truthful
<1>4. /\ \A k \in Keys : Fresh(target.rows, k) => Fresh(target.rows, k)'
      /\ \A k \in Keys : Fresh(staging.rows, k) => Fresh(staging.rows, k)'
  BY FrameVars DEF Fresh
<1> QED
  BY <1>2, <1>3, <1>4, StepHeld

\* A task that ends with nothing to claim.
LEMMA ResultHeld ==
    ASSUME NEW t \in Task, TaskHeld(t), t.kind \in {"snap", "cdc"}, NEW res,
           t.kind = "snap" /\ ~t.orphan /\ res = "done" => PartHeld(t.part),
           t.kind = "cdc" /\ ~t.orphan /\ res = "ok" =>
               t.ver <= cur /\ Held(target.rows, t.ver)
    PROVE  TaskHeld(Result(t, res)) /\ SameTask(t, Result(t, res))
<1> DEFINE r == Result(t, res)
<1>1. /\ r.kind = t.kind /\ r.orphan = t.orphan /\ r.pc = "result" /\ r.res = res
      /\ r.part = t.part /\ r.ver = t.ver /\ r.buf = Empty
  BY ResultFields
<1>2. Truthful(r.buf)
  BY <1>1, EmptyTruthful
<1> HIDE DEF r
<1>3. r.kind = "snap" /\ ~r.orphan => SnapRunning(r)
  BY <1>1 DEF TaskHeld, SnapRunning
<1>4. r.kind = "cdc" /\ ~r.orphan => CdcRunning(r)
  BY <1>1 DEF TaskHeld, CdcRunning
<1>5. TaskHeld(r) /\ SameTask(t, r)
  BY <1>1, <1>2, <1>3, <1>4 DEF TaskHeld, SameTask
<1> QED
  BY <1>5 DEF r

LEMMA TaskFacts ==
    ASSUME OInv, NEW w \in Workers
    PROVE  /\ task[w] \in Task /\ TaskHeld(task[w])
           /\ target \in Table /\ staging \in Table
           /\ cur \in Nat /\ \A k \in Keys : row[k].ver \in Nat
BY Typing DEF OInv, OSafe, OTasks

LEMMA FailsHeld == ASSUME OInv, NEW w \in Workers, TaskFails(w) PROVE OSafe'
<1> DEFINE t == task[w]
<1>1. t \in Task /\ TaskHeld(t) /\ t.kind \in {"snap", "cdc"}
  BY TaskFacts DEF TaskFails, Task, TaskKinds
<1>2. PICK n : n = Result(t, "error")
  OBVIOUS
<1>3. TaskHeld(n) /\ SameTask(t, n)
  BY <1>1, <1>2, ResultHeld
<1> QED
  BY <1>2, <1>3, QuietStepHeld DEF TaskFails

LEMMA SnapStartHeld == ASSUME OInv, NEW w \in Workers, SnapStart(w) PROVE OSafe'
<1>t. PICK t \in Task : t = task[w]
  BY TaskFacts
<1>1. /\ TaskHeld(t) /\ t.kind = "snap" /\ t.pc = "start" /\ LoaderSound(t)
      /\ t.buf = Empty
  BY <1>t, TaskFacts DEF SnapStart, TaskHeld, LoaderSound
<1>2. /\ Snapshot(t) \in Known /\ t.part \in Parts /\ t.sid \in Sids /\ t.sid # 0
      /\ prog[t.sid][t.part] \in Progress
  BY <1>t, <1>1, LoaderKnown, Typing DEF OInv, Sids
<1>3. \A k \in Keys : t.sid = staging.tag /\ t.plan[k] = t.part /\ Due(k, staging.base)
         /\ (k <= prog[t.sid][t.part].key \/ prog[t.sid][t.part].done)
         => Fresh(staging.rows, k)
  BY <1>2, SnapshotFields DEF OInv, OSafe, OProgress, Passed
<1>4. PICK n : n = IF prog[t.sid][t.part].done THEN Result(t, "done")
                   ELSE [t EXCEPT !.pc = "read", !.pos = prog[t.sid][t.part].key]
  OBVIOUS
<1>5. CASE prog[t.sid][t.part].done
  <2>1. ~t.orphan => PartHeld(t.part)
    BY <1>1, <1>3, <1>5 DEF TaskHeld, SnapRunning, PartHeld
  <2>2. n = Result(t, "done")
    BY <1>4, <1>5
  <2>3. TaskHeld(n) /\ SameTask(t, n)
    BY <1>1, <2>1, <2>2, ResultHeld
  <2> QED
    BY <1>t, <1>4, <2>3, QuietStepHeld DEF SnapStart
<1>6. CASE ~prog[t.sid][t.part].done
  <2>1. n = [t EXCEPT !.pc = "read", !.pos = prog[t.sid][t.part].key]
    BY <1>4, <1>6
  <2>2. /\ n.kind = "snap" /\ n.pc = "read" /\ n.buf = Empty /\ n.orphan = t.orphan
        /\ n.sid = t.sid /\ n.sver = t.sver /\ n.plan = t.plan /\ n.part = t.part
        /\ n.eof = t.eof /\ n.pos = prog[t.sid][t.part].key
    BY <1>1, <2>1 DEF Task
  <2>3. LoaderSound(n)
    BY <1>1, <1>3, <2>2, EmptyTruthful DEF LoaderSound, Carried
  <2>4. ~n.orphan => SnapRunning(n)
    BY <1>1, <2>2 DEF TaskHeld, SnapRunning
  <2>5. TaskHeld(n) /\ SameTask(t, n)
    BY <1>1, <2>2, <2>3, <2>4, EmptyTruthful DEF TaskHeld, SameTask
  <2> QED
    BY <1>t, <1>4, <2>5, QuietStepHeld DEF SnapStart
<1> QED
  BY <1>5, <1>6

LEMMA SnapReadHeld == ASSUME OInv, NEW w \in Workers, SnapRead(w) PROVE OSafe'
<1>t. PICK t \in Task : t = task[w]
  BY TaskFacts
<1>1. /\ TaskHeld(t) /\ t.kind = "snap" /\ t.pc = "read" /\ LoaderSound(t)
      /\ t.buf \in Rows /\ t.pos \in Nat /\ t.sver \in Nat
      /\ ~t.eof
  BY <1>t, TaskFacts, TaskTyping DEF SnapRead, TaskHeld, LoaderSound
<1>2. t.sver <= cur /\ (t.sid = staging.tag => t.sver = staging.base)
  BY <1>t, <1>1, LoaderKnown
<1>3. PICK k \in Remaining(t) :
         /\ \A j \in Remaining(t) : k <= j
         /\ Becomes(w, [t EXCEPT
                !.pos = k, !.buf = BufferAfter(t, k),
                !.pc = IF Cardinality(KeysOf(BufferAfter(t, k))) >= BatchSize
                       THEN "insert" ELSE "read"])
  BY <1>t DEF SnapRead
<1>4. /\ k \in Keys /\ k \in Nat /\ t.plan[k] = t.part /\ k > t.pos
      /\ \A j \in Keys : t.plan[j] = t.part /\ j <= k => j <= t.pos \/ j = k
  BY <1>1, <1>3 DEF Remaining, Keys
<1>5. PICK b : b = BufferAfter(t, k)
  OBVIOUS
<1>6. /\ \A j \in Keys : j # k => b[j] = t.buf[j]
      /\ row[k].live => b[k] = SnapshotCell(t, k)
      /\ ~row[k].live => b[k] = t.buf[k]
  BY <1>1, <1>4, <1>5 DEF BufferAfter, Rows
<1>7. PICK n : n = [t EXCEPT !.pos = k, !.buf = b,
                             !.pc = IF Cardinality(KeysOf(b)) >= BatchSize
                                    THEN "insert" ELSE "read"]
  OBVIOUS
<1>8. /\ n.kind = "snap" /\ n.pc \in {"read", "insert"} /\ n.buf = b /\ n.pos = k
      /\ n.orphan = t.orphan /\ n.sid = t.sid /\ n.sver = t.sver /\ n.plan = t.plan
      /\ n.part = t.part /\ n.eof = t.eof
  BY <1>1, <1>7 DEF Task
<1>9. Truthful(b)
  <2>1. SnapshotCell(t, k).ver <= cur /\ SnapshotCell(t, k).live
        /\ SnapshotCell(t, k).val = row[k].ver
    BY <1>2 DEF SnapshotCell
  <2> QED
    BY <1>1, <1>6, <2>1 DEF TaskHeld, Truthful
<1>10. LoaderSound(n)
  <2>1. \A j \in Keys : b[j] # Absent => j <= k
    BY <1>1, <1>4, <1>6 DEF LoaderSound, Keys
  <2>2. ASSUME t.sid = staging.tag, NEW j \in Keys, t.plan[j] = t.part, j <= k,
               Due(j, staging.base)
        PROVE  Carried(staging.rows, n, j)
    <3>1. CASE j = k
      <4>1. b[k] # Absent /\ b[k].ver = t.sver
        BY <1>6, <2>2, <3>1 DEF SnapshotCell, Absent, Due
      <4> QED
        BY <1>2, <1>8, <2>2, <3>1, <4>1 DEF Carried, Fresh, Due
    <3>2. CASE j # k
      BY <1>1, <1>4, <1>6, <1>8, <2>2, <3>2 DEF LoaderSound, Carried, Fresh
    <3> QED
      BY <3>1, <3>2
  <2> QED
    BY <1>1, <1>8, <2>1, <2>2 DEF LoaderSound
<1>11. ~n.orphan => SnapRunning(n)
  BY <1>1, <1>8 DEF TaskHeld, SnapRunning
<1>12. TaskHeld(n) /\ SameTask(t, n)
  BY <1>1, <1>8, <1>9, <1>10, <1>11 DEF TaskHeld, SameTask
<1> QED
  BY <1>t, <1>3, <1>5, <1>7, <1>12, QuietStepHeld DEF SnapRead

LEMMA SnapEofHeld == ASSUME OInv, NEW w \in Workers, SnapEof(w) PROVE OSafe'
<1>t. PICK t \in Task : t = task[w]
  BY TaskFacts
<1>1. /\ TaskHeld(t) /\ t.kind = "snap" /\ t.pc = "read" /\ LoaderSound(t)
      /\ t.pos \in Nat /\ \A k \in Keys : t.plan[k] = t.part => k <= t.pos
  BY <1>t, TaskFacts, TaskTyping DEF SnapEof, TaskHeld, Remaining, Keys
<1>2. PICK n : n = [t EXCEPT !.pc = "insert", !.eof = TRUE]
  OBVIOUS
<1>3. /\ n.kind = "snap" /\ n.pc = "insert" /\ n.buf = t.buf /\ n.pos = t.pos
      /\ n.orphan = t.orphan /\ n.sid = t.sid /\ n.sver = t.sver /\ n.plan = t.plan
      /\ n.part = t.part
  BY <1>1, <1>2 DEF Task
<1>4. LoaderSound(n)
  BY <1>1, <1>3 DEF LoaderSound, Carried
<1>5. TaskHeld(n) /\ SameTask(t, n)
  BY <1>1, <1>3, <1>4 DEF TaskHeld, SnapRunning, SameTask
<1> QED
  BY <1>t, <1>2, <1>5, QuietStepHeld DEF SnapEof

\* The insert goes into whatever table is named staging, which may be another
\* snapshot's by now: no fresh cell of it is lost.
LEMMA SnapInsertHeld == ASSUME OInv, NEW w \in Workers, SnapInsert(w) PROVE OSafe'
<1>t. PICK t \in Task : t = task[w]
  BY TaskFacts
<1>1. /\ TaskHeld(t) /\ t.kind = "snap" /\ t.pc = "insert" /\ LoaderSound(t)
      /\ Truthful(t.buf) /\ t.buf \in Rows
  BY <1>t, TaskFacts, TaskTyping DEF SnapInsert, TaskHeld
<1>2. CASE t.buf # Empty /\ ~staging.exists
  <2>1. PICK n : n = Result(t, "error")
    OBVIOUS
  <2>2. TaskHeld(n) /\ SameTask(t, n)
    BY <1>1, <2>1, ResultHeld
  <2> QED
    BY <1>t, <1>2, <2>1, <2>2, QuietStepHeld DEF SnapInsert
<1>3. CASE ~(t.buf # Empty /\ ~staging.exists)
  <2>1. PICK n : n = [t EXCEPT !.pc = "checkpoint"]
    OBVIOUS
  <2>2. /\ n.kind = "snap" /\ n.pc = "checkpoint" /\ n.buf = t.buf /\ n.pos = t.pos
        /\ n.orphan = t.orphan /\ n.sid = t.sid /\ n.sver = t.sver /\ n.plan = t.plan
        /\ n.part = t.part /\ n.eof = t.eof
    BY <1>1, <2>1 DEF Task
  <2>3. Becomes(w, n) /\ staging' = [staging EXCEPT !.rows = Upsert(staging.rows, t.buf)]
    BY <1>t, <1>3, <2>1 DEF SnapInsert
  <2>4. /\ staging'.tag = staging.tag /\ staging'.base = staging.base
        /\ staging'.exists = staging.exists
        /\ staging'.rows = Upsert(staging.rows, t.buf) /\ staging.rows \in Rows
    BY <2>3, TaskFacts, TableTyping DEF Table
  <2>5. WorkerFrame /\ prog' = prog /\ target' = target
    BY <1>t DEF SnapInsert
  <2>6. \A k \in Keys : Fresh(staging.rows, k) \/ Fresh(t.buf, k) => Fresh(staging.rows, k)'
    <3>1. \A k \in Keys : Fresh(staging.rows, k) \/ Fresh(t.buf, k)
             => Fresh(Upsert(staging.rows, t.buf), k)
      BY <1>1, <2>4, UpsertFresh DEF OInv
    <3> QED
      BY <2>4, <2>5, <3>1, FrameVars DEF Fresh
  <2>7. OTruth'
    <3>1. Truthful(Upsert(staging.rows, t.buf))
      BY <1>1, UpsertTruthful DEF OInv, OSafe, OTruth
    <3> QED
      BY <2>4, <2>5, <3>1, FrameVars DEF OInv, OSafe, OTruth, Truthful
  <2>8. SameTask(t, n)
    BY <1>1, <2>2 DEF SameTask
  <2>9. task'[w] = n
    BY <1>t, <2>3, <2>5, <2>8, StepKnown DEF OInv
  <2>10. LoaderSound(task[w])'
    <3>1. \A k \in Keys : t.sid = staging.tag /\ t.plan[k] = t.part /\ k <= t.pos
             /\ Due(k, staging.base) => Fresh(staging.rows, k)'
      BY <1>1, <2>6 DEF LoaderSound, Carried
    <3> QED
      BY <1>1, <2>2, <2>4, <2>5, <2>9, <3>1, FrameVars DEF LoaderSound, Carried, Due
  <2>11. ~t.orphan => SnapRunning(task[w])'
    BY <1>1, <2>2, <2>4, <2>5, <2>9, FrameVars DEF TaskHeld, SnapRunning
  <2>12. TaskHeld(task[w])'
    BY <1>1, <2>2, <2>5, <2>9, <2>10, <2>11, FrameVars DEF TaskHeld, Truthful
  <2>13. \A k \in Keys : Fresh(target.rows, k) => Fresh(target.rows, k)'
    BY <2>5, FrameVars DEF Fresh
  <2> QED
    BY <1>t, <2>3, <2>4, <2>5, <2>6, <2>7, <2>8, <2>12, <2>13, StepHeld
<1> QED
  BY <1>2, <1>3

\* What a checkpoint records, an orphan's included, is in the staging table if
\* that is still its snapshot's, and its plan is that of the snapshot.
LEMMA SnapCheckpointHeld == ASSUME OInv, NEW w \in Workers, SnapCheckpoint(w) PROVE OSafe'
<1> USE DEF OInv, OSafe
<1>t. PICK t \in Task : t = task[w]
  BY TaskFacts
<1>1. /\ TaskHeld(t) /\ t.kind = "snap" /\ t.pc = "checkpoint" /\ LoaderSound(t)
      /\ t.pos \in Nat /\ t.eof \in BOOLEAN
  BY <1>t, TaskFacts, TaskTyping DEF SnapCheckpoint, TaskHeld
<1>2. /\ Snapshot(t) \in Known /\ t.sid \in Sids /\ t.part \in Parts /\ t.sid < nextSid
      /\ t.sid \in Nat /\ nextSid \in Nat
  BY <1>t, <1>1, LoaderKnown, Typing DEF Sids
<1>3. PICK key \in LastKeys(t) :
         prog' = [prog EXCEPT ![t.sid][t.part] = [key |-> key, done |-> t.eof]]
  BY <1>t DEF SnapCheckpoint
<1>4. /\ prog'[t.sid][t.part].key = key /\ prog'[t.sid][t.part].done = t.eof
      /\ \A s \in Sids, p \in Parts :
            s # t.sid \/ p # t.part => prog'[s][p] = prog[s][p]
  BY <1>2, <1>3, Typing
<1>5. key = prog[t.sid][t.part].key \/ key <= t.pos
  BY <1>1, <1>3 DEF LastKeys, KeysOf, LoaderSound
<1>6. PICK n : n = IF t.eof THEN Result(t, "done")
                   ELSE IF stopping /\ ~t.orphan THEN Result(t, "interrupted")
                   ELSE [t EXCEPT !.buf = Empty, !.pc = "read"]
  OBVIOUS
<1>7. Becomes(w, n) /\ WorkerFrame /\ target' = target /\ staging' = staging
  BY <1>t, <1>6 DEF SnapCheckpoint
<1>8. t.sid = staging.tag => \A k \in Keys :
         t.plan[k] = t.part /\ k <= t.pos /\ Due(k, staging.base)
            => Fresh(staging.rows, k)
  BY <1>1 DEF LoaderSound
<1>9. TaskHeld(n) /\ SameTask(t, n)
  <2>1. CASE t.eof
    <3>1. ~t.orphan => PartHeld(t.part)
      BY <1>1, <1>8, <2>1 DEF TaskHeld, SnapRunning, LoaderSound, PartHeld
    <3> QED
      BY <1>1, <1>6, <2>1, <3>1, ResultHeld
  <2>2. CASE ~t.eof /\ stopping /\ ~t.orphan
    BY <1>1, <1>6, <2>2, ResultHeld
  <2>3. CASE ~t.eof /\ ~(stopping /\ ~t.orphan)
    <3>1. n = [t EXCEPT !.buf = Empty, !.pc = "read"]
      BY <1>6, <2>3
    <3>2. /\ n.kind = "snap" /\ n.pc = "read" /\ n.buf = Empty /\ n.pos = t.pos
          /\ n.orphan = t.orphan /\ n.sid = t.sid /\ n.sver = t.sver /\ n.plan = t.plan
          /\ n.part = t.part /\ n.eof = t.eof
      BY <1>1, <3>1 DEF Task
    <3>3. LoaderSound(n)
      BY <1>1, <1>8, <2>3, <3>2, EmptyTruthful DEF LoaderSound, Carried
    <3>4. ~n.orphan => SnapRunning(n)
      BY <1>1, <3>2 DEF TaskHeld, SnapRunning
    <3> QED
      BY <1>1, <3>2, <3>3, <3>4, EmptyTruthful DEF TaskHeld, SameTask
  <2> QED
    BY <2>1, <2>2, <2>3
<1>10. /\ Known' \subseteq Known /\ Running' = Running
       /\ task'[w] = n /\ \A v \in Workers : v # w => task'[v] = task[v]
  BY <1>t, <1>7, <1>9, StepKnown
<1>u. /\ UNCHANGED <<cur, minValid, row, nextSid, saved, up, stopping, pc, st, planned,
                     loaded, done>>
      /\ target' = target /\ staging' = staging
  BY <1>7, FrameVars
<1>11. /\ InvSource' /\ OMemory' /\ OCheckpoint'
       /\ \A v \in Workers : task'[v] = task[v] => TaskHeld(task[v])'
  <2>1. /\ \A k \in Keys : Fresh(target.rows, k) => Fresh(target.rows, k)'
        /\ \A k \in Keys : Fresh(staging.rows, k) => Fresh(staging.rows, k)'
    BY <1>u DEF Fresh
  <2> QED
    BY <1>u, <2>1, FramedRows
<1>12. TaskHeld(task[w])'
  BY <1>9, <1>10, <1>u DEF TaskHeld, Truthful, LoaderSound, SnapRunning, CdcRunning,
     PartHeld, Held, Carried, Fresh, Due, NoPlan
<1>13. OTables'
  <2>1. \A s \in Sids : s >= nextSid => s # t.sid
    BY <1>2 DEF Sids
  <2> QED
    BY <1>4, <1>u, <2>1 DEF OTables, NoProgress
<1>14. OTruth'
  BY <1>u DEF OTruth, Truthful
<1>15. OKnown'
  <2>1. \A a \in Known' : SnapshotSound(a)'
    BY <1>10, <1>u DEF OKnown, SnapshotSound
  <2> QED
    BY <1>10, <2>1 DEF OKnown, NoPlan
<1>16. OProgress'
  <2> SUFFICES ASSUME NEW a \in Known', a.sid # 0, a.sid = staging.tag, NEW k \in Keys,
                      Passed(a, k)', Due(k, staging.base)
               PROVE  Fresh(staging.rows, k)
    BY <1>u DEF OProgress, Due, Fresh
  <2>1. a \in Known /\ a.plan[k] \in Parts
    BY <1>10 DEF Passed
  <2>2. a.sid \in Sids
    <3>1. a.sid \in Nat /\ a.sid < nextSid
      BY <2>1, KnownTyping DEF OKnown, SnapshotSound
    <3> QED
      BY <1>2, <3>1, SyncAssumption DEF OTables, Sids
  <2>3. CASE Passed(a, k)
    BY <2>1, <2>3 DEF OProgress
  <2>4. CASE ~Passed(a, k)
    <3>1. a.sid = t.sid /\ a.plan[k] = t.part
      BY <1>4, <2>1, <2>2, <2>4 DEF Passed
    <3>2. a.plan # NoPlan /\ t.plan # NoPlan
      BY <1>1, <2>1 DEF NoPlan, Parts, LoaderSound
    <3>3. a.plan = t.plan
      BY <1>2, <2>1, <3>1, <3>2, SnapshotFields DEF OKnown
    <3>4. k <= key \/ t.eof
      BY <1>4, <3>1 DEF Passed
    <3>5. k <= t.pos
      <4>1. CASE t.eof
        BY <1>1, <3>1, <3>3, <4>1 DEF LoaderSound
      <4>2. CASE ~t.eof
        <5>1. k <= key /\ key <= t.pos
          BY <1>5, <2>1, <2>4, <3>1, <3>4, <4>2 DEF Passed
        <5>2. key \in Nat
          BY <1>1, <1>2, <1>3, Typing DEF LastKeys, KeysOf, Progress, Keys
        <5> QED
          BY <1>1, <5>1, <5>2 DEF Keys
      <4> QED
        BY <4>1, <4>2
    <3> QED
      BY <1>8, <3>1, <3>3, <3>5
  <2> QED
    BY <2>3, <2>4
<1>17. OControl'
  <2>1. pc = "plan_save" => t.sid # staging.tag /\ staging.tag \in Sids
    BY <1>2, SnapshotFields DEF OControl, TypeInv, InvDrawn
  <2> QED
    BY <1>4, <1>10, <1>u, <2>1 DEF OControl, NoProgress
<1>18. OTasks'
  BY <1>10, <1>11, <1>12 DEF OTasks
<1> QED
  BY <1>11, <1>13, <1>14, <1>15, <1>16, <1>17, <1>18

\* One transaction reads all changes after the checkpoint: what is due at the
\* version it returns is in the live table or among them.
LEMMA CdcOpenHeld == ASSUME OInv, NEW w \in Workers, CdcOpen(w) PROVE OSafe'
<1>t. PICK t \in Task : t = task[w]
  BY TaskFacts
<1>1. /\ TaskHeld(t) /\ t.kind = "cdc" /\ t.pc = "open" /\ t.last \in Nat
      /\ cur \in Nat /\ minValid \in Nat
      /\ \A k \in Keys : row[k].ver \in Nat /\ row[k].ver <= cur
  BY <1>t, TaskFacts, TaskTyping, Typing DEF CdcOpen, OInv, OSafe, InvSource
<1>2. CASE Expired(t.last)
  <2>1. PICK n : n = Result(t, "resync")
    OBVIOUS
  <2>2. TaskHeld(n) /\ SameTask(t, n)
    BY <1>1, <2>1, ResultHeld
  <2> QED
    BY <1>t, <1>2, <2>1, <2>2, QuietStepHeld DEF CdcOpen
<1>3. CASE ~Expired(t.last)
  <2>1. PICK b : b = Changes(t.last)
    OBVIOUS
  <2>2. \A k \in Keys : b[k] =
           IF row[k].ver > t.last /\ row[k].ver > minValid
           THEN [ver |-> row[k].ver, val |-> row[k].ver, live |-> row[k].live]
           ELSE Absent
    BY <2>1 DEF Changes, Changed
  <2>3. PICK v : v = IF cur > t.last THEN cur ELSE t.last
    OBVIOUS
  <2>4. PICK n : n = [t EXCEPT !.pc = "apply", !.buf = b, !.ver = v]
    OBVIOUS
  <2>5. n.kind = "cdc" /\ n.pc = "apply" /\ n.buf = b /\ n.ver = v /\ n.orphan = t.orphan
    BY <1>1, <2>4 DEF Task
  <2> DEFINE Seen(k) == row[k].ver > t.last /\ row[k].ver > minValid
  <2>c. \A k \in Keys :
           /\ Seen(k) => b[k].ver = row[k].ver /\ b[k].val = row[k].ver
                         /\ b[k].live = row[k].live
           /\ ~Seen(k) => b[k] = Absent
    <3> TAKE k \in Keys
    <3>1. Seen(k) => b[k] = [ver |-> row[k].ver, val |-> row[k].ver, live |-> row[k].live]
      BY <2>2
    <3>2. ~Seen(k) => b[k] = Absent
      BY <2>2
    <3> QED
      BY <3>1, <3>2
  <2>6. Truthful(b)
    BY <1>1, <2>c DEF Truthful
  <2>7. \A k \in Keys : row[k].live /\ row[k].ver > t.last
           => b[k] # Absent /\ b[k].ver = row[k].ver
    <3>1. minValid <= t.last
      BY <1>1, <1>3 DEF Expired
    <3>2. \A k \in Keys : row[k].ver > t.last => Seen(k) /\ row[k].ver # Absent.ver
      BY <1>1, <3>1 DEF Absent
    <3> QED
      BY <2>c, <3>2
  <2>8. ~t.orphan => CdcRunning(n)
    <3> SUFFICES ASSUME ~t.orphan PROVE CdcRunning(n)
      OBVIOUS
    <3>1. CdcRunning(t)
      BY <1>1 DEF TaskHeld
    <3>2. v <= cur
      BY <1>1, <2>3, <3>1 DEF CdcRunning
    <3>3. \A k \in Keys : Due(k, v) => Carried(target.rows, n, k)
      BY <1>1, <2>5, <2>7, <3>1 DEF CdcRunning, Held, Due, Carried, Fresh
    <3> QED
      BY <2>5, <3>1, <3>2, <3>3 DEF CdcRunning
  <2>9. TaskHeld(n) /\ SameTask(t, n)
    BY <1>1, <2>5, <2>6, <2>8 DEF TaskHeld, SameTask
  <2> QED
    BY <1>t, <1>3, <2>1, <2>3, <2>4, <2>9, QuietStepHeld DEF CdcOpen
<1> QED
  BY <1>2, <1>3

LEMMA CdcDoneHeld == ASSUME OInv, NEW w \in Workers, CdcDone(w) PROVE OSafe'
<1>t. PICK t \in Task : t = task[w]
  BY TaskFacts
<1>1. TaskHeld(t) /\ t.kind = "cdc" /\ t.pc = "apply" /\ t.buf = Empty
  BY <1>t, TaskFacts DEF CdcDone
<1>2. ~t.orphan => t.ver <= cur /\ Held(target.rows, t.ver)
  BY <1>1, EmptyTruthful DEF TaskHeld, CdcRunning, Held, Carried, Fresh
<1>3. PICK n : n = Result(t, "ok")
  OBVIOUS
<1>4. TaskHeld(n) /\ SameTask(t, n)
  BY <1>1, <1>2, <1>3, ResultHeld
<1> QED
  BY <1>t, <1>3, <1>4, QuietStepHeld DEF CdcDone

\* Changes go into the live table, an orphan's old ones too.
LEMMA CdcInsertHeld == ASSUME OInv, NEW w \in Workers, CdcInsert(w) PROVE OSafe'
<1>t. PICK t \in Task : t = task[w]
  BY TaskFacts
<1>1. /\ TaskHeld(t) /\ t.kind = "cdc" /\ t.pc = "apply" /\ t.buf \in Rows
      /\ Truthful(t.buf)
  BY <1>t, TaskFacts, TaskTyping DEF CdcInsert, TaskHeld
<1>2. PICK S \in SUBSET KeysOf(t.buf) :
         /\ target' = [target EXCEPT !.rows = Upsert(target.rows, Only(t.buf, S))]
         /\ Becomes(w, [t EXCEPT !.buf = Only(t.buf, Keys \ S)])
  BY <1>t DEF CdcInsert
<1>3. PICK b \in Rows : b = Only(t.buf, S)
  BY <1>1, OnlyType
<1>4. PICK c \in Rows : c = Only(t.buf, Keys \ S)
  BY <1>1, OnlyType
<1>5. /\ Truthful(b) /\ Truthful(c)
      /\ \A k \in Keys : Fresh(t.buf, k) => Fresh(b, k) \/ Fresh(c, k)
  BY <1>1, <1>3, <1>4 DEF Only, Truthful, Fresh
<1>6. /\ target'.tag = target.tag /\ target'.base = target.base
      /\ target'.exists = target.exists
      /\ target'.rows = Upsert(target.rows, b) /\ target.rows \in Rows
  BY <1>2, <1>3, TaskFacts, TableTyping DEF Table
<1>7. PICK n : n = [t EXCEPT !.buf = c]
  OBVIOUS
<1>8. /\ n.kind = "cdc" /\ n.pc = "apply" /\ n.buf = c /\ n.orphan = t.orphan
      /\ n.ver = t.ver /\ SameTask(t, n)
  BY <1>1, <1>7 DEF Task, SameTask
<1>9. WorkerFrame /\ UNCHANGED <<staging, prog>> /\ Becomes(w, n)
  BY <1>t, <1>2, <1>4, <1>7 DEF CdcInsert
<1>10. \A k \in Keys : Fresh(target.rows, k) \/ Fresh(b, k) => Fresh(target.rows, k)'
  <2>1. \A k \in Keys : Fresh(target.rows, k) \/ Fresh(b, k)
           => Fresh(Upsert(target.rows, b), k)
    BY <1>6, UpsertFresh DEF OInv
  <2> QED
    BY <1>6, <1>9, <2>1, FrameVars DEF Fresh
<1>11. OTruth'
  <2>1. Truthful(Upsert(target.rows, b))
    BY <1>5, UpsertTruthful DEF OInv, OSafe, OTruth
  <2> QED
    BY <1>6, <1>9, <2>1, FrameVars DEF OInv, OSafe, OTruth, Truthful
<1>12. task'[w] = n
  BY <1>t, <1>8, <1>9, StepKnown DEF OInv
<1>13. ~t.orphan => CdcRunning(task[w])'
  <2> SUFFICES ASSUME ~t.orphan PROVE CdcRunning(task[w])'
    OBVIOUS
  <2>1. CdcRunning(t)
    BY <1>1 DEF TaskHeld
  <2>2. \A k \in Keys : Due(k, t.ver) => Fresh(target.rows, k)' \/ Fresh(c, k)
    BY <1>1, <1>5, <1>10, <2>1 DEF CdcRunning, Carried
  <2>3. \A k \in Keys : Due(k, n.ver)' => Carried(target.rows, task[w], k)'
    BY <1>8, <1>9, <1>12, <2>2, FrameVars DEF Due, Carried, Fresh
  <2> QED
    BY <1>1, <1>6, <1>8, <1>9, <1>12, <2>1, <2>3, FrameVars DEF CdcRunning
<1>14. TaskHeld(task[w])'
  BY <1>5, <1>8, <1>9, <1>12, <1>13, FrameVars DEF TaskHeld, Truthful
<1>15. \A k \in Keys : Fresh(staging.rows, k) => Fresh(staging.rows, k)'
  BY <1>9, FrameVars DEF Fresh
<1> QED
  BY <1>t, <1>6, <1>8, <1>9, <1>10, <1>11, <1>14, <1>15, StepHeld

-----------------------------------------------------------------------------
(* The supervisor outside planning and cut-over.                           *)

LEMMA NoTaskHeld == TaskHeld(NoTask) /\ TaskHeld(NoTask)' /\ NoTask' = NoTask
<1>1. NoTask' = NoTask
  BY DEF NoTask, NoPlan, Empty, Absent, Keys
<1> QED
  BY <1>1, NoTaskFields, EmptyTruthful DEF TaskHeld

LEMMA QuietHeld ==
    ASSUME OInv, UNCHANGED vars \/ Request \/ Stop \/ PlanOrFinalizeFails
    PROVE  OSafe'
<1>1. /\ UNCHANGED <<cur, minValid, row, nextSid, target, staging, prog, st, saved, up,
                     loaded, done, task>>
      /\ pc' = "idle" \/ UNCHANGED <<pc, planned, stopping>>
  BY DEF vars, sourceVars, clickhouseVars, supervisorVars, Request, Stop, Scheduling,
     PlanOrFinalizeFails
<1>2. /\ \A k \in Keys : Fresh(target.rows, k) => Fresh(target.rows, k)'
      /\ \A k \in Keys : Fresh(staging.rows, k) => Fresh(staging.rows, k)'
      /\ Known' = Known /\ Running' = Running
  BY <1>1 DEF Fresh, Known, Loaders, Snapshot, Running
<1>3. /\ InvSource' /\ OTables' /\ OKnown' /\ OProgress' /\ OMemory'
      /\ OControl' /\ OCheckpoint'
      /\ \A v \in Workers : TaskHeld(task[v])'
  BY <1>1, <1>2, Framed
<1>4. OTruth'
  BY <1>1 DEF OInv, OSafe, OTruth, Truthful
<1> QED
  BY <1>3, <1>4 DEF OSafe, OTasks

\* Steps between two passes of step() that change the state in memory, or
\* collect a task: nothing is claimed that was not.
LEMMA MemoryHeld ==
    ASSUME OInv, up, pc = "idle",
           UNCHANGED <<sourceVars, clickhouseVars, nextSid, up, stopping, pc, planned,
                       loaded>>,
           st'.sid = st.sid, st'.sver = st.sver, st'.plan = st.plan,
           \/ st'.phase = st.phase \/ st'.phase = "resync"
           \/ st'.phase = "new" /\ st.phase = "snapshot" /\ ~loaded,
           \/ st'.last = st.last
           \/ st'.last <= cur /\ st.phase # "snapshot" /\ Held(target.rows, st'.last),
           done \subseteq done',
           st.sid = staging.tag => \A p \in done' : p \in done \/ PartHeld(p),
           \A v \in Workers : task'[v] = task[v] \/ task'[v] = NoTask
    PROVE  OSafe'
<1> USE DEF OInv, OSafe
<1>u. UNCHANGED <<cur, minValid, row, nextSid, target, staging, prog, saved, up, stopping,
                  pc, planned, loaded>>
  BY DEF sourceVars, clickhouseVars
<1>1. Known' \subseteq Known
  <2>1. Snapshot(st)' = Snapshot(st) /\ Snapshot(saved)' = Snapshot(saved)
    BY <1>u DEF Snapshot
  <2>2. \A v \in Loaders' : v \in Loaders /\ Snapshot(task[v])' = Snapshot(task[v])
    BY NoTaskFields DEF Loaders, Snapshot
  <2> QED
    BY <2>1, <2>2 DEF Known
<1>2. InvSource' /\ OTables' /\ OTruth'
  BY <1>u DEF InvSource, OTables, OTruth, Truthful
<1>3. OKnown' /\ OProgress'
  <2>1. \A k \in Keys : Fresh(staging.rows, k) => Fresh(staging.rows, k)'
    BY <1>u DEF Fresh
  <2> QED
    BY <1>1, <1>u, <2>1, KnownKept
<1>p. \A p : PartHeld(p) => PartHeld(p)'
  BY <1>u DEF PartHeld, Due, Fresh
<1>4. OMemory'
  BY <1>p, <1>u DEF OMemory
<1>5. OControl'
  BY <1>u DEF OControl
<1>6. OCheckpoint'
  BY <1>u DEF OCheckpoint, States, Held, Due, Fresh
<1>7. ASSUME NEW v \in Workers PROVE TaskHeld(task[v])'
  <2>1. CASE task'[v] = NoTask
    BY <2>1, NoTaskHeld
  <2>2. CASE task'[v] = task[v]
    <3>1. TaskHeld(task[v])
      BY DEF OTasks
    <3>2. LoaderSound(task[v]) => LoaderSound(task[v])'
      BY <1>u, <2>2 DEF LoaderSound, Carried, Fresh, Due, NoPlan
    <3>3. SnapRunning(task[v]) => SnapRunning(task[v])'
      BY <1>p, <1>u, <2>2 DEF SnapRunning
    <3>4. CdcRunning(task[v]) => CdcRunning(task[v])'
      BY <1>u, <2>2 DEF CdcRunning, Held, Carried, Fresh, Due
    <3>5. Truthful(task[v].buf) => Truthful(task[v].buf)'
      BY <1>u, <2>2 DEF Truthful
    <3> QED
      BY <2>2, <3>1, <3>2, <3>3, <3>4, <3>5 DEF TaskHeld
  <2> QED
    BY <2>1, <2>2
<1> QED
  BY <1>2, <1>3, <1>4, <1>5, <1>6, <1>7 DEF OTasks

LEMMA RequestsHeld == ASSUME OInv, CheckRequests \/ ResumeReplan PROVE OSafe'
<1>1. st \in TableState
  BY Typing DEF OInv
<1>2. /\ st'.sid = st.sid /\ st'.sver = st.sver /\ st'.plan = st.plan /\ st'.last = st.last
      /\ \/ st'.phase = "resync"
         \/ st'.phase = "new" /\ st.phase = "snapshot" /\ ~loaded
  BY <1>1 DEF CheckRequests, AfterRequest, ResumeReplan, Resuming, TableState
<1> QED
  BY <1>2, MemoryHeld DEF CheckRequests, ResumeReplan, Resuming, Scheduling

LEMMA CollectHeld == ASSUME OInv, NEW w \in Workers, Collect(w) PROVE OSafe'
<1> DEFINE t == task[w]
<1>1. /\ st \in TableState /\ t.ver \in Nat /\ st.phase \in {"new", "snapshot", "cdc", "resync"}
  BY Typing, TaskFacts, TaskTyping DEF OInv, TableState
<1>2. /\ up /\ pc = "idle" /\ ~t.orphan /\ t.pc = "result" /\ TaskHeld(t)
      /\ \A v \in Workers : task'[v] = task[v] \/ task'[v] = NoTask
  BY TaskFacts, Typing DEF Collect, CollectSnapshot, CollectCdc, CollectResync,
     CollectFailure, Collectable, Running, OInv
<1>3. CASE CollectSnapshot(w)
  <2>1. t.res = "done" => PartHeld(t.part)
    BY <1>2, <1>3 DEF CollectSnapshot, TaskHeld, SnapRunning
  <2>2. st' = st /\ done \subseteq done' /\ \A p \in done' : p \in done \/ PartHeld(p)
    BY <1>3, <2>1 DEF CollectSnapshot
  <2> QED
    BY <1>2, <1>3, <2>2, MemoryHeld DEF CollectSnapshot
<1>4. CASE CollectCdc(w)
  <2>1. t.ver <= cur /\ st.phase # "snapshot" /\ Held(target.rows, t.ver)
    BY <1>2, <1>4 DEF CollectCdc, TaskHeld, CdcRunning
  <2>2. /\ st'.sid = st.sid /\ st'.sver = st.sver /\ st'.plan = st.plan
        /\ st'.phase = st.phase /\ st'.last = t.ver
    BY <1>1, <1>4 DEF CollectCdc, TableState
  <2> QED
    BY <1>2, <1>4, <2>1, <2>2, MemoryHeld DEF CollectCdc
<1>5. CASE CollectResync(w)
  <2>1. /\ st'.sid = st.sid /\ st'.sver = st.sver /\ st'.plan = st.plan
        /\ st'.phase = "resync" /\ st'.last = st.last
    BY <1>1, <1>5 DEF CollectResync, TableState
  <2> QED
    BY <1>2, <1>5, <2>1, MemoryHeld DEF CollectResync
<1>6. CASE CollectFailure(w)
  BY <1>2, <1>6, MemoryHeld DEF CollectFailure
<1> QED
  BY <1>3, <1>4, <1>5, <1>6 DEF Collect

\* While nothing of the tables changes, loaders stay sound.
LEMMA LoadersKept ==
    ASSUME OInv, UNCHANGED <<cur, row, staging>>, NEW v \in Workers,
           task[v].kind = "snap", task[v].pc # "result"
    PROVE  LoaderSound(task[v]) /\ (task'[v] = task[v] => LoaderSound(task[v])')
BY TaskFacts DEF TaskHeld, LoaderSound, Carried, Fresh, Due, NoPlan

\* The progress of the staged snapshot is read back: its done parts are there.
LEMMA ResumeLoadHeld == ASSUME OInv, ResumeLoad PROVE OSafe'
<1> USE DEF OInv, OSafe
<1>u. UNCHANGED <<cur, minValid, row, nextSid, target, staging, prog, st, saved, up,
                  stopping, pc, planned, task>>
  BY DEF ResumeLoad, sourceVars, clickhouseVars
<1>k. Known' = Known /\ Running' = Running
  BY <1>u DEF Known, Loaders, Snapshot, Running
<1>0. st.phase = "snapshot" /\ ~loaded /\ up /\ pc = "idle" /\ st.sid # target.tag
      /\ st.sid = staging.tag /\ st.sid # 0 /\ loaded'
  BY DEF ResumeLoad, Resuming, Scheduling, TargetIsOurs, StagingIsOurs, OTables, TypeInv,
     InvDrawn, Sids
<1>1. InvSource' /\ OTables' /\ OTruth'
  BY <1>u DEF InvSource, OTables, OTruth, Truthful
<1>2. OKnown' /\ OProgress'
  <2>1. \A k \in Keys : Fresh(staging.rows, k) => Fresh(staging.rows, k)'
    BY <1>u DEF Fresh
  <2> QED
    BY <1>k, <1>u, <2>1, KnownKept
<1>3. OMemory'
  <2>1. Snapshot(st) \in Known
    BY DEF Known
  <2>2. \A p \in done' : p \in Parts /\ prog[st.sid][p].done
    BY DEF ResumeLoad
  <2>3. \A p \in done' : PartHeld(p)
    BY <1>0, <2>1, <2>2, SnapshotFields DEF PartHeld, OProgress, Passed
  <2> QED
    BY <1>0, <1>u, <2>3 DEF OMemory, PartHeld, Due, Fresh
<1>4. OControl'
  BY <1>0, <1>k, <1>u DEF OControl
<1>5. OCheckpoint'
  BY <1>u DEF OCheckpoint, States, Held, Due, Fresh
<1>6. ASSUME NEW v \in Workers PROVE TaskHeld(task[v])'
  <2>1. TaskHeld(task[v]) /\ task'[v] = task[v]
    BY <1>u DEF OTasks
  <2>2. task[v].kind \in {"snap", "cdc"} => task[v].orphan
    BY <1>0, <2>1, TaskFacts, TaskTyping DEF TaskHeld, SnapRunning, CdcRunning
  <2>3. Truthful(task[v].buf) => Truthful(task[v].buf)'
    BY <1>u DEF Truthful
  <2> QED
    BY <1>u, <2>1, <2>2, <2>3, LoadersKept DEF TaskHeld
<1> QED
  BY <1>1, <1>2, <1>3, <1>4, <1>5, <1>6 DEF OTasks

LEMMA FlushHeld == ASSUME OInv, Flush PROVE OSafe'
<1> USE DEF OInv, OSafe
<1>u. /\ UNCHANGED <<cur, minValid, row, nextSid, target, staging, prog, st, up,
                     stopping, pc, planned, loaded, done, task>>
      /\ saved' = st /\ pc = "idle" /\ up
  BY DEF Flush, sourceVars
<1>k. Known' \subseteq Known /\ Running' = Running
  BY <1>u DEF Known, Loaders, Snapshot, Running
<1>1. InvSource' /\ OTables' /\ OTruth'
  BY <1>u DEF InvSource, OTables, OTruth, Truthful
<1>2. OKnown' /\ OProgress'
  <2>1. \A k \in Keys : Fresh(staging.rows, k) => Fresh(staging.rows, k)'
    BY <1>u DEF Fresh
  <2> QED
    BY <1>k, <1>u, <2>1, KnownKept
<1>3. OMemory'
  BY <1>u DEF OMemory, PartHeld, Due, Fresh
<1>4. OControl'
  BY <1>k, <1>u DEF OControl
<1>5. OCheckpoint'
  BY <1>u DEF OCheckpoint, States, Held, Due, Fresh
<1>6. ASSUME NEW v \in Workers PROVE TaskHeld(task[v])'
  <2>1. TaskHeld(task[v]) /\ task'[v] = task[v]
    BY <1>u DEF OTasks
  <2> QED
    BY <1>u, <2>1 DEF TaskHeld, Truthful, LoaderSound, SnapRunning, CdcRunning, PartHeld,
       Held, Carried, Fresh, Due, NoPlan
<1> QED
  BY <1>1, <1>2, <1>3, <1>4, <1>5, <1>6 DEF OTasks

\* A restart knows what sync_state says and finds orphans at work.
LEMMA RestartHeld == ASSUME OInv, Restart PROVE OSafe'
<1> USE DEF OInv, OSafe
<1>u. /\ UNCHANGED <<cur, minValid, row, nextSid, target, staging, prog, saved,
                     stopping, pc, planned, loaded, done, task>>
      /\ st' = saved /\ up' = TRUE /\ ~up
  BY DEF Restart, sourceVars, clickhouseVars
<1>0. ~loaded /\ pc = "idle" /\ Running = {}
  BY <1>u DEF OControl
<1>k. Known' \subseteq Known /\ Running' = Running
  BY <1>u DEF Known, Loaders, Snapshot, Running
<1>1. InvSource' /\ OTables' /\ OTruth'
  BY <1>u DEF InvSource, OTables, OTruth, Truthful
<1>2. OKnown' /\ OProgress'
  <2>1. \A k \in Keys : Fresh(staging.rows, k) => Fresh(staging.rows, k)'
    BY <1>u DEF Fresh
  <2> QED
    BY <1>k, <1>u, <2>1, KnownKept
<1>3. OMemory' /\ OControl'
  BY <1>0, <1>k, <1>u DEF OMemory, OControl
<1>4. OCheckpoint'
  BY <1>u DEF OCheckpoint, States, Held, Due, Fresh
<1>5. ASSUME NEW v \in Workers PROVE TaskHeld(task[v])'
  <2>1. TaskHeld(task[v]) /\ task'[v] = task[v]
    BY <1>u DEF OTasks
  <2>2. task[v].kind \in {"snap", "cdc"} => task[v].orphan
    BY <1>0 DEF Running
  <2>3. Truthful(task[v].buf) => Truthful(task[v].buf)'
    BY <1>u DEF Truthful
  <2> QED
    BY <1>u, <2>1, <2>2, <2>3, LoadersKept DEF TaskHeld
<1> QED
  BY <1>1, <1>2, <1>3, <1>4, <1>5 DEF OTasks

\* The end of a supervisor leaves orphans, or none, and no memory.
LEMMA EndHeld == ASSUME OInv, Exit \/ Crash PROVE OSafe'
<1> USE DEF OInv, OSafe
<1>u. /\ UNCHANGED <<cur, minValid, row, nextSid, target, staging, prog>>
      /\ saved' = st \/ saved' = saved
      /\ st' = NewState /\ pc' = "idle" /\ loaded' = FALSE /\ up' = FALSE
  BY DEF Exit, Crash, LoseMemory, sourceVars, clickhouseVars
<1>n. /\ NewState.phase = "new" /\ NewState.last = 0 /\ NewState.sid = 0
      /\ NewState.sver = 0 /\ NewState.plan = NoPlan
  BY DEF NewState
<1>t. \A v \in Workers :
         \/ task'[v] = NoTask
         \/ task'[v].orphan /\ (task'[v] = task[v] \/ task'[v] = [task[v] EXCEPT !.orphan = TRUE])
  <2>1. \A v \in Workers : [task[v] EXCEPT !.orphan = TRUE].orphan
    BY TaskFacts DEF Task
  <2> QED
    BY <2>1 DEF Exit, Crash
<1>f. \A v \in Workers : LET x == [task[v] EXCEPT !.orphan = TRUE] IN
         /\ x.kind = task[v].kind /\ x.pc = task[v].pc /\ x.sid = task[v].sid
         /\ x.sver = task[v].sver /\ x.plan = task[v].plan /\ x.part = task[v].part
         /\ x.pos = task[v].pos /\ x.eof = task[v].eof /\ x.buf = task[v].buf
  BY TaskFacts DEF Task
<1>k. /\ \A a \in Known' : a \in Known \/ a = Snapshot(NewState)
      /\ Running' = {}
  <2>1. \A v \in Loaders' : v \in Loaders /\ Snapshot(task[v])' = Snapshot(task[v])
    <3> SUFFICES ASSUME NEW v \in Workers, task'[v].kind = "snap", task'[v].pc # "result"
                 PROVE  v \in Loaders /\ Snapshot(task[v])' = Snapshot(task[v])
      BY DEF Loaders
    <3>1. task'[v] # NoTask
      BY NoTaskFields
    <3>2. /\ task'[v].kind = task[v].kind /\ task'[v].pc = task[v].pc
          /\ task'[v].sid = task[v].sid /\ task'[v].sver = task[v].sver
          /\ task'[v].plan = task[v].plan
      BY <1>t, <1>f, <3>1
    <3> QED
      BY <3>2 DEF Loaders, Snapshot
  <2>2. Snapshot(st)' = Snapshot(NewState) /\ Snapshot(saved)' \in {Snapshot(st), Snapshot(saved)}
    BY <1>u DEF Snapshot
  <2>3. Running' = {}
    BY <1>t, NoTaskFields DEF Running
  <2> QED
    BY <2>1, <2>2, <2>3 DEF Known
<1>1. InvSource' /\ OTables' /\ OTruth'
  BY <1>u DEF InvSource, OTables, OTruth, Truthful
<1>2. OKnown' /\ OProgress'
  <2>1. \A k \in Keys : Fresh(staging.rows, k) => Fresh(staging.rows, k)'
    BY <1>u DEF Fresh
  <2>2. SnapshotSound(Snapshot(NewState)) /\ Snapshot(NewState).plan = NoPlan
    BY <1>n, SnapshotFields, TaskFacts, Typing DEF SnapshotSound, OTables
  <2> QED
    BY <1>k, <1>u, <2>1, <2>2, KnownKept
<1>3. OMemory' /\ OControl'
  BY <1>k, <1>n, <1>u DEF OMemory, OControl
<1>4. OCheckpoint'
  <2>1. 0 <= cur /\ target.base \in Nat /\ 0 <= target.base
    BY Typing, TableTyping
  <2>2. target.tag # 0 => Held(target.rows, 0)
    BY <2>1, HeldEarlier DEF OCheckpoint
  <2>3. saved' \in States
    BY <1>u DEF States
  <2>4. /\ saved'.last <= cur
        /\ target.tag # 0 => Held(target.rows, saved'.last)
        /\ saved'.phase = "cdc" => target.tag # 0
        /\ saved'.phase = "snapshot" =>
              /\ saved'.sid = target.tag => saved'.last <= target.base
              /\ saved'.sid = staging.tag => saved'.last <= staging.base
    BY <2>3 DEF OCheckpoint
  <2>5. /\ st'.last = 0 /\ st'.phase = "new"
        /\ target.tag # 0 => Held(target.rows, st'.last)
    BY <1>n, <1>u, <2>2
  <2>6. /\ Held(target.rows, st.last)' <=> Held(target.rows, st'.last)
        /\ Held(target.rows, saved.last)' <=> Held(target.rows, saved'.last)
        /\ Held(target.rows, target.base)' <=> Held(target.rows, target.base)
    BY <1>u DEF Held, Due, Fresh
  <2>7. target.tag # 0 => Held(target.rows, target.base)
    BY DEF OCheckpoint
  <2> QED
    BY <1>u, <2>1, <2>4, <2>5, <2>6, <2>7 DEF OCheckpoint, States
<1>5. ASSUME NEW v \in Workers PROVE TaskHeld(task[v])'
  <2>1. CASE task'[v] = NoTask
    BY <2>1, NoTaskHeld
  <2>2. CASE task'[v] # NoTask
    <3>1. /\ task'[v].orphan /\ task'[v].kind = task[v].kind /\ task'[v].pc = task[v].pc
          /\ task'[v].sid = task[v].sid /\ task'[v].plan = task[v].plan
          /\ task'[v].part = task[v].part /\ task'[v].pos = task[v].pos
          /\ task'[v].eof = task[v].eof /\ task'[v].buf = task[v].buf
      BY <1>t, <1>f, <2>2
    <3>2. TaskHeld(task[v])
      BY DEF OTasks
    <3>3. Truthful(task[v].buf)'
      BY <1>u, <3>1, <3>2 DEF TaskHeld, Truthful
    <3>4. LoaderSound(task[v]) => LoaderSound(task[v])'
      BY <1>u, <3>1 DEF LoaderSound, Carried, Fresh, Due, NoPlan
    <3> QED
      BY <3>1, <3>2, <3>3, <3>4 DEF TaskHeld
  <2> QED
    BY <2>1, <2>2
<1> QED
  BY <1>1, <1>2, <1>3, <1>4, <1>5 DEF OTasks

LEMMA OrphanExitHeld == ASSUME OInv, NEW w \in Workers, OrphanExit(w) PROVE OSafe'
<1>u. /\ WorkerFrame /\ UNCHANGED <<target, staging, prog>>
      /\ task'[w] = NoTask /\ \A v \in Workers : v # w => task'[v] = task[v]
  BY Typing DEF OrphanExit, Becomes, OInv
<1>1. Known' \subseteq Known
  <2>1. \A v \in Loaders' : v \in Loaders /\ Snapshot(task[v])' = Snapshot(task[v])
    BY <1>u, NoTaskFields DEF Loaders, Snapshot
  <2>2. Snapshot(st)' = Snapshot(st) /\ Snapshot(saved)' = Snapshot(saved)
    BY <1>u, FrameVars DEF Snapshot
  <2> QED
    BY <2>1, <2>2 DEF Known
<1>2. Running' = Running
  BY <1>u, NoTaskFields DEF Running, OrphanExit
<1>3. /\ \A k \in Keys : Fresh(target.rows, k) => Fresh(target.rows, k)'
      /\ \A k \in Keys : Fresh(staging.rows, k) => Fresh(staging.rows, k)'
  BY <1>u, FrameVars DEF Fresh
<1>4. /\ InvSource' /\ OTables' /\ OKnown' /\ OProgress' /\ OMemory'
      /\ OControl' /\ OCheckpoint'
      /\ \A v \in Workers : task'[v] = task[v] => TaskHeld(task[v])'
  BY <1>u, <1>1, <1>2, <1>3, FrameVars, Framed
<1>5. OTruth'
  BY <1>u, FrameVars DEF OInv, OSafe, OTruth, Truthful
<1> QED
  BY <1>u, <1>4, <1>5, NoTaskHeld DEF OSafe, OTasks

LEMMA SubmitHeld == ASSUME OInv, SubmitStep PROVE OSafe'
<1> USE DEF OInv, OSafe
<1>u. /\ UNCHANGED <<cur, minValid, row, nextSid, target, staging, prog, st, saved, up,
                     stopping, pc, planned, loaded, done>>
      /\ up /\ pc = "idle"
  BY DEF SubmitStep, SubmitSnapshot, SubmitCdc, Scheduling, sourceVars, clickhouseVars,
     supervisorVars
<1>f. /\ \A k \in Keys : Fresh(target.rows, k) => Fresh(target.rows, k)'
      /\ \A k \in Keys : Fresh(staging.rows, k) => Fresh(staging.rows, k)'
  BY <1>u DEF Fresh
<1>r. OTruth'
  BY <1>u DEF OTruth, Truthful
<1>s. Snapshot(st)' = Snapshot(st) /\ Snapshot(saved)' = Snapshot(saved)
  BY <1>u DEF Snapshot
<1>g. ASSUME NEW w \in Workers, NEW n, task' = [task EXCEPT ![w] = n], TaskHeld(n),
             n.kind = "snap" => Snapshot(n) = Snapshot(st)
      PROVE  OSafe'
  <2>1. task'[w] = n /\ \A v \in Workers : v # w => task'[v] = task[v]
    BY <1>g, Typing
  <2>2. \A v \in Loaders' : Snapshot(task[v])' \in Known
    <3> SUFFICES ASSUME NEW v \in Loaders' PROVE Snapshot(task[v])' \in Known
      OBVIOUS
    <3>1. CASE v = w
      BY <1>g, <2>1, <3>1 DEF Loaders, Snapshot, Known
    <3>2. CASE v # w
      BY <2>1, <3>2 DEF Loaders, Snapshot, Known
    <3> QED
      BY <3>1, <3>2
  <2>3. Known' \subseteq Known
    BY <1>s, <2>2 DEF Known
  <2>4. TaskHeld(task[w])'
    BY <1>g, <1>u, <2>1 DEF TaskHeld, Truthful, LoaderSound, SnapRunning, CdcRunning,
       PartHeld, Held, Carried, Fresh, Due, NoPlan
  <2>5. /\ InvSource' /\ OTables' /\ OKnown' /\ OProgress' /\ OMemory'
        /\ OControl' /\ OCheckpoint'
        /\ \A v \in Workers : task'[v] = task[v] => TaskHeld(task[v])'
    BY <1>u, <1>f, <2>3, Framed
  <2> QED
    BY <1>r, <2>1, <2>4, <2>5 DEF OTasks
<1>1. ASSUME NEW w \in Workers, SubmitSnapshot(w) PROVE OSafe'
  <2>1. st.phase = "snapshot" /\ loaded /\ st \in TableState
    BY <1>1, Typing DEF SubmitSnapshot
  <2>2. PICK p \in {st.plan[k] : k \in Keys} \ done : task' = [task EXCEPT ![w] =
           [NoTask EXCEPT !.kind = "snap", !.pc = "start", !.sid = st.sid,
                          !.sver = st.sver, !.plan = st.plan, !.part = p]]
    BY <1>1 DEF SubmitSnapshot
  <2>3. PICK n : n = [NoTask EXCEPT !.kind = "snap", !.pc = "start", !.sid = st.sid,
                          !.sver = st.sver, !.plan = st.plan, !.part = p]
    OBVIOUS
  <2>4. /\ n.kind = "snap" /\ n.pc = "start" /\ n.sid = st.sid /\ n.sver = st.sver
        /\ n.plan = st.plan /\ n.part = p /\ n.res = "none" /\ n.buf = Empty /\ ~n.eof
        /\ ~n.orphan
    BY <2>3 DEF NoTask
  <2>5. st.sid = staging.tag /\ st.sid # 0
    BY <2>1, <2>2 DEF OMemory, TypeInv, InvDrawn, Sids
  <2>6. st.plan # NoPlan
    <3>1. st.plan \in Plans /\ 1 \in Keys
      BY <2>1, SourceAssumption DEF TypeInv, InvDrawn, Keys
    <3>2. st.plan[1] \in Parts /\ NoPlan[1] = 0
      BY <3>1 DEF Plans, NoPlan
    <3> QED
      BY <3>2 DEF Parts
  <2>7. LoaderSound(n)
    BY <2>4, <2>6, EmptyTruthful DEF LoaderSound
  <2>8. SnapRunning(n)
    BY <2>1, <2>4, <2>5 DEF SnapRunning
  <2>9. TaskHeld(n) /\ Snapshot(n) = Snapshot(st)
    BY <2>4, <2>7, <2>8, EmptyTruthful DEF TaskHeld, Snapshot
  <2> QED
    BY <1>g, <2>2, <2>3, <2>9
<1>2. ASSUME NEW w \in Workers, SubmitCdc(w) PROVE OSafe'
  <2>1. PICK n : n = [NoTask EXCEPT !.kind = "cdc", !.pc = "open", !.last = st.last]
    OBVIOUS
  <2>2. n.kind = "cdc" /\ n.pc = "open" /\ n.last = st.last /\ n.buf = Empty
    BY <2>1 DEF NoTask
  <2>3. CdcRunning(n)
    BY <1>2, <2>2 DEF SubmitCdc, CdcRunning, OCheckpoint, States
  <2>4. TaskHeld(n)
    BY <2>2, <2>3, EmptyTruthful DEF TaskHeld
  <2> QED
    BY <1>2, <1>g, <2>1, <2>2, <2>4 DEF SubmitCdc
<1> QED
  BY <1>1, <1>2 DEF SubmitStep

-----------------------------------------------------------------------------
(* Planning and cut-over.  Only orphans run meanwhile; a table that comes   *)
(* to be named staging is new, or was live and holds its whole snapshot.    *)

StagingSuits(sid) ==
    sid # 0 /\ sid = staging'.tag => staging' = staging \/ Held(staging'.rows, staging'.base)

LEMMA OrphansHeld ==
    ASSUME OInv, UNCHANGED <<cur, row, task>>, Running = {},
           \A a \in Known : StagingSuits(a.sid)
    PROVE  OTasks'
<1> SUFFICES ASSUME NEW v \in Workers PROVE TaskHeld(task[v])'
  BY DEF OTasks
<1>1. TaskHeld(task[v]) /\ task' = task
  BY TaskFacts
<1>2. task[v].kind \in {"snap", "cdc"} => task[v].orphan
  BY DEF Running
<1>3. Truthful(task[v].buf)'
  BY <1>1 DEF TaskHeld, Truthful
<1>4. ASSUME task[v].kind = "snap", task[v].pc # "result" PROVE LoaderSound(task[v])'
  <2>1. StagingSuits(task[v].sid) /\ task[v].sid # 0
    BY <1>4, LoaderKnown, SnapshotFields DEF Sids
  <2> QED
    BY <1>1, <1>4, <2>1
       DEF TaskHeld, LoaderSound, StagingSuits, Held, Carried, Fresh, Due, NoPlan
<1> QED
  BY <1>1, <1>2, <1>3, <1>4 DEF TaskHeld

LEMMA ProgressHeld ==
    ASSUME OInv, UNCHANGED <<cur, row, prog>>, Known' \subseteq Known,
           \A a \in Known : StagingSuits(a.sid)
    PROVE  OProgress'
BY DEF OInv, OSafe, OProgress, StagingSuits, Held, Passed, Fresh, Due

LEMMA PlanBeginHeld == ASSUME OInv, PlanBegin PROVE OSafe'
<1> USE DEF OInv, OSafe
<1>u. /\ UNCHANGED <<cur, minValid, row, nextSid, staging, prog, st, saved, up,
                     stopping, loaded, done, task>>
      /\ up /\ ~stopping /\ Running = {} /\ st.phase \in {"new", "resync"}
      /\ pc' = "plan_drop" /\ planned' = SnapshotVersion
  BY DEF PlanBegin, Scheduling, MayPlan, sourceVars
<1>k. Known' = Known /\ Running' = Running
  BY <1>u DEF Known, Loaders, Snapshot, Running
<1>1. \/ target' = target
      \/ /\ target.tag = 0 /\ target'.tag = 0 /\ target'.base = 0 /\ target'.rows = Empty
  <2>1. ~target.exists => target.tag = 0
    BY DEF OTables
  <2> QED
    BY <2>1 DEF PlanBegin, NoTable
<1>2. InvSource' /\ OTables' /\ OTruth'
  <2>1. 0 <= cur
    BY Typing
  <2> QED
    BY <1>1, <1>u, <2>1, EmptyTruthful DEF InvSource, OTables, OTruth, Truthful
<1>3. OKnown'
  BY <1>1, <1>k, <1>u DEF OKnown, SnapshotSound, NoPlan
<1>4. OProgress' /\ OTasks'
  BY <1>k, <1>u, OrphansHeld, ProgressHeld DEF StagingSuits
<1>5. OMemory' /\ OCheckpoint'
  <2>1. OMemory'
    BY <1>u DEF OMemory
  <2>2. \A s \in States : s.phase = "snapshot" =>
           (s.sid = staging.tag => s.last <= staging.base) /\ s.sid # 0
    BY StatesKnown DEF OCheckpoint
  <2>3. States' = States
    BY <1>u DEF States
  <2> QED
    BY <1>1, <1>u, <2>1, <2>2, <2>3 DEF OCheckpoint, Held, Due, Fresh
<1>6. OControl'
  <2>1. planned' = cur /\ cur <= cur
    BY <1>u, Typing DEF SnapshotVersion, InvSource
  <2>2. st.last <= cur /\ saved.last <= cur
    BY DEF OCheckpoint, States
  <2> QED
    BY <1>k, <1>u, <2>1, <2>2 DEF OControl
<1> QED
  BY <1>2, <1>3, <1>4, <1>5, <1>6

LEMMA DropHeld == ASSUME OInv, PlanDropStaging \/ FinalizeDropStaging PROVE OSafe'
<1> USE DEF OInv, OSafe
<1>u. /\ UNCHANGED <<cur, minValid, row, nextSid, target, prog, st, saved, up,
                     stopping, planned, loaded, done, task>>
      /\ staging' = NoTable /\ up
      /\ \/ pc = "plan_drop" /\ pc' = "plan_create"
         \/ pc = "fin_drop" /\ pc' = "fin_save"
  BY DEF PlanDropStaging, FinalizeDropStaging, sourceVars
<1>0. /\ Running = {} /\ (st.phase = "snapshot" => st.sid = target.tag /\ st.sid # 0)
      /\ NoTable.tag = 0 /\ NoTable.base = 0 /\ NoTable.rows = Empty
  BY <1>u DEF OControl, TypeInv, InvDrawn, Sids, NoTable
<1>k. Known' = Known /\ Running' = Running
  BY <1>u DEF Known, Loaders, Snapshot, Running
<1>1. InvSource' /\ OTables' /\ OTruth'
  <2>1. 0 <= cur /\ nextSid \in Nat
    BY Typing
  <2> QED
    BY <1>0, <1>u, <2>1, EmptyTruthful DEF InvSource, OTables, OTruth, Truthful
<1>2. OKnown'
  BY <1>0, <1>k, <1>u DEF OKnown, SnapshotSound, NoPlan
<1>3. OProgress' /\ OTasks'
  BY <1>0, <1>k, <1>u, OrphansHeld, ProgressHeld DEF StagingSuits
<1>4. OMemory' /\ OControl'
  BY <1>0, <1>k, <1>u DEF OMemory, OControl
<1>5. OCheckpoint'
  BY <1>0, <1>u, CheckpointKept, StatesKnown
<1> QED
  BY <1>1, <1>2, <1>3, <1>4, <1>5

LEMMA PlanCreateHeld == ASSUME OInv, PlanCreateStaging PROVE OSafe'
<1> USE DEF OInv, OSafe
<1>u. /\ UNCHANGED <<cur, minValid, row, target, prog, st, saved, up, stopping, planned,
                     loaded, done, task>>
      /\ staging' = CreateTable(nextSid, planned) /\ nextSid \in Sids
      /\ nextSid' = nextSid + 1 /\ up /\ pc = "plan_create" /\ pc' = "plan_save"
  BY DEF PlanCreateStaging, sourceVars
<1>0. /\ Running = {} /\ st.phase # "snapshot" /\ planned <= cur
      /\ staging'.tag = nextSid /\ staging'.base = planned /\ staging'.exists
      /\ staging'.rows = Empty /\ nextSid \in Nat /\ nextSid # 0
  BY <1>u DEF OControl, CreateTable, Sids
<1>k. Known' = Known /\ Running' = Running
  BY <1>u DEF Known, Loaders, Snapshot, Running
<1>f. \A a \in Known : a.sid # nextSid
  BY <1>0, KnownTyping DEF OKnown, SnapshotSound
<1>1. InvSource' /\ OTables' /\ OTruth'
  <2>1. target.tag \in Nat /\ target.tag < nextSid
    BY Typing, TableTyping DEF OTables
  <2>2. nextSid' <= MaxSnapshots + 1
    BY <1>0, <1>u, SyncAssumption DEF Sids
  <2>3. \A s \in Sids : s >= nextSid' => s >= nextSid
    BY <1>0, <1>u DEF Sids
  <2>4. OTables'
    BY <1>0, <1>u, <2>1, <2>2, <2>3 DEF OTables, NoProgress
  <2> QED
    BY <1>0, <1>u, <2>4, EmptyTruthful DEF InvSource, OTruth, Truthful
<1>2. OKnown'
  <2>1. \A a \in Known : a.sid < nextSid'
    BY <1>0, <1>u, KnownTyping DEF OKnown, SnapshotSound
  <2> QED
    BY <1>0, <1>f, <1>k, <1>u, <2>1 DEF OKnown, SnapshotSound, NoPlan
<1>3. OProgress' /\ OTasks'
  BY <1>0, <1>f, <1>k, <1>u, OrphansHeld, ProgressHeld DEF StagingSuits
<1>4. OMemory' /\ OCheckpoint'
  <2>1. OMemory'
    BY <1>0, <1>u DEF OMemory
  <2>2. \A s \in States : s.sid # staging'.tag
    BY <1>0, <1>f, StatesKnown
  <2> QED
    BY <1>u, <2>1, <2>2, CheckpointKept
<1>5. OControl'
  <2>1. \A p \in Parts : prog[nextSid][p] = NoProgress
    BY <1>0, <1>u DEF OTables
  <2> QED
    BY <1>0, <1>f, <1>k, <1>u, <2>1 DEF OControl, NoProgress
<1> QED
  BY <1>1, <1>2, <1>3, <1>4, <1>5

LEMMA PlanSaveHeld == ASSUME OInv, PlanSave PROVE OSafe'
<1> USE DEF OInv, OSafe
<1>p. PICK p \in Plans : st' = Planned(p)
  BY DEF PlanSave
<1>u. /\ UNCHANGED <<cur, minValid, row, nextSid, target, staging, prog, up, stopping, task>>
      /\ saved' = saved \/ saved' = st'
      /\ up /\ pc = "plan_save" /\ pc' = "idle" /\ loaded' /\ done' = {}
  BY DEF PlanSave, sourceVars
<1>s. /\ st'.phase = "snapshot" /\ st'.sid = staging.tag /\ st'.sver = planned
      /\ st'.plan = p /\ st'.last = st.last
  BY <1>p, PlannedFields, Typing
<1>0. /\ Running = {} /\ staging.tag # 0 /\ staging.base = planned
      /\ st.last <= planned /\ saved.last <= planned
      /\ \A a \in Known : a.sid # staging.tag
      /\ \A q \in Parts : prog[staging.tag][q] = NoProgress
  BY <1>u DEF OControl
<1>k. /\ \A a \in Known' : a \in Known \/ a = Snapshot(st')
      /\ Running' = Running
  BY <1>u DEF Known, Loaders, Snapshot, Running
<1>1. InvSource' /\ OTables' /\ OTruth'
  BY <1>u DEF InvSource, OTables, OTruth, Truthful
<1>f. /\ Snapshot(st').sid = staging.tag /\ Snapshot(st').sver = planned
      /\ Snapshot(st').plan = p
  BY <1>s DEF Snapshot
<1>2. OKnown'
  <2>1. SnapshotSound(Snapshot(st'))
    BY <1>0, <1>f DEF SnapshotSound, OTables
  <2>2. \A a \in Known' : SnapshotSound(a)'
    BY <1>k, <1>u, <2>1 DEF OKnown, SnapshotSound
  <2> QED
    BY <1>0, <1>f, <1>k, <2>2 DEF OKnown, NoPlan
<1>3. OProgress'
  <2> SUFFICES ASSUME NEW a \in Known', a.sid # 0, a.sid = staging.tag, NEW k \in Keys,
                      Passed(a, k)
               PROVE  FALSE
    BY <1>u DEF OProgress, Passed
  <2>1. a.plan[k] \in Parts /\ prog[a.sid][a.plan[k]] = NoProgress
    BY <1>0, <1>f, <1>k DEF Passed
  <2> QED
    BY <2>1 DEF Passed, NoProgress, Keys
<1>4. OMemory'
  BY <1>s, <1>u, <1>0 DEF OMemory, OTables
<1>5. OControl'
  BY <1>0, <1>k, <1>u DEF OControl
<1>6. OCheckpoint'
  <2>1. \A s \in States : s.sid # staging.tag
    BY <1>0, StatesKnown
  <2>2. /\ st'.last <= cur /\ st'.last <= staging.base /\ saved.last <= staging.base
        /\ target.tag # 0 => Held(target.rows, st'.last)
        /\ st'.sid # target.tag
    BY <1>0, <1>s DEF OCheckpoint, OTables, States
  <2>3. \A s \in States' : s = st' \/ s \in States
    BY <1>u DEF States
  <2>4. \A s \in States' :
           /\ s.last <= cur
           /\ target.tag # 0 => Held(target.rows, s.last)
           /\ s.phase = "cdc" => target.tag # 0
           /\ s.phase = "snapshot" =>
                 /\ s.sid = target.tag => s.last <= target.base
                 /\ s.sid = staging.tag => s.last <= staging.base
    BY <1>s, <2>1, <2>2, <2>3 DEF OCheckpoint
  <2>5. saved'.last <= staging.base
    BY <1>u, <2>2
  <2> QED
    BY <1>u, <2>4, <2>5 DEF OCheckpoint, Held, Due, Fresh
<1>7. OTasks'
  BY <1>0, <1>u, OrphansHeld DEF StagingSuits
<1> QED
  BY <1>1, <1>2, <1>3, <1>4, <1>5, <1>6, <1>7

\* The cut-over waits for the tasks of this supervisor, not for orphans.
LEMMA SwapHeld == ASSUME OInv, FinalizeSwap PROVE OSafe'
<1> USE DEF OInv, OSafe
<1>u. /\ UNCHANGED <<cur, minValid, row, nextSid, prog, st, saved, up, stopping, planned,
                     loaded, done, task>>
      /\ up /\ ~stopping /\ pc = "idle" /\ pc' = "fin_drop" /\ st.phase = "snapshot"
      /\ st.sid # 0
  BY DEF FinalizeSwap, Scheduling, MayFinalize, sourceVars, TypeInv, InvDrawn, Sids
<1>r. Running = {}
  <2>1. CASE loaded
    BY <1>u, <2>1 DEF FinalizeSwap, MayFinalize, AllPartsDone
  <2>2. CASE ~loaded
    <3>1. \A w \in Workers : task[w].kind \in {"snap", "cdc"} => task[w].orphan
      BY <1>u, <2>2, TaskFacts, TaskTyping DEF TaskHeld, SnapRunning, CdcRunning
    <3> QED
      BY <3>1, TaskFacts DEF Running, Task, TaskKinds
  <2> QED
    BY <2>1, <2>2
<1>k. Known' = Known /\ Running' = Running
  BY <1>u DEF Known, Loaders, Snapshot, Running
<1>1. CASE st.sid = target.tag
  <2>1. target' = target /\ staging' = staging
    BY <1>1 DEF FinalizeSwap, MustExchange
  <2>2. InvSource' /\ OTables' /\ OTruth' /\ OKnown'
    BY <1>k, <1>u, <2>1 DEF InvSource, OTables, OTruth, Truthful, OKnown, SnapshotSound, NoPlan
  <2>3. OMemory' /\ OCheckpoint' /\ OControl'
    BY <1>1, <1>k, <1>r, <1>u, <2>1
       DEF OMemory, PartHeld, OCheckpoint, OControl, States, Held, Due, Fresh
  <2>4. OProgress' /\ OTasks'
    BY <1>k, <1>r, <1>u, <2>1, OrphansHeld, ProgressHeld DEF StagingSuits
  <2> QED
    BY <2>2, <2>3, <2>4
<1>2. CASE st.sid # target.tag
  <2>1. /\ target' = staging /\ staging' = target /\ loaded
        /\ \A k \in Keys : st.plan[k] \in done
    BY <1>2 DEF FinalizeSwap, MustExchange, MayFinalize, AllPartsDone, TargetIsOurs
  <2>2. st.sid = staging.tag /\ Held(staging.rows, staging.base)
    BY <1>2, <1>u, <2>1 DEF OMemory, PartHeld, Held
  <2>3. InvSource' /\ OTables' /\ OTruth'
    BY <1>u, <1>2, <2>1, <2>2 DEF InvSource, OTables, OTruth, Truthful
  <2>4. OKnown'
    BY <1>k, <1>u, <2>1 DEF OKnown, SnapshotSound, NoPlan
  <2>5. \A a \in Known : StagingSuits(a.sid)
    BY <2>1 DEF StagingSuits, OCheckpoint
  <2>6. OProgress' /\ OTasks'
    BY <1>k, <1>r, <1>u, <2>5, OrphansHeld, ProgressHeld
  <2>7. OMemory' /\ OControl'
    BY <1>2, <1>k, <1>r, <1>u, <2>1, <2>2 DEF OMemory, OControl
  <2>8. OCheckpoint'
    <3>1. Held(target.rows, target.base)'
      BY <1>u, <2>1, <2>2 DEF Held, Due, Fresh
    <3>2. \A s \in States : s.last <= staging.base /\ Held(staging.rows, s.last)
      <4>1. staging.base \in Nat /\ \A s \in States : s.last \in Nat /\ s.last <= staging.base
        BY <1>u, <2>2, StatesKnown, Typing, TableTyping DEF OCheckpoint, States
      <4> QED
        BY <2>2, <4>1, HeldEarlier
    <3>3. \A s \in States : Held(target.rows, s.last)'
      BY <1>u, <2>1, <3>2 DEF Held, Due, Fresh
    <3>4. States' = States /\ staging.tag # 0
      BY <1>u, <2>2 DEF States
    <3>5. st'.sid # staging'.tag
      BY <1>2, <1>u, <2>1
    <3> QED
      BY <1>u, <2>1, <3>1, <3>2, <3>3, <3>4, <3>5 DEF OCheckpoint
  <2> QED
    BY <2>3, <2>4, <2>6, <2>7, <2>8
<1> QED
  BY <1>1, <1>2

LEMMA FinalizeSaveHeld == ASSUME OInv, FinalizeSave PROVE OSafe'
<1> USE DEF OInv, OSafe
<1>u. /\ UNCHANGED <<cur, minValid, row, nextSid, target, staging, prog, up, stopping,
                     planned, task>>
      /\ saved' = saved \/ saved' = st'
      /\ up /\ pc = "fin_save" /\ pc' = "idle" /\ st' = CutOver(st)
  BY DEF FinalizeSave, sourceVars
<1>s. /\ st'.phase = "cdc" /\ st'.sid = st.sid /\ st'.sver = st.sver
      /\ st'.last = st.sver /\ st'.plan = NoPlan
  BY <1>u, Typing DEF CutOver, TableState
<1>0. /\ Running = {} /\ st.sid = target.tag /\ st.phase = "snapshot" /\ st.sid # 0
      /\ Snapshot(st) \in Known
  BY <1>u DEF OControl, TypeInv, InvDrawn, Sids, Known
<1>1. st.sver = target.base /\ SnapshotSound(Snapshot(st))
  BY <1>0, SnapshotFields DEF OKnown, SnapshotSound
<1>k. /\ \A a \in Known' : a \in Known \/ a = Snapshot(st')
      /\ Running' = Running
  BY <1>u DEF Known, Loaders, Snapshot, Running
<1>2. InvSource' /\ OTables' /\ OTruth'
  BY <1>u DEF InvSource, OTables, OTruth, Truthful
<1>3. OKnown' /\ OProgress'
  <2>1. SnapshotSound(Snapshot(st')) /\ Snapshot(st').plan = NoPlan
    BY <1>1, <1>s DEF SnapshotSound, Snapshot
  <2>2. \A k \in Keys : Fresh(staging.rows, k) => Fresh(staging.rows, k)'
    BY <1>u DEF Fresh
  <2> QED
    BY <1>k, <1>u, <2>1, <2>2, KnownKept
<1>4. OMemory' /\ OControl'
  BY <1>0, <1>s, <1>k, <1>u DEF OMemory, OControl
<1>5. OCheckpoint'
  <2>1. target.base <= cur /\ target.tag # 0
    BY <1>0 DEF OTables
  <2> QED
    BY <1>s, <1>1, <1>u, <2>1 DEF OCheckpoint, States, Held, Due, Fresh
<1>6. OTasks'
  BY <1>0, <1>u, OrphansHeld DEF StagingSuits
<1> QED
  BY <1>2, <1>3, <1>4, <1>5, <1>6

-----------------------------------------------------------------------------
(* The theorems.                                                           *)

LEMMA InitHeld == Init => OInv
<1> SUFFICES ASSUME Init PROVE OInv
  OBVIOUS
<1>1. TypeInv
  BY TypeInit, DrawnInit DEF TypeInv
<1>2. /\ st = NewState /\ saved = NewState /\ target = NoTable /\ staging = NoTable
      /\ cur = 0 /\ minValid = 0 /\ nextSid = 1 /\ pc = "idle" /\ ~loaded /\ up
      /\ (\A w \in Workers : task[w] = NoTask)
      /\ \A k \in Keys : row[k].ver = 0
  BY DEF Init, SourceInit
<1>3. /\ NewState.phase = "new" /\ NewState.last = 0 /\ NewState.sid = 0
      /\ NewState.sver = 0 /\ NewState.plan = NoPlan
      /\ NoTable.tag = 0 /\ NoTable.base = 0 /\ NoTable.rows = Empty
  BY DEF NewState, NoTable
<1>4. InvSource /\ OTables /\ OTruth
  <2>1. 1 <= MaxSnapshots + 1
    BY SyncAssumption
  <2>2. \A s \in Sids : \A p \in Parts : prog[s][p] = NoProgress
    BY DEF Init
  <2> QED
    BY <1>2, <1>3, <2>1, <2>2, EmptyTruthful DEF InvSource, OTables, OTruth
<1>5. Known = {Snapshot(NewState)} /\ Running = {}
  BY <1>2, NoTaskFields DEF Known, Loaders, Running
<1>6. OKnown /\ OProgress
  BY <1>2, <1>3, <1>5, SnapshotFields DEF OKnown, OProgress, SnapshotSound
<1>7. OMemory /\ OControl /\ OCheckpoint
  BY <1>2, <1>3, <1>5 DEF OMemory, OControl, OCheckpoint, States
<1>8. OTasks
  BY <1>2, NoTaskHeld DEF OTasks
<1> QED
  BY <1>1, <1>4, <1>6, <1>7, <1>8 DEF OInv, OSafe

LEMMA StepsHeld == ASSUME OInv, [Next]_vars PROVE OSafe'
<1>1. CASE UNCHANGED vars \/ Request \/ Stop \/ PlanOrFinalizeFails
  BY <1>1, QuietHeld
<1>2. CASE SourceStep
  BY <1>2, SourceHeld
<1>3. CASE CheckRequests \/ ResumeStep
  BY <1>3, RequestsHeld, ResumeLoadHeld DEF ResumeStep
<1>4. CASE PlanStep
  BY <1>4, PlanBeginHeld, DropHeld, PlanCreateHeld, PlanSaveHeld DEF PlanStep
<1>5. CASE FinalizeStep
  BY <1>5, SwapHeld, DropHeld, FinalizeSaveHeld DEF FinalizeStep
<1>6. CASE SubmitStep \/ Flush \/ Exit \/ Crash \/ Restart
  BY <1>6, SubmitHeld, FlushHeld, EndHeld, RestartHeld
<1>7. ASSUME NEW w \in Workers, Collect(w) \/ WorkerStep(w) \/ TaskFails(w) \/ OrphanExit(w)
      PROVE  OSafe'
  BY <1>7, CollectHeld, SnapStartHeld, SnapReadHeld, SnapEofHeld, SnapInsertHeld,
     SnapCheckpointHeld, CdcOpenHeld, CdcInsertHeld, CdcDoneHeld, FailsHeld,
     OrphanExitHeld DEF WorkerStep
<1> QED
  BY <1>1, <1>2, <1>3, <1>4, <1>5, <1>6, <1>7 DEF Next

LEMMA NextHeld == OInv /\ [Next]_vars => OInv'
BY StepsHeld, TypeNext, DrawnNext DEF OInv, TypeInv

\* The invariant holds whatever outlives a killed supervisor and whichever
\* writes sync_state refuses.
THEOREM OrphanInvariant == Spec => []OInv
BY InitHeld, NextHeld, PTL DEF Spec

\* In CDC no row that exists and that the checkpoint covers is missing from
\* the live table or outdated there: insert first, checkpoint after, and a
\* table that keeps the highest version, are enough even against orphans.
THEOREM NoRowIsLost == Spec => []NoLostRow
<1>1. OInv => NoLostRow
  BY FreshAgrees DEF OInv, OSafe, OCheckpoint, OTruth, States, Held, Due, NoLostRow
<1> QED
  BY <1>1, OrphanInvariant, PTL

\* The live table is never half-loaded, by whoever loaded it, and goes on
\* holding what a checkpoint covered when the table is loaded anew.
THEOREM NoRowIsMissing == Spec => []NoMissingRow
<1>1. OInv => NoMissingRow
  <2> SUFFICES ASSUME OInv, target.tag # 0, NEW v \in {target.base, st.last, saved.last},
                      NEW k \in Keys, Due(k, v)
               PROVE  Agrees(target.rows, k)
    BY DEF NoMissingRow
  <2>1. Held(target.rows, v)
    BY DEF OInv, OSafe, OCheckpoint, States
  <2> QED
    BY <2>1, FreshAgrees DEF OInv, OSafe, OTruth, Held, Due
<1> QED
  BY <1>1, OrphanInvariant, PTL

-----------------------------------------------------------------------------
(* Cut-overs go forward and requests are answered: OForward, over OInv.    *)

LEMMA ForwardTyping ==
    ASSUME TypeInv
    PROVE  /\ req \in Nat /\ nextSid \in Nat
           /\ target.since \in Nat /\ staging.since \in Nat
           /\ target.tag \in Nat /\ staging.tag \in Nat
           /\ st.handled \in Nat /\ saved.handled \in Nat
           /\ st.sid \in Nat /\ saved.sid \in Nat
BY DEF TypeInv, TypeOK, Table, TableState

\* Steps that leave the tags, the states and the requests alone.
LEMMA ForwardKept ==
    ASSUME OForward, UNCHANGED <<st, saved, req, up>>,
           /\ target'.tag = target.tag /\ target'.since = target.since
           /\ staging'.tag = staging.tag /\ staging'.since = staging.since,
           pc' = "idle" \/ UNCHANGED pc
    PROVE  OForward'
BY DEF OForward, ONames, OAnswers, States

\* Nobody but the supervisor touches them: not the source, nor any worker,
\* whoever it still works for.
LEMMA ForwardBeside ==
    ASSUME OInv, OForward,
           \/ UNCHANGED vars \/ SourceStep \/ SubmitStep \/ Stop \/ PlanOrFinalizeFails
           \/ ResumeLoad
           \/ \E w \in Workers : \/ CollectSnapshot(w) \/ CollectFailure(w)
                                 \/ WorkerStep(w) \/ TaskFails(w) \/ OrphanExit(w)
    PROVE  OForward'
<1>t. target \in Table /\ staging \in Table
  BY Typing DEF OInv
<1>1. ASSUME NEW w \in Workers, CdcInsert(w)
      PROVE  /\ UNCHANGED <<st, saved, req, up, pc, staging>>
             /\ target'.tag = target.tag /\ target'.since = target.since
  BY <1>t, <1>1 DEF CdcInsert, WorkerFrame, supervisorVars, Table
<1>2. ASSUME NEW w \in Workers, SnapInsert(w)
      PROVE  /\ UNCHANGED <<st, saved, req, up, pc, target>>
             /\ staging'.tag = staging.tag /\ staging'.since = staging.since
  BY <1>t, <1>2 DEF SnapInsert, WorkerFrame, supervisorVars, Table
<1>3. ASSUME NEW w \in Workers,
             \/ WorkerStep(w) /\ ~CdcInsert(w) /\ ~SnapInsert(w)
             \/ TaskFails(w) \/ OrphanExit(w)
      PROVE  UNCHANGED <<st, saved, req, up, pc, target, staging>>
  BY <1>3 DEF WorkerStep, SnapStart, SnapRead, SnapEof, SnapCheckpoint, CdcOpen, CdcDone,
     TaskFails, OrphanExit, WorkerFrame, supervisorVars
<1>4. ASSUME NEW w \in Workers, CollectSnapshot(w) \/ CollectFailure(w)
      PROVE  UNCHANGED <<st, saved, req, up, pc, target, staging>>
  BY <1>4 DEF CollectSnapshot, CollectFailure, clickhouseVars
<1>5. ASSUME \/ UNCHANGED vars \/ SourceStep \/ SubmitStep \/ Stop \/ PlanOrFinalizeFails
             \/ ResumeLoad
      PROVE  /\ UNCHANGED <<st, saved, req, up, target, staging>>
             /\ pc' = "idle" \/ UNCHANGED pc
  BY <1>5 DEF vars, SourceStep, SubmitStep, SubmitSnapshot, SubmitCdc, Stop,
     PlanOrFinalizeFails, ResumeLoad, clickhouseVars, supervisorVars
<1> QED
  BY <1>1, <1>2, <1>3, <1>4, <1>5, ForwardKept

\* Steps that only change the state in memory, which no snapshot is loaded in
\* afterwards.
LEMMA ForwardMemory ==
    ASSUME OInv, OForward,
           \/ Request \/ CheckRequests \/ ResumeReplan
           \/ \E w \in Workers : CollectCdc(w) \/ CollectResync(w)
    PROVE  OForward'
<1>t. TypeInv /\ st \in TableState
  BY Typing DEF OInv
<1>1. CASE Request
  BY <1>1, <1>t, ForwardTyping
     DEF Request, supervisorVars, OForward, ONames, OAnswers, States
<1>2. CASE \/ CheckRequests \/ ResumeReplan
           \/ \E w \in Workers : CollectCdc(w) \/ CollectResync(w)
  <2>1. UNCHANGED <<saved, req, up, pc, target, staging>> /\ pc = "idle"
    BY <1>2 DEF CheckRequests, ResumeReplan, Resuming, Scheduling, CollectCdc, CollectResync,
       Collectable, clickhouseVars
  <2>2. st'.sid = st.sid /\ (st'.handled = st.handled \/ st'.handled = req)
    BY <1>2, <1>t DEF CheckRequests, AfterRequest, ResumeReplan, CollectCdc, CollectResync,
       TableState
  <2>3. \/ st'.phase \in {"new", "resync"}
        \/ st'.phase = "cdc" /\ st.phase = "cdc" /\ st'.handled = st.handled
    <3>1. CASE \E w \in Workers : CollectCdc(w)
      <4>1. PICK w \in Workers : CollectCdc(w)
        BY <3>1
      <4>2. st.phase \in {"cdc", "resync"}
        BY <4>1 DEF CollectCdc, Collectable, Running, OInv, OSafe, OTasks, TaskHeld, CdcRunning
      <4>3. st'.phase = st.phase /\ st'.handled = st.handled
        BY <1>t, <4>1 DEF CollectCdc, TableState
      <4> QED
        BY <4>2, <4>3
    <3>2. CASE \/ CheckRequests \/ ResumeReplan \/ \E w \in Workers : CollectResync(w)
      BY <1>t, <3>2 DEF CheckRequests, AfterRequest, ResumeReplan, CollectResync, TableState
    <3> QED
      BY <1>2, <3>1, <3>2
  <2>4. st'.handled <= req
    BY <1>t, <2>2, ForwardTyping DEF OForward, OAnswers, States
  <2> QED
    BY <2>1, <2>2, <2>3, <2>4 DEF OForward, ONames, OAnswers, States
<1> QED
  BY <1>1, <1>2

\* A plan: the snapshot drawn is later than the one saved, and its staging
\* table was created after every request handled so far.
LEMMA ForwardPlan ==
    ASSUME OInv, OForward, ~SavesMayFail, PlanStep
    PROVE  OForward'
<1>t. TypeInv /\ target \in Table /\ st \in TableState
  BY Typing DEF OInv
<1>s. \A s \in States : s.phase = "snapshot" => s.sid # 0
  BY DEF OInv, TypeInv, InvDrawn, States, Sids
<1>n. st.sid < nextSid /\ saved.sid < nextSid
  BY SnapshotFields DEF OInv, OSafe, OKnown, SnapshotSound, Known
<1>1. CASE PlanBegin
  <2>1. /\ UNCHANGED <<st, saved, req, up, staging>>
        /\ pc' = "plan_drop"
        /\ target.tag # 0 => target.exists
    BY <1>1 DEF PlanBegin, OInv, OSafe, OTables
  <2>2. target' = target \/ (target.tag = 0 /\ target'.tag = 0 /\ target'.since = 0)
    BY <1>1, <2>1 DEF PlanBegin, NoTable
  <2>3. \A s \in States : s.phase = "cdc" => target.tag # 0
    BY DEF OInv, OSafe, OCheckpoint
  <2> QED
    BY <1>s, <2>1, <2>2, <2>3 DEF OForward, ONames, OAnswers, States
<1>2. CASE PlanDropStaging
  <2>1. /\ UNCHANGED <<st, saved, req, up, target>> /\ pc' = "plan_create"
        /\ staging'.tag = 0
    BY <1>2 DEF PlanDropStaging, NoTable
  <2> QED
    BY <1>s, <2>1 DEF OForward, ONames, OAnswers, States
<1>3. CASE PlanCreateStaging
  <2>1. /\ UNCHANGED <<st, saved, req, up, target>> /\ pc' = "plan_save"
        /\ staging'.tag = nextSid /\ staging'.since = req
    BY <1>3 DEF PlanCreateStaging, CreateTable
  <2>2. st.sid # nextSid /\ saved.sid # nextSid
    BY <1>n, <1>t, ForwardTyping
  <2> QED
    BY <1>n, <2>1, <2>2 DEF OForward, ONames, OAnswers, States
<1>4. CASE PlanSave
  <2>1. /\ UNCHANGED <<req, up, target, staging>> /\ saved' = st' /\ pc' = "idle"
        /\ pc = "plan_save"
    BY <1>4 DEF PlanSave
  <2>2. PICK p \in Plans : st' = Planned(p)
    BY <1>4 DEF PlanSave
  <2>3. st'.phase = "snapshot" /\ st'.sid = staging.tag /\ st'.handled = st.handled
    BY <1>t, <2>2 DEF Planned, TableState
  <2>4. /\ saved.sid < staging.tag /\ target.tag <= saved.sid /\ st.handled <= staging.since
        /\ st.handled <= req
    BY <2>1 DEF OForward, ONames, OAnswers, States
  <2>5. target.tag <= staging.tag /\ target.tag # staging.tag
    BY <1>t, <2>4, ForwardTyping
  <2> QED
    BY <2>1, <2>3, <2>4, <2>5 DEF OForward, ONames, OAnswers, States
<1> QED
  BY <1>1, <1>2, <1>3, <1>4 DEF PlanStep

\* The swap that moves a table takes the staging table of the state's own
\* snapshot, which is the one sync_state names.
LEMMA SwapTakesOwn ==
    ASSUME OInv, FinalizeSwap, st.sid # target.tag
    PROVE  st.sid = staging.tag /\ target' = staging /\ staging' = target
<1>1. /\ target' = staging /\ staging' = target /\ loaded /\ st.phase = "snapshot"
  BY DEF FinalizeSwap, MustExchange, MayFinalize, TargetIsOurs
<1> QED
  BY <1>1 DEF OInv, OSafe, OMemory

LEMMA ForwardFinalize ==
    ASSUME OInv, OForward, ~SavesMayFail, FinalizeStep
    PROVE  /\ OForward'
           /\ target'.tag >= target.tag
<1>t. TypeInv /\ st \in TableState /\ target.tag >= target.tag
  BY ForwardTyping, Typing DEF OInv
<1>s. \A s \in States : s.phase = "snapshot" => s.sid # 0
  BY DEF OInv, TypeInv, InvDrawn, States, Sids
<1>1. CASE FinalizeSwap
  <2>1. /\ UNCHANGED <<st, saved, req, up>> /\ pc' = "fin_drop" /\ st.phase = "snapshot"
    BY <1>1 DEF FinalizeSwap, MayFinalize
  <2>2. CASE st.sid = target.tag
    <3>1. UNCHANGED <<target, staging>>
      BY <1>1, <2>2 DEF FinalizeSwap, MustExchange
    <3> QED
      BY <1>t, <2>1, <3>1 DEF OForward, ONames, OAnswers, States
  <2>3. CASE st.sid # target.tag
    <3>1. st.sid = staging.tag /\ target' = staging /\ staging' = target
      BY <1>1, <2>3, SwapTakesOwn
    <3>2. saved = st /\ target.tag <= saved.sid
      BY <2>1 DEF OForward, ONames
    <3>3. staging.tag >= target.tag /\ staging.tag <= staging.tag
      BY <1>t, <3>1, <3>2, ForwardTyping
    <3> QED
      BY <2>1, <2>3, <3>1, <3>2, <3>3 DEF OForward, ONames, OAnswers, States
  <2> QED
    BY <2>2, <2>3
<1>2. CASE FinalizeDropStaging
  <2>1. /\ UNCHANGED <<st, saved, req, up, target>> /\ pc' = "fin_save" /\ staging'.tag = 0
    BY <1>2 DEF FinalizeDropStaging, NoTable
  <2> QED
    BY <1>s, <1>t, <2>1 DEF OForward, ONames, OAnswers, States
<1>3. CASE FinalizeSave
  <2>1. /\ UNCHANGED <<req, up, target, staging>> /\ saved' = st' /\ pc' = "idle"
        /\ st.phase = "snapshot" /\ st.sid = target.tag
    BY <1>3 DEF FinalizeSave, OInv, OSafe, OControl
  <2>2. st'.phase = "cdc" /\ st'.sid = st.sid /\ st'.handled = st.handled
    BY <1>3, <1>t DEF FinalizeSave, CutOver, TableState
  <2>3. st.handled <= target.since /\ st.handled <= req /\ target.tag <= target.tag
    BY <1>t, <2>1, ForwardTyping DEF OForward, OAnswers, States
  <2> QED
    BY <1>t, <2>1, <2>2, <2>3 DEF OForward, ONames, OAnswers, States
<1> QED
  BY <1>1, <1>2, <1>3 DEF FinalizeStep

\* Saving, dying and starting again.
LEMMA ForwardLife ==
    ASSUME OInv, OForward, Flush \/ Exit \/ Crash \/ Restart
    PROVE  OForward'
<1>1. /\ UNCHANGED <<target, staging, req>>
      /\ saved' = saved \/ (up /\ saved' = st)
      /\ pc' = "idle" \/ UNCHANGED pc
      /\ \/ UNCHANGED <<st, up>>
         \/ ~up' /\ st' = NewState
         \/ Restart /\ up' /\ st' = saved /\ saved' = saved
  BY DEF Flush, Exit, Crash, Restart, LoseMemory, clickhouseVars
<1>2. NewState.phase = "new" /\ NewState.handled = 0
  BY DEF NewState
<1>3. Restart => pc = "idle" /\ pc' = pc
  BY DEF Restart, OInv, OSafe, OControl
<1>4. 0 <= req
  BY ForwardTyping DEF OInv
<1>5. Flush => pc = "idle"
  BY DEF Flush
<1>6. ONames'
  BY <1>1, <1>2 DEF OForward, ONames
<1>7. OAnswers'
  <2>1. \A s \in States' : s \in States \/ s = NewState
    BY <1>1 DEF States
  <2>2. pc' = "plan_save" => pc = "plan_save" /\ st' = st /\ saved' = saved
    BY <1>1, <1>3, <1>5 DEF Exit, Crash, LoseMemory
  <2> QED
    BY <1>1, <1>2, <1>4, <2>1, <2>2 DEF OForward, OAnswers
<1> QED
  BY <1>6, <1>7 DEF OForward

LEMMA ForwardNext ==
    ASSUME ~SavesMayFail, OInv, OForward, [Next]_vars
    PROVE  OForward'
<1>1. CASE PlanStep \/ FinalizeStep
  BY <1>1, ForwardPlan, ForwardFinalize
<1>2. CASE Flush \/ Exit \/ Crash \/ Restart
  BY <1>2, ForwardLife
<1>3. ASSUME NEW w \in Workers, Collect(w) \/ WorkerStep(w) \/ TaskFails(w) \/ OrphanExit(w)
      PROVE  OForward'
  BY <1>3, ForwardBeside, ForwardMemory DEF Collect
<1>4. CASE \/ UNCHANGED vars \/ SourceStep \/ Request \/ CheckRequests \/ ResumeStep
           \/ SubmitStep \/ PlanOrFinalizeFails \/ Stop
  BY <1>4, ForwardBeside, ForwardMemory DEF ResumeStep
<1> QED
  BY <1>1, <1>2, <1>3, <1>4 DEF Next

\* Only a cut-over gives the live table another tag.
LEMMA TagMoves ==
    ASSUME ~SavesMayFail, OInv, OForward, [Next]_vars
    PROVE  target'.tag >= target.tag
<1>t. target \in Table /\ target.tag >= target.tag
  BY Typing, TableTyping DEF OInv
<1>1. CASE FinalizeStep
  BY <1>1, ForwardFinalize
<1>2. CASE PlanStep
  BY <1>2, <1>t DEF PlanStep, PlanBegin, PlanDropStaging, PlanCreateStaging, PlanSave,
     NoTable, OInv, OSafe, OTables
<1>3. ASSUME NEW w \in Workers, Collect(w) \/ WorkerStep(w) \/ TaskFails(w) \/ OrphanExit(w)
      PROVE  target'.tag = target.tag
  <2>1. CASE CdcInsert(w)
    BY <1>t, <2>1 DEF CdcInsert, Table
  <2>2. CASE ~CdcInsert(w)
    BY <1>3, <2>2 DEF Collect, CollectSnapshot, CollectCdc, CollectResync, CollectFailure,
       WorkerStep, SnapStart, SnapRead, SnapEof, SnapInsert, SnapCheckpoint, CdcOpen,
       CdcDone, TaskFails, OrphanExit, clickhouseVars
  <2> QED
    BY <2>1, <2>2
<1>4. CASE \/ UNCHANGED vars \/ SourceStep \/ Request \/ CheckRequests \/ ResumeStep
           \/ SubmitStep \/ PlanOrFinalizeFails \/ Flush \/ Stop \/ Exit \/ Crash \/ Restart
  BY <1>4, <1>t DEF vars, SourceStep, Request, CheckRequests, ResumeStep, ResumeLoad,
     ResumeReplan, SubmitStep, SubmitSnapshot, SubmitCdc, PlanOrFinalizeFails, Flush, Stop,
     Exit, Crash, Restart, clickhouseVars
<1> QED
  BY <1>1, <1>2, <1>3, <1>4, <1>t DEF Next

LEMMA ForwardInit == Init => OForward
<1> SUFFICES ASSUME Init PROVE OForward
  OBVIOUS
<1>1. /\ NewState.phase = "new" /\ NewState.sid = 0 /\ NewState.handled = 0
      /\ NoTable.tag = 0
  BY DEF NewState, NoTable
<1> QED
  BY <1>1 DEF Init, OForward, ONames, OAnswers, States

LEMMA ForwardInvariant == ASSUME ~SavesMayFail PROVE Spec => [](OInv /\ OForward)
<1>1. Init => OInv /\ OForward
  BY InitHeld, ForwardInit
<1>2. OInv /\ OForward /\ [Next]_vars => (OInv /\ OForward)'
  BY NextHeld, ForwardNext
<1> QED
  BY <1>1, <1>2, PTL DEF Spec

\* Where sync_state takes the supervisor's writes no older snapshot, and no
\* bare table, is ever swapped over a newer one, orphans or not.
THEOREM CutOverIsFinal ==
    ASSUME ~SavesMayFail
    PROVE  Spec => NoSwapBack
<1>1. OInv /\ OForward /\ [Next]_vars => [target'.tag >= target.tag]_target
  BY TagMoves
<1> QED
  BY <1>1, ForwardInvariant, PTL DEF Spec, NoSwapBack

\* Nor is a resync request swallowed: a table in CDC that has handled one is
\* the table created for a snapshot planned after it.
THEOREM RequestsAreHonoured ==
    ASSUME ~SavesMayFail
    PROVE  Spec => []RequestHonoured
<1>1. OInv /\ OForward => RequestHonoured
  <2> SUFFICES ASSUME OInv, OForward PROVE RequestHonoured
    OBVIOUS
  <2>1. target.since \in Nat /\ st.handled \in Nat /\ saved.handled \in Nat
    BY ForwardTyping DEF OInv
  <2> QED
    BY <2>1 DEF OForward, OAnswers, RequestHonoured, States
<1> QED
  BY <1>1, ForwardInvariant, PTL
=============================================================================
