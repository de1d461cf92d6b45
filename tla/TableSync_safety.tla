-------------------------- MODULE TableSync_safety --------------------------
(***************************************************************************)
(* The types and the safety theorem of TableSync: when no worker outlives  *)
(* its supervisor, the live table is whole and the checkpoint is covered   *)
(* in every reachable state, for every value of the constants.             *)
(***************************************************************************)
EXTENDS TableSyncInv, TLAPS

-----------------------------------------------------------------------------
(* The values the actions write have their types.                          *)

LEMMA ConstantTypes ==
    /\ Absent \in Cell /\ Empty \in Rows
    /\ NoPlan \in AnyPlan /\ Plans \subseteq AnyPlan
    /\ NoTable \in Table /\ NewState \in TableState /\ NoTask \in Task
<1>1. Absent \in Cell
  BY DEF Absent, Cell
<1>2. Empty \in Rows
  BY <1>1 DEF Empty, Rows
<1>3. NoPlan \in AnyPlan /\ Plans \subseteq AnyPlan
  BY DEF NoPlan, AnyPlan, Plans
<1>4. NoTable \in Table
  BY <1>2 DEF NoTable, Table
<1>5. NewState \in TableState
  BY <1>3 DEF NewState, TableState
<1>6. NoTask \in Task
  BY <1>2, <1>3 DEF NoTask, Task, TaskKinds, TaskPcs, TaskResults
<1> QED
  BY <1>1, <1>2, <1>3, <1>4, <1>5, <1>6

LEMMA UpsertType ==
    ASSUME NEW rows \in Rows, NEW batch \in Rows
    PROVE  Upsert(rows, batch) \in Rows
BY DEF Upsert, Rows

LEMMA OnlyType ==
    ASSUME NEW batch \in Rows, NEW S
    PROVE  Only(batch, S) \in Rows
BY ConstantTypes DEF Only, Rows

LEMMA ChangesType ==
    ASSUME SourceTypeOK, NEW last
    PROVE  Changes(last) \in Rows
<1>1. \A k \in Keys : [ver |-> row[k].ver, val |-> row[k].ver, live |-> row[k].live] \in Cell
  BY DEF SourceTypeOK, Cell
<1> QED
  BY <1>1, ConstantTypes DEF Changes, Rows

LEMMA BufferType ==
    ASSUME SourceTypeOK, NEW t \in Task, NEW k \in Keys
    PROVE  BufferAfter(t, k) \in Rows
<1>1. t.buf \in Rows /\ t.sver \in Nat
  BY DEF Task
<1>2. SnapshotCell(t, k) \in Cell
  BY <1>1 DEF SnapshotCell, Cell, SourceTypeOK
<1> QED
  BY <1>1, <1>2 DEF BufferAfter, Rows

LEMMA ResultType ==
    ASSUME NEW t \in Task, NEW res \in TaskResults
    PROVE  Result(t, res) \in Task
BY ConstantTypes DEF Result, Task, TaskPcs

LEMMA TypeInit == Init => TypeOK
<1> SUFFICES ASSUME Init PROVE TypeOK
  OBVIOUS
<1>1. SourceTypeOK
  BY DEF Init, SourceInit, SourceTypeOK
<1>2. prog \in [Sids -> [Parts -> Progress]]
  BY DEF Init, NoProgress, Progress
<1>3. task \in [Workers -> Task]
  BY ConstantTypes DEF Init
<1> QED
  BY <1>1, <1>2, <1>3, ConstantTypes DEF Init, TypeOK

LEMMA TypeSource == TypeOK /\ SourceStep => TypeOK'
<1> SUFFICES ASSUME TypeOK, SourceStep PROVE TypeOK'
  OBVIOUS
<1>1. SourceTypeOK'
  <2>1. ASSUME NEW k \in Keys, Commit(k) PROVE SourceTypeOK'
    BY <2>1 DEF Commit, TypeOK, SourceTypeOK
  <2>2. CASE Cleanup
    BY <2>2 DEF Cleanup, TypeOK, SourceTypeOK
  <2> QED
    BY <2>1, <2>2 DEF SourceStep
<1> QED
  BY <1>1 DEF SourceStep, TypeOK, clickhouseVars, supervisorVars, Table, Rows, TableState, AnyPlan, Task

LEMMA TypeSupervisor ==
    ASSUME TypeInv,
           \/ Request \/ CheckRequests \/ PlanStep \/ ResumeStep \/ FinalizeStep
           \/ SubmitStep \/ PlanOrFinalizeFails \/ Flush \/ Stop \/ Exit \/ Crash
           \/ Restart \/ \E w \in Workers : Collect(w)
    PROVE  TypeOK'
<1> USE DEF TypeInv, TypeOK, sourceVars, clickhouseVars, supervisorVars, Fault
<1>1. CASE Request
  BY <1>1 DEF Request, SourceTypeOK
<1>2. CASE CheckRequests
  <2>1. AfterRequest(st) \in TableState
    BY DEF AfterRequest, TableState
  <2> QED
    BY <1>2, <2>1 DEF CheckRequests, SourceTypeOK
<1>3. CASE PlanStep
  <2>1. CASE PlanBegin
    <3>1. [NoTable EXCEPT !.exists = TRUE] \in Table
      BY ConstantTypes DEF NoTable, Table
    <3>2. SnapshotVersion \in Nat
      BY DEF SnapshotVersion, SourceTypeOK
    <3> QED
      BY <2>1, <3>1, <3>2 DEF PlanBegin, SourceTypeOK
  <2>2. CASE PlanDropStaging
    BY <2>2, ConstantTypes DEF PlanDropStaging, SourceTypeOK
  <2>3. CASE PlanCreateStaging
    <3>1. CreateTable(nextSid, planned) \in Table
      BY ConstantTypes DEF CreateTable, Table
    <3> QED
      BY <2>3, <3>1 DEF PlanCreateStaging, SourceTypeOK
  <2>4. CASE PlanSave
    <3>1. \A p \in Plans : Planned(p) \in TableState
      <4> TAKE p \in Plans
      <4>1. p \in AnyPlan /\ staging.tag \in Nat
        BY ConstantTypes DEF Table
      <4> QED
        BY <4>1 DEF Planned, TableState
    <3>2. st' \in TableState
      BY <2>4, <3>1 DEF PlanSave
    <3>3. saved' \in TableState
      BY <2>4, <3>2 DEF PlanSave
    <3>4. faults' \in Nat
      BY <2>4 DEF PlanSave
    <3>5. dirty' \in BOOLEAN
      BY <2>4, Zenon DEF PlanSave
    <3> QED
      BY <2>4, <3>2, <3>3, <3>4, <3>5 DEF PlanSave, SourceTypeOK
  <2> QED
    BY <1>3, <2>1, <2>2, <2>3, <2>4 DEF PlanStep
<1>4. CASE ResumeStep
  <2>1. [st EXCEPT !.phase = "new"] \in TableState
    BY DEF TableState
  <2> QED
    BY <1>4, <2>1 DEF ResumeStep, ResumeLoad, ResumeReplan, SourceTypeOK
<1>5. CASE FinalizeStep
  <2>1. CASE FinalizeSwap
    BY <2>1 DEF FinalizeSwap, SourceTypeOK
  <2>2. CASE FinalizeDropStaging
    BY <2>2, ConstantTypes DEF FinalizeDropStaging, SourceTypeOK
  <2>3. CASE FinalizeSave
    <3>1. CutOver(st) \in TableState
      BY ConstantTypes DEF CutOver, TableState
    <3>2. st' \in TableState
      BY <2>3, <3>1 DEF FinalizeSave
    <3>3. saved' \in TableState
      BY <2>3, <3>2 DEF FinalizeSave
    <3>4. faults' \in Nat /\ done' \in SUBSET Parts
      BY <2>3 DEF FinalizeSave
    <3>5. dirty' \in BOOLEAN /\ loaded' \in BOOLEAN
      BY <2>3, Zenon DEF FinalizeSave
    <3> QED
      BY <2>3, <3>2, <3>3, <3>4, <3>5 DEF FinalizeSave, SourceTypeOK
  <2> QED
    BY <1>5, <2>1, <2>2, <2>3 DEF FinalizeStep
<1>6. CASE SubmitStep
  <2>1. ASSUME NEW w \in Workers, SubmitSnapshot(w) PROVE TypeOK'
    <3>1. PICK p \in Parts : task' = [task EXCEPT ![w] =
             [NoTask EXCEPT !.kind = "snap", !.pc = "start", !.sid = st.sid,
                            !.sver = st.sver, !.plan = st.plan, !.part = p]]
      <4>1. st.phase = "snapshot"
        BY <2>1 DEF SubmitSnapshot
      <4>2. \A k \in Keys : st.plan[k] \in Parts
        BY <4>1 DEF InvDrawn, Plans
      <4> QED
        BY <2>1, <4>2 DEF SubmitSnapshot
    <3>2. p \in Nat
      BY DEF Parts
    <3>3. [NoTask EXCEPT !.kind = "snap", !.pc = "start", !.sid = st.sid,
                         !.sver = st.sver, !.plan = st.plan, !.part = p] \in Task
      BY <3>2, ConstantTypes DEF Task, TaskKinds, TaskPcs, TableState
    <3> QED
      BY <2>1, <3>1, <3>3 DEF SubmitSnapshot, SourceTypeOK
  <2>2. ASSUME NEW w \in Workers, SubmitCdc(w) PROVE TypeOK'
    <3>1. [NoTask EXCEPT !.kind = "cdc", !.pc = "open", !.last = st.last] \in Task
      BY ConstantTypes DEF Task, TaskKinds, TaskPcs, TableState
    <3> QED
      BY <2>2, <3>1 DEF SubmitCdc, SourceTypeOK
  <2> QED
    BY <1>6, <2>1, <2>2 DEF SubmitStep
<1>7. CASE PlanOrFinalizeFails
  BY <1>7 DEF PlanOrFinalizeFails, SourceTypeOK
<1>8. CASE Flush
  BY <1>8 DEF Flush, SourceTypeOK
<1>9. CASE Stop
  BY <1>9 DEF Stop, SourceTypeOK
<1>10. CASE Exit
  BY <1>10, ConstantTypes DEF Exit, LoseMemory, SourceTypeOK
<1>11. CASE Crash
  <2>1. \A w \in Workers : [task[w] EXCEPT !.orphan = TRUE] \in Task
    BY DEF Task
  <2>2. task' \in [Workers -> Task]
    BY <1>11, <2>1, ConstantTypes DEF Crash
  <2> QED
    <3>1. faults' \in Nat
      BY <1>11 DEF Crash
    <3>2. /\ up' \in BOOLEAN /\ stopping' \in BOOLEAN /\ loaded' \in BOOLEAN
          /\ dirty' \in BOOLEAN
      BY <1>11, Zenon DEF Crash, LoseMemory
    <3>3. pc' = "idle" /\ st' \in TableState /\ planned' \in Nat /\ done' \in SUBSET Parts
      BY <1>11, ConstantTypes DEF Crash, LoseMemory
    <3>4. UNCHANGED <<cur, minValid, row, target, staging, prog, saved, req, nextSid>>
      BY <1>11 DEF Crash
    <3> QED
      BY <2>2, <3>1, <3>2, <3>3, <3>4 DEF SourceTypeOK
<1>12. CASE Restart
  BY <1>12 DEF Restart, SourceTypeOK
<1>13. ASSUME NEW w \in Workers, Collect(w) PROVE TypeOK'
  <2>1. task[w] \in Task
    OBVIOUS
  <2>2. [st EXCEPT !.last = task[w].ver] \in TableState
    BY <2>1 DEF TableState, Task
  <2>3. [st EXCEPT !.phase = "resync"] \in TableState
    BY DEF TableState
  <2>4. CASE CollectSnapshot(w)
    <3>1. task[w].part \in Parts
      BY <2>4 DEF CollectSnapshot, InvDrawn
    <3>2. done' \in SUBSET Parts
      BY <2>4, <3>1 DEF CollectSnapshot
    <3> QED
      BY <2>4, <3>2, ConstantTypes DEF CollectSnapshot, SourceTypeOK
  <2>5. CASE CollectCdc(w) \/ CollectResync(w) \/ CollectFailure(w)
    BY <2>2, <2>3, <2>5, ConstantTypes
       DEF CollectCdc, CollectResync, CollectFailure, SourceTypeOK
  <2> QED
    BY <1>13, <2>4, <2>5 DEF Collect
<1> QED
  BY <1>1, <1>2, <1>3, <1>4, <1>5, <1>6, <1>7, <1>8, <1>9, <1>10, <1>11, <1>12, <1>13

LEMMA TypeWorker ==
    ASSUME TypeInv, NEW w \in Workers, WorkerStep(w) \/ TaskFails(w) \/ OrphanExit(w)
    PROVE  TypeOK'
<1> DEFINE t == task[w]
<1>t. /\ t \in Task /\ t.kind \in TaskKinds /\ t.orphan \in BOOLEAN /\ t.pc \in TaskPcs
      /\ t.res \in TaskResults /\ t.sid \in Nat /\ t.sver \in Nat /\ t.plan \in AnyPlan
      /\ t.part \in Nat /\ t.pos \in Nat /\ t.eof \in BOOLEAN /\ t.last \in Nat
      /\ t.ver \in Nat /\ t.buf \in Rows
  BY DEF TypeInv, TypeOK, Task
<1>s. SourceTypeOK
  BY DEF TypeInv, TypeOK
<1>r. \A r \in TaskResults : Result(t, r) \in Task
  BY <1>t, ResultType
<1>p. ASSUME t.kind = "snap", t.pc # "result"
      PROVE  prog[t.sid][t.part] \in Progress
  BY <1>p DEF TypeInv, TypeOK, InvDrawn
<1>f. ASSUME NEW x \in Task, Becomes(w, x), WorkerFrame, target' \in Table, staging' \in Table,
             prog' \in [Sids -> [Parts -> Progress]], faults' \in Nat
      PROVE  TypeOK'
  <2>1. task' \in [Workers -> Task]
    BY <1>f DEF Becomes, TypeInv, TypeOK
  <2> QED
    BY <1>f, <2>1 DEF WorkerFrame, sourceVars, supervisorVars, TypeInv, TypeOK, SourceTypeOK
<1>u. /\ target \in Table /\ staging \in Table /\ faults \in Nat
      /\ prog \in [Sids -> [Parts -> Progress]]
  BY DEF TypeInv, TypeOK
<1>1. CASE SnapStart(w)
  <2>1. prog[t.sid][t.part].key \in Nat
    BY <1>1, <1>p DEF SnapStart, Progress, Keys
  <2>2. [t EXCEPT !.pc = "read", !.pos = prog[t.sid][t.part].key] \in Task
    BY <1>t, <2>1 DEF Task, TaskPcs
  <2>3. Result(t, "done") \in Task
    BY <1>r DEF TaskResults
  <2> QED
    BY <1>1, <1>f, <1>u, <2>2, <2>3 DEF SnapStart
<1>2. CASE SnapRead(w)
  <2>1. PICK k \in Keys : Becomes(w, [t EXCEPT
                !.pos = k, !.buf = BufferAfter(t, k),
                !.pc = IF Cardinality(KeysOf(BufferAfter(t, k))) >= BatchSize
                       THEN "insert" ELSE "read"])
    BY <1>2 DEF SnapRead, Remaining
  <2>2. BufferAfter(t, k) \in Rows /\ k \in Nat
    BY <1>s, <1>t, BufferType DEF Keys
  <2>3. [t EXCEPT !.pos = k, !.buf = BufferAfter(t, k),
                  !.pc = IF Cardinality(KeysOf(BufferAfter(t, k))) >= BatchSize
                         THEN "insert" ELSE "read"] \in Task
    BY <1>t, <2>2 DEF Task, TaskPcs
  <2> QED
    BY <1>2, <1>f, <1>u, <2>1, <2>3 DEF SnapRead
<1>3. CASE SnapEof(w)
  <2>1. [t EXCEPT !.pc = "insert", !.eof = TRUE] \in Task
    BY <1>t DEF Task, TaskPcs
  <2> QED
    BY <1>3, <1>f, <1>u, <2>1 DEF SnapEof
<1>4. CASE SnapInsert(w)
  <2>1. [t EXCEPT !.pc = "checkpoint"] \in Task /\ Result(t, "error") \in Task
    BY <1>t, <1>r DEF Task, TaskPcs, TaskResults
  <2>2. staging.rows \in Rows
    BY <1>u DEF Table
  <2>3. Upsert(staging.rows, t.buf) \in Rows
    BY <1>t, <2>2, UpsertType
  <2>4. [staging EXCEPT !.rows = Upsert(staging.rows, t.buf)] \in Table
    BY <1>u, <2>3 DEF Table
  <2>5. staging' \in Table
    BY <1>4, <1>u, <2>4 DEF SnapInsert
  <2> QED
    BY <1>4, <1>f, <1>u, <2>1, <2>5 DEF SnapInsert
<1>5. CASE SnapCheckpoint(w)
  <2>1. PICK key \in LastKeys(t) :
           prog' = [prog EXCEPT ![t.sid][t.part] = [key |-> key, done |-> t.eof]]
    BY <1>5 DEF SnapCheckpoint
  <2>2. [key |-> key, done |-> t.eof] \in Progress
    BY <1>t, <1>5, <1>p, <2>1 DEF SnapCheckpoint, LastKeys, KeysOf, Progress
  <2>3. prog' \in [Sids -> [Parts -> Progress]]
    BY <1>t, <1>u, <2>1, <2>2
  <2>4. [t EXCEPT !.buf = Empty, !.pc = "read"] \in Task
    BY <1>t, ConstantTypes DEF Task, TaskPcs
  <2>5. Result(t, "done") \in Task /\ Result(t, "interrupted") \in Task
    BY <1>r DEF TaskResults
  <2> QED
    BY <1>5, <1>f, <1>u, <2>3, <2>4, <2>5 DEF SnapCheckpoint
<1>6. CASE CdcOpen(w)
  <2>1. Changes(t.last) \in Rows
    BY <1>s, ChangesType
  <2>2. cur \in Nat
    BY <1>s DEF SourceTypeOK
  <2>3. [t EXCEPT !.pc = "apply", !.buf = Changes(t.last),
                  !.ver = IF cur > t.last THEN cur ELSE t.last] \in Task
    BY <1>t, <2>1, <2>2 DEF Task, TaskPcs
  <2>4. Result(t, "resync") \in Task
    BY <1>r DEF TaskResults
  <2> QED
    BY <1>6, <1>f, <1>u, <2>3, <2>4 DEF CdcOpen
<1>7. CASE CdcInsert(w)
  <2>1. PICK S \in SUBSET KeysOf(t.buf) :
          /\ target' = [target EXCEPT !.rows = Upsert(target.rows, Only(t.buf, S))]
          /\ Becomes(w, [t EXCEPT !.buf = Only(t.buf, Keys \ S)])
    BY <1>7 DEF CdcInsert
  <2>2. Only(t.buf, S) \in Rows /\ Only(t.buf, Keys \ S) \in Rows
    BY <1>t, OnlyType
  <2>3. target.rows \in Rows
    BY <1>u DEF Table
  <2>4. Upsert(target.rows, Only(t.buf, S)) \in Rows
    BY <2>2, <2>3, UpsertType
  <2>5. target' \in Table
    BY <1>u, <2>1, <2>4 DEF Table
  <2>6. [t EXCEPT !.buf = Only(t.buf, Keys \ S)] \in Task
    BY <1>t, <2>2 DEF Task
  <2> QED
    BY <1>7, <1>f, <1>u, <2>1, <2>5, <2>6 DEF CdcInsert
<1>8. CASE CdcDone(w)
  <2>1. Result(t, "ok") \in Task
    BY <1>r DEF TaskResults
  <2> QED
    BY <1>8, <1>f, <1>u, <2>1 DEF CdcDone
<1>9. CASE TaskFails(w)
  <2>1. Result(t, "error") \in Task
    BY <1>r DEF TaskResults
  <2>2. faults' \in Nat
    BY <1>9, <1>u DEF TaskFails, Fault
  <2> QED
    BY <1>9, <1>f, <1>u, <2>1, <2>2 DEF TaskFails
<1>10. CASE OrphanExit(w)
  BY <1>10, <1>f, <1>u, ConstantTypes DEF OrphanExit
<1> QED
  BY <1>1, <1>2, <1>3, <1>4, <1>5, <1>6, <1>7, <1>8, <1>9, <1>10 DEF WorkerStep

LEMMA TypeNext == TypeInv /\ [Next]_vars => TypeOK'
<1> SUFFICES ASSUME TypeInv, [Next]_vars PROVE TypeOK'
  OBVIOUS
<1>1. CASE UNCHANGED vars
  BY <1>1 DEF TypeInv, TypeOK, SourceTypeOK, vars, sourceVars, clickhouseVars, supervisorVars
<1>2. CASE SourceStep
  BY <1>2, TypeSource DEF TypeInv
<1> QED
  BY <1>1, <1>2, TypeSupervisor, TypeWorker DEF Next

-----------------------------------------------------------------------------
(* Snapshot ids and plans in use were drawn.                               *)

LEMMA DrawnInit == Init => InvDrawn
BY DEF Init, InvDrawn, NewState, NoTask

LEMMA ResultFields ==
    ASSUME NEW t \in Task, NEW res
    PROVE  LET r == Result(t, res) IN
           /\ r.kind = t.kind /\ r.orphan = t.orphan /\ r.pc = "result" /\ r.res = res
           /\ r.part = t.part /\ r.ver = t.ver /\ r.buf = Empty
BY DEF Result, NoTask, Task

LEMMA DrawnNext == TypeInv /\ [Next]_vars => InvDrawn'
<1> SUFFICES ASSUME TypeInv, [Next]_vars PROVE InvDrawn'
  OBVIOUS
<1>t. InvDrawn /\ st \in TableState /\ saved \in TableState /\ task \in [Workers -> Task]
  BY DEF TypeInv, TypeOK
<1>w. ASSUME NEW w \in Workers, NEW x, Becomes(w, x), UNCHANGED <<st, saved, pc>>,
             staging'.tag = staging.tag, x.kind = task[w].kind, x.part = task[w].part,
             x.pc # "result" => task[w].pc # "result" /\ x.sid = task[w].sid
      PROVE  InvDrawn'
  BY <1>t, <1>w DEF Becomes, InvDrawn
<1>n. ASSUME NEW w \in Workers, task' = [task EXCEPT ![w] = NoTask],
             UNCHANGED <<saved, pc, staging>>,
             st'.phase = "snapshot" => st'.phase = st.phase,
             st'.sid = st.sid /\ st'.plan = st.plan
      PROVE  InvDrawn'
  BY <1>t, <1>n DEF InvDrawn, NoTask
<1>1. CASE \/ UNCHANGED vars \/ SourceStep \/ Request \/ Flush \/ Stop \/ Restart
           \/ ResumeLoad \/ PlanBegin \/ PlanOrFinalizeFails
  BY <1>1, <1>t DEF InvDrawn, vars, sourceVars, clickhouseVars, supervisorVars, SourceStep,
     Request, Flush, Stop, Restart, ResumeLoad, PlanBegin, PlanOrFinalizeFails
<1>2. CASE CheckRequests \/ ResumeReplan
  BY <1>2, <1>t DEF InvDrawn, CheckRequests, ResumeReplan, clickhouseVars, AfterRequest, TableState
<1>3. CASE PlanDropStaging \/ PlanCreateStaging
  BY <1>3, <1>t DEF InvDrawn, PlanDropStaging, PlanCreateStaging, CreateTable
<1>4. CASE PlanSave
  <2>1. st'.sid = staging.tag /\ st'.plan \in Plans
    BY <1>4, <1>t DEF PlanSave, Planned, TableState
  <2> QED
    BY <1>4, <1>t, <2>1 DEF PlanSave, InvDrawn
<1>5. CASE FinalizeStep
  <2>1. CutOver(st).phase = "cdc"
    BY <1>t DEF CutOver, TableState
  <2> QED
    BY <1>5, <1>t, <2>1 DEF FinalizeStep, FinalizeSwap, FinalizeDropStaging, FinalizeSave, InvDrawn
<1>6. ASSUME NEW w \in Workers, SubmitSnapshot(w) PROVE InvDrawn'
  <2>1. PICK p \in Parts : task' = [task EXCEPT ![w] =
           [NoTask EXCEPT !.kind = "snap", !.pc = "start", !.sid = st.sid,
                          !.sver = st.sver, !.plan = st.plan, !.part = p]]
    BY <1>6, <1>t DEF SubmitSnapshot, InvDrawn, Plans
  <2>2. st.sid \in Sids
    BY <1>6, <1>t DEF SubmitSnapshot, InvDrawn
  <2> QED
    BY <1>6, <1>t, <2>1, <2>2 DEF SubmitSnapshot, InvDrawn, NoTask, clickhouseVars, supervisorVars
<1>7. ASSUME NEW w \in Workers, SubmitCdc(w) PROVE InvDrawn'
  BY <1>7, <1>t DEF SubmitCdc, InvDrawn, NoTask, clickhouseVars, supervisorVars
<1>8. CASE Exit \/ Crash
  <2>1. st' = NewState /\ pc' = "idle" /\ (saved' = saved \/ saved' = st)
    BY <1>8 DEF Exit, Crash, LoseMemory, clickhouseVars
  <2>2. \A w \in Workers :
           \/ task'[w] = NoTask
           \/ task'[w] = task[w]
           \/ task'[w] = [task[w] EXCEPT !.orphan = TRUE]
    BY <1>8 DEF Exit, Crash
  <2>3. \A w \in Workers : task'[w].kind = "snap" =>
          /\ task'[w].part = task[w].part /\ task'[w].pc = task[w].pc
          /\ task'[w].sid = task[w].sid /\ task[w].kind = "snap"
    <3> TAKE w \in Workers
    <3>1. task[w] \in Task /\ NoTask.kind # "snap"
      BY <1>t DEF NoTask
    <3>2. LET x == [task[w] EXCEPT !.orphan = TRUE] IN
          x.kind = task[w].kind /\ x.part = task[w].part /\ x.pc = task[w].pc /\ x.sid = task[w].sid
      BY <3>1 DEF Task
    <3> QED
      BY <2>2, <3>1, <3>2
  <2> QED
    BY <1>t, <2>1, <2>3 DEF InvDrawn, NewState
<1>9. ASSUME NEW w \in Workers, Collect(w) PROVE InvDrawn'
  <2>1. [st EXCEPT !.last = task[w].ver].phase = st.phase
        /\ [st EXCEPT !.last = task[w].ver].sid = st.sid
        /\ [st EXCEPT !.last = task[w].ver].plan = st.plan
    BY <1>t DEF TableState
  <2>2. [st EXCEPT !.phase = "resync"].phase = "resync"
        /\ [st EXCEPT !.phase = "resync"].sid = st.sid
        /\ [st EXCEPT !.phase = "resync"].plan = st.plan
    BY <1>t DEF TableState
  <2> QED
    BY <1>9, <1>n, <2>1, <2>2
       DEF Collect, CollectSnapshot, CollectCdc, CollectResync, CollectFailure, clickhouseVars
<1>10. ASSUME NEW w \in Workers, WorkerStep(w) \/ TaskFails(w) PROVE InvDrawn'
  <2> DEFINE t == task[w]
  <2>1. t \in Task /\ (\A r : Result(t, r).kind = t.kind /\ Result(t, r).part = t.part
                              /\ Result(t, r).pc = "result")
    BY <1>t, ResultFields
  <2>2. UNCHANGED <<st, saved, pc>>
    BY <1>10 DEF WorkerStep, TaskFails, SnapStart, SnapRead, SnapEof, SnapInsert,
       SnapCheckpoint, CdcOpen, CdcInsert, CdcDone, WorkerFrame, supervisorVars
  <2>3. CASE SnapStart(w) \/ SnapRead(w) \/ SnapEof(w)
    BY <2>1, <2>2, <2>3, <1>w DEF SnapStart, SnapRead, SnapEof, Task, Remaining
  <2>4. CASE SnapInsert(w)
    <3>1. staging'.tag = staging.tag
      BY <2>4 DEF SnapInsert, TypeInv, TypeOK, Table
    <3> QED
      BY <2>1, <2>2, <2>4, <3>1, <1>w DEF SnapInsert, Task
  <2>5. CASE SnapCheckpoint(w)
    BY <2>1, <2>2, <2>5, <1>w DEF SnapCheckpoint, Task
  <2>6. CASE CdcOpen(w) \/ CdcInsert(w) \/ CdcDone(w)
    BY <2>1, <2>2, <2>6, <1>w DEF CdcOpen, CdcInsert, CdcDone, Task
  <2>7. CASE TaskFails(w)
    BY <2>1, <2>2, <2>7, <1>w DEF TaskFails
  <2> QED
    BY <1>10, <2>3, <2>4, <2>5, <2>6, <2>7 DEF WorkerStep
<1>11. ASSUME NEW w \in Workers, OrphanExit(w) PROVE InvDrawn'
  BY <1>11, <1>n DEF OrphanExit, Becomes, WorkerFrame, supervisorVars
<1> QED
  BY <1>1, <1>2, <1>3, <1>4, <1>5, <1>6, <1>7, <1>8, <1>9, <1>10, <1>11
     DEF Next, PlanStep, ResumeStep, SubmitStep

\* The types hold of every reachable state, with or without orphans.
THEOREM TypeCorrect == Spec => []TypeOK
<1>1. Init => TypeInv
  BY TypeInit, DrawnInit DEF TypeInv
<1>2. TypeInv /\ [Next]_vars => TypeInv'
  BY TypeNext, DrawnNext DEF TypeInv
<1>3. TypeInv => TypeOK
  BY DEF TypeInv
<1> QED
  BY <1>1, <1>2, <1>3, PTL DEF Spec

-----------------------------------------------------------------------------
(* Facts about the operators.                                              *)

LEMMA Typing ==
    ASSUME TypeInv
    PROVE  /\ cur \in Nat /\ minValid \in Nat /\ nextSid \in Nat /\ planned \in Nat
           /\ \A k \in Keys : row[k].ver \in Nat /\ row[k].live \in BOOLEAN
           /\ target \in Table /\ staging \in Table
           /\ st \in TableState /\ saved \in TableState
           /\ done \in SUBSET Parts
           /\ \A w \in Workers : task[w] \in Task
           /\ task \in [Workers -> Task]
           /\ prog \in [Sids -> [Parts -> Progress]]
BY DEF TypeInv, TypeOK, SourceTypeOK

LEMMA TableTyping ==
    ASSUME NEW T \in Table
    PROVE  /\ T.tag \in Nat /\ T.base \in Nat /\ T.exists \in BOOLEAN /\ T.rows \in Rows
           /\ \A k \in Keys : /\ T.rows[k] \in Cell /\ T.rows[k].ver \in Nat
                              /\ T.rows[k].val \in Nat /\ T.rows[k].live \in BOOLEAN
BY DEF Table, Rows, Cell

LEMMA StateTyping ==
    ASSUME NEW s \in TableState
    PROVE  /\ s.last \in Nat /\ s.sid \in Nat /\ s.sver \in Nat /\ s.plan \in AnyPlan
           /\ s.phase \in {"new", "snapshot", "cdc", "resync"}
BY DEF TableState

LEMMA TaskTyping ==
    ASSUME NEW t \in Task
    PROVE  /\ t.kind \in TaskKinds /\ t.orphan \in BOOLEAN /\ t.pc \in TaskPcs
           /\ t.res \in TaskResults /\ t.sid \in Nat /\ t.sver \in Nat /\ t.plan \in AnyPlan
           /\ t.part \in Nat /\ t.pos \in Nat /\ t.eof \in BOOLEAN /\ t.last \in Nat
           /\ t.ver \in Nat /\ t.buf \in Rows
           /\ \A k \in Keys : /\ t.buf[k] \in Cell /\ t.buf[k].ver \in Nat
                              /\ t.buf[k].val \in Nat /\ t.buf[k].live \in BOOLEAN
BY DEF Task, Rows, Cell

-----------------------------------------------------------------------------
(* Each part depends on some of the variables only.                        *)

LEMMA KeepSource == InvSource /\ UNCHANGED sourceVars => InvSource'
BY DEF InvSource, sourceVars

LEMMA KeepTables ==
    InvTables /\ UNCHANGED <<cur, nextSid, target, staging, prog>> => InvTables'
BY DEF InvTables

LEMMA KeepCells == InvCells /\ UNCHANGED <<row, target, staging>> => InvCells'
BY DEF InvCells, CellsDated

LEMMA KeepStates ==
    InvStates /\ UNCHANGED <<cur, nextSid, target, staging, st, saved>> => InvStates'
BY DEF InvStates, StateSound

LEMMA KeepStaging == InvStaging /\ UNCHANGED <<row, staging>> => InvStaging'
BY DEF InvStaging, Agrees

LEMMA KeepProgress ==
    InvProgress /\ UNCHANGED <<row, staging, prog, st, saved>> => InvProgress'
BY DEF InvProgress, ProgressSound, Agrees

LEMMA KeepMemory ==
    InvMemory /\ UNCHANGED <<row, target, staging, st, loaded, done>> => InvMemory'
BY DEF InvMemory, PartLoaded, Agrees

LEMMA KeepControl ==
    InvControl /\ UNCHANGED <<cur, target, staging, prog, saved, up, stopping, pc, st,
                              planned, loaded, task>> => InvControl'
BY DEF InvControl

LEMMA KeepCheckpoint ==
    InvCheckpoint /\ UNCHANGED <<row, target, staging, st, saved>> => InvCheckpoint'
BY DEF InvCheckpoint, States, Complete, Agrees

LEMMA KeepTasks ==
    InvTasks /\ UNCHANGED <<cur, row, target, staging, st, saved, loaded, task>> => InvTasks'
BY DEF InvTasks, States, TaskSound, SnapTaskSound, CdcTaskSound, PartLoaded, Complete, Agrees

-----------------------------------------------------------------------------
(* The source.  A commit gives its key a version no one has recorded yet.  *)

LEMMA RowKept ==
    ASSUME TypeInv, InvSource, SourceStep
    PROVE  /\ cur <= cur' /\ InvSource'
           /\ \A k \in Keys : /\ row[k].ver <= row'[k].ver
                              /\ row'[k] = row[k] \/ row'[k].ver > cur
<1>1. ASSUME NEW k \in Keys, Commit(k)
      PROVE  /\ cur' = cur + 1 /\ minValid' = minValid
             /\ \A j \in Keys : row'[j] = row[j] \/ row'[j].ver = cur + 1
  BY <1>1 DEF Commit, TypeInv, TypeOK, SourceTypeOK
<1>2. CASE Cleanup
  BY <1>2, Typing DEF Cleanup, InvSource
<1>3. CASE \E k \in Keys : Commit(k)
  BY <1>1, <1>3, Typing DEF InvSource
<1> QED
  BY <1>2, <1>3 DEF SourceStep

LEMMA CompleteKept ==
    ASSUME TypeInv, InvSource, SourceStep, NEW rows, NEW v \in Nat, v <= cur,
           Complete(rows, v)
    PROVE  \A k \in Keys : row'[k].ver <= v =>
              /\ rows[k].live = row'[k].live
              /\ row'[k].live => rows[k].val = row'[k].ver
<1>1. \A k \in Keys : row'[k].ver \in Nat
  BY TypeSource DEF TypeInv, TypeOK, SourceTypeOK
<1>2. \A k \in Keys : row'[k].ver <= v => row'[k] = row[k]
  BY <1>1, RowKept, Typing
<1> QED
  BY <1>2 DEF Complete, Agrees

LEMMA SourceSafe ==
    ASSUME IInv, SourceStep
    PROVE  Safe'
<1> USE DEF IInv, Safe
<1>r. /\ cur <= cur' /\ cur' \in Nat /\ InvSource'
      /\ \A k \in Keys : /\ row[k].ver <= row'[k].ver
                         /\ row'[k] = row[k] \/ row'[k].ver > cur
                         /\ row'[k].ver \in Nat
  BY RowKept, TypeSource DEF TypeInv, TypeOK, SourceTypeOK
<1>u. UNCHANGED <<target, staging, prog, saved, nextSid, up, stopping, pc, st, planned,
                  loaded, done, task>>
  BY DEF SourceStep, clickhouseVars, supervisorVars
<1>b. target.base <= cur /\ staging.base <= cur
  BY DEF InvTables
<1>t. /\ cur \in Nat /\ target \in Table /\ staging \in Table
      /\ st \in TableState /\ saved \in TableState /\ \A w \in Workers : task[w] \in Task
  BY Typing
<1>2. InvTables'
  BY <1>r, <1>u, <1>b, <1>t, TableTyping DEF InvTables
<1>3. InvCells'
  BY <1>r, <1>u, <1>t, TableTyping, Typing DEF InvCells, CellsDated
<1>4. InvStates'
  BY <1>r, <1>u, <1>t, StateTyping DEF InvStates, StateSound
<1>5. InvStaging'
  BY <1>r, <1>u, <1>b, <1>t, TableTyping DEF InvStaging, Agrees
<1>6. InvProgress'
  BY <1>r, <1>u, <1>b, <1>t, TableTyping DEF InvProgress, ProgressSound, Agrees
<1>7. InvMemory'
  BY <1>r, <1>u, <1>b, <1>t, TableTyping DEF InvMemory, PartLoaded, Agrees
<1>8. InvControl'
  BY <1>r, <1>u, <1>t, Typing DEF InvControl
<1>9. InvCheckpoint'
  <2>1. \A s \in {st, saved} : s.last \in Nat /\ s.last <= cur
    BY <1>t, StateTyping DEF InvStates, StateSound
  <2>2. target.tag # 0 => Complete(target.rows, target.base)'
    BY <1>u, <1>b, <1>t, TableTyping, CompleteKept DEF InvCheckpoint, Complete, Agrees
  <2>3. \A s \in {st, saved} : s.phase = "cdc" =>
          target.tag # 0 /\ Complete(target.rows, s.last)'
    BY <1>u, <2>1, CompleteKept DEF InvCheckpoint, States, Complete, Agrees
  <2> QED
    BY <1>u, <2>2, <2>3 DEF InvCheckpoint, States
<1>10. InvTasks'
  <2>1. ASSUME NEW w \in Workers PROVE TaskSound(task[w])'
    <3> DEFINE t == task[w]
    <3>0. t \in Task /\ TaskSound(t) /\ task'[w] = t /\ t.sver \in Nat /\ t.ver \in Nat
          /\ t.last \in Nat /\ staging.base \in Nat
      BY <1>u, <1>t, TaskTyping, TableTyping DEF InvTasks
    <3>v. \A k \in Keys, v \in Nat : v <= cur /\ row'[k].ver <= v => row'[k] = row[k]
      BY <1>r, <1>t, Typing
    <3>1. ASSUME SnapTaskSound(t) PROVE SnapTaskSound(t)'
      <4>1. t.pc # "result" => t.sver = staging.base /\ t.sver <= cur
        BY <3>1, <1>b DEF SnapTaskSound
      <4>2. \A p : PartLoaded(p) => PartLoaded(p)'
        BY <1>u, <1>b, <3>0, <3>v DEF PartLoaded, Agrees
      <4> QED
        BY <1>u, <3>0, <3>1, <3>v, <4>1, <4>2 DEF SnapTaskSound, Agrees
    <3>2. ASSUME CdcTaskSound(t) PROVE CdcTaskSound(t)'
      <4>1. \A v \in Nat : v <= cur /\ Complete(target.rows, v) => Complete(target.rows, v)'
        BY <1>u, CompleteKept DEF Complete, Agrees
      <4>2. \A k \in Keys : t.buf[k].ver \in Nat
        BY <3>0, TaskTyping
      <4>3. /\ target' = target /\ st' = st /\ saved' = saved
            /\ t.ver \in Nat /\ t.last \in Nat /\ cur \in Nat /\ target.base \in Nat
        BY <1>u, <1>t, <3>0, TableTyping
      <4>4. t.pc = "apply" => \A k \in Keys :
               /\ t.buf[k] # Absent => t.buf[k].ver <= row'[k].ver
               /\ row'[k].ver <= t.ver => row'[k] = row[k] /\ row[k].ver <= t.ver
        <5>1. \A k \in Keys : row[k].ver \in Nat
          BY Typing
        <5>2. t.pc = "apply" => t.ver <= cur /\ \A k \in Keys :
                 t.buf[k] # Absent => t.buf[k].ver <= row[k].ver
          BY <3>2 DEF CdcTaskSound
        <5> QED
          BY <1>r, <3>v, <4>2, <4>3, <5>1, <5>2
      <4>5. t.pc = "apply" => \A k \in Keys : row'[k].ver <= t.ver =>
               IF t.buf[k] = Absent THEN Agrees(target.rows, k)'
               ELSE /\ t.buf[k].ver = row'[k].ver /\ t.buf[k].val = row'[k].ver
                    /\ t.buf[k].live = row'[k].live
        BY <3>2, <4>3, <4>4 DEF CdcTaskSound, Agrees
      <4>6. /\ t.pc = "open" => t.last <= cur' /\ Complete(target.rows, t.last)'
            /\ t.res = "ok" => t.ver <= cur' /\ Complete(target.rows, t.ver)'
            /\ t.pc = "apply" => t.ver <= cur'
        <5>1. /\ t.pc = "open" => t.last <= cur /\ Complete(target.rows, t.last)
              /\ t.res = "ok" => t.ver <= cur /\ Complete(target.rows, t.ver)
              /\ t.pc = "apply" => t.ver <= cur
          BY <3>2 DEF CdcTaskSound
        <5>2. \A v \in Nat : v <= cur => v <= cur'
          BY <1>r, <4>3
        <5>3. /\ t.pc = "open" => Complete(target.rows, t.last)'
              /\ t.res = "ok" => Complete(target.rows, t.ver)'
          BY <3>0, <4>1, <4>3, <5>1 DEF Complete, Agrees
        <5>4. /\ t.pc = "open" => t.last <= cur'
              /\ t.res = "ok" => t.ver <= cur'
              /\ t.pc = "apply" => t.ver <= cur'
          BY <4>3, <5>1, <5>2
        <5> QED
          BY <5>3, <5>4
      <4> QED
        BY <3>0, <3>2, <4>3, <4>4, <4>5, <4>6 DEF CdcTaskSound, States
    <3> QED
      BY <3>0, <3>1, <3>2 DEF TaskSound
  <2> QED
    BY <1>u, <2>1 DEF InvTasks
<1> QED
  BY <1>r, <1>2, <1>3, <1>4, <1>5, <1>6, <1>7, <1>8, <1>9, <1>10

-----------------------------------------------------------------------------
(* The supervisor outside planning and cut-over.                           *)

LEMMA QuietSafe ==
    ASSUME IInv, UNCHANGED vars \/ Request \/ Stop \/ PlanOrFinalizeFails
    PROVE  Safe'
<1> USE DEF IInv, Safe
<1>1. UNCHANGED <<cur, minValid, row, nextSid, target, staging, prog, st, saved, up, loaded,
                  done, task>>
  BY DEF vars, sourceVars, clickhouseVars, supervisorVars, Request, Stop, PlanOrFinalizeFails
<1>2. InvControl'
  <2>1. CASE UNCHANGED vars \/ Request
    BY <1>1, <2>1, KeepControl DEF vars, supervisorVars, Request
  <2>2. CASE Stop \/ PlanOrFinalizeFails
    BY <1>1, <2>2 DEF Stop, PlanOrFinalizeFails, Scheduling, InvControl
  <2> QED
    BY <2>1, <2>2
<1> QED
  BY <1>1, <1>2, KeepSource, KeepTables, KeepCells, KeepStates, KeepStaging, KeepProgress,
     KeepMemory, KeepCheckpoint, KeepTasks DEF sourceVars

\* Three actions change nothing of the memory but the phase, to one in which
\* nothing is expected of the snapshot in progress.
LEMMA PhaseSafe ==
    ASSUME IInv, st' \in TableState, st'.sid = st.sid, st'.sver = st.sver,
           st'.plan = st.plan, st'.last = st.last,
           \/ st'.phase = "resync"
           \/ st'.phase = "new" /\ st.phase = "snapshot" /\ ~loaded,
           pc = "idle", up,
           UNCHANGED <<sourceVars, clickhouseVars, nextSid, up, stopping, pc, planned,
                       loaded, done, task>>
    PROVE  Safe'
<1> USE DEF IInv, Safe
<1>u. UNCHANGED <<cur, minValid, row, target, staging, prog, saved>>
  BY DEF sourceVars, clickhouseVars
<1>1. InvStates'
  BY <1>u DEF InvStates, StateSound
<1>2. InvProgress'
  BY <1>u DEF InvProgress, ProgressSound, Agrees
<1>3. InvMemory'
  BY <1>u DEF InvMemory
<1>4. InvControl'
  BY <1>u DEF InvControl
<1>5. InvCheckpoint'
  BY <1>u DEF InvCheckpoint, States, Complete, Agrees
<1>6. InvTasks'
  <2>1. ASSUME NEW w \in Workers PROVE TaskSound(task[w])'
    <3>0. TaskSound(task[w]) /\ task'[w] = task[w]
      BY DEF InvTasks
    <3>1. ASSUME SnapTaskSound(task[w]) PROVE SnapTaskSound(task[w])'
      BY <1>u, <3>1 DEF SnapTaskSound, PartLoaded, Agrees
    <3>2. ASSUME CdcTaskSound(task[w]) PROVE CdcTaskSound(task[w])'
      BY <1>u, <3>2 DEF CdcTaskSound, States, Complete, Agrees
    <3> QED
      BY <3>0, <3>1, <3>2 DEF TaskSound
  <2> QED
    BY <2>1 DEF InvTasks
<1> QED
  BY <1>u, <1>1, <1>2, <1>3, <1>4, <1>5, <1>6, KeepSource, KeepTables, KeepCells, KeepStaging

LEMMA RequestsSafe == ASSUME IInv, TypeInv', CheckRequests PROVE Safe'
<1>1. st' \in TableState /\ st' = AfterRequest(st) /\ st \in TableState
  BY Typing DEF CheckRequests, IInv, TypeInv, TypeOK
<1>2. /\ st'.sid = st.sid /\ st'.sver = st.sver /\ st'.plan = st.plan
      /\ st'.last = st.last /\ st'.phase = "resync"
  BY <1>1 DEF AfterRequest, TableState
<1> QED
  BY <1>1, <1>2, PhaseSafe DEF CheckRequests, Scheduling

LEMMA ResumeSafe == ASSUME IInv, TypeInv', ResumeStep PROVE Safe'
<1> USE DEF IInv, Safe
<1>1. CASE ResumeReplan
  <2>1. st' \in TableState /\ st' = [st EXCEPT !.phase = "new"] /\ st \in TableState
    BY <1>1, Typing DEF ResumeReplan, TypeInv, TypeOK
  <2>2. /\ st'.sid = st.sid /\ st'.sver = st.sver /\ st'.plan = st.plan
        /\ st'.last = st.last /\ st'.phase = "new"
    BY <2>1 DEF TableState
  <2> QED
    BY <1>1, <2>1, <2>2, PhaseSafe DEF ResumeReplan, Resuming, Scheduling
<1>2. CASE ResumeLoad
  <2>u. UNCHANGED <<cur, minValid, row, nextSid, target, staging, prog, st, saved, up,
                    stopping, pc, planned, task>>
    BY <1>2 DEF ResumeLoad, sourceVars, clickhouseVars
  <2>1. InvMemory'
    <3>1. st.sid # 0 /\ st.sid = staging.tag /\ st.sid # target.tag
      BY <1>2 DEF ResumeLoad, Resuming, StagingIsOurs, TargetIsOurs, InvStates, StateSound, InvTables
    <3>2. \A p \in done' : p \in Parts /\ prog[st.sid][p].done
      BY <1>2 DEF ResumeLoad
    <3>3. \A p \in done' : PartLoaded(p)
      BY <3>1, <3>2 DEF PartLoaded, InvProgress, ProgressSound
    <3> QED
      BY <2>u, <3>1, <3>3 DEF InvMemory, PartLoaded, Agrees
  <2>2. InvControl'
    BY <1>2, <2>u DEF InvControl, ResumeLoad, Resuming, Scheduling
  <2>3. InvTasks'
    <3>1. ASSUME NEW w \in Workers PROVE TaskSound(task[w])'
      <4>1. TaskSound(task[w]) /\ task[w].kind # "snap"
        BY <1>2 DEF InvTasks, TaskSound, SnapTaskSound, ResumeLoad, Resuming
      <4> QED
        BY <2>u, <4>1 DEF TaskSound, CdcTaskSound, States, Complete, Agrees
    <3> QED
      BY <2>u, <3>1 DEF InvTasks
  <2> QED
    BY <2>u, <2>1, <2>2, <2>3, KeepSource, KeepTables, KeepCells, KeepStates, KeepStaging,
       KeepProgress, KeepCheckpoint DEF sourceVars
<1> QED
  BY <1>1, <1>2 DEF ResumeStep

LEMMA FlushSafe == ASSUME IInv, Flush PROVE Safe'
<1> USE DEF IInv, Safe
<1>u. /\ UNCHANGED <<cur, minValid, row, nextSid, target, staging, prog, st, up,
                     stopping, pc, planned, loaded, done, task>>
      /\ saved' = st /\ pc = "idle" /\ up
  BY DEF Flush, sourceVars
<1>1. InvStates'
  BY <1>u DEF InvStates, StateSound
<1>2. InvProgress'
  BY <1>u DEF InvProgress, ProgressSound, Agrees
<1>3. InvControl'
  BY <1>u DEF InvControl
<1>4. InvCheckpoint'
  BY <1>u DEF InvCheckpoint, States, Complete, Agrees
<1>5. InvTasks'
  <2>1. ASSUME NEW w \in Workers PROVE TaskSound(task[w])'
    <3>0. TaskSound(task[w]) /\ task'[w] = task[w]
      BY <1>u DEF InvTasks
    <3>1. ASSUME SnapTaskSound(task[w]) PROVE SnapTaskSound(task[w])'
      BY <1>u, <3>1 DEF SnapTaskSound, PartLoaded, Agrees
    <3>2. ASSUME CdcTaskSound(task[w]) PROVE CdcTaskSound(task[w])'
      BY <1>u, <3>2 DEF CdcTaskSound, States, Complete, Agrees
    <3> QED
      BY <3>0, <3>1, <3>2 DEF TaskSound
  <2> QED
    BY <1>u, <2>1 DEF InvTasks
<1> QED
  BY <1>u, <1>1, <1>2, <1>3, <1>4, <1>5, KeepSource, KeepTables, KeepCells, KeepStaging,
     KeepMemory DEF sourceVars

LEMMA NoTaskFields ==
    /\ NoTask.kind = "none" /\ NoTask.pc = "idle" /\ NoTask.res = "none"
    /\ NoTask.orphan = FALSE /\ NoTask.sid = 0 /\ NoTask.sver = 0 /\ NoTask.part = 0
    /\ NoTask.pos = 0 /\ NoTask.eof = FALSE /\ NoTask.last = 0 /\ NoTask.ver = 0
    /\ NoTask.plan = NoPlan /\ NoTask.buf = Empty
BY DEF NoTask

LEMMA NoTaskSound == TaskSound(NoTask) /\ TaskSound(NoTask)'
<1>1. NoTask' = NoTask
  BY DEF NoTask, NoPlan, Empty, Absent, Keys
<1> QED
  BY <1>1, NoTaskFields DEF TaskSound

LEMMA NoTasksSafe == (\A w \in Workers : task'[w] = NoTask) => InvTasks'
<1>1. (TaskSound(NoTask))'
  BY NoTaskSound
<1> QED
  BY <1>1, NoTaskFields DEF InvTasks

\* A restart takes the persisted state for the state in memory.
LEMMA RestartSafe == ASSUME IInv, Restart PROVE Safe'
<1> USE DEF IInv, Safe
<1>u. /\ UNCHANGED <<cur, minValid, row, nextSid, target, staging, prog, saved,
                     stopping, pc, planned, loaded, done, task>>
      /\ st' = saved /\ up' = TRUE /\ ~up
  BY DEF Restart, sourceVars, clickhouseVars
<1>0. ~loaded /\ pc = "idle" /\ \A w \in Workers : task[w] = NoTask
  BY <1>u DEF InvControl
<1>1. InvStates'
  BY <1>u DEF InvStates, StateSound
<1>2. InvProgress'
  BY <1>u DEF InvProgress, ProgressSound, Agrees
<1>3. InvMemory'
  BY <1>u, <1>0 DEF InvMemory
<1>4. InvControl'
  BY <1>u, <1>0 DEF InvControl
<1>5. InvCheckpoint'
  BY <1>u DEF InvCheckpoint, States, Complete, Agrees
<1>6. InvTasks'
  <2>1. \A w \in Workers : task'[w] = NoTask
    BY <1>u, <1>0
  <2> QED
    BY <2>1, NoTasksSafe
<1> QED
  BY <1>u, <1>1, <1>2, <1>3, <1>4, <1>5, <1>6, KeepSource, KeepTables, KeepCells, KeepStaging
     DEF sourceVars

\* The end of a supervisor, graceful or not, takes its workers with it.
LEMMA EndSafe == ASSUME IInv, ~OrphansSurvive, Exit \/ Crash PROVE Safe'
<1> USE DEF IInv, Safe
<1>u. /\ UNCHANGED <<cur, minValid, row, nextSid, target, staging, prog>>
      /\ saved' = st \/ saved' = saved
      /\ st' = NewState /\ pc' = "idle" /\ loaded' = FALSE /\ up' = FALSE
  BY DEF Exit, Crash, LoseMemory, sourceVars, clickhouseVars
<1>n. \A w \in Workers : task'[w] = NoTask
  <2>1. \A w \in Workers : ~task[w].orphan
    BY DEF InvTasks, TaskSound
  <2> QED
    BY <2>1 DEF Exit, Crash
<1>0. /\ NewState.phase = "new" /\ NewState.sid = 0 /\ NewState.plan = NoPlan
      /\ NewState.last = 0
  BY DEF NewState
<1>1. InvStates'
  BY <1>u, <1>0, Typing DEF InvStates, StateSound, InvTables
<1>2. InvProgress'
  BY <1>u, <1>0 DEF InvProgress, ProgressSound, Agrees
<1>3. InvMemory'
  BY <1>u, <1>0 DEF InvMemory
<1>4. InvControl'
  BY <1>u, <1>0, <1>n DEF InvControl
<1>5. InvCheckpoint'
  BY <1>u, <1>0 DEF InvCheckpoint, States, Complete, Agrees
<1>6. InvTasks'
  BY <1>n, NoTasksSafe
<1> QED
  BY <1>u, <1>1, <1>2, <1>3, <1>4, <1>5, <1>6, KeepSource, KeepTables, KeepCells, KeepStaging
     DEF sourceVars

-----------------------------------------------------------------------------
(* Planning and cutting over: no task runs meanwhile.                      *)

LEMMA EmptyTables ==
    /\ NoTable.exists = FALSE /\ NoTable.tag = 0 /\ NoTable.base = 0 /\ NoTable.rows = Empty
    /\ \A k \in Keys : Empty[k] = Absent
    /\ Absent.ver = 0 /\ Absent.live = FALSE
BY DEF NoTable, Empty, Absent

LEMMA NothingRuns ==
    ASSUME InvTasks, Running = {}
    PROVE  \A w \in Workers : task[w] = NoTask
BY DEF InvTasks, TaskSound, Running

LEMMA PlanBeginSafe == ASSUME IInv, PlanBegin PROVE Safe'
<1> USE DEF IInv, Safe
<1>u. UNCHANGED <<cur, minValid, row, nextSid, staging, prog, st, saved, up, stopping, loaded,
                  done, task>>
  BY DEF PlanBegin, sourceVars
<1>n. \A w \in Workers : task[w] = NoTask
  BY NothingRuns DEF PlanBegin, MayPlan
<1>1. \/ target' = target /\ target'.exists
      \/ target.tag = 0 /\ target'.tag = 0 /\ target'.base = 0
  BY DEF PlanBegin, NoTable, InvTables
<1>2. InvTables'
  BY <1>u, <1>1, Typing DEF InvTables
<1>3. InvCells'
  BY <1>u, <1>1 DEF InvCells, CellsDated
<1>4. InvStates'
  BY <1>u, <1>1 DEF InvStates, StateSound
<1>5. InvMemory'
  BY <1>u, <1>1 DEF InvMemory, PlanBegin, MayPlan
<1>6. InvControl'
  <2>1. SnapshotVersion = cur
    BY Typing DEF SnapshotVersion, InvSource
  <2> QED
    BY <1>u, <1>n, <2>1, Typing DEF InvControl, InvStates, StateSound, PlanBegin, MayPlan, Scheduling
<1>7. InvCheckpoint'
  BY <1>u, <1>1 DEF InvCheckpoint, States, Complete, Agrees
<1>8. InvTasks'
  BY <1>u, <1>n, NoTasksSafe
<1> QED
  BY <1>u, <1>2, <1>3, <1>4, <1>5, <1>6, <1>7, <1>8, KeepSource, KeepStaging, KeepProgress
     DEF sourceVars

\* DROP TABLE of the staging table, in planning and after a cut-over.
LEMMA DropSafe == ASSUME IInv, PlanDropStaging \/ FinalizeDropStaging PROVE Safe'
<1> USE DEF IInv, Safe
<1>u. /\ UNCHANGED <<cur, minValid, row, nextSid, target, prog, st, saved, up, stopping, planned,
                     loaded, done, task>>
      /\ staging' = NoTable
      /\ \/ pc = "plan_drop" /\ pc' = "plan_create"
         \/ pc = "fin_drop" /\ pc' = "fin_save"
  BY DEF PlanDropStaging, FinalizeDropStaging, sourceVars
<1>n. \A w \in Workers : task[w] = NoTask
  BY <1>u DEF InvControl
<1>1. staging'.tag = 0 /\ staging'.base = 0
  BY <1>u, EmptyTables
<1>2. InvTables'
  BY <1>u, <1>1, Typing DEF InvTables
<1>3. InvCells'
  BY <1>u, <1>1 DEF InvCells, CellsDated
<1>4. InvStates'
  BY <1>u, <1>1 DEF InvStates, StateSound
<1>5. InvStaging' /\ InvProgress'
  BY <1>1 DEF InvStaging, InvProgress, ProgressSound
<1>6. InvMemory'
  BY <1>u, <1>1 DEF InvMemory, InvControl, InvStates, StateSound
<1>7. InvControl'
  BY <1>u, <1>n DEF InvControl
<1>8. InvCheckpoint'
  BY <1>u, <1>1 DEF InvCheckpoint, States, Complete, Agrees, InvStates, StateSound
<1>9. InvTasks'
  BY <1>u, <1>n, NoTasksSafe
<1> QED
  BY <1>u, <1>2, <1>3, <1>4, <1>5, <1>6, <1>7, <1>8, <1>9, KeepSource DEF sourceVars

LEMMA PlanCreateSafe == ASSUME IInv, PlanCreateStaging PROVE Safe'
<1> USE DEF IInv, Safe
<1>u. /\ UNCHANGED <<cur, minValid, row, target, prog, st, saved, up, stopping, planned,
                     loaded, done, task>>
      /\ pc = "plan_create" /\ pc' = "plan_save"
      /\ nextSid \in Sids /\ nextSid' = nextSid + 1
  BY DEF PlanCreateStaging, sourceVars
<1>n. \A w \in Workers : task[w] = NoTask
  BY <1>u DEF InvControl
<1>1. /\ staging'.tag = nextSid /\ staging'.base = planned /\ staging'.rows = Empty
      /\ staging'.exists
  BY DEF PlanCreateStaging, CreateTable
<1>c. /\ st.phase \in {"new", "resync"} /\ planned <= cur /\ saved.last <= planned
      /\ cur \in Nat /\ planned \in Nat /\ nextSid \in Nat /\ MaxSnapshots \in Nat
      /\ \A k \in Keys : row[k].ver \in Nat
      /\ target.tag \in Nat /\ st.sid \in Nat /\ saved.sid \in Nat
  BY <1>u, Typing, TableTyping, StateTyping, SyncAssumption DEF InvControl
<1>2. InvTables'
  <2>1. nextSid' >= 1 /\ nextSid' <= MaxSnapshots + 1
    BY <1>u, <1>c DEF InvTables, Sids
  <2>2. \A s \in Sids : s >= nextSid' => s >= nextSid
    BY <1>u, <1>c DEF Sids
  <2> QED
    BY <1>u, <1>1, <1>c, <2>1, <2>2 DEF InvTables
<1>3. InvCells'
  BY <1>u, <1>1, <1>c, EmptyTables DEF InvCells, CellsDated
<1>4. InvStates'
  BY <1>u, <1>1, <1>c DEF InvStates, StateSound
<1>5. InvStaging'
  BY <1>1, EmptyTables DEF InvStaging
<1>6. InvProgress'
  BY <1>u, <1>1, <1>c DEF InvProgress, ProgressSound, InvStates, StateSound
<1>7. InvMemory'
  BY <1>u, <1>c DEF InvMemory
<1>8. InvControl'
  <2>1. nextSid # 0 /\ st.sid < nextSid /\ saved.sid < nextSid
    BY <1>u, <1>c DEF InvTables, InvStates, StateSound
  <2>2. \A p \in Parts : prog[nextSid][p] = NoProgress
    BY <1>u, <1>c DEF InvTables
  <2> QED
    BY <1>u, <1>n, <1>1, <1>c, <2>1, <2>2 DEF InvControl, NoProgress
<1>9. InvCheckpoint'
  BY <1>u, <1>c DEF InvCheckpoint, States, Complete, Agrees
<1>10. InvTasks'
  BY <1>u, <1>n, NoTasksSafe
<1> QED
  BY <1>u, <1>2, <1>3, <1>4, <1>5, <1>6, <1>7, <1>8, <1>9, <1>10, KeepSource DEF sourceVars

LEMMA PlannedFields ==
    ASSUME NEW p, st \in TableState
    PROVE  /\ Planned(p).phase = "snapshot" /\ Planned(p).sid = staging.tag
           /\ Planned(p).sver = planned /\ Planned(p).plan = p /\ Planned(p).last = st.last
BY DEF Planned, TableState

LEMMA PlanSaveSafe == ASSUME IInv, PlanSave PROVE Safe'
<1> USE DEF IInv, Safe
<1>u. /\ UNCHANGED <<cur, minValid, row, nextSid, target, staging, prog, up, stopping, task>>
      /\ pc = "plan_save" /\ pc' = "idle" /\ loaded' = TRUE /\ done' = {}
      /\ saved' = st' \/ saved' = saved
  BY DEF PlanSave, sourceVars
<1>n. up /\ \A w \in Workers : task[w] = NoTask
  BY <1>u DEF InvControl
<1>1. PICK p \in Plans : st' = Planned(p)
  BY DEF PlanSave
<1>2. /\ st'.phase = "snapshot" /\ st'.sid = staging.tag /\ st'.sver = staging.base
      /\ st'.plan = p /\ st'.last = st.last
  BY <1>1, <1>u, PlannedFields, Typing DEF InvControl
<1>c. /\ staging.tag # 0 /\ staging.rows = Empty /\ saved.sid < staging.tag
      /\ saved.last <= staging.base /\ staging.tag # target.tag /\ staging.tag < nextSid
      /\ \A q \in Parts : prog[staging.tag][q].key = 0 /\ ~prog[staging.tag][q].done
      /\ saved.sid # staging.tag
  <2>1. saved.sid \in Nat /\ staging.tag \in Nat
    BY Typing, StateTyping, TableTyping
  <2> QED
    BY <1>u, <2>1 DEF InvControl, InvTables, NoProgress
<1>3. InvStates'
  BY <1>u, <1>2, <1>c DEF InvStates, StateSound
<1>4. InvProgress'
  <2>1. \A k \in Keys : p[k] \in Parts /\ ~(k <= 0)
    BY SourceAssumption DEF Plans, Keys
  <2> QED
    BY <1>u, <1>2, <1>c, <2>1 DEF InvProgress, ProgressSound
<1>5. InvMemory'
  BY <1>u, <1>2, <1>c DEF InvMemory
<1>6. InvControl'
  BY <1>u, <1>n DEF InvControl
<1>7. InvCheckpoint'
  BY <1>u, <1>2, <1>c DEF InvCheckpoint, States, Complete, Agrees
<1>8. InvTasks'
  BY <1>u, <1>n, NoTasksSafe
<1> QED
  BY <1>u, <1>3, <1>4, <1>5, <1>6, <1>7, <1>8, KeepSource, KeepTables, KeepCells, KeepStaging
     DEF sourceVars

LEMMA SwapSafe == ASSUME IInv, FinalizeSwap PROVE Safe'
<1> USE DEF IInv, Safe
<1>u. /\ UNCHANGED <<cur, minValid, row, nextSid, prog, st, saved, up, stopping, planned,
                     loaded, done, task>>
      /\ up /\ ~stopping /\ pc = "idle" /\ pc' = "fin_drop" /\ st.phase = "snapshot"
  BY DEF FinalizeSwap, MayFinalize, Scheduling, sourceVars
<1>n. \A w \in Workers : task[w] = NoTask
  <2>1. CASE loaded
    BY <2>1, NothingRuns DEF FinalizeSwap, MayFinalize, AllPartsDone
  <2>2. CASE ~loaded
    BY <1>u, <2>2 DEF InvTasks, TaskSound, SnapTaskSound, CdcTaskSound, TaskKinds, TypeInv,
       TypeOK, Task
  <2> QED
    BY <2>1, <2>2
<1>1. CASE ~MustExchange
  <2>1. st.sid = target.tag /\ UNCHANGED <<target, staging>>
    BY <1>1 DEF FinalizeSwap, MustExchange
  <2>2. InvControl'
    BY <1>u, <1>n, <2>1 DEF InvControl
  <2>3. InvTasks'
    BY <1>u, <1>n, NoTasksSafe
  <2> QED
    BY <1>u, <2>1, <2>2, <2>3, KeepSource, KeepTables, KeepCells, KeepStates, KeepStaging,
       KeepProgress, KeepMemory, KeepCheckpoint DEF sourceVars
<1>2. CASE MustExchange
  <2>u. target' = staging /\ staging' = target
    BY <1>2 DEF FinalizeSwap
  <2>1. st.sid # target.tag /\ loaded /\ AllPartsDone
    BY <1>2 DEF MustExchange, FinalizeSwap, MayFinalize, TargetIsOurs
  <2>2. st.sid # 0 /\ st.sid = staging.tag
    BY <1>u, <2>1 DEF InvMemory, InvStates, StateSound
  <2>3. Complete(staging.rows, staging.base)
    BY <1>u, <2>1, <2>2 DEF InvMemory, AllPartsDone, PartLoaded, Complete
  <2>4. target.tag # 0 => Complete(target.rows, target.base)
    BY DEF InvCheckpoint
  <2>5. InvTables' /\ InvCells' /\ InvStates'
    BY <1>u, <2>u, <2>2 DEF InvTables, InvCells, CellsDated, InvStates, StateSound
  <2>6. InvStaging' /\ InvProgress'
    BY <1>u, <2>u, <2>4 DEF InvStaging, InvProgress, ProgressSound, Complete, Agrees
  <2>7. InvMemory'
    BY <1>u, <2>u, <2>1, <2>2 DEF InvMemory, AllPartsDone
  <2>8. InvControl'
    BY <1>u, <1>n, <2>u, <2>2 DEF InvControl
  <2>9. InvCheckpoint'
    <3>1. saved.phase = "cdc" => Complete(staging.rows, saved.last)
      <4>1. saved.phase = "cdc" => saved.last <= staging.base
        BY <1>u, <2>2 DEF InvCheckpoint
      <4>2. saved.last \in Nat /\ staging.base \in Nat /\ \A k \in Keys : row[k].ver \in Nat
        BY Typing, StateTyping, TableTyping
      <4> QED
        BY <2>3, <4>1, <4>2 DEF Complete
    <3> QED
      BY <1>u, <2>u, <2>1, <2>2, <2>3, <3>1 DEF InvCheckpoint, States, Complete, Agrees
  <2>10. InvTasks'
    BY <1>u, <1>n, NoTasksSafe
  <2> QED
    BY <1>u, <2>5, <2>6, <2>7, <2>8, <2>9, <2>10, KeepSource DEF sourceVars
<1> QED
  BY <1>1, <1>2

LEMMA FinalizeSaveSafe == ASSUME IInv, FinalizeSave PROVE Safe'
<1> USE DEF IInv, Safe
<1>u. /\ UNCHANGED <<cur, minValid, row, nextSid, target, staging, prog, up, stopping, task>>
      /\ pc = "fin_save" /\ pc' = "idle" /\ st' = CutOver(st)
      /\ saved' = st' \/ saved' = saved
      /\ loaded' = loaded \/ loaded' = FALSE
  BY DEF FinalizeSave, sourceVars
<1>n. up /\ \A w \in Workers : task[w] = NoTask
  BY <1>u DEF InvControl
<1>1. /\ st'.phase = "cdc" /\ st'.last = st.sver /\ st'.plan = NoPlan
      /\ st'.sid = st.sid /\ st'.sver = st.sver
  BY <1>u, Typing DEF CutOver, TableState
<1>c. st.sid # 0 /\ st.sid = target.tag /\ st.sver = target.base /\ target.base <= cur
  BY <1>u DEF InvControl, InvStates, StateSound, InvTables
<1>2. InvStates'
  BY <1>u, <1>1, <1>c DEF InvStates, StateSound
<1>3. InvProgress'
  BY <1>u, <1>1, <1>c DEF InvProgress, ProgressSound, InvTables, Agrees
<1>4. InvMemory'
  BY <1>1 DEF InvMemory
<1>5. InvControl'
  BY <1>u, <1>n DEF InvControl
<1>6. InvCheckpoint'
  BY <1>u, <1>1, <1>c DEF InvCheckpoint, States, Complete, Agrees
<1>7. InvTasks'
  BY <1>u, <1>n, NoTasksSafe
<1> QED
  BY <1>u, <1>2, <1>3, <1>4, <1>5, <1>6, <1>7, KeepSource, KeepTables, KeepCells, KeepStaging
     DEF sourceVars

-----------------------------------------------------------------------------
(* Submitting and collecting.                                              *)

\* What a task's soundness depends on beside the task itself.
LEMMA TaskKept ==
    ASSUME NEW t, TaskSound(t),
           UNCHANGED <<cur, row, target, staging, st, saved, loaded>>
    PROVE  TaskSound(t)'
BY DEF TaskSound, SnapTaskSound, CdcTaskSound, States, PartLoaded, Complete, Agrees

LEMMA TaskAt ==
    ASSUME NEW w \in Workers, NEW t, TaskSound(t)', task'[w] = t
    PROVE  TaskSound(task[w])'
BY DEF TaskSound, SnapTaskSound, CdcTaskSound, States, PartLoaded, Complete, Agrees

\* A step that gives worker w the sound task t and keeps the others sound.
LEMMA OneTask ==
    ASSUME InvTasks, task \in [Workers -> Task], NEW w \in Workers, NEW t,
           task' = [task EXCEPT ![w] = t], TaskSound(t)',
           \A v \in Workers : v # w => task[v].kind # "cdc",
           t.kind = "cdc" => \A v \in Workers : v # w => task[v].kind = "none",
           \A u \in Task : TaskSound(u) /\ u.kind # "cdc" => TaskSound(u)'
    PROVE  InvTasks'
<1>1. /\ task'[w] = t
      /\ \A v \in Workers : v # w => task'[v] = task[v]
  OBVIOUS
<1>2. ASSUME NEW v \in Workers PROVE TaskSound(task[v])'
  <2>1. CASE v = w
    BY <1>1, <2>1, TaskAt
  <2>2. CASE v # w
    <3>1. PICK u \in Task : u = task[v]
      OBVIOUS
    <3>2. TaskSound(u) /\ u.kind # "cdc"
      BY <2>2, <3>1 DEF InvTasks
    <3>3. TaskSound(u)'
      BY <3>2
    <3>4. task'[v] = u
      BY <1>1, <2>2, <3>1
    <3> QED
      BY <3>3, <3>4, TaskAt
  <2> QED
    BY <2>1, <2>2
<1>3. \A u, v \in Workers : task'[u].kind = "cdc" /\ u # v => task'[v].kind = "none"
  BY <1>1 DEF InvTasks
<1> QED
  BY <1>2, <1>3 DEF InvTasks

LEMMA SubmitSafe == ASSUME IInv, SubmitStep PROVE Safe'
<1> USE DEF IInv, Safe
<1>u. UNCHANGED <<cur, minValid, row, nextSid, target, staging, prog, st, saved, up,
                  stopping, pc, planned, loaded, done>>
  BY DEF SubmitStep, SubmitSnapshot, SubmitCdc, sourceVars, clickhouseVars, supervisorVars
<1>c. up /\ pc = "idle"
  BY DEF SubmitStep, SubmitSnapshot, SubmitCdc, Scheduling
<1>k. \A u \in Task : TaskSound(u) /\ u.kind # "cdc" => TaskSound(u)'
  BY <1>u, TaskKept
<1>1. InvControl'
  BY <1>u, <1>c DEF InvControl
<1>2. InvTasks'
  <2>1. ASSUME NEW w \in Workers, SubmitSnapshot(w) PROVE InvTasks'
    <3>1. PICK p \in {st.plan[k] : k \in Keys} \ done :
            task' = [task EXCEPT ![w] =
                [NoTask EXCEPT !.kind = "snap", !.pc = "start", !.sid = st.sid,
                               !.sver = st.sver, !.plan = st.plan, !.part = p]]
      BY <2>1 DEF SubmitSnapshot
    <3>t. PICK t : t = [NoTask EXCEPT !.kind = "snap", !.pc = "start", !.sid = st.sid,
                                      !.sver = st.sver, !.plan = st.plan, !.part = p]
      OBVIOUS
    <3>2. /\ t.kind = "snap" /\ t.orphan = FALSE /\ t.pc = "start" /\ t.res = "none"
          /\ t.sid = st.sid /\ t.sver = st.sver /\ t.plan = st.plan /\ t.part = p
          /\ t.buf = Empty /\ t.eof = FALSE
      BY <3>t DEF NoTask
    <3>3. st.phase = "snapshot" /\ loaded
      BY <2>1 DEF SubmitSnapshot
    <3>4. st.sid # 0 /\ st.sid = staging.tag /\ st.sver = staging.base
      BY <3>1, <3>3 DEF InvMemory, InvStates, StateSound
    <3>5. st.plan \in Plans /\ p \in Parts
      BY <3>1, <3>3 DEF TypeInv, InvDrawn, Plans
    <3>6. SnapTaskSound(t)
      BY <3>2, <3>3, <3>4, <3>5, EmptyTables DEF SnapTaskSound
    <3>7. TaskSound(t)'
      BY <1>u, <3>2, <3>6, TaskKept DEF TaskSound
    <3>8. \A v \in Workers : task[v].kind # "cdc"
      BY <3>3 DEF InvTasks, TaskSound, CdcTaskSound
    <3>9. task' = [task EXCEPT ![w] = t]
      BY <3>1, <3>t
    <3> QED
      BY <1>k, <3>2, <3>7, <3>8, <3>9, OneTask, Typing
  <2>2. ASSUME NEW w \in Workers, SubmitCdc(w) PROVE InvTasks'
    <3>t. PICK t : t = [NoTask EXCEPT !.kind = "cdc", !.pc = "open", !.last = st.last]
      OBVIOUS
    <3>2. /\ t.kind = "cdc" /\ t.orphan = FALSE /\ t.pc = "open" /\ t.res = "none"
          /\ t.last = st.last
      BY <3>t DEF NoTask
    <3>3. st.phase = "cdc" /\ task' = [task EXCEPT ![w] = t]
      BY <2>2, <3>t DEF SubmitCdc
    <3>4. \A v \in Workers : task[v].kind = "none"
      BY <2>2, NothingRuns, NoTaskFields DEF SubmitCdc
    <3>5. st.last <= cur /\ target.tag # 0 /\ Complete(target.rows, st.last)
      BY <3>3 DEF InvStates, StateSound, InvCheckpoint, States
    <3>6. CdcTaskSound(t)
      BY <3>2, <3>3, <3>5 DEF CdcTaskSound
    <3>7. TaskSound(t)'
      BY <1>u, <3>2, <3>6, TaskKept DEF TaskSound
    <3> QED
      BY <1>k, <3>3, <3>4, <3>7, OneTask, Typing
  <2> QED
    BY <2>1, <2>2 DEF SubmitStep
<1> QED
  BY <1>u, <1>1, <1>2, KeepSource, KeepTables, KeepCells, KeepStates, KeepStaging,
     KeepProgress, KeepMemory, KeepCheckpoint DEF sourceVars

\* A CDC task runs alone, and beside any task there is no other CDC task.
LEMMA Company ==
    ASSUME InvTasks, NEW w \in Workers, task[w].kind # "none"
    PROVE  /\ \A v \in Workers : v # w => task[v].kind # "cdc"
           /\ task[w].kind = "cdc" => \A v \in Workers : v # w => task[v].kind = "none"
BY DEF InvTasks

LEMMA CollectSafe == ASSUME IInv, NEW w \in Workers, Collect(w) PROVE Safe'
<1> USE DEF IInv, Safe
<1>u. /\ UNCHANGED <<cur, minValid, row, nextSid, target, staging, prog, saved, up, stopping,
                     pc, planned, loaded>>
      /\ up /\ pc = "idle" /\ task' = [task EXCEPT ![w] = NoTask]
      /\ task[w].kind # "none" /\ task[w].pc = "result"
  BY DEF Collect, CollectSnapshot, CollectCdc, CollectResync, CollectFailure, Collectable,
     Running, sourceVars, clickhouseVars
<1>t. st \in TableState /\ task \in [Workers -> Task]
  BY Typing
<1>p. PICK t \in Task : t = task[w]
  BY <1>t
<1>s. TaskSound(t)
  BY <1>p DEF InvTasks
<1>1. InvControl'
  BY <1>u DEF InvControl
<1>2. ASSUME \A u \in Task : TaskSound(u) /\ u.kind # "cdc" => TaskSound(u)' PROVE InvTasks'
  <2>1. \A v \in Workers : v # w => task[v].kind # "cdc"
    BY <1>u, Company
  <2>2. PICK n : n = NoTask
    OBVIOUS
  <2>3. TaskSound(n)' /\ n.kind = "none"
    BY <2>2, NoTaskFields DEF TaskSound
  <2>4. task' = [task EXCEPT ![w] = n]
    BY <1>u, <2>2
  <2> QED
    BY <1>2, <1>t, <2>1, <2>3, <2>4, OneTask
<1>3. CASE CollectSnapshot(w)
  <2>1. /\ st' = st
        /\ done' = IF t.res = "done" /\ loaded THEN done \cup {t.part} ELSE done
        /\ t.kind = "snap"
    BY <1>3, <1>p DEF CollectSnapshot
  <2>2. SnapTaskSound(t)
    BY <1>s, <2>1 DEF TaskSound
  <2>3. InvMemory'
    BY <1>u, <2>1, <2>2 DEF InvMemory, SnapTaskSound, PartLoaded, Agrees
  <2>4. InvTasks'
    BY <1>u, <1>2, <2>1, TaskKept
  <2> QED
    BY <1>u, <1>1, <2>1, <2>3, <2>4, KeepSource, KeepTables, KeepCells, KeepStates,
       KeepStaging, KeepProgress, KeepCheckpoint DEF sourceVars
<1>4. CASE CollectFailure(w)
  <2>1. st' = st /\ done' = done
    BY <1>4 DEF CollectFailure
  <2>2. InvTasks'
    BY <1>u, <1>2, <2>1, TaskKept
  <2> QED
    BY <1>u, <1>1, <2>1, <2>2, KeepSource, KeepTables, KeepCells, KeepStates,
       KeepStaging, KeepProgress, KeepMemory, KeepCheckpoint DEF sourceVars
<1>5. CASE CollectCdc(w) \/ CollectResync(w)
  <2>1. done' = done /\ t.kind = "cdc" /\ CdcTaskSound(t)
    BY <1>5, <1>p, <1>s DEF CollectCdc, CollectResync, TaskSound
  <2>2. /\ st'.sid = st.sid /\ st'.sver = st.sver /\ st'.plan = st.plan
        /\ \/ st'.phase = "resync" /\ st'.last = st.last
           \/ st'.phase = st.phase /\ st'.last = t.ver /\ t.res = "ok"
    BY <1>5, <1>p, <1>t DEF CollectCdc, CollectResync, TableState
  <2>3. /\ st.phase \in {"cdc", "resync"} /\ target.tag # 0
        /\ t.res = "ok" => t.ver <= cur /\ Complete(target.rows, t.ver)
    BY <2>1 DEF CdcTaskSound
  <2>4. InvStates'
    BY <1>u, <2>2, <2>3 DEF InvStates, StateSound
  <2>5. InvProgress'
    BY <1>u, <2>2 DEF InvProgress, ProgressSound, Agrees
  <2>6. InvMemory'
    BY <2>2, <2>3 DEF InvMemory
  <2>7. InvCheckpoint'
    BY <1>u, <2>2, <2>3 DEF InvCheckpoint, States, Complete, Agrees
  <2>8. ASSUME NEW u \in Task, TaskSound(u), u.kind # "cdc" PROVE TaskSound(u)'
    <3>1. u.kind = "snap" => SnapTaskSound(u)
      BY <2>8 DEF TaskSound
    <3>2. SnapTaskSound(u) => SnapTaskSound(u)'
      BY <1>u, <2>2, <2>3 DEF SnapTaskSound, PartLoaded, Agrees
    <3> QED
      BY <2>8, <3>1, <3>2 DEF TaskSound
  <2>9. InvTasks'
    BY <1>2, <2>8
  <2> QED
    BY <1>u, <1>1, <2>4, <2>5, <2>6, <2>7, <2>9, KeepSource, KeepTables, KeepCells,
       KeepStaging DEF sourceVars
<1> QED
  BY <1>3, <1>4, <1>5 DEF Collect

-----------------------------------------------------------------------------
(* The workers.                                                            *)

\* What a worker's step leaves alone, and the task it becomes.
LEMMA WorkerFrameKept ==
    ASSUME IInv, WorkerFrame
    PROVE  /\ UNCHANGED <<cur, minValid, row, nextSid, saved, up, stopping, pc, st, planned,
                          loaded, done>>
           /\ InvSource'
BY KeepSource DEF IInv, Safe, WorkerFrame, supervisorVars, sourceVars

\* A task's new value t after a step of a worker.
LEMMA StepTask ==
    ASSUME InvTasks, task \in [Workers -> Task], NEW w \in Workers, NEW t,
           task' = [task EXCEPT ![w] = t], TaskSound(t)', t.kind = task[w].kind,
           task[w].kind # "none",
           \A u \in Task : TaskSound(u) /\ u.kind # "cdc" => TaskSound(u)'
    PROVE  InvTasks'
BY OneTask, Company

\* A step that changes worker w's task to the sound task n and nothing else.
LEMMA TaskStepSafe ==
    ASSUME IInv, WorkerFrame, UNCHANGED <<target, staging, prog>>,
           NEW w \in Workers, NEW n, task' = [task EXCEPT ![w] = n],
           TaskSound(n), n.kind = task[w].kind, n.kind # "none"
    PROVE  Safe'
<1> USE DEF IInv, Safe
<1>u. /\ UNCHANGED <<cur, minValid, row, nextSid, saved, up, stopping, pc, st, planned,
                     loaded, done>>
      /\ InvSource'
  BY WorkerFrameKept
<1>1. InvTasks'
  <2>1. TaskSound(n)'
    BY <1>u, TaskKept
  <2>2. \A u \in Task : TaskSound(u) => TaskSound(u)'
    BY <1>u, TaskKept
  <2> QED
    BY <2>1, <2>2, StepTask, Typing
<1>2. InvControl'
  BY <1>u, NoTaskFields DEF InvControl
<1> QED
  BY <1>u, <1>1, <1>2, KeepTables, KeepCells, KeepStates, KeepStaging, KeepProgress,
     KeepMemory, KeepCheckpoint

LEMMA FailsSafe == ASSUME IInv, NEW w \in Workers, TaskFails(w) PROVE Safe'
<1>p. PICK t \in Task : t = task[w]
  BY Typing DEF IInv
<1>s. TaskSound(t) /\ t.pc # "result" /\ t.kind # "none"
  BY <1>p DEF IInv, Safe, InvTasks, TaskFails
<1>n. PICK n : n = Result(t, "error")
  OBVIOUS
<1>1. task' = [task EXCEPT ![w] = n]
  BY <1>p, <1>n DEF TaskFails, Becomes
<1>2. /\ n.kind = t.kind /\ n.orphan = t.orphan /\ n.pc = "result" /\ n.res = "error"
  BY <1>n, ResultFields
<1>3. SnapTaskSound(t) => SnapTaskSound(n)
  BY <1>2 DEF SnapTaskSound
<1>4. CdcTaskSound(t) => CdcTaskSound(n)
  BY <1>2 DEF CdcTaskSound
<1>5. TaskSound(n)
  BY <1>s, <1>2, <1>3, <1>4 DEF TaskSound
<1> QED
  BY <1>p, <1>s, <1>1, <1>2, <1>5, TaskStepSafe DEF TaskFails

LEMMA SnapStartSafe == ASSUME IInv, NEW w \in Workers, SnapStart(w) PROVE Safe'
<1> USE DEF IInv, Safe
<1>p. PICK t \in Task : t = task[w]
  BY Typing
<1>s. TaskSound(t) /\ SnapTaskSound(t) /\ t.kind = "snap" /\ t.pc = "start" /\ t.res = "none"
  BY <1>p DEF InvTasks, SnapStart, TaskSound
<1>n. PICK n : n = IF prog[t.sid][t.part].done THEN Result(t, "done")
                   ELSE [t EXCEPT !.pc = "read", !.pos = prog[t.sid][t.part].key]
  OBVIOUS
<1>1. task' = [task EXCEPT ![w] = n]
  BY <1>p, <1>n DEF SnapStart, Becomes
<1>2. /\ st.phase \in {"snapshot", "resync"} /\ loaded
      /\ t.sid # 0 /\ t.sid = st.sid /\ t.sid = staging.tag /\ t.sver = staging.base
      /\ t.plan = st.plan /\ t.plan \in Plans /\ t.part \in Parts
  BY <1>s DEF SnapTaskSound
<1>3. \A k \in Keys :
         /\ t.plan[k] = t.part /\ row[k].ver <= staging.base
         /\ k <= prog[t.sid][t.part].key \/ prog[t.sid][t.part].done
         => Agrees(staging.rows, k)
  <2> SUFFICES ASSUME NEW k \in Keys, t.plan[k] = t.part, row[k].ver <= staging.base,
                      k <= prog[t.sid][t.part].key \/ prog[t.sid][t.part].done
               PROVE  Agrees(staging.rows, k)
    OBVIOUS
  <2>1. st.plan[k] = t.part
    BY <1>2
  <2>2. k <= prog[st.sid][st.plan[k]].key \/ prog[st.sid][st.plan[k]].done
    BY <1>2, <2>1
  <2>3. ProgressSound(st)
    BY DEF InvProgress
  <2> QED
    BY <1>2, <2>1, <2>2, <2>3 DEF ProgressSound
<1>4. CASE prog[t.sid][t.part].done
  <2>1. /\ n.kind = t.kind /\ n.orphan = t.orphan /\ n.pc = "result" /\ n.res = "done"
        /\ n.part = t.part
    BY <1>n, <1>4, ResultFields
  <2>2. SnapTaskSound(n)
    BY <1>2, <1>3, <1>4, <2>1 DEF SnapTaskSound, PartLoaded
  <2>3. TaskSound(n)
    BY <1>s, <2>1, <2>2 DEF TaskSound
  <2> QED
    BY <1>p, <1>s, <1>1, <2>1, <2>3, TaskStepSafe DEF SnapStart
<1>5. CASE ~prog[t.sid][t.part].done
  <2>1. /\ n.kind = t.kind /\ n.orphan = t.orphan /\ n.pc = "read" /\ n.res = "none"
        /\ n.sid = t.sid /\ n.sver = t.sver /\ n.plan = t.plan /\ n.part = t.part
        /\ n.buf = t.buf /\ n.eof = t.eof /\ n.pos = prog[t.sid][t.part].key
    BY <1>n, <1>s, <1>5 DEF Task
  <2>2. n.buf = Empty
    BY <1>s, <2>1 DEF SnapTaskSound
  <2>3. SnapTaskSound(n)
    BY <1>s, <1>2, <1>3, <2>1, <2>2, EmptyTables DEF SnapTaskSound
  <2>4. TaskSound(n)
    BY <1>s, <2>1, <2>3 DEF TaskSound
  <2> QED
    BY <1>p, <1>s, <1>1, <2>1, <2>4, TaskStepSafe DEF SnapStart
<1> QED
  BY <1>4, <1>5

\* The key read is the smallest one after the cursor, so what lies between is
\* of other parts; a key without a row is in the view of an empty cell too.
LEMMA SnapReadSafe == ASSUME IInv, NEW w \in Workers, SnapRead(w) PROVE Safe'
<1> USE DEF IInv, Safe
<1>p. PICK t \in Task : t = task[w]
  BY Typing
<1>s. TaskSound(t) /\ SnapTaskSound(t) /\ t.kind = "snap" /\ t.pc = "read" /\ t.res = "none"
  BY <1>p DEF InvTasks, SnapRead, TaskSound
<1>1. PICK k \in Remaining(t) :
         /\ \A j \in Remaining(t) : k <= j
         /\ task' = [task EXCEPT ![w] = [t EXCEPT
                !.pos = k, !.buf = BufferAfter(t, k),
                !.pc = IF Cardinality(KeysOf(BufferAfter(t, k))) >= BatchSize
                       THEN "insert" ELSE "read"]]
  BY <1>p DEF SnapRead, Becomes
<1>n. PICK n : n = [t EXCEPT
                !.pos = k, !.buf = BufferAfter(t, k),
                !.pc = IF Cardinality(KeysOf(BufferAfter(t, k))) >= BatchSize
                       THEN "insert" ELSE "read"]
  OBVIOUS
<1>2. /\ n.kind = t.kind /\ n.orphan = t.orphan /\ n.pc \in {"read", "insert"}
      /\ n.res = "none" /\ n.sid = t.sid /\ n.sver = t.sver /\ n.plan = t.plan
      /\ n.part = t.part /\ n.buf = BufferAfter(t, k) /\ n.eof = t.eof /\ n.pos = k
  BY <1>n, <1>s DEF Task
<1>3. k \in Keys /\ t.plan[k] = t.part /\ k > t.pos /\ t.pos \in Nat /\ k \in Nat
  BY TaskTyping DEF Remaining, Keys
<1>4. \A j \in Keys : t.plan[j] = t.part /\ j <= k => j <= t.pos \/ j = k
  BY <1>1, <1>3 DEF Remaining, Keys
<1>5. \A j \in Keys : n.buf[j] = IF j = k /\ row[k].live THEN SnapshotCell(t, k) ELSE t.buf[j]
  BY <1>2, <1>3, TaskTyping DEF BufferAfter, Rows
<1>6. /\ SnapshotCell(t, k).ver = t.sver /\ SnapshotCell(t, k).val = row[k].ver
      /\ SnapshotCell(t, k).live /\ SnapshotCell(t, k) # Absent
  BY DEF SnapshotCell, Absent
<1>7. t.sver = staging.base /\ staging.tag # 0
  BY <1>s DEF SnapTaskSound
<1>8. \A j \in Keys : n.buf[j] # Absent =>
         /\ n.plan[j] = n.part /\ j <= n.pos /\ n.buf[j].ver = n.sver /\ n.buf[j].live
         /\ row[j].ver <= n.sver => row[j].live /\ n.buf[j].val = row[j].ver
  BY <1>s, <1>2, <1>3, <1>5, <1>6 DEF SnapTaskSound, Keys
<1>9. \A j \in Keys : n.plan[j] = n.part /\ j <= n.pos /\ row[j].ver <= n.sver
         => Agrees(staging.rows, j) \/ n.buf[j] # Absent
  <2> SUFFICES ASSUME NEW j \in Keys, t.plan[j] = t.part, j <= k, row[j].ver <= t.sver
               PROVE  Agrees(staging.rows, j) \/ n.buf[j] # Absent
    BY <1>2
  <2>1. CASE j # k
    BY <1>s, <1>4, <1>5, <2>1 DEF SnapTaskSound
  <2>2. CASE j = k /\ row[k].live
    BY <1>5, <1>6, <2>2
  <2>3. CASE j = k /\ ~row[k].live
    <3>1. Agrees(staging.rows, k) \/ staging.rows[k] = Absent
      BY <1>7, <2>3 DEF InvStaging
    <3> QED
      BY <2>3, <3>1, EmptyTables, Typing DEF Agrees
  <2> QED
    BY <2>1, <2>2, <2>3
<1>10. n.pc = "insert" /\ n.eof => \A j \in Keys : n.plan[j] = n.part => j <= n.pos
  BY <1>s, <1>2 DEF SnapTaskSound
<1>11. SnapTaskSound(n)
  BY <1>s, <1>2, <1>8, <1>9, <1>10 DEF SnapTaskSound
<1>12. TaskSound(n)
  BY <1>s, <1>2, <1>11 DEF TaskSound
<1> QED
  BY <1>n, <1>p, <1>s, <1>1, <1>2, <1>12, TaskStepSafe DEF SnapRead

LEMMA SnapEofSafe == ASSUME IInv, NEW w \in Workers, SnapEof(w) PROVE Safe'
<1> USE DEF IInv, Safe
<1>p. PICK t \in Task : t = task[w]
  BY Typing
<1>s. TaskSound(t) /\ SnapTaskSound(t) /\ t.kind = "snap" /\ t.pc = "read" /\ t.res = "none"
  BY <1>p DEF InvTasks, SnapEof, TaskSound
<1>n. PICK n : n = [t EXCEPT !.pc = "insert", !.eof = TRUE]
  OBVIOUS
<1>1. task' = [task EXCEPT ![w] = n]
  BY <1>p, <1>n DEF SnapEof, Becomes
<1>2. /\ n.kind = t.kind /\ n.orphan = t.orphan /\ n.pc = "insert"
      /\ n.res = "none" /\ n.sid = t.sid /\ n.sver = t.sver /\ n.plan = t.plan
      /\ n.part = t.part /\ n.buf = t.buf /\ n.eof /\ n.pos = t.pos
  BY <1>n, <1>s DEF Task
<1>3. \A k \in Keys : n.plan[k] = n.part => k <= n.pos
  <2>1. Remaining(t) = {} /\ t.pos \in Nat
    BY <1>p, TaskTyping DEF SnapEof
  <2> QED
    BY <1>2, <2>1 DEF Remaining, Keys
<1>4. SnapTaskSound(n)
  BY <1>s, <1>2, <1>3 DEF SnapTaskSound
<1>5. TaskSound(n)
  BY <1>s, <1>2, <1>4 DEF TaskSound
<1> QED
  BY <1>p, <1>s, <1>1, <1>2, <1>5, TaskStepSafe DEF SnapEof

\* What an insert of sound snapshot rows does to a row unchanged since the plan.
LEMMA InsertKept ==
    ASSUME NEW rows \in Rows, NEW buf \in Rows, NEW k \in Keys, NEW base \in Nat,
           TypeInv, row[k].ver <= base,
           rows[k].ver <= base \/ rows[k].ver <= row[k].ver,
           buf[k] # Absent => /\ buf[k].ver = base /\ buf[k].live
                              /\ row[k].live /\ buf[k].val = row[k].ver
    PROVE  /\ buf[k] # Absent => Agrees(Upsert(rows, buf), k)
           /\ buf[k] = Absent => Upsert(rows, buf)[k] = rows[k]
           /\ Agrees(rows, k) => Agrees(Upsert(rows, buf), k)
<1>1. rows[k].ver \in Nat /\ row[k].ver \in Nat
  BY Typing DEF Rows, Cell
<1>2. rows[k].ver <= base
  BY <1>1
<1>3. Upsert(rows, buf)[k] = IF buf[k] # Absent THEN buf[k] ELSE rows[k]
  BY <1>2 DEF Upsert
<1>4. buf[k] # Absent => buf[k].live = row[k].live
  <2>1. buf[k].live \in BOOLEAN /\ row[k].live \in BOOLEAN
    BY Typing DEF Rows, Cell
  <2> QED
    BY <2>1
<1> QED
  BY <1>3, <1>4 DEF Agrees

LEMMA SnapInsertSafe == ASSUME IInv, NEW w \in Workers, SnapInsert(w) PROVE Safe'
<1> USE DEF IInv, Safe
<1>f. /\ UNCHANGED <<cur, minValid, row, nextSid, saved, up, stopping, pc, st, planned,
                     loaded, done, target, prog>>
      /\ InvSource'
  BY WorkerFrameKept DEF SnapInsert
<1>p. PICK t \in Task : t = task[w]
  BY Typing
<1>s. TaskSound(t) /\ SnapTaskSound(t) /\ t.kind = "snap" /\ t.pc = "insert" /\ t.res = "none"
  BY <1>p DEF InvTasks, SnapInsert, TaskSound
<1>g. staging.tag # 0 /\ staging.exists /\ t.sver = staging.base
  BY <1>s DEF SnapTaskSound, InvTables
<1>n. PICK n : n = [t EXCEPT !.pc = "checkpoint"]
  OBVIOUS
<1>1. /\ task' = [task EXCEPT ![w] = n]
      /\ staging' = [staging EXCEPT !.rows = Upsert(@, t.buf)]
  BY <1>p, <1>n, <1>g DEF SnapInsert, Becomes
<1>2. /\ n.kind = t.kind /\ n.orphan = t.orphan /\ n.pc = "checkpoint"
      /\ n.res = "none" /\ n.sid = t.sid /\ n.sver = t.sver /\ n.plan = t.plan
      /\ n.part = t.part /\ n.buf = t.buf /\ n.eof = t.eof /\ n.pos = t.pos
  BY <1>n, <1>s DEF Task
<1>t. /\ staging \in Table /\ staging.rows \in Rows /\ t.buf \in Rows /\ staging.base \in Nat
      /\ \A k \in Keys : row[k].ver \in Nat /\ staging.rows[k].ver \in Nat
  BY Typing, TableTyping, TaskTyping
<1>3. /\ staging'.tag = staging.tag /\ staging'.base = staging.base
      /\ staging'.exists = staging.exists /\ staging'.rows = Upsert(staging.rows, t.buf)
  BY <1>1, <1>t DEF Table
<1>4. \A k \in Keys : row[k].ver <= staging.base =>
         /\ t.buf[k] # Absent => Agrees(staging'.rows, k)
         /\ t.buf[k] = Absent => staging'.rows[k] = staging.rows[k]
         /\ Agrees(staging.rows, k) => Agrees(staging'.rows, k)
  <2> SUFFICES ASSUME NEW k \in Keys, row[k].ver <= staging.base
               PROVE  /\ t.buf[k] # Absent => Agrees(staging'.rows, k)
                      /\ t.buf[k] = Absent => staging'.rows[k] = staging.rows[k]
                      /\ Agrees(staging.rows, k) => Agrees(staging'.rows, k)
    OBVIOUS
  <2>1. staging.rows[k].ver <= staging.base \/ staging.rows[k].ver <= row[k].ver
    BY <1>g DEF InvCells, CellsDated
  <2>2. t.buf[k] # Absent => /\ t.buf[k].ver = staging.base /\ t.buf[k].live
                             /\ row[k].live /\ t.buf[k].val = row[k].ver
    BY <1>s, <1>g DEF SnapTaskSound
  <2> QED
    BY <1>t, <1>3, <2>1, <2>2, InsertKept
<1>5. InvTables'
  BY <1>f, <1>3 DEF InvTables
<1>6. InvCells'
  <2>1. \A k \in Keys : staging'.rows[k].ver <= staging.base \/ staging'.rows[k].ver <= row[k].ver
    <3>1. \A k \in Keys :
             \/ staging'.rows[k] = t.buf[k] /\ t.buf[k] # Absent
             \/ staging'.rows[k] = staging.rows[k]
      BY <1>3 DEF Upsert
    <3>2. \A k \in Keys : t.buf[k] # Absent => t.buf[k].ver = staging.base
      BY <1>s, <1>g DEF SnapTaskSound
    <3> QED
      BY <1>g, <1>t, <3>1, <3>2 DEF InvCells, CellsDated
  <2> QED
    BY <1>f, <1>3, <2>1 DEF InvCells, CellsDated
<1>7. InvStates'
  BY <1>f, <1>3 DEF InvStates, StateSound
<1>8. InvStaging'
  BY <1>f, <1>3, <1>4 DEF InvStaging, Agrees
<1>9. InvProgress'
  BY <1>f, <1>3, <1>4 DEF InvProgress, ProgressSound, Agrees
<1>10. \A p : PartLoaded(p) => PartLoaded(p)'
  BY <1>f, <1>3, <1>4 DEF PartLoaded, Agrees
<1>11. InvMemory'
  BY <1>f, <1>3, <1>10 DEF InvMemory
<1>12. InvControl'
  BY <1>f, <1>p, <1>s, NoTaskFields DEF InvControl
<1>13. InvCheckpoint'
  BY <1>f, <1>3 DEF InvCheckpoint, States, Complete, Agrees
<1>14. \A u \in Task : TaskSound(u) /\ u.kind # "cdc" => TaskSound(u)'
  <2> SUFFICES ASSUME NEW u \in Task, TaskSound(u), u.kind # "cdc" PROVE TaskSound(u)'
    OBVIOUS
  <2>1. ASSUME SnapTaskSound(u) PROVE SnapTaskSound(u)'
    <3>1. u.pc # "result" => u.sver = staging.base
      BY <2>1 DEF SnapTaskSound
    <3>2. u.pc \in {"read", "insert", "checkpoint"} => u.pc # "result"
      OBVIOUS
    <3> QED
      BY <1>f, <1>3, <1>4, <1>10, <2>1, <3>1, <3>2 DEF SnapTaskSound, Agrees
  <2> QED
    BY <2>1 DEF TaskSound
<1>15. TaskSound(n)'
  <2>1. SnapTaskSound(n)'
    BY <1>f, <1>s, <1>g, <1>2, <1>3, <1>4 DEF SnapTaskSound, Agrees
  <2> QED
    BY <1>s, <1>2, <2>1 DEF TaskSound
<1>16. InvTasks'
  BY <1>p, <1>s, <1>1, <1>2, <1>14, <1>15, StepTask, Typing
<1> QED
  BY <1>f, <1>5, <1>6, <1>7, <1>8, <1>9, <1>11, <1>12, <1>13, <1>16

\* Insert first, checkpoint after: what the new progress passes over was
\* inserted by this checkpoint or is passed over already.
LEMMA SnapCheckpointSafe == ASSUME IInv, NEW w \in Workers, SnapCheckpoint(w) PROVE Safe'
<1> USE DEF IInv, Safe
<1>f. /\ UNCHANGED <<cur, minValid, row, nextSid, saved, up, stopping, pc, st, planned,
                     loaded, done, target, staging>>
      /\ InvSource'
  BY WorkerFrameKept DEF SnapCheckpoint
<1>p. PICK t \in Task : t = task[w]
  BY Typing
<1>s. TaskSound(t) /\ SnapTaskSound(t) /\ t.kind = "snap" /\ t.pc = "checkpoint" /\ t.res = "none"
  BY <1>p DEF InvTasks, SnapCheckpoint, TaskSound
<1>g. /\ t.sid # 0 /\ t.sid = st.sid /\ t.sid = staging.tag /\ t.sver = staging.base
      /\ t.plan = st.plan /\ t.plan \in Plans /\ t.part \in Parts
      /\ st.phase \in {"snapshot", "resync"} /\ loaded
  BY <1>s DEF SnapTaskSound
<1>r. t.sid \in Sids /\ t.sid < nextSid
  BY <1>p, <1>s, <1>g DEF TypeInv, InvDrawn, InvStates, StateSound
<1>1. PICK key \in LastKeys(t) :
        prog' = [prog EXCEPT ![t.sid][t.part] = [key |-> key, done |-> t.eof]]
  BY <1>p DEF SnapCheckpoint
<1>2. /\ prog'[t.sid][t.part].key = key /\ prog'[t.sid][t.part].done = t.eof
      /\ \A s \in Sids, p \in Parts : s # t.sid \/ p # t.part => prog'[s][p] = prog[s][p]
  BY <1>1, <1>r, <1>g, Typing
<1>3. ASSUME NEW k \in Keys, t.plan[k] = t.part, k <= key \/ t.eof, row[k].ver <= staging.base
      PROVE  Agrees(staging.rows, k)
  <2>1. k <= t.pos => Agrees(staging.rows, k)
    BY <1>s, <1>g, <1>3 DEF SnapTaskSound
  <2>2. CASE t.eof
    BY <1>s, <1>3, <2>1, <2>2 DEF SnapTaskSound
  <2>3. CASE k <= key /\ t.buf # Empty
    <3>1. key \in Keys /\ t.buf[key] # Absent
      BY <1>1, <2>3 DEF LastKeys, KeysOf
    <3>2. key <= t.pos
      BY <1>s, <3>1 DEF SnapTaskSound
    <3> QED
      BY <2>1, <2>3, <3>1, <3>2, TaskTyping DEF Keys
  <2>4. CASE k <= key /\ t.buf = Empty
    <3>1. k <= prog[t.sid][t.part].key
      BY <1>1, <2>4 DEF LastKeys
    <3>2. ProgressSound(st) /\ st.plan[k] = t.part
      BY <1>g, <1>3 DEF InvProgress
    <3> QED
      BY <1>g, <1>3, <3>1, <3>2 DEF ProgressSound
  <2> QED
    BY <1>3, <2>2, <2>3, <2>4
<1>4. InvTables'
  BY <1>f, <1>r, <1>2, Typing, StateTyping DEF InvTables, Sids
<1>5. ASSUME NEW s \in {st, saved} PROVE ProgressSound(s)'
  <2> SUFFICES ASSUME s.sid # 0, s.sid = staging.tag, NEW k \in Keys, s.plan[k] \in Parts,
                      k <= prog'[s.sid][s.plan[k]].key \/ prog'[s.sid][s.plan[k]].done,
                      row[k].ver <= staging.base
               PROVE  Agrees(staging.rows, k)
    BY <1>f DEF ProgressSound, Agrees
  <2>1. NoPlan[k] \notin Parts /\ t.plan[k] \in Parts
    BY <1>g DEF NoPlan, Parts, Plans
  <2>2. s.plan = t.plan /\ s.sid = t.sid
    BY <1>g, <2>1 DEF InvStates
  <2>3. CASE t.plan[k] = t.part
    BY <1>2, <1>3, <2>2, <2>3
  <2>4. CASE t.plan[k] # t.part
    <3>1. prog'[s.sid][s.plan[k]] = prog[s.sid][s.plan[k]]
      BY <1>2, <1>r, <2>1, <2>2, <2>4
    <3>2. ProgressSound(s)
      BY DEF InvProgress
    <3> QED
      BY <3>1, <3>2 DEF ProgressSound
  <2> QED
    BY <2>3, <2>4
<1>6. InvProgress'
  BY <1>5, <1>f DEF InvProgress
<1>7. InvControl'
  BY <1>f, <1>p, <1>s, NoTaskFields DEF InvControl
<1>n. PICK n : n = IF t.eof THEN Result(t, "done")
                   ELSE IF stopping /\ ~t.orphan
                   THEN Result(t, "interrupted")
                   ELSE [t EXCEPT !.buf = Empty, !.pc = "read"]
  OBVIOUS
<1>8. task' = [task EXCEPT ![w] = n]
  BY <1>p, <1>n DEF SnapCheckpoint, Becomes
<1>9. TaskSound(n) /\ n.kind = t.kind
  <2>1. CASE n = Result(t, "done") /\ t.eof
    <3>1. /\ n.kind = t.kind /\ n.orphan = t.orphan /\ n.pc = "result" /\ n.res = "done"
          /\ n.part = t.part
      BY <2>1, ResultFields
    <3>2. SnapTaskSound(n)
      BY <1>g, <1>3, <2>1, <3>1 DEF SnapTaskSound, PartLoaded
    <3> QED
      BY <1>s, <3>1, <3>2 DEF TaskSound
  <2>2. CASE n = Result(t, "interrupted")
    <3>1. /\ n.kind = t.kind /\ n.orphan = t.orphan /\ n.pc = "result" /\ n.res = "interrupted"
      BY <2>2, ResultFields
    <3>2. SnapTaskSound(n)
      BY <1>g, <3>1 DEF SnapTaskSound
    <3> QED
      BY <1>s, <3>1, <3>2 DEF TaskSound
  <2>3. CASE ~t.eof /\ n = [t EXCEPT !.buf = Empty, !.pc = "read"]
    <3>1. /\ n.kind = t.kind /\ n.orphan = t.orphan /\ n.pc = "read"
          /\ n.res = "none" /\ n.sid = t.sid /\ n.sver = t.sver /\ n.plan = t.plan
          /\ n.part = t.part /\ n.buf = Empty /\ n.eof = t.eof /\ n.pos = t.pos
      BY <1>s, <2>3 DEF Task
    <3>2. SnapTaskSound(n)
      BY <1>s, <1>g, <2>3, <3>1, EmptyTables DEF SnapTaskSound
    <3> QED
      BY <1>s, <3>1, <3>2 DEF TaskSound
  <2> QED
    BY <1>n, <2>1, <2>2, <2>3
<1>10. InvTasks'
  <2>1. \A u \in Task : TaskSound(u) => TaskSound(u)'
    BY <1>f, TaskKept
  <2>2. TaskSound(n)'
    BY <1>f, <1>9, TaskKept
  <2> QED
    BY <1>p, <1>s, <1>8, <1>9, <2>1, <2>2, StepTask, Typing
<1> QED
  BY <1>f, <1>4, <1>6, <1>7, <1>10, KeepCells, KeepStates, KeepStaging, KeepMemory,
     KeepCheckpoint

\* The changes after a checkpoint within retention are all there: every row not
\* among them the live table has already.
LEMMA CdcOpenSafe == ASSUME IInv, NEW w \in Workers, CdcOpen(w) PROVE Safe'
<1> USE DEF IInv, Safe
<1>p. PICK t \in Task : t = task[w]
  BY Typing
<1>s. TaskSound(t) /\ CdcTaskSound(t) /\ t.kind = "cdc" /\ t.pc = "open" /\ t.res = "none"
  BY <1>p DEF InvTasks, CdcOpen, TaskSound
<1>g. /\ st.phase \in {"cdc", "resync"} /\ target.tag # 0
      /\ t.last <= cur /\ Complete(target.rows, t.last)
  BY <1>s DEF CdcTaskSound
<1>n. PICK n : n = IF Expired(t.last) THEN Result(t, "resync")
                   ELSE [t EXCEPT !.pc = "apply", !.buf = Changes(t.last),
                                  !.ver = IF cur > t.last THEN cur ELSE t.last]
  OBVIOUS
<1>1. task' = [task EXCEPT ![w] = n]
  BY <1>p, <1>n DEF CdcOpen, Becomes
<1>2. CASE Expired(t.last)
  <2>1. /\ n.kind = t.kind /\ n.orphan = t.orphan /\ n.pc = "result" /\ n.res = "resync"
    BY <1>2, <1>n, ResultFields
  <2>2. TaskSound(n)
    BY <1>s, <1>g, <2>1 DEF TaskSound, CdcTaskSound
  <2> QED
    BY <1>p, <1>s, <1>1, <2>1, <2>2, TaskStepSafe DEF CdcOpen
<1>3. CASE ~Expired(t.last)
  <2>t. /\ t.last \in Nat /\ cur \in Nat /\ minValid \in Nat /\ target.base \in Nat
        /\ \A k \in Keys : row[k].ver \in Nat
        /\ st.last \in Nat /\ saved.last \in Nat
    BY Typing, TaskTyping, TableTyping, StateTyping
  <2>1. /\ n.kind = t.kind /\ n.orphan = t.orphan /\ n.pc = "apply" /\ n.res = "none"
        /\ n.buf = Changes(t.last) /\ n.ver = IF cur > t.last THEN cur ELSE t.last
    BY <1>s, <1>3, <1>n DEF Task
  <2>2. n.ver = cur
    BY <1>g, <2>1, <2>t
  <2>3. \A k \in Keys : k \in Changed(t.last) =>
           /\ n.buf[k].ver = row[k].ver /\ n.buf[k].val = row[k].ver
           /\ n.buf[k].live = row[k].live /\ n.buf[k] # Absent
    <3> TAKE k \in Keys
    <3> HAVE k \in Changed(t.last)
    <3>1. n.buf[k] = [ver |-> row[k].ver, val |-> row[k].ver, live |-> row[k].live]
      BY <2>1 DEF Changes
    <3>2. row[k].ver > t.last
      BY DEF Changed
    <3> QED
      BY <2>t, <3>1, <3>2, EmptyTables
  <2>4. \A k \in Keys : k \notin Changed(t.last) => n.buf[k] = Absent /\ Agrees(target.rows, k)
    BY <1>g, <1>3, <2>1, <2>t DEF Changes, Changed, Expired, Complete
  <2>5. target.base <= cur /\ st.last <= cur /\ saved.last <= cur
    BY DEF InvTables, InvStates, StateSound
  <2>6. CdcTaskSound(n)
    BY <1>g, <2>1, <2>2, <2>3, <2>4, <2>5, <2>t DEF CdcTaskSound, States
  <2>7. TaskSound(n)
    BY <1>s, <2>1, <2>6 DEF TaskSound
  <2> QED
    BY <1>p, <1>s, <1>1, <2>1, <2>7, TaskStepSafe DEF CdcOpen
<1> QED
  BY <1>2, <1>3

LEMMA CdcDoneSafe == ASSUME IInv, NEW w \in Workers, CdcDone(w) PROVE Safe'
<1> USE DEF IInv, Safe
<1>p. PICK t \in Task : t = task[w]
  BY Typing
<1>s. /\ TaskSound(t) /\ CdcTaskSound(t) /\ t.kind = "cdc" /\ t.pc = "apply"
      /\ t.res = "none" /\ t.buf = Empty
  BY <1>p DEF InvTasks, CdcDone, TaskSound
<1>n. PICK n : n = Result(t, "ok")
  OBVIOUS
<1>1. task' = [task EXCEPT ![w] = n]
  BY <1>p, <1>n DEF CdcDone, Becomes
<1>2. /\ n.kind = t.kind /\ n.orphan = t.orphan /\ n.pc = "result" /\ n.res = "ok"
      /\ n.ver = t.ver
  BY <1>n, ResultFields
<1>3. Complete(target.rows, t.ver) /\ t.ver <= cur
  BY <1>s, EmptyTables DEF CdcTaskSound, Complete
<1>4. CdcTaskSound(n)
  BY <1>s, <1>2, <1>3 DEF CdcTaskSound
<1>5. TaskSound(n)
  BY <1>s, <1>2, <1>4 DEF TaskSound
<1> QED
  BY <1>p, <1>s, <1>1, <1>2, <1>5, TaskStepSafe DEF CdcDone

\* A batch of changes: each is newer than what the live table shows of its
\* key, unless the table shows the row as it is already.
LEMMA CdcInsertKept ==
    ASSUME IInv, NEW w \in Workers, NEW t \in Task, t = task[w], CdcInsert(w),
           NEW S \in SUBSET KeysOf(t.buf),
           target' = [target EXCEPT !.rows = Upsert(@, Only(t.buf, S))]
    PROVE  /\ target'.tag = target.tag /\ target'.base = target.base
           /\ target'.since = target.since /\ target'.exists = target.exists
           /\ \A k \in Keys : target'.rows[k] =
                 IF k \in S /\ t.buf[k].ver >= target.rows[k].ver
                 THEN t.buf[k] ELSE target.rows[k]
           /\ \A k \in Keys : row[k].ver <= t.ver =>
                 /\ Agrees(target.rows, k) => Agrees(target'.rows, k)
                 /\ k \in S => Agrees(target'.rows, k)
           /\ \A v \in Nat : v <= t.ver /\ Complete(target.rows, v) => Complete(target'.rows, v)
<1> USE DEF IInv, Safe
<1>s. TaskSound(t) /\ CdcTaskSound(t) /\ t.kind = "cdc" /\ t.pc = "apply"
  BY DEF InvTasks, CdcInsert, TaskSound
<1>g. /\ target.tag # 0 /\ target.base <= t.ver
      /\ \A k \in Keys :
           /\ t.buf[k] # Absent => t.buf[k].ver <= row[k].ver
           /\ row[k].ver <= t.ver =>
                 IF t.buf[k] = Absent THEN Agrees(target.rows, k)
                 ELSE /\ t.buf[k].ver = row[k].ver /\ t.buf[k].val = row[k].ver
                      /\ t.buf[k].live = row[k].live
  BY <1>s DEF CdcTaskSound
<1>t. /\ target \in Table /\ target.base \in Nat /\ t.ver \in Nat
      /\ \A k \in Keys : /\ row[k].ver \in Nat /\ target.rows[k].ver \in Nat
                          /\ t.buf[k].ver \in Nat
  BY Typing, TableTyping, TaskTyping
<1>3. /\ target'.tag = target.tag /\ target'.base = target.base
      /\ target'.since = target.since /\ target'.exists = target.exists /\ target'.rows = Upsert(target.rows, Only(t.buf, S))
  BY <1>t DEF Table
<1>4. \A k \in Keys : target'.rows[k] = IF k \in S /\ t.buf[k].ver >= target.rows[k].ver
                                        THEN t.buf[k] ELSE target.rows[k]
  <2>1. \A k \in S : t.buf[k] # Absent
    BY DEF KeysOf
  <2> QED
    BY <1>3, <2>1 DEF Upsert, Only
<1>5. ASSUME NEW k \in Keys, row[k].ver <= t.ver
      PROVE  /\ Agrees(target.rows, k) => Agrees(target'.rows, k)
             /\ k \in S => Agrees(target'.rows, k)
  <2>0. k \in S => t.buf[k] # Absent
    BY DEF KeysOf
  <2>1. CASE k \in S /\ t.buf[k].ver >= target.rows[k].ver
    BY <1>g, <1>4, <1>5, <2>0, <2>1 DEF Agrees
  <2>2. CASE k \in S /\ ~(t.buf[k].ver >= target.rows[k].ver)
    <3>1. row[k].ver < target.rows[k].ver
      BY <1>g, <1>5, <1>t, <2>0, <2>2
    <3>2. row[k].ver <= target.base
      BY <1>g, <1>t, <3>1 DEF InvCells, CellsDated
    <3>3. Agrees(target.rows, k)
      BY <1>g, <3>2 DEF InvCheckpoint, Complete
    <3> QED
      BY <1>4, <2>2, <3>3 DEF Agrees
  <2>3. CASE k \notin S
    BY <1>4, <2>3 DEF Agrees
  <2> QED
    BY <2>1, <2>2, <2>3
<1>6. \A v \in Nat : v <= t.ver /\ Complete(target.rows, v) => Complete(target'.rows, v)
  BY <1>5, <1>t DEF Complete
<1> QED
  BY <1>3, <1>4, <1>5, <1>6

LEMMA CdcInsertSafe == ASSUME IInv, NEW w \in Workers, CdcInsert(w) PROVE Safe'
<1> USE DEF IInv, Safe
<1>f. /\ UNCHANGED <<cur, minValid, row, nextSid, saved, up, stopping, pc, st, planned,
                     loaded, done, staging, prog>>
      /\ InvSource'
  BY WorkerFrameKept DEF CdcInsert
<1>p. PICK t \in Task : t = task[w]
  BY Typing
<1>s. /\ TaskSound(t) /\ CdcTaskSound(t) /\ t.kind = "cdc" /\ t.pc = "apply"
      /\ t.res = "none"
  BY <1>p DEF InvTasks, CdcInsert, TaskSound
<1>g. /\ st.phase \in {"cdc", "resync"} /\ target.tag # 0
      /\ target.base <= t.ver /\ t.ver <= cur
      /\ \A s \in States : s.phase = "cdc" => s.last <= t.ver
      /\ \A k \in Keys :
           /\ t.buf[k] # Absent => t.buf[k].ver <= row[k].ver
           /\ row[k].ver <= t.ver =>
                 IF t.buf[k] = Absent THEN Agrees(target.rows, k)
                 ELSE /\ t.buf[k].ver = row[k].ver /\ t.buf[k].val = row[k].ver
                      /\ t.buf[k].live = row[k].live
  BY <1>s DEF CdcTaskSound
<1>1. PICK S \in SUBSET KeysOf(t.buf) :
        /\ target' = [target EXCEPT !.rows = Upsert(@, Only(t.buf, S))]
        /\ task' = [task EXCEPT ![w] = [t EXCEPT !.buf = Only(@, Keys \ S)]]
  BY <1>p DEF CdcInsert, Becomes
<1>n. PICK n : n = [t EXCEPT !.buf = Only(@, Keys \ S)]
  OBVIOUS
<1>2. /\ n.kind = t.kind /\ n.orphan = t.orphan /\ n.pc = "apply" /\ n.res = "none"
      /\ n.ver = t.ver
      /\ \A k \in Keys : n.buf[k] = IF k \in S THEN Absent ELSE t.buf[k]
  BY <1>n, <1>s DEF Task, Only
<1>t. /\ target \in Table /\ target.base \in Nat /\ t.ver \in Nat
      /\ st.last \in Nat /\ saved.last \in Nat
      /\ \A k \in Keys : /\ row[k].ver \in Nat /\ target.rows[k].ver \in Nat
                          /\ t.buf[k].ver \in Nat
  BY Typing, TableTyping, TaskTyping, StateTyping
<1>3. /\ target'.tag = target.tag /\ target'.base = target.base
      /\ target'.exists = target.exists
      /\ \A k \in Keys : target'.rows[k] = IF k \in S /\ t.buf[k].ver >= target.rows[k].ver
                                           THEN t.buf[k] ELSE target.rows[k]
      /\ \A k \in Keys : row[k].ver <= t.ver =>
           /\ Agrees(target.rows, k) => Agrees(target'.rows, k)
           /\ k \in S => Agrees(target'.rows, k)
      /\ \A v \in Nat : v <= t.ver /\ Complete(target.rows, v) => Complete(target'.rows, v)
  BY <1>p, <1>1, CdcInsertKept
<1>7. InvTables'
  BY <1>f, <1>3 DEF InvTables
<1>8. InvCells'
  <2>1. \A k \in S : t.buf[k] # Absent
    BY DEF KeysOf
  <2> QED
    BY <1>f, <1>g, <1>3, <2>1 DEF InvCells, CellsDated
<1>9. InvStates'
  BY <1>f, <1>3 DEF InvStates, StateSound
<1>10. InvMemory'
  BY <1>f, <1>g DEF InvMemory
<1>11. InvControl'
  BY <1>f, <1>p, <1>s, NoTaskFields DEF InvControl
<1>12. InvCheckpoint'
  <2>1. Complete(target'.rows, target.base)
    BY <1>g, <1>t, <1>3 DEF InvCheckpoint
  <2>2. \A s \in States : s.phase = "cdc" => Complete(target'.rows, s.last)
    BY <1>g, <1>t, <1>3 DEF InvCheckpoint, States
  <2> QED
    BY <1>f, <1>g, <1>3, <2>1, <2>2 DEF InvCheckpoint, States, Complete, Agrees
<1>13. CdcTaskSound(n)'
  <2>1. \A k \in Keys : n.buf[k] # Absent => n.buf[k] = t.buf[k] /\ t.buf[k] # Absent
    BY <1>2
  <2>2. \A k \in Keys : row[k].ver <= n.ver /\ n.buf[k] = Absent => Agrees(target'.rows, k)
    <3> SUFFICES ASSUME NEW k \in Keys, row[k].ver <= t.ver, n.buf[k] = Absent
                 PROVE  Agrees(target'.rows, k)
      BY <1>2
    <3>1. CASE k \in S
      BY <1>3, <3>1
    <3>2. CASE k \notin S
      BY <1>2, <1>3, <1>g, <3>2
    <3> QED
      BY <3>1, <3>2
  <2> QED
    BY <1>f, <1>g, <1>2, <1>3, <2>1, <2>2 DEF CdcTaskSound, States, Agrees
<1>14. InvTasks'
  <2>1. TaskSound(n)'
    BY <1>s, <1>2, <1>13 DEF TaskSound
  <2>2. \A u \in Task : TaskSound(u) /\ u.kind # "cdc" => TaskSound(u)'
    BY <1>f DEF TaskSound, SnapTaskSound, PartLoaded, Agrees
  <2> QED
    BY <1>n, <1>p, <1>s, <1>1, <1>2, <2>1, <2>2, StepTask, Typing
<1> QED
  BY <1>f, <1>7, <1>8, <1>9, <1>10, <1>11, <1>12, <1>14, KeepStaging, KeepProgress

-----------------------------------------------------------------------------
(* The theorems.                                                           *)

LEMMA InitSafe == Init => IInv
<1> SUFFICES ASSUME Init PROVE IInv
  OBVIOUS
<1>t. TypeInv
  BY TypeInit, DrawnInit DEF TypeInv
<1>0. /\ NewState.phase = "new" /\ NewState.sid = 0 /\ NewState.plan = NoPlan
      /\ NewState.last = 0
  BY DEF NewState
<1>1. InvSource
  BY DEF Init, SourceInit, InvSource
<1>2. InvTables
  BY EmptyTables, SyncAssumption DEF Init, SourceInit, InvTables
<1>3. InvCells /\ InvStaging /\ InvProgress
  BY <1>0, EmptyTables DEF Init, InvCells, CellsDated, InvStaging, InvProgress, ProgressSound
<1>4. InvStates
  BY <1>0 DEF Init, SourceInit, InvStates, StateSound
<1>5. InvMemory /\ InvControl
  BY <1>0 DEF Init, InvMemory, InvControl
<1>6. InvCheckpoint
  BY <1>0, EmptyTables DEF Init, InvCheckpoint, States
<1>7. InvTasks
  BY NoTaskSound, NoTaskFields DEF Init, InvTasks
<1> QED
  BY <1>t, <1>1, <1>2, <1>3, <1>4, <1>5, <1>6, <1>7 DEF IInv, Safe

LEMMA NextSafe == ASSUME ~OrphansSurvive, IInv, [Next]_vars PROVE IInv'
<1>t. TypeInv'
  BY TypeNext, DrawnNext DEF IInv, TypeInv
<1> SUFFICES Safe'
  BY <1>t DEF IInv
<1>1. CASE UNCHANGED vars \/ Request \/ Stop \/ PlanOrFinalizeFails
  BY <1>1, QuietSafe
<1>2. CASE SourceStep
  BY <1>2, SourceSafe
<1>3. CASE CheckRequests
  BY <1>3, <1>t, RequestsSafe
<1>4. CASE PlanStep
  BY <1>4, PlanBeginSafe, DropSafe, PlanCreateSafe, PlanSaveSafe DEF PlanStep
<1>5. CASE ResumeStep
  BY <1>5, <1>t, ResumeSafe
<1>6. CASE FinalizeStep
  BY <1>6, SwapSafe, DropSafe, FinalizeSaveSafe DEF FinalizeStep
<1>7. CASE SubmitStep
  BY <1>7, SubmitSafe
<1>8. CASE Flush \/ Exit \/ Crash \/ Restart
  BY <1>8, FlushSafe, EndSafe, RestartSafe
<1>9. ASSUME NEW w \in Workers, Collect(w) \/ WorkerStep(w) \/ TaskFails(w) \/ OrphanExit(w)
      PROVE  Safe'
  <2>1. CASE Collect(w) \/ TaskFails(w)
    BY <2>1, CollectSafe, FailsSafe
  <2>2. CASE WorkerStep(w)
    BY <2>2, SnapStartSafe, SnapReadSafe, SnapEofSafe, SnapInsertSafe, SnapCheckpointSafe,
       CdcOpenSafe, CdcInsertSafe, CdcDoneSafe DEF WorkerStep
  <2>3. CASE OrphanExit(w)
    BY <2>3 DEF OrphanExit, IInv, Safe, InvTasks, TaskSound
  <2> QED
    BY <1>9, <2>1, <2>2, <2>3
<1> QED
  BY <1>1, <1>2, <1>3, <1>4, <1>5, <1>6, <1>7, <1>8, <1>9 DEF Next

\* When a killed supervisor takes its workers with it, the invariant behind
\* every safety property of TableSync holds in every reachable state.
THEOREM SyncInvariant == ASSUME ~OrphansSurvive PROVE Spec => []IInv
<1>1. Init => IInv
  BY InitSafe
<1>2. IInv /\ [Next]_vars => IInv'
  BY NextSafe
<1> QED
  BY <1>1, <1>2, PTL DEF Spec

\* Readers never see a half-loaded table: _finalize swaps the staging table in
\* only when every part of the snapshot is in it, whatever crashed before.
THEOREM ReadersSeeWholeTables == ASSUME ~OrphansSurvive PROVE Spec => []LiveTableWhole
<1>1. IInv => LiveTableWhole
  BY DEF IInv, Safe, InvCheckpoint, LiveTableWhole
<1> QED
  BY <1>1, SyncInvariant, PTL

\* No lost changes and no ghosts: the CDC checkpoint, in memory and in
\* sync_state, never passes a change the live table does not show.
THEOREM CheckpointIsCovered == ASSUME ~OrphansSurvive PROVE Spec => []CheckpointCovered
<1>1. IInv => CheckpointCovered
  BY DEF IInv, Safe, InvCheckpoint, States, CheckpointCovered
<1> QED
  BY <1>1, SyncInvariant, PTL

\* A resumed snapshot misses nothing: what snapshot_progress passes over is in
\* the staging table.
THEOREM ProgressIsCovered == ASSUME ~OrphansSurvive PROVE Spec => []ProgressCovered
<1>1. ASSUME IInv PROVE ProgressCovered
  <2> SUFFICES ASSUME saved.phase = "snapshot", staging.tag = saved.sid, NEW k \in Keys,
                      \/ k <= prog[saved.sid][saved.plan[k]].key
                      \/ prog[saved.sid][saved.plan[k]].done,
                      row[k].ver <= saved.sver
               PROVE  Agrees(staging.rows, k)
    BY DEF ProgressCovered
  <2>1. saved.sid # 0 /\ saved.sver = staging.base
    BY <1>1 DEF IInv, Safe, InvStates, StateSound
  <2>2. saved.plan[k] \in Parts
    BY <1>1 DEF IInv, TypeInv, InvDrawn, Plans
  <2> QED
    BY <1>1, <2>1, <2>2 DEF IInv, Safe, InvProgress, ProgressSound
<1>2. IInv => ProgressCovered
  BY <1>1
<1> QED
  BY <1>2, SyncInvariant, PTL

\* Rows deleted while the history was unavailable disappear too, as long as no
\* worker outlives its supervisor.
THEOREM NoGhostsWithoutOrphans == ASSUME ~OrphansSurvive PROVE Spec => []NoGhostRow
<1>1. IInv => NoGhostRow
  BY DEF IInv, Safe, InvCheckpoint, States, NoGhostRow, Complete, Agrees
<1> QED
  BY <1>1, SyncInvariant, PTL

-----------------------------------------------------------------------------
(* Why tasks may be run again: what inserts leave behind.                  *)

LEMMA CellVersions ==
    ASSUME NEW rows \in Rows, NEW k \in Keys
    PROVE  rows[k].ver \in Nat /\ rows[k] \in Cell
BY DEF Rows, Cell

\* An insert repeated after it had got through, by a retry or by a task that
\* is run again, adds nothing, though other rows were written in between,
\* unless those gave one version of a row another content.
THEOREM WritesRepeat ==
    ASSUME NEW rows \in Rows, NEW batch \in Rows, NEW other \in Rows,
           \A k \in KeysOf(batch) \cap KeysOf(other) :
               batch[k].ver = other[k].ver => batch[k] = other[k]
    PROVE  Upsert(Upsert(Upsert(rows, batch), other), batch) = Upsert(Upsert(rows, batch), other)
<1>1. \A k \in Keys : rows[k].ver \in Nat /\ batch[k].ver \in Nat /\ other[k].ver \in Nat
  BY CellVersions
<1>2. \A k \in Keys : batch[k] # Absent /\ other[k] # Absent /\ batch[k].ver = other[k].ver
                         => batch[k] = other[k]
  BY DEF KeysOf
<1>3. ASSUME NEW k \in Keys
      PROVE  Upsert(Upsert(Upsert(rows, batch), other), batch)[k]
                 = Upsert(Upsert(rows, batch), other)[k]
  BY <1>1, <1>2 DEF Upsert
<1> QED
  BY <1>3 DEF Upsert

\* However the rows are cut into batches, also where batches overlap, the
\* table ends up the same.
THEOREM BatchesDoNotMatter ==
    ASSUME NEW rows \in Rows, NEW batch \in Rows, NEW S \in SUBSET Keys, NEW T \in SUBSET Keys,
           KeysOf(batch) \subseteq S \cup T
    PROVE  Upsert(Upsert(rows, Only(batch, S)), Only(batch, T)) = Upsert(rows, batch)
<1>1. \A k \in Keys : rows[k].ver \in Nat /\ batch[k].ver \in Nat
  BY CellVersions
<1>2. \A k \in Keys : k \in S \/ k \in T \/ batch[k] = Absent
  BY DEF KeysOf
<1>3. \A k \in Keys : Upsert(Upsert(rows, Only(batch, S)), Only(batch, T))[k]
                          = Upsert(rows, batch)[k]
  BY <1>1, <1>2 DEF Upsert, Only
<1> QED
  BY <1>3 DEF Upsert

\* Batches may arrive in any order, unless they give one version of a row two
\* different contents.
THEOREM OrderDoesNotMatter ==
    ASSUME NEW rows \in Rows, NEW a \in Rows, NEW b \in Rows,
           \A k \in KeysOf(a) \cap KeysOf(b) : a[k].ver = b[k].ver => a[k] = b[k]
    PROVE  Upsert(Upsert(rows, a), b) = Upsert(Upsert(rows, b), a)
<1>1. \A k \in Keys : rows[k].ver \in Nat /\ a[k].ver \in Nat /\ b[k].ver \in Nat
  BY CellVersions
<1>2. \A k \in Keys : a[k] # Absent /\ b[k] # Absent /\ a[k].ver = b[k].ver => a[k] = b[k]
  BY DEF KeysOf
<1>3. ASSUME NEW k \in Keys
      PROVE  Upsert(Upsert(rows, a), b)[k] = Upsert(Upsert(rows, b), a)[k]
  BY <1>1, <1>2 DEF Upsert
<1> QED
  BY <1>3 DEF Upsert
=============================================================================
