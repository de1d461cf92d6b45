------------------------- MODULE TableSync_replica -------------------------
(***************************************************************************)
(* TableSync implements Replica, for every value of the constants, when    *)
(* workers end with their supervisor and sync_state takes every write: the *)
(* invariant RInv over IInv, then one step of Replica for every step.      *)
(***************************************************************************)
EXTENDS TableSyncReplica, TableSync_safety

-----------------------------------------------------------------------------
(* Facts about the values.                                                 *)

LEMMA ReplicaTyping ==
    ASSUME TypeInv
    PROVE  /\ st.last \in Nat /\ saved.last \in Nat /\ st.sid \in Nat /\ saved.sid \in Nat
           /\ target.base \in Nat /\ staging.base \in Nat /\ target.tag \in Nat
           /\ \A k \in Keys : /\ row[k].ver \in Nat
                              /\ target.rows[k].val \in Nat /\ staging.rows[k].val \in Nat
BY DEF TypeInv, TypeOK, SourceTypeOK, Table, Rows, Cell, TableState

LEMMA NoTaskFresh == TaskFresh(NoTask) /\ TaskFresh(NoTask)'
<1>1. NoTask.buf = Empty /\ NoTask.kind = "none"
  BY DEF NoTask
<1> QED
  BY <1>1, EmptyTables DEF TaskFresh

\* A task that ends: what it returns says no more than what it knew.
LEMMA ResultFresh ==
    ASSUME NEW t, TaskFresh(t), NEW res, res = "ok" => t.pc = "apply"
    PROVE  TaskFresh(Result(t, res))
<1>1. /\ Result(t, res).buf = Empty /\ Result(t, res).kind = t.kind
      /\ Result(t, res).pc = "result" /\ Result(t, res).res = res
      /\ Result(t, res).ver = t.ver
  BY DEF Result, NoTask
<1> QED
  BY <1>1, EmptyTables DEF TaskFresh

\* The parts that are not about tasks depend on these variables only.
LEMMA KeepParts ==
    ASSUME RInv, UNCHANGED <<row, target, staging, saved, st, req, up>>,
           pc' = "idle" \/ UNCHANGED <<pc, planned>>
    PROVE  /\ RBare' /\ RState' /\ RLive' /\ RPlan' /\ RStaged' /\ RCovered' /\ RVals'
BY DEF RInv, RBare, RState, RLive, RPlan, RStaged, RCovered, RVals, States,
   Complete, Agrees

\* Tasks stay fresh while the tables and the checkpoint stay as they are.
LEMMA KeepFresh ==
    ASSUME RInv, UNCHANGED <<row, target, st>>,
           \A w \in Workers : task'[w] = task[w] \/ TaskFresh(task'[w])
    PROVE  RTasks'
BY DEF RInv, RTasks, TaskFresh

\* Where no task is left, nothing has to be fresh.
LEMMA NoTasksFresh == (\A w \in Workers : task'[w] = NoTask) => RTasks'
BY NoTaskFresh DEF RTasks

-----------------------------------------------------------------------------
(* The invariant is preserved.                                             *)

LEMMA InitFresh == Init => RInv
<1> SUFFICES ASSUME Init PROVE RInv
  OBVIOUS
<1>t. TypeInv
  BY TypeInit, DrawnInit DEF TypeInv
<1>0. /\ NewState.phase = "new" /\ NewState.sid = 0 /\ NewState.last = 0
      /\ NewState.handled = 0
      /\ NoTable.tag = 0 /\ NoTable.base = 0 /\ NoTable.since = 0 /\ NoTable.rows = Empty
  BY DEF NewState, NoTable
<1>1. RBare /\ RState /\ RLive /\ RPlan /\ RStaged /\ RCovered
  BY <1>0 DEF Init, RBare, RState, RLive, RPlan, RStaged, RCovered, States
<1>2. RVals
  BY <1>0, <1>t, ReplicaTyping DEF Init, RVals, Empty, Absent
<1>3. RTasks
  BY NoTaskFresh DEF Init, RTasks
<1> QED
  BY <1>1, <1>2, <1>3 DEF RInv

LEMMA SourceFresh == ASSUME IInv, RInv, SourceStep PROVE RInv'
<1>r. \A k \in Keys : row[k].ver <= row'[k].ver /\ row'[k].ver \in Nat
  BY RowKept, TypeSource DEF IInv, Safe, TypeInv, TypeOK, SourceTypeOK
<1>u. UNCHANGED <<target, staging, saved, st, req, up, pc, planned, task>>
  BY DEF SourceStep, clickhouseVars, supervisorVars
<1>t. TypeInv
  BY DEF IInv
<1>1. RBare' /\ RState' /\ RLive' /\ RPlan' /\ RStaged'
  BY <1>u DEF RInv, RBare, RState, RLive, RPlan, RStaged, States
<1>2. RCovered'
  <2>1. st.last <= cur /\ saved.last <= cur
    BY DEF IInv, Safe, InvStates, StateSound
  <2>2. \A s \in States : s.last \in Nat /\ s.last <= cur
    BY <1>t, <2>1, ReplicaTyping DEF States
  <2>3. ASSUME target.tag # 0, NEW s \in States PROVE Complete(target.rows, s.last)'
    <3>1. Complete(target.rows, s.last)
      BY <2>3 DEF RInv, RCovered
    <3>2. InvSource
      BY DEF IInv, Safe
    <3>3. s.last \in Nat /\ s.last <= cur
      BY <2>2, <2>3
    <3>4. \A k \in Keys : row'[k].ver <= s.last =>
             /\ target.rows[k].live = row'[k].live
             /\ row'[k].live => target.rows[k].val = row'[k].ver
      BY <1>t, <3>1, <3>2, <3>3, CompleteKept
    <3> QED
      BY <1>u, <3>4 DEF Complete, Agrees
  <2> QED
    BY <1>u, <2>3 DEF RCovered, States
<1>3. RVals'
  BY <1>r, <1>u, <1>t, ReplicaTyping DEF RInv, RVals
<1>4. RTasks'
  <2>1. \A w \in Workers : \A k \in Keys : task[w].buf[k].val \in Nat
    BY <1>t, Typing, TaskTyping
  <2> QED
    BY <1>r, <1>u, <1>t, <2>1, ReplicaTyping DEF RInv, RTasks, TaskFresh
<1> QED
  BY <1>1, <1>2, <1>3, <1>4 DEF RInv

LEMMA RequestFresh == ASSUME IInv, RInv, Request PROVE RInv'
<1>u. /\ UNCHANGED <<row, target, staging, saved, st, up, pc, planned, task>>
      /\ req' = req + 1
  BY DEF Request, sourceVars, supervisorVars
<1>1. RBare' /\ RState' /\ RLive' /\ RPlan' /\ RStaged' /\ RCovered' /\ RVals'
  BY <1>u DEF RInv, RBare, RState, RLive, RPlan, RStaged, RCovered, RVals, States,
     Complete, Agrees
<1>3. RTasks'
  BY <1>u, KeepFresh
<1> QED
  BY <1>1, <1>3 DEF RInv

\* Steps that move no table, no state and no request.
LEMMA QuietFresh ==
    ASSUME IInv, RInv,
           UNCHANGED vars \/ Stop \/ PlanOrFinalizeFails \/ ResumeLoad
    PROVE  RInv'
<1>1. /\ UNCHANGED <<row, target, staging, saved, st, req, up, task>>
      /\ pc' = "idle" \/ UNCHANGED <<pc, planned>>
  BY DEF Stop, PlanOrFinalizeFails, ResumeLoad, vars, sourceVars, clickhouseVars, supervisorVars
<1>2. RTasks'
  BY <1>1, KeepFresh
<1> QED
  BY <1>1, <1>2, KeepParts DEF RInv

\* The phase of the state in memory goes back to the start.
LEMMA PhaseFresh ==
    ASSUME IInv, RInv, CheckRequests \/ ResumeReplan
    PROVE  RInv'
<1>u. /\ UNCHANGED <<row, target, staging, saved, req, up, pc, planned, task>>
      /\ pc = "idle"
  BY DEF CheckRequests, ResumeReplan, Resuming, Scheduling, sourceVars, clickhouseVars
<1>t. TypeInv
  BY DEF IInv
<1>1. /\ st'.phase \in {"new", "resync"} /\ st'.sid = st.sid /\ st'.last = st.last
      /\ st'.handled = req \/ st'.handled = st.handled
  BY <1>t, Typing DEF CheckRequests, ResumeReplan, AfterRequest, TableState
<1>2. RBare' /\ RState' /\ RLive' /\ RPlan' /\ RStaged' /\ RVals'
  BY <1>u, <1>1 DEF RInv, RBare, RState, RLive, RPlan, RStaged, RVals, States
<1>3. RCovered'
  BY <1>u, <1>1 DEF RInv, RCovered, States, Complete, Agrees
<1>5. RTasks'
  BY <1>u, <1>1 DEF RInv, RTasks, TaskFresh
<1> QED
  BY <1>2, <1>3, <1>5 DEF RInv

\* What a plan and a cut-over keep of the state in memory.
LEMMA StateFields ==
    ASSUME TypeInv
    PROVE  /\ \A p : Planned(p).handled = st.handled
           /\ CutOver(st).phase = "cdc" /\ CutOver(st).sid = st.sid
           /\ CutOver(st).last = st.sver /\ CutOver(st).handled = st.handled
BY Typing DEF Planned, CutOver, TableState

LEMMA PlanBeginFresh == ASSUME IInv, RInv, PlanBegin PROVE RInv'
<1>u. /\ UNCHANGED <<row, staging, saved, st, req, up, task>>
      /\ pc' = "plan_drop" /\ planned' = SnapshotVersion
  BY DEF PlanBegin, sourceVars
<1>t. TypeInv /\ cur \in Nat /\ minValid \in Nat
  BY Typing DEF IInv
<1>b. /\ target.base <= cur /\ st.last <= cur /\ minValid <= cur
      /\ target.tag # 0 => target.exists
  BY DEF IInv, Safe, InvTables, InvStates, StateSound, InvSource
<1>1. /\ target'.tag = target.tag /\ target'.base = target.base
      /\ target'.rows = target.rows
  <2>1. CASE target.exists
    BY <2>1 DEF PlanBegin
  <2>2. CASE ~target.exists
    <3>1. target.tag = 0 /\ target.rows = Empty /\ target.base = 0
      BY <1>b, <2>2 DEF RInv, RBare
    <3>2. target' = [NoTable EXCEPT !.exists = TRUE]
      BY <2>2 DEF PlanBegin
    <3> QED
      BY <3>1, <3>2 DEF NoTable
  <2> QED
    BY <2>1, <2>2
<1>3. planned' = cur
  BY <1>u, <1>b, <1>t DEF SnapshotVersion
<1>5. RBare' /\ RState' /\ RLive' /\ RPlan' /\ RStaged' /\ RVals'
  BY <1>u, <1>b, <1>1, <1>3 DEF RInv, RBare, RState, RLive, RPlan, RStaged, RVals, States
<1>6. RCovered'
  BY <1>u, <1>1 DEF RInv, RCovered, States, Complete, Agrees
<1>8. RTasks'
  BY <1>u, <1>1 DEF RInv, RTasks, TaskFresh
<1> QED
  BY <1>5, <1>6, <1>8 DEF RInv

\* The staging table is dropped: before a plan, or after the cut-over.
LEMMA DropFresh ==
    ASSUME IInv, RInv, PlanDropStaging \/ FinalizeDropStaging
    PROVE  RInv'
<1>u. /\ UNCHANGED <<row, target, saved, st, req, up, task, planned>>
      /\ staging' = NoTable
      /\ \/ pc = "plan_drop" /\ pc' = "plan_create"
         \/ pc = "fin_drop" /\ pc' = "fin_save"
  BY DEF PlanDropStaging, FinalizeDropStaging, sourceVars
<1>0. NoTable.tag = 0 /\ NoTable.rows = Empty /\ \A k \in Keys : Empty[k].val = 0
  BY DEF NoTable, Empty, Absent
<1>t. TypeInv
  BY DEF IInv
<1>2. RBare' /\ RState' /\ RLive' /\ RPlan' /\ RStaged'
  BY <1>u, <1>0 DEF RInv, RBare, RState, RLive, RPlan, RStaged, States
<1>3. RCovered'
  BY <1>u DEF RInv, RCovered, States, Complete, Agrees
<1>4. RVals'
  BY <1>u, <1>0, <1>t, ReplicaTyping DEF RInv, RVals
<1>6. RTasks'
  BY <1>u, KeepFresh
<1> QED
  BY <1>2, <1>3, <1>4, <1>6 DEF RInv

LEMMA PlanCreateFresh == ASSUME IInv, RInv, PlanCreateStaging PROVE RInv'
<1>u. /\ UNCHANGED <<row, target, saved, st, req, up, task, planned>>
      /\ staging' = CreateTable(nextSid, planned)
      /\ pc = "plan_create" /\ pc' = "plan_save"
  BY DEF PlanCreateStaging, sourceVars
<1>0. /\ staging'.tag = nextSid /\ staging'.rows = Empty /\ staging'.since = req
      /\ \A k \in Keys : Empty[k].val = 0
  BY <1>u DEF CreateTable, Empty, Absent
<1>t. TypeInv /\ nextSid \in Nat
  BY Typing DEF IInv
<1>1. \A s \in States : s.sid < nextSid /\ s.sid \in Nat
  BY <1>t, ReplicaTyping DEF IInv, Safe, InvStates, StateSound, States
<1>2. \A s \in States : s.sid # staging'.tag
  BY <1>0, <1>1, <1>t
<1>3. RBare' /\ RState' /\ RLive' /\ RPlan'
  BY <1>u DEF RInv, RBare, RState, RLive, RPlan, States
<1>4. RStaged'
  BY <1>u, <1>2 DEF RStaged, States
<1>5. RCovered'
  BY <1>u DEF RInv, RCovered, States, Complete, Agrees
<1>6. RVals'
  BY <1>u, <1>0, <1>t, ReplicaTyping DEF RInv, RVals
<1>8. RTasks'
  BY <1>u, KeepFresh
<1> QED
  BY <1>3, <1>4, <1>5, <1>6, <1>8 DEF RInv

LEMMA PlanSaveFresh == ASSUME IInv, RInv, ~SavesMayFail, PlanSave PROVE RInv'
<1>u. /\ UNCHANGED <<row, target, staging, req, up, task>>
      /\ saved' = st' /\ pc = "plan_save" /\ pc' = "idle" /\ up
  BY DEF PlanSave, sourceVars
<1>t. TypeInv
  BY DEF IInv
<1>1. PICK p \in Plans : st' = Planned(p)
  BY DEF PlanSave
<1>2. /\ st'.phase = "snapshot" /\ st'.sid = staging.tag /\ st'.last = st.last
      /\ st'.handled = st.handled
  BY <1>1, <1>t, PlannedFields, StateFields, Typing
<1>c. /\ staging.tag # 0 /\ staging.tag # target.tag /\ staging.rows = Empty
      /\ staging.base = planned /\ st.sid < staging.tag /\ saved.sid < staging.tag
      /\ \A w \in Workers : task[w] = NoTask
  BY <1>u DEF IInv, Safe, InvControl, InvTables
<1>n. staging.tag \in Nat
  BY <1>t, Typing, TableTyping
<1>3. RBare' /\ RPlan' /\ RVals'
  BY <1>u DEF RInv, RBare, RPlan, RVals
<1>4. RState'
  BY <1>u, <1>2, <1>c, <1>n, <1>t, ReplicaTyping DEF RInv, RState
<1>5. RLive'
  BY <1>u, <1>2, <1>c DEF RLive, States
<1>6. RStaged'
  <2>1. \A k \in Keys : ~staging.rows[k].live
    BY <1>c, EmptyTables
  <2>2. target.base <= staging.base /\ st.last <= staging.base
    BY <1>u, <1>c DEF RInv, RPlan
  <2> QED
    BY <1>u, <1>2, <2>1, <2>2 DEF RStaged, States
<1>7. RCovered'
  BY <1>u, <1>2 DEF RInv, RCovered, States, Complete, Agrees
<1>9. RTasks'
  BY <1>u, <1>c, NoTasksFresh
<1> QED
  BY <1>3, <1>4, <1>5, <1>6, <1>7, <1>9 DEF RInv

\* The swap: nothing runs, and the staged snapshot is of this state.
LEMMA SwapFacts ==
    ASSUME IInv, FinalizeSwap
    PROVE  /\ UNCHANGED <<cur, row, saved, st, req, up, task, planned>>
           /\ st.phase = "snapshot" /\ pc = "idle" /\ pc' = "fin_drop"
           /\ \A w \in Workers : task[w] = NoTask
           /\ \/ st.sid = target.tag /\ UNCHANGED <<target, staging>>
              \/ /\ target' = staging /\ staging' = target
                 /\ st.sid # target.tag /\ st.sid # 0 /\ st.sid = staging.tag
                 /\ Complete(staging.rows, staging.base)
<1> USE DEF IInv, Safe
<1>u. /\ UNCHANGED <<cur, row, saved, st, req, up, task, planned, loaded>>
      /\ up /\ pc = "idle" /\ pc' = "fin_drop" /\ st.phase = "snapshot"
  BY DEF FinalizeSwap, MayFinalize, Scheduling, sourceVars
<1>n. \A w \in Workers : task[w] = NoTask
  <2>1. CASE loaded
    BY <2>1, NothingRuns DEF FinalizeSwap, MayFinalize, AllPartsDone
  <2>2. CASE ~loaded
    BY <1>u, <2>2 DEF InvTasks, TaskSound, SnapTaskSound, CdcTaskSound, TaskKinds, TypeInv,
       TypeOK, Task
  <2> QED
    BY <2>1, <2>2
<1>1. CASE ~MustExchange
  BY <1>u, <1>n, <1>1 DEF FinalizeSwap, MustExchange
<1>2. CASE MustExchange
  <2>1. st.sid # target.tag /\ loaded /\ AllPartsDone
    BY <1>2 DEF MustExchange, FinalizeSwap, MayFinalize, TargetIsOurs
  <2>2. st.sid # 0 /\ st.sid = staging.tag
    BY <1>u, <2>1 DEF InvMemory, InvStates, StateSound
  <2>3. Complete(staging.rows, staging.base)
    BY <1>u, <2>1, <2>2 DEF InvMemory, AllPartsDone, PartLoaded, Complete
  <2> QED
    BY <1>u, <1>n, <1>2, <2>1, <2>2, <2>3 DEF FinalizeSwap
<1> QED
  BY <1>1, <1>2

LEMMA SwapFresh == ASSUME IInv, RInv, FinalizeSwap PROVE RInv'
<1>u. /\ UNCHANGED <<row, saved, st, req, up, task, planned>>
      /\ st.phase = "snapshot" /\ pc' = "fin_drop"
      /\ \A w \in Workers : task[w] = NoTask
  BY SwapFacts
<1>t. TypeInv
  BY DEF IInv
<1>9. RTasks'
  BY <1>u, NoTasksFresh
<1>1. CASE st.sid = target.tag /\ UNCHANGED <<target, staging>>
  <2>1. RBare' /\ RState' /\ RLive' /\ RPlan' /\ RStaged' /\ RVals'
    BY <1>u, <1>1 DEF RInv, RBare, RState, RLive, RPlan, RStaged, RVals, States
  <2>2. RCovered'
    BY <1>u, <1>1 DEF RInv, RCovered, States, Complete, Agrees
  <2> QED
    BY <1>9, <2>1, <2>2 DEF RInv
<1>2. CASE /\ target' = staging /\ staging' = target
           /\ st.sid # target.tag /\ st.sid # 0 /\ st.sid = staging.tag
           /\ Complete(staging.rows, staging.base)
  <2>1. saved = st /\ st.last <= staging.base
    BY <1>u, <1>2 DEF RInv, RState, RStaged, States
  <2>2. RBare' /\ RState' /\ RLive' /\ RPlan' /\ RStaged'
    BY <1>u, <1>2, <2>1, <1>t, ReplicaTyping DEF RInv, RBare, RState, RLive, RPlan, RStaged, States
  <2>3. RVals'
    BY <1>u, <1>2, <2>1 DEF RInv, RVals, States
  <2>4. RCovered'
    <3>1. Complete(staging.rows, st.last)
      BY <1>2, <2>1, <1>t, ReplicaTyping DEF Complete
    <3> QED
      BY <1>u, <1>2, <2>1, <3>1 DEF RCovered, States, Complete, Agrees
  <2> QED
    BY <1>9, <2>2, <2>3, <2>4 DEF RInv
<1> QED
  BY <1>1, <1>2, SwapFacts

LEMMA FinalizeSaveFresh == ASSUME IInv, RInv, ~SavesMayFail, FinalizeSave PROVE RInv'
<1>u. /\ UNCHANGED <<row, target, staging, req, up, task, planned>>
      /\ st' = CutOver(st) /\ saved' = st' /\ pc = "fin_save" /\ pc' = "idle"
  BY DEF FinalizeSave, sourceVars
<1>t. TypeInv
  BY DEF IInv
<1>1. /\ st'.phase = "cdc" /\ st'.sid = st.sid /\ st'.last = st.sver
      /\ st'.handled = st.handled
  BY <1>u, <1>t, StateFields
<1>c. /\ st.phase = "snapshot" /\ st.sid = target.tag /\ st.sid # 0 /\ st.sver = target.base
      /\ Complete(target.rows, target.base)
      /\ staging.tag # 0 => staging.tag # target.tag
      /\ \A w \in Workers : task[w] = NoTask
  BY <1>u DEF IInv, Safe, InvControl, InvStates, StateSound, InvCheckpoint, InvTables
<1>2. RBare' /\ RPlan' /\ RVals'
  BY <1>u DEF RInv, RBare, RPlan, RVals
<1>3. RState' /\ RLive' /\ RStaged'
  BY <1>u, <1>1, <1>c, <1>t, ReplicaTyping DEF RInv, RState, RLive, RStaged, States
<1>4. RCovered'
  BY <1>u, <1>1, <1>c DEF RCovered, States, Complete, Agrees
<1>6. RTasks'
  BY <1>u, <1>c, NoTasksFresh
<1> QED
  BY <1>2, <1>3, <1>4, <1>6 DEF RInv

\* sync_state takes the state in memory, the process going on or ending.
LEMMA SaveFresh ==
    ASSUME IInv, RInv, up, UNCHANGED <<row, target, staging, req>>,
           saved' = st \/ saved' = saved,
           \/ UNCHANGED <<st, up, pc, task>> /\ pc = "idle"
           \/ st' = NewState /\ ~up' /\ pc' = "idle" /\ \A w \in Workers : task'[w] = NoTask
    PROVE  RInv'
<1>t. TypeInv
  BY DEF IInv
<1>0. /\ NewState.phase = "new" /\ NewState.sid = 0 /\ NewState.last = 0
      /\ NewState.handled = 0
  BY DEF NewState
<1>1. RBare' /\ RPlan' /\ RVals'
  BY DEF RInv, RBare, RPlan, RVals
<1>a. /\ saved' \in States /\ st' \in {st, NewState}
      /\ pc' = "idle"
      /\ up' => st' = st
  BY DEF States
<1>b. st.sid = saved.sid /\ saved.last <= st.last /\ target.tag <= saved.sid
  BY DEF RInv, RState
<1>2. RState'
  <2>1. up' => st'.sid = saved'.sid /\ saved'.last <= st'.last
    BY <1>a, <1>b, <1>t, ReplicaTyping
  <2>2. st'.phase = "snapshot" => saved' = st'
    BY <1>a, <1>0 DEF RInv, RState
  <2>3. target'.tag <= saved'.sid
    BY <1>b
  <2> QED
    BY <2>1, <2>2, <2>3 DEF RState
<1>6. RLive' /\ RStaged'
  BY <1>0, <1>a DEF RInv, RLive, RStaged, States
<1>3. RCovered'
  <2>1. target.tag # 0 => Complete(target.rows, 0)
    BY <1>t, ReplicaTyping DEF IInv, Safe, InvCheckpoint, Complete
  <2> QED
    BY <1>0, <2>1 DEF RInv, RCovered, States, Complete, Agrees
<1>5. RTasks'
  BY KeepFresh, NoTasksFresh
<1> QED
  BY <1>1, <1>2, <1>3, <1>5, <1>6 DEF RInv

LEMMA FlushFresh == ASSUME IInv, RInv, Flush PROVE RInv'
<1>1. /\ UNCHANGED <<row, target, staging, req, st, up, pc, task>>
      /\ saved' = st /\ up /\ pc = "idle"
  BY DEF Flush, sourceVars
<1> QED
  BY <1>1, SaveFresh

LEMMA EndFresh == ASSUME IInv, RInv, ~OrphansSurvive, Exit \/ Crash PROVE RInv'
<1>1. /\ UNCHANGED <<row, target, staging, req>> /\ up
      /\ saved' = st \/ saved' = saved
      /\ st' = NewState /\ ~up' /\ pc' = "idle"
  BY DEF Exit, Crash, LoseMemory, sourceVars, clickhouseVars
<1>2. \A w \in Workers : ~task[w].orphan
  BY DEF IInv, Safe, InvTasks, TaskSound
<1>3. \A w \in Workers : task'[w] = NoTask
  BY <1>2 DEF Exit, Crash
<1> QED
  BY <1>1, <1>3, SaveFresh

LEMMA RestartFresh == ASSUME IInv, RInv, Restart PROVE RInv'
<1>u. /\ UNCHANGED <<row, target, staging, saved, req, pc, planned, task>>
      /\ st' = saved /\ ~up
  BY DEF Restart, sourceVars, clickhouseVars
<1>t. TypeInv
  BY DEF IInv
<1>n. pc = "idle" /\ \A w \in Workers : task[w] = NoTask
  BY <1>u DEF IInv, Safe, InvControl
<1>1. RBare' /\ RPlan' /\ RVals'
  BY <1>u, <1>n DEF RInv, RBare, RPlan, RVals
<1>2. RState' /\ RLive' /\ RStaged'
  BY <1>u, <1>t, ReplicaTyping DEF RInv, RState, RLive, RStaged, States
<1>3. RCovered'
  BY <1>u DEF RInv, RCovered, States, Complete, Agrees
<1>5. RTasks'
  BY <1>u, <1>n, NoTasksFresh
<1> QED
  BY <1>1, <1>2, <1>3, <1>5 DEF RInv

-----------------------------------------------------------------------------
(* The tasks.                                                              *)

\* A step that gives worker w the fresh task n and moves no table.
LEMMA TaskStepFresh ==
    ASSUME IInv, RInv, UNCHANGED <<row, target, staging, saved, st, req, up, pc, planned>>,
           NEW w \in Workers, NEW n, task' = [task EXCEPT ![w] = n], TaskFresh(n)
    PROVE  RInv'
<1>1. \A v \in Workers : task'[v] = task[v] \/ task'[v] = n
  BY Typing DEF IInv
<1>2. RTasks'
  BY <1>1, KeepFresh
<1> QED
  BY <1>2, KeepParts DEF RInv

LEMMA SubmitFresh == ASSUME IInv, RInv, SubmitStep PROVE RInv'
<1>u. UNCHANGED <<row, target, staging, saved, st, req, up, pc, planned>>
  BY DEF SubmitStep, SubmitSnapshot, SubmitCdc, sourceVars, clickhouseVars, supervisorVars
<1>1. PICK w \in Workers : SubmitSnapshot(w) \/ SubmitCdc(w)
  BY DEF SubmitStep
<1>2. CASE SubmitSnapshot(w)
  <2>1. PICK p : task' = [task EXCEPT ![w] =
           [NoTask EXCEPT !.kind = "snap", !.pc = "start", !.sid = st.sid,
                          !.sver = st.sver, !.plan = st.plan, !.part = p]]
    BY <1>2 DEF SubmitSnapshot
  <2>n. PICK n : n = [NoTask EXCEPT !.kind = "snap", !.pc = "start", !.sid = st.sid,
                                    !.sver = st.sver, !.plan = st.plan, !.part = p]
    OBVIOUS
  <2>2. n.kind = "snap" /\ n.buf = Empty
    BY <2>n DEF NoTask
  <2>3. TaskFresh(n)
    BY <2>2, EmptyTables DEF TaskFresh
  <2> QED
    BY <1>u, <2>1, <2>n, <2>3, TaskStepFresh
<1>3. CASE SubmitCdc(w)
  <2>n. PICK n : n = [NoTask EXCEPT !.kind = "cdc", !.pc = "open", !.last = st.last]
    OBVIOUS
  <2>1. task' = [task EXCEPT ![w] = n] /\ st.phase = "cdc"
    BY <1>3, <2>n DEF SubmitCdc
  <2>2. n.pc = "open" /\ n.buf = Empty /\ n.res = "none" /\ n.last = st.last
    BY <2>n DEF NoTask
  <2>3. st.sid = target.tag
    BY <2>1 DEF RInv, RLive, States
  <2>4. TaskFresh(n)
    BY <2>2, <2>3, EmptyTables DEF TaskFresh
  <2> QED
    BY <1>u, <2>1, <2>4, TaskStepFresh
<1> QED
  BY <1>1, <1>2, <1>3

LEMMA CollectFresh == ASSUME IInv, RInv, NEW w \in Workers, Collect(w) PROVE RInv'
<1>u. /\ UNCHANGED <<row, target, staging, saved, req, up, pc, planned>>
      /\ pc = "idle" /\ task' = [task EXCEPT ![w] = NoTask]
      /\ task[w].kind # "none" /\ task[w].pc = "result"
  BY DEF Collect, CollectSnapshot, CollectCdc, CollectResync, CollectFailure, Collectable,
     Running, sourceVars, clickhouseVars
<1>t. TypeInv /\ task \in [Workers -> Task] /\ st \in TableState
  BY Typing DEF IInv
<1>p. PICK t \in Task : t = task[w]
  BY <1>t
<1>s. TaskSound(t) /\ TaskFresh(t)
  BY <1>p DEF IInv, Safe, InvTasks, RInv, RTasks
<1>1. CASE CollectSnapshot(w) \/ CollectFailure(w)
  <2>1. UNCHANGED st
    BY <1>1 DEF CollectSnapshot, CollectFailure
  <2> QED
    BY <1>u, <2>1, NoTaskFresh, TaskStepFresh
<1>2. CASE CollectCdc(w) \/ CollectResync(w)
  <2>k. t.kind = "cdc"
    BY <1>2, <1>p DEF CollectCdc, CollectResync
  <2>a. \A v \in Workers : task'[v] = NoTask
    <3>1. \A v \in Workers : v # w => task[v] = NoTask
      BY <1>p, <2>k DEF IInv, Safe, InvTasks, TaskSound
    <3> QED
      BY <1>u, <1>t, <3>1
  <2>9. RTasks'
    BY <2>a, NoTasksFresh
  <2>1. CASE CollectCdc(w)
    <3>1. st' = [st EXCEPT !.last = t.ver] /\ t.res = "ok"
      BY <1>p, <2>1 DEF CollectCdc
    <3>2. /\ st'.phase = st.phase /\ st'.sid = st.sid /\ st'.handled = st.handled
          /\ st'.last = t.ver
      BY <1>t, <3>1 DEF TableState
    <3>3. /\ st.phase \in {"cdc", "resync"} /\ Complete(target.rows, t.ver)
          /\ st.sid = target.tag /\ st.last <= t.ver /\ target.tag # 0
      BY <1>s, <2>k, <3>1 DEF TaskSound, CdcTaskSound, TaskFresh
    <3>4. t.ver \in Nat /\ (staging.tag # 0 => staging.tag # target.tag)
      BY TaskTyping DEF IInv, Safe, InvTables
    <3>5. RBare' /\ RPlan' /\ RVals'
      BY <1>u DEF RInv, RBare, RPlan, RVals
    <3>6. RState' /\ RLive' /\ RStaged'
      BY <1>u, <1>t, <3>2, <3>3, <3>4, ReplicaTyping DEF RInv, RState, RLive, RStaged, States
    <3>7. RCovered'
      BY <1>u, <3>2, <3>3 DEF RInv, RCovered, States, Complete, Agrees
    <3> QED
      BY <2>9, <3>5, <3>6, <3>7 DEF RInv
  <2>2. CASE CollectResync(w)
    <3>1. /\ st'.phase = "resync" /\ st'.sid = st.sid /\ st'.handled = st.handled
          /\ st'.last = st.last
      BY <1>t, <2>2 DEF CollectResync, TableState
    <3>2. RBare' /\ RState' /\ RLive' /\ RPlan' /\ RStaged' /\ RVals'
      BY <1>u, <3>1 DEF RInv, RBare, RState, RLive, RPlan, RStaged, RVals, States
    <3>3. RCovered'
      BY <1>u, <3>1 DEF RInv, RCovered, States, Complete, Agrees
    <3> QED
      BY <2>9, <3>2, <3>3 DEF RInv
  <2> QED
    BY <1>2, <2>1, <2>2
<1> QED
  BY <1>1, <1>2 DEF Collect

\* A worker that fails, starts, comes to the end of its range or of its
\* changes, or checkpoints: it keeps its buffer or empties it.
LEMMA QuietWorkerFresh ==
    ASSUME IInv, RInv, NEW w \in Workers,
           \/ TaskFails(w) \/ SnapStart(w) \/ SnapEof(w) \/ SnapCheckpoint(w) \/ CdcDone(w)
    PROVE  RInv'
<1>f. UNCHANGED <<row, target, staging, saved, st, req, up, pc, planned>>
  BY DEF TaskFails, SnapStart, SnapEof, SnapCheckpoint, CdcDone, WorkerFrame, supervisorVars,
     sourceVars
<1>p. PICK t \in Task : t = task[w]
  BY Typing DEF IInv
<1>s. TaskFresh(t)
  BY <1>p DEF RInv, RTasks
<1>b. \A k \in Keys : Empty[k] = Absent
  BY EmptyTables
<1>1. CASE TaskFails(w)
  <2>1. task' = [task EXCEPT ![w] = Result(t, "error")]
    BY <1>1, <1>p DEF TaskFails, Becomes
  <2> QED
    BY <1>f, <1>s, <2>1, ResultFresh, TaskStepFresh
<1>2. CASE SnapStart(w)
  <2>n. PICK n : n = [t EXCEPT !.pc = "read", !.pos = prog[t.sid][t.part].key]
    OBVIOUS
  <2>1. task' = [task EXCEPT ![w] = IF prog[t.sid][t.part].done THEN Result(t, "done") ELSE n]
    BY <1>2, <1>p, <2>n DEF SnapStart, Becomes
  <2>2. n.kind = "snap" /\ n.buf = t.buf
    BY <1>2, <1>p, <2>n DEF SnapStart, Task
  <2>3. TaskFresh(n)
    BY <1>s, <2>2 DEF TaskFresh
  <2> QED
    BY <1>f, <1>s, <2>1, <2>3, ResultFresh, TaskStepFresh
<1>3. CASE SnapEof(w)
  <2>n. PICK n : n = [t EXCEPT !.pc = "insert", !.eof = TRUE]
    OBVIOUS
  <2>1. task' = [task EXCEPT ![w] = n]
    BY <1>3, <1>p, <2>n DEF SnapEof, Becomes
  <2>2. n.kind = "snap" /\ n.buf = t.buf
    BY <1>3, <1>p, <2>n DEF SnapEof, Task
  <2>3. TaskFresh(n)
    BY <1>s, <2>2 DEF TaskFresh
  <2> QED
    BY <1>f, <2>1, <2>3, TaskStepFresh
<1>4. CASE SnapCheckpoint(w)
  <2>n. PICK n : n = [t EXCEPT !.buf = Empty, !.pc = "read"]
    OBVIOUS
  <2>1. \E m \in {Result(t, "done"), Result(t, "interrupted"), n} :
           task' = [task EXCEPT ![w] = m]
    BY <1>4, <1>p, <2>n DEF SnapCheckpoint, Becomes
  <2>2. n.kind = "snap" /\ n.buf = Empty
    BY <1>4, <1>p, <2>n DEF SnapCheckpoint, Task
  <2>3. TaskFresh(n)
    BY <1>b, <2>2 DEF TaskFresh
  <2> QED
    BY <1>f, <1>s, <2>1, <2>3, ResultFresh, TaskStepFresh
<1>5. CASE CdcDone(w)
  <2>1. task' = [task EXCEPT ![w] = Result(t, "ok")] /\ t.pc = "apply"
    BY <1>5, <1>p DEF CdcDone, Becomes
  <2> QED
    BY <1>f, <1>s, <2>1, ResultFresh, TaskStepFresh
<1> QED
  BY <1>1, <1>2, <1>3, <1>4, <1>5

LEMMA SnapReadFresh == ASSUME IInv, RInv, NEW w \in Workers, SnapRead(w) PROVE RInv'
<1>f. UNCHANGED <<row, target, staging, saved, st, req, up, pc, planned>>
  BY DEF SnapRead, WorkerFrame, supervisorVars, sourceVars
<1>t. TypeInv
  BY DEF IInv
<1>p. PICK t \in Task : t = task[w]
  BY Typing DEF IInv
<1>s. TaskFresh(t) /\ t.kind = "snap"
  BY <1>p DEF RInv, RTasks, SnapRead
<1>1. PICK k \in Keys, c \in TaskPcs :
         task' = [task EXCEPT ![w] = [t EXCEPT !.pos = k, !.buf = BufferAfter(t, k), !.pc = c]]
  BY <1>p DEF SnapRead, Becomes, Remaining, TaskPcs
<1>n. PICK n : n = [t EXCEPT !.pos = k, !.buf = BufferAfter(t, k), !.pc = c]
  OBVIOUS
<1>2. n.kind = "snap" /\ n.buf = BufferAfter(t, k)
  BY <1>n, <1>s DEF Task
<1>3. \A j \in Keys : n.buf[j] = t.buf[j] \/ n.buf[j].val = row[j].ver
  BY <1>2, TaskTyping DEF BufferAfter, SnapshotCell, Rows
<1>4. \A j \in Keys : row[j].ver <= row[j].ver /\ target.rows[j].val <= row[j].ver
  BY <1>t, ReplicaTyping DEF RInv, RVals
<1>5. TaskFresh(n)
  BY <1>s, <1>2, <1>3, <1>4 DEF TaskFresh
<1> QED
  BY <1>f, <1>1, <1>n, <1>5, TaskStepFresh

LEMMA CdcOpenFresh == ASSUME IInv, RInv, NEW w \in Workers, CdcOpen(w) PROVE RInv'
<1>f. UNCHANGED <<row, target, staging, saved, st, req, up, pc, planned>>
  BY DEF CdcOpen, WorkerFrame, supervisorVars, sourceVars
<1>t. TypeInv
  BY DEF IInv
<1>p. PICK t \in Task : t = task[w]
  BY Typing DEF IInv
<1>s. TaskFresh(t) /\ TaskSound(t) /\ t.kind = "cdc" /\ t.pc = "open" /\ t.res = "none"
  BY <1>p DEF RInv, RTasks, IInv, Safe, InvTasks, TaskSound, CdcOpen
<1>n. PICK n : n = [t EXCEPT !.pc = "apply", !.buf = Changes(t.last),
                             !.ver = IF cur > t.last THEN cur ELSE t.last]
  OBVIOUS
<1>1. task' = [task EXCEPT ![w] = IF Expired(t.last) THEN Result(t, "resync") ELSE n]
  BY <1>p, <1>n DEF CdcOpen, Becomes
<1>2. /\ n.kind = "cdc" /\ n.pc = "apply" /\ n.res = "none" /\ n.buf = Changes(t.last)
      /\ n.ver = IF cur > t.last THEN cur ELSE t.last
  BY <1>n, <1>s DEF Task
<1>3. st.last <= n.ver /\ st.sid = target.tag
  BY <1>s, <1>2, <1>t, Typing, ReplicaTyping DEF TaskFresh
<1>4. \A k \in Keys : n.buf[k] # Absent => n.buf[k].val = row[k].ver
  BY <1>2 DEF Changes
<1>5. \A k \in Keys : row[k].ver <= row[k].ver /\ target.rows[k].val <= row[k].ver
  BY <1>t, ReplicaTyping DEF RInv, RVals
<1>6. TaskFresh(n)
  BY <1>2, <1>3, <1>4, <1>5 DEF TaskFresh
<1> QED
  BY <1>f, <1>s, <1>1, <1>6, ResultFresh, TaskStepFresh

\* Snapshot rows go into the staging table, none older than what is shown.
LEMMA SnapInsertFresh == ASSUME IInv, RInv, NEW w \in Workers, SnapInsert(w) PROVE RInv'
<1>f. UNCHANGED <<row, target, saved, st, req, up, pc, planned>>
  BY DEF SnapInsert, WorkerFrame, supervisorVars, sourceVars
<1>t. TypeInv /\ staging \in Table
  BY Typing DEF IInv
<1>p. PICK t \in Task : t = task[w]
  BY Typing DEF IInv
<1>s. TaskFresh(t) /\ t.kind = "snap"
  BY <1>p DEF RInv, RTasks, SnapInsert
<1>1. CASE UNCHANGED staging /\ task' = [task EXCEPT ![w] = Result(t, "error")]
  BY <1>f, <1>s, <1>1, ResultFresh, TaskStepFresh
<1>2. CASE /\ staging' = [staging EXCEPT !.rows = Upsert(@, t.buf)]
           /\ task' = [task EXCEPT ![w] = [t EXCEPT !.pc = "checkpoint"]]
  <2>n. PICK n : n = [t EXCEPT !.pc = "checkpoint"]
    OBVIOUS
  <2>1. n.kind = "snap" /\ n.buf = t.buf
    BY <1>s, <2>n DEF Task
  <2>2. \A v \in Workers : task'[v] = task[v] \/ TaskFresh(task'[v])
    <3>1. TaskFresh(n)
      BY <1>s, <2>1 DEF TaskFresh
    <3>2. \A v \in Workers : task'[v] = task[v] \/ task'[v] = n
      BY <1>2, <2>n, Typing DEF IInv
    <3> QED
      BY <3>1, <3>2
  <2>3. /\ staging'.tag = staging.tag /\ staging'.base = staging.base
        /\ staging'.since = staging.since /\ staging'.rows = Upsert(staging.rows, t.buf)
    BY <1>2, <1>t DEF Table
  <2>4. \A k \in Keys : \/ staging'.rows[k] = staging.rows[k]
                        \/ staging'.rows[k] = t.buf[k] /\ t.buf[k] # Absent
    BY <2>3 DEF Upsert
  <2>5. RBare' /\ RState' /\ RLive' /\ RPlan'
    BY <1>f, <2>3 DEF RInv, RBare, RState, RLive, RPlan, States
  <2>6. RStaged'
    BY <1>f, <1>s, <2>3, <2>4 DEF RInv, RStaged, States, TaskFresh
  <2>7. RCovered'
    BY <1>f DEF RInv, RCovered, States, Complete, Agrees
  <2>8. RVals'
    BY <1>f, <1>s, <2>4 DEF RInv, RVals, TaskFresh
  <2>9. RTasks'
    BY <1>f, <2>2, KeepFresh
  <2> QED
    BY <2>5, <2>6, <2>7, <2>8, <2>9 DEF RInv
<1> QED
  BY <1>1, <1>2, <1>p DEF SnapInsert, Becomes

\* A batch of changes goes into the live table.
LEMMA CdcInsertFresh == ASSUME IInv, RInv, NEW w \in Workers, CdcInsert(w) PROVE RInv'
<1>f. UNCHANGED <<row, staging, saved, st, req, up, pc, planned>>
  BY DEF CdcInsert, WorkerFrame, supervisorVars, sourceVars
<1>t. TypeInv
  BY DEF IInv
<1>p. PICK t \in Task : t = task[w]
  BY Typing DEF IInv
<1>s. /\ TaskFresh(t) /\ TaskSound(t) /\ CdcTaskSound(t) /\ t.kind = "cdc"
      /\ t.pc = "apply" /\ t.res = "none"
  BY <1>p DEF RInv, RTasks, IInv, Safe, InvTasks, TaskSound, CdcInsert
<1>1. PICK S \in SUBSET KeysOf(t.buf) :
        /\ target' = [target EXCEPT !.rows = Upsert(@, Only(t.buf, S))]
        /\ task' = [task EXCEPT ![w] = [t EXCEPT !.buf = Only(@, Keys \ S)]]
  BY <1>p DEF CdcInsert, Becomes
<1>2. /\ target'.tag = target.tag /\ target'.base = target.base
      /\ target'.since = target.since
      /\ \A k \in Keys : target'.rows[k] = IF k \in S /\ t.buf[k].ver >= target.rows[k].ver
                                           THEN t.buf[k] ELSE target.rows[k]
      /\ \A v \in Nat : v <= t.ver /\ Complete(target.rows, v) => Complete(target'.rows, v)
  BY <1>p, <1>1, CdcInsertKept
<1>b. \A k \in S : t.buf[k] # Absent
  BY DEF KeysOf
<1>3. /\ st.sid = target.tag /\ st.last <= t.ver /\ saved.last <= t.ver
      /\ target.tag # 0 /\ staging.tag # st.sid /\ saved.sid = st.sid
  <2>1. up
    BY <1>p, <1>s, NoTaskFields DEF IInv, Safe, InvControl
  <2>2. st.sid = target.tag /\ st.last <= t.ver
    BY <1>s DEF TaskFresh
  <2>3. target.tag # 0 /\ staging.tag # target.tag
    BY <1>s DEF CdcTaskSound, IInv, Safe, InvTables
  <2>4. saved.sid = st.sid /\ saved.last <= st.last
    BY <2>1 DEF RInv, RState
  <2> QED
    BY <1>t, <2>2, <2>3, <2>4, ReplicaTyping, TaskTyping
<1>4. RBare' /\ RState' /\ RLive' /\ RPlan'
  BY <1>f, <1>2, <1>3 DEF RInv, RBare, RState, RLive, RPlan, States
<1>5. RStaged'
  BY <1>f, <1>3 DEF RStaged, States
<1>6. RCovered'
  <2>1. \A s \in States : Complete(target'.rows, s.last)
    BY <1>2, <1>3, <1>t, ReplicaTyping DEF RInv, RCovered, States
  <2> QED
    BY <1>f, <2>1 DEF RCovered, States, Complete, Agrees
<1>7. RVals'
  BY <1>f, <1>s, <1>2, <1>b DEF RInv, RVals, TaskFresh
<1>8. RTasks'
  <2>n. PICK n : n = [t EXCEPT !.buf = Only(@, Keys \ S)]
    OBVIOUS
  <2>1. /\ n.kind = "cdc" /\ n.pc = "apply" /\ n.res = "none" /\ n.ver = t.ver
        /\ \A k \in Keys : n.buf[k] = IF k \in S THEN Absent ELSE t.buf[k]
    BY <1>s, <2>n DEF Task, Only
  <2>2. TaskFresh(n)'
    BY <1>f, <1>s, <1>2, <1>3, <2>1 DEF TaskFresh
  <2>3. \A v \in Workers : task'[v] = IF v = w THEN n ELSE NoTask
    <3>1. \A v \in Workers : v # w => task[v] = NoTask
      BY <1>p, <1>s DEF IInv, Safe, InvTasks, TaskSound
    <3> QED
      BY <1>1, <2>n, <3>1, Typing DEF IInv
  <2> QED
    BY <2>2, <2>3, NoTaskFresh DEF RTasks, TaskFresh
<1> QED
  BY <1>4, <1>5, <1>6, <1>7, <1>8 DEF RInv

LEMMA NextFresh ==
    ASSUME ~OrphansSurvive, ~SavesMayFail, IInv, RInv, [Next]_vars
    PROVE  RInv'
<1>1. CASE UNCHANGED vars \/ Stop \/ PlanOrFinalizeFails
  BY <1>1, QuietFresh
<1>2. CASE SourceStep \/ Request
  BY <1>2, SourceFresh, RequestFresh
<1>3. CASE CheckRequests \/ ResumeStep
  BY <1>3, PhaseFresh, QuietFresh DEF ResumeStep
<1>4. CASE PlanStep
  BY <1>4, PlanBeginFresh, DropFresh, PlanCreateFresh, PlanSaveFresh DEF PlanStep
<1>5. CASE FinalizeStep
  BY <1>5, SwapFresh, DropFresh, FinalizeSaveFresh DEF FinalizeStep
<1>6. CASE SubmitStep
  BY <1>6, SubmitFresh
<1>7. CASE Flush \/ Exit \/ Crash \/ Restart
  BY <1>7, FlushFresh, EndFresh, RestartFresh
<1>8. ASSUME NEW w \in Workers, Collect(w) \/ WorkerStep(w) \/ TaskFails(w) \/ OrphanExit(w)
      PROVE  RInv'
  <2>1. CASE Collect(w) \/ TaskFails(w)
    BY <2>1, CollectFresh, QuietWorkerFresh
  <2>2. CASE WorkerStep(w)
    BY <2>2, QuietWorkerFresh, SnapReadFresh, SnapInsertFresh, CdcOpenFresh, CdcInsertFresh
       DEF WorkerStep
  <2>3. CASE OrphanExit(w)
    BY <2>3 DEF OrphanExit, IInv, Safe, InvTasks, TaskSound
  <2> QED
    BY <1>8, <2>1, <2>2, <2>3
<1> QED
  BY <1>1, <1>2, <1>3, <1>4, <1>5, <1>6, <1>7, <1>8 DEF Next

LEMMA BothInvariants ==
    ASSUME ~OrphansSurvive, ~SavesMayFail
    PROVE  Spec => [](IInv /\ RInv)
<1>1. Init => IInv /\ RInv
  BY InitSafe, InitFresh
<1>2. IInv /\ RInv /\ [Next]_vars => (IInv /\ RInv)'
  BY NextSafe, NextFresh
<1> QED
  BY <1>1, <1>2, PTL DEF Spec

-----------------------------------------------------------------------------
(* The refinement.  What a reader can see changes in three ways only: a    *)
(* batch of changes, the cut-over, and a later checkpoint in sync_state.   *)

\* The steps that insert no change and swap no table.
LEMMA OtherSteps ==
    ASSUME ~SavesMayFail, IInv, RInv, [Next]_vars,
           ~SourceStep, ~FinalizeSwap, \A w \in Workers : ~CdcInsert(w)
    PROVE  /\ UNCHANGED <<cur, row>>
           /\ target'.rows = target.rows /\ target'.tag = target.tag
           /\ target'.base = target.base
           /\ saved.last <= saved'.last
<1>t. TypeInv /\ saved.last <= saved.last
  BY ReplicaTyping DEF IInv
<1>1. CASE PlanStep
  <2>1. CASE PlanBegin
    <3>1. UNCHANGED <<cur, row, saved>>
      BY <2>1 DEF PlanBegin, sourceVars
    <3>2. CASE target.exists
      BY <1>t, <2>1, <3>1, <3>2 DEF PlanBegin
    <3>3. CASE ~target.exists
      <4>1. target.tag = 0 /\ target.rows = Empty /\ target.base = 0
        BY <3>3 DEF IInv, Safe, InvTables, RInv, RBare
      <4>2. target' = [NoTable EXCEPT !.exists = TRUE]
        BY <2>1, <3>3 DEF PlanBegin
      <4> QED
        BY <1>t, <3>1, <4>1, <4>2 DEF NoTable
    <3> QED
      BY <3>2, <3>3
  <2>2. CASE PlanDropStaging \/ PlanCreateStaging
    BY <1>t, <2>2 DEF PlanDropStaging, PlanCreateStaging, sourceVars
  <2>3. CASE PlanSave
    <3>1. PICK p \in Plans : saved' = Planned(p)
      BY <2>3 DEF PlanSave
    <3>2. saved'.last = st.last
      BY <1>t, <3>1, PlannedFields, Typing
    <3>3. saved.last <= st.last
      BY <2>3 DEF PlanSave, RInv, RState
    <3> QED
      BY <2>3, <3>2, <3>3 DEF PlanSave, sourceVars
  <2> QED
    BY <1>1, <2>1, <2>2, <2>3 DEF PlanStep
<1>2. CASE FinalizeStep
  <2>1. CASE FinalizeDropStaging
    BY <1>t, <2>1 DEF FinalizeDropStaging, sourceVars
  <2>2. CASE FinalizeSave
    <3>1. saved'.last = st.sver
      BY <1>t, <2>2, StateFields DEF FinalizeSave
    <3>2. st.phase = "snapshot" /\ st.sid = target.tag /\ st.sid # 0 /\ st.sver = target.base
      BY <2>2 DEF FinalizeSave, IInv, Safe, InvControl, InvStates, StateSound
    <3>3. saved = st /\ st.last <= target.base
      BY <3>2 DEF RInv, RState, RLive, States
    <3> QED
      BY <2>2, <3>1, <3>2, <3>3 DEF FinalizeSave, sourceVars
  <2> QED
    BY <1>2, <2>1, <2>2 DEF FinalizeStep
<1>3. CASE Flush \/ Exit
  <2>1. saved.last <= st.last
    BY <1>3 DEF Flush, Exit, RInv, RState
  <2> QED
    BY <1>3, <1>t, <2>1 DEF Flush, Exit, sourceVars
<1>4. CASE \/ UNCHANGED vars \/ Request \/ CheckRequests \/ ResumeStep \/ SubmitStep
           \/ PlanOrFinalizeFails \/ Stop \/ Crash \/ Restart
  BY <1>4, <1>t DEF vars, Request, CheckRequests, ResumeStep, ResumeLoad, ResumeReplan,
     SubmitStep, SubmitSnapshot, SubmitCdc, PlanOrFinalizeFails, Stop, Crash, Restart,
     sourceVars, clickhouseVars
<1>5. ASSUME NEW w \in Workers, Collect(w) \/ WorkerStep(w) \/ TaskFails(w) \/ OrphanExit(w)
      PROVE  UNCHANGED <<cur, row, target, saved>>
  BY <1>5 DEF Collect, CollectSnapshot, CollectCdc, CollectResync, CollectFailure, WorkerStep,
     SnapStart, SnapRead, SnapEof, SnapInsert, SnapCheckpoint, CdcOpen, CdcDone, TaskFails,
     OrphanExit, WorkerFrame, sourceVars, clickhouseVars
<1> QED
  BY <1>1, <1>2, <1>3, <1>4, <1>5, <1>t DEF Next

\* A batch of changes is a step of Replica that applies some.
LEMMA ApplyRefines ==
    ASSUME IInv, RInv, NEW w \in Workers, CdcInsert(w)
    PROVE  Reader!Apply
<1>f. UNCHANGED <<cur, row, saved>>
  BY DEF CdcInsert, WorkerFrame, sourceVars
<1>t. TypeInv
  BY DEF IInv
<1>p. PICK t \in Task : t = task[w]
  BY Typing DEF IInv
<1>s. TaskFresh(t) /\ CdcTaskSound(t) /\ t.kind = "cdc" /\ t.pc = "apply"
  BY <1>p DEF RInv, RTasks, IInv, Safe, InvTasks, TaskSound, CdcInsert
<1>1. PICK S \in SUBSET KeysOf(t.buf) :
        target' = [target EXCEPT !.rows = Upsert(@, Only(t.buf, S))]
  BY <1>p DEF CdcInsert
<1>2. /\ target'.tag = target.tag /\ target'.base = target.base
      /\ \A k \in Keys : target'.rows[k] = IF k \in S /\ t.buf[k].ver >= target.rows[k].ver
                                           THEN t.buf[k] ELSE target.rows[k]
      /\ \A v \in Nat : v <= t.ver /\ Complete(target.rows, v) => Complete(target'.rows, v)
  BY <1>p, <1>1, CdcInsertKept
<1>3. Reader!Onward
  <2>1. \A k \in S : t.buf[k].val >= target.rows[k].val
    BY <1>s DEF KeysOf, TaskFresh
  <2> QED
    BY <1>2, <2>1, <1>t, ReplicaTyping DEF Reader!Onward
<1>4. Promised' = Promised
  BY <1>f, <1>2 DEF Promised
<1>5. target.tag # 0 /\ Promised \in Nat /\ Promised <= t.ver /\ Complete(target.rows, Promised)
  <2>1. target.tag # 0 /\ target.base <= t.ver /\ st.last <= t.ver
    BY <1>s DEF CdcTaskSound, TaskFresh
  <2>2. up
    BY <1>p, <1>s, NoTaskFields DEF IInv, Safe, InvControl
  <2>3. saved.last <= st.last
    BY <2>2 DEF RInv, RState
  <2>4. Complete(target.rows, saved.last) /\ Complete(target.rows, target.base)
    BY <2>1 DEF IInv, Safe, InvCheckpoint, RInv, RCovered, States
  <2> QED
    BY <1>t, <2>1, <2>3, <2>4, ReplicaTyping, TaskTyping DEF Promised
<1>6. Complete(target'.rows, Promised)
  BY <1>2, <1>5
<1>7. Reader!Whole(Promised)'
  BY <1>f, <1>4, <1>6 DEF Reader!Whole, Reader!Shows, Complete, Agrees
<1> QED
  BY <1>f, <1>2, <1>3, <1>4, <1>5, <1>7 DEF Reader!Apply

\* The swap is the cut-over of Replica, unless it had been done before.
LEMMA SwapRefines ==
    ASSUME IInv, RInv, FinalizeSwap
    PROVE  Reader!CutOver \/ UNCHANGED <<cur, row, target, saved>>
<1>u. UNCHANGED <<cur, row, saved, st, up>> /\ st.phase = "snapshot"
  BY SwapFacts
<1>t. TypeInv
  BY DEF IInv
<1>1. CASE UNCHANGED <<target, staging>>
  BY <1>u, <1>1, <1>t, ReplicaTyping
<1>2. CASE /\ target' = staging /\ st.sid # target.tag /\ st.sid # 0 /\ st.sid = staging.tag
           /\ Complete(staging.rows, staging.base)
  <2>1. /\ saved = st /\ target.tag <= st.sid
        /\ saved.last <= staging.base /\ target.base <= staging.base
        /\ \A k \in Keys : staging.rows[k].live => staging.rows[k].val >= target.rows[k].val
    BY <1>u, <1>2 DEF RInv, RState, RStaged, States
  <2>2. Promised' = staging.base /\ staging.base \in Promised..cur
    <3>1. staging.base <= cur
      BY DEF IInv, Safe, InvTables
    <3> QED
      BY <1>u, <1>2, <1>t, <2>1, <3>1, ReplicaTyping DEF Promised
  <2>3. Reader!Onward
    BY <1>2, <2>1 DEF Reader!Onward
  <2>4. Reader!Whole(Promised)'
    BY <1>u, <1>2, <2>2 DEF Reader!Whole, Reader!Shows, Complete, Agrees
  <2>5. Reader!CutOver
    BY <1>u, <1>2, <2>2, <2>3, <2>4 DEF Reader!CutOver
  <2> QED
    BY <1>2, <1>t, <2>1, <2>5, ReplicaTyping
<1> QED
  BY <1>1, <1>2, SwapFacts

\* A later checkpoint in sync_state is a promise of Replica.
LEMMA PromiseRefines ==
    ASSUME IInv, RInv, IInv', RInv', UNCHANGED <<cur, row>>,
           target'.rows = target.rows, target'.tag = target.tag, target'.base = target.base,
           saved.last <= saved'.last
    PROVE  Reader!Promise \/ UNCHANGED Reader!replicaVars
<1>t. /\ saved.last \in Nat /\ saved'.last \in Nat /\ target.base \in Nat
      /\ target'.base \in Nat
  BY ReplicaTyping DEF IInv, TypeInv, TypeOK, TableState, Table
<1>1. Promised' >= Promised /\ Promised' \in Nat /\ Promised \in Nat
  BY <1>t DEF Promised
<1>2. target'.tag # 0 => Reader!Whole(Promised)'
  <2> SUFFICES ASSUME target'.tag # 0 PROVE Reader!Whole(Promised)'
    OBVIOUS
  <2>1. Complete(target.rows, target.base)'
    BY DEF IInv, Safe, InvCheckpoint
  <2>2. Complete(target.rows, saved.last)'
    BY DEF RInv, RCovered, States
  <2>3. Complete(target.rows, Promised)'
    BY <2>1, <2>2 DEF Promised, Complete
  <2> QED
    BY <2>3 DEF Reader!Whole, Reader!Shows, Complete, Agrees
<1>3. CASE Promised' = Promised
  BY <1>3 DEF Reader!replicaVars
<1>4. CASE Promised' > Promised
  <2>1. saved'.last <= cur' /\ target'.base <= cur'
    BY DEF IInv, Safe, InvTables, InvStates, StateSound
  <2>2. Promised' \in (Promised + 1)..cur
    BY <1>t, <1>1, <1>4, <2>1, ReplicaTyping DEF Promised, IInv
  <2> QED
    BY <1>2, <2>2 DEF Reader!Promise
<1> QED
  BY <1>1, <1>3, <1>4

LEMMA StepRefines ==
    ASSUME ~SavesMayFail, IInv, RInv, IInv', RInv', [Next]_vars
    PROVE  Reader!Next \/ UNCHANGED Reader!replicaVars
<1>t. target.tag \in Nat
  BY ReplicaTyping DEF IInv
<1>1. CASE SourceStep
  <2>1. UNCHANGED <<target, saved>>
    BY <1>1 DEF SourceStep, clickhouseVars
  <2>2. CASE Cleanup
    BY <1>t, <2>1, <2>2 DEF Cleanup, Reader!replicaVars, Promised
  <2>3. ASSUME NEW k \in Keys, Commit(k) PROVE Reader!Commit(k)
    BY <2>1, <2>3 DEF Commit, Reader!Commit, Promised
  <2> QED
    BY <1>1, <1>t, <2>1, <2>2, <2>3 DEF SourceStep, Reader!Next
<1>2. CASE FinalizeSwap
  BY <1>2, SwapRefines DEF Reader!Next, Reader!replicaVars, Promised
<1>3. ASSUME NEW w \in Workers, CdcInsert(w)
      PROVE  Reader!Next
  BY <1>t, <1>3, ApplyRefines DEF Reader!Next
<1>4. CASE ~SourceStep /\ ~FinalizeSwap /\ \A w \in Workers : ~CdcInsert(w)
  BY <1>t, <1>4, OtherSteps, PromiseRefines DEF Reader!Next
<1> QED
  BY <1>1, <1>2, <1>3, <1>4

-----------------------------------------------------------------------------
(* The theorems.                                                           *)

\* The supervisor, its workers and its tables implement what Replica promises
\* to a reader, across crashes, restarts, resyncs and lost history.
THEOREM ReplicaImplemented ==
    ASSUME ~OrphansSurvive, ~SavesMayFail
    PROVE  Spec => ImplementsReplica
<1>1. Init => Reader!Init
  BY DEF Init, SourceInit, NewState, NoTable, Empty, Absent, Promised, Reader!Init
<1>2. IInv /\ RInv /\ (IInv /\ RInv)' /\ [Next]_vars => [Reader!Next]_(Reader!replicaVars)
  BY StepRefines
<1> QED
  BY <1>1, <1>2, BothInvariants, PTL DEF Spec, ImplementsReplica, Reader!Spec

\* No row a reader sees is replaced by an older content of it.
THEOREM ReadersMoveOn ==
    ASSUME ~OrphansSurvive, ~SavesMayFail
    PROVE  Spec => NoReaderRegress
<1>1. ASSUME IInv, RInv, (IInv /\ RInv)', [Next]_vars
      PROVE  \A k \in Keys : target.rows[k].live /\ target'.rows[k].live
                => target'.rows[k].val >= target.rows[k].val
  <2>1. Reader!Next \/ UNCHANGED Reader!replicaVars
    BY <1>1, StepRefines
  <2>2. Reader!Onward \/ target'.rows = target.rows
    BY <2>1 DEF Reader!Next, Reader!Commit, Reader!Apply, Reader!CutOver, Reader!Promise,
       Reader!replicaVars
  <2>3. \A k \in Keys : target.rows[k].val \in Nat
    BY <1>1, ReplicaTyping DEF IInv
  <2> QED
    BY <2>2, <2>3 DEF Reader!Onward
<1>2. IInv /\ RInv /\ (IInv /\ RInv)' /\ [Next]_vars =>
         [\A k \in Keys : target.rows[k].live /\ target'.rows[k].live
             => target'.rows[k].val >= target.rows[k].val]_target
  BY <1>1
<1> QED
  BY <1>2, BothInvariants, PTL DEF Spec, NoReaderRegress

-----------------------------------------------------------------------------
(* What Replica guarantees, and so whatever implements it.                 *)

ReaderInv ==
    /\ cur \in Nat /\ Promised \in Nat /\ Promised <= cur
    /\ \A k \in Keys : row[k].ver \in Nat
    /\ Reader!Kept

LEMMA ReaderInit == Reader!Init => ReaderInv
<1> SUFFICES ASSUME Reader!Init PROVE ReaderInv
  OBVIOUS
<1>1. cur = 0 /\ Promised = 0 /\ target.tag = 0 /\ \A k \in Keys : row[k].ver = 0
  BY DEF Reader!Init
<1> QED
  BY <1>1 DEF ReaderInv, Reader!Kept

LEMMA ReaderNext == ReaderInv /\ [Reader!Next]_(Reader!replicaVars) => ReaderInv'
<1> SUFFICES ASSUME ReaderInv, [Reader!Next]_(Reader!replicaVars) PROVE ReaderInv'
  OBVIOUS
<1> USE DEF ReaderInv, Reader!Kept
<1>1. ASSUME NEW k \in Keys, Reader!Commit(k) PROVE ReaderInv'
  <2>1. /\ cur' = cur + 1 /\ target'.rows = target.rows /\ Promised' = Promised
        /\ (target'.tag # 0) = (target.tag # 0)
    BY <1>1 DEF Reader!Commit
  <2>2. \A j \in Keys : row'[j] = row[j] \/ row'[j].ver = cur + 1
    BY <1>1 DEF Reader!Commit
  <2> QED
    BY <2>1, <2>2 DEF Reader!Whole, Reader!Shows
<1>2. CASE Reader!Apply \/ Reader!CutOver \/ Reader!Promise
  BY <1>2 DEF Reader!Apply, Reader!CutOver, Reader!Promise
<1>3. CASE UNCHANGED Reader!replicaVars
  BY <1>3 DEF Reader!replicaVars, Reader!Whole, Reader!Shows
<1> QED
  BY <1>1, <1>2, <1>3 DEF Reader!Next

\* The view always has every change it promised to have, though the source
\* commits on and snapshots replace the view.
THEOREM PromisesAreKept == Reader!Spec => []Reader!Kept
<1>1. ReaderInv => Reader!Kept
  BY DEF ReaderInv
<1> QED
  BY <1>1, ReaderInit, ReaderNext, PTL DEF Reader!Spec

\* The steps of Replica take no promise back.  That is how they are defined;
\* it says something of the code by way of ImplementsReplica, below.
LEMMA ReaderOnward == Reader!Spec => Reader!NeverTakenBack
<1>1. ReaderInv /\ [Reader!Next]_(Reader!replicaVars) =>
         [Promised' >= Promised /\ (target.tag # 0 => (target.tag # 0)')]_<<Promised, target.tag # 0>>
  BY DEF ReaderInv, Reader!Next, Reader!Commit, Reader!Apply, Reader!CutOver, Reader!Promise,
     Reader!replicaVars
<1> QED
  BY <1>1, ReaderInit, ReaderNext, PTL DEF Reader!Spec, Reader!NeverTakenBack

\* So a supervisor that restarts goes on from a checkpoint that is covered,
\* and never from one before what readers had been promised.
THEOREM RestartsKeepPromises ==
    ASSUME ~OrphansSurvive, ~SavesMayFail
    PROVE  Spec => []Reader!Kept /\ Reader!NeverTakenBack
BY ReplicaImplemented, PromisesAreKept, ReaderOnward, PTL DEF ImplementsReplica
=============================================================================
