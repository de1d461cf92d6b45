---------------------------- MODULE TableSyncInv ----------------------------
(***************************************************************************)
(* The inductive invariant behind the safety properties of TableSync when  *)
(* no worker outlives its supervisor.  Each part is stated on its own;     *)
(* IInv is their conjunction.  TLC checks it in a run, TableSync_safety    *)
(* proves that every step preserves it.                                    *)
(***************************************************************************)
EXTENDS TableSync

\* What TypeOK cannot say on its own: a state in its snapshot phase names a
\* snapshot id that was drawn and a plan, and so does an unfinished task.
InvDrawn ==
    /\ \A s \in {st, saved} : s.phase = "snapshot" => s.sid \in Sids /\ s.plan \in Plans
    /\ pc = "plan_save" => staging.tag \in Sids
    /\ \A w \in Workers : task[w].kind = "snap" =>
          task[w].part \in Parts /\ (task[w].pc # "result" => task[w].sid \in Sids)

TypeInv == TypeOK /\ InvDrawn

\* The two records of the table's state: in memory and in sync_state.
States == {st, saved}

\* The source's versions are ordered.
InvSource == minValid <= cur /\ \A k \in Keys : row[k].ver <= cur

\* What the tables' comments and ghosts may be.  Snapshot ids are used once.
InvTables ==
    /\ nextSid >= 1 /\ nextSid <= MaxSnapshots + 1
    /\ target.tag < nextSid /\ staging.tag < nextSid
    /\ target.base <= cur /\ staging.base <= cur
    /\ target.tag # 0 => target.exists
    /\ staging.tag # 0 => staging.exists /\ staging.tag # target.tag
    /\ \A s \in Sids : s >= nextSid => \A p \in Parts : prog[s][p] = NoProgress

\* A row of T carries the version of T's snapshot or of a change of its key.
CellsDated(T) == T.tag # 0 => \A k \in Keys :
    T.rows[k].ver <= T.base \/ T.rows[k].ver <= row[k].ver

InvCells == CellsDated(target) /\ CellsDated(staging)

\* The states name a snapshot that exists and its version and plan.
StateSound(s) ==
    /\ s.sid < nextSid /\ s.last <= cur
    /\ s.phase = "snapshot" => s.sid # 0
    /\ s.sid # 0 /\ s.sid = target.tag => s.sver = target.base
    /\ s.sid # 0 /\ s.sid = staging.tag => s.sver = staging.base

InvStates ==
    /\ StateSound(st) /\ StateSound(saved)
    /\ st.sid = saved.sid /\ st.plan # NoPlan /\ saved.plan # NoPlan
          => st.plan = saved.plan

\* The staging table is never wrong about a row unchanged since its plan:
\* it shows it as it is or has no row for it yet.
InvStaging == staging.tag # 0 => \A k \in Keys :
    row[k].ver <= staging.base => Agrees(staging.rows, k) \/ staging.rows[k] = Absent

\* The persisted progress passes over nothing that is not in staging.
ProgressSound(s) == s.sid # 0 /\ s.sid = staging.tag => \A k \in Keys :
    /\ s.plan[k] \in Parts
    /\ k <= prog[s.sid][s.plan[k]].key \/ prog[s.sid][s.plan[k]].done
    /\ row[k].ver <= staging.base
    => Agrees(staging.rows, k)

InvProgress == ProgressSound(st) /\ ProgressSound(saved)

\* Part p of the plan in memory is in staging, rows changed since excepted.
PartLoaded(p) == \A k \in Keys :
    st.plan[k] = p /\ row[k].ver <= staging.base => Agrees(staging.rows, k)

\* The supervisor's memory while a snapshot is loaded and cut over.
InvMemory ==
    st.phase = "snapshot" /\ loaded =>
        /\ st.sid = target.tag \/ st.sid = staging.tag
        /\ st.sid = target.tag => \A k \in Keys : st.plan[k] \in done
        /\ st.sid = staging.tag => \A p \in done : PartLoaded(p)

\* Where the supervisor is inside _plan_snapshot and _finalize.
InvControl ==
    /\ pc # "idle" => up /\ ~stopping /\ \A w \in Workers : task[w] = NoTask
    /\ ~up => ~loaded /\ \A w \in Workers : task[w] = NoTask
    /\ pc \in {"plan_drop", "plan_create", "plan_save"} =>
          /\ st.phase \in {"new", "resync"}
          /\ planned <= cur /\ saved.last <= planned
    /\ pc = "plan_save" =>
          /\ staging.tag # 0 /\ staging.base = planned /\ staging.rows = Empty
          /\ st.sid < staging.tag /\ saved.sid < staging.tag
          /\ \A p \in Parts : prog[staging.tag][p] = NoProgress
    /\ pc \in {"fin_drop", "fin_save"} =>
          /\ st.phase = "snapshot" /\ st.sid = target.tag

\* The checkpoint a restart would resume CDC from is covered by the live table
\* and will be by the snapshot about to go live.
InvCheckpoint ==
    /\ target.tag # 0 => Complete(target.rows, target.base)
    /\ \A s \in States : s.phase = "cdc" =>
          target.tag # 0 /\ Complete(target.rows, s.last)
    /\ st.phase = "snapshot" /\ st.sid = staging.tag /\ saved.phase = "cdc"
          => saved.last <= staging.base

\* A snapshot task: what it has read of its range is in staging or its buffer.
SnapTaskSound(t) ==
    /\ st.phase \in {"snapshot", "resync"} /\ loaded
    /\ st.sid # 0 /\ st.sid = staging.tag
    /\ t.res = "done" => PartLoaded(t.part)
    /\ t.pc # "result" =>
          /\ t.sid = st.sid /\ t.sver = staging.base /\ t.plan = st.plan
          /\ t.plan \in Plans /\ t.part \in Parts
    /\ t.pc = "start" => t.buf = Empty
    /\ t.pc \in {"start", "read"} => ~t.eof
    /\ t.pc \in {"read", "insert", "checkpoint"} => \A k \in Keys :
          t.buf[k] # Absent =>
             /\ t.plan[k] = t.part /\ k <= t.pos
             /\ t.buf[k].ver = t.sver /\ t.buf[k].live
             /\ row[k].ver <= t.sver => row[k].live /\ t.buf[k].val = row[k].ver
    /\ t.pc \in {"read", "insert"} => \A k \in Keys :
          t.plan[k] = t.part /\ k <= t.pos /\ row[k].ver <= t.sver
             => Agrees(staging.rows, k) \/ t.buf[k] # Absent
    /\ t.pc = "checkpoint" => \A k \in Keys :
          t.plan[k] = t.part /\ k <= t.pos /\ row[k].ver <= t.sver
             => Agrees(staging.rows, k)
    /\ t.pc \in {"insert", "checkpoint"} /\ t.eof =>
          \A k \in Keys : t.plan[k] = t.part => k <= t.pos

\* A CDC task: every change up to its version is applied or in its buffer.
CdcTaskSound(t) ==
    /\ st.phase \in {"cdc", "resync"} /\ target.tag # 0
    /\ t.pc = "open" => t.last <= cur /\ Complete(target.rows, t.last)
    /\ t.pc = "apply" =>
          /\ target.base <= t.ver /\ t.ver <= cur
          /\ \A s \in States : s.phase = "cdc" => s.last <= t.ver
          /\ \A k \in Keys :
                /\ t.buf[k] # Absent => t.buf[k].ver <= row[k].ver
                /\ row[k].ver <= t.ver =>
                      IF t.buf[k] = Absent THEN Agrees(target.rows, k)
                      ELSE /\ t.buf[k].ver = row[k].ver /\ t.buf[k].val = row[k].ver
                           /\ t.buf[k].live = row[k].live
    /\ t.res = "ok" => t.ver <= cur /\ Complete(target.rows, t.ver)

TaskSound(t) ==
    /\ ~t.orphan
    /\ t.kind = "none" => t = NoTask
    /\ t.kind # "none" => t.pc # "idle"
    /\ t.kind = "snap" => SnapTaskSound(t) /\ t.res \in {"none", "done", "interrupted", "error"}
    /\ t.kind = "cdc" => CdcTaskSound(t) /\ t.res \in {"none", "ok", "resync", "error"}
    /\ t.pc = "result" <=> t.res # "none"

\* CDC runs alone.
InvTasks ==
    /\ \A w \in Workers : TaskSound(task[w])
    /\ \A v, w \in Workers : task[v].kind = "cdc" /\ v # w => task[w].kind = "none"

Safe ==
    /\ InvSource /\ InvTables /\ InvCells /\ InvStates /\ InvStaging
    /\ InvProgress /\ InvMemory /\ InvControl /\ InvCheckpoint /\ InvTasks

IInv == TypeInv /\ Safe
=============================================================================
