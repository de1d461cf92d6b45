-------------------------- MODULE TableSyncOrphans --------------------------
(***************************************************************************)
(* The inductive invariant behind what TableSync promises of rows that     *)
(* exist, whatever outlives a killed supervisor: its workers go on writing *)
(* to the tables and to snapshot_progress beside the next supervisor.      *)
(* An orphan can bring back a deleted row, so nothing here is said of      *)
(* deleted rows; but versions in a table only grow, and a cell that is at  *)
(* least as new as its row can never be spoilt by what an orphan inserts.  *)
(***************************************************************************)
EXTENDS TableSyncInv

\* No cell is wrong about a row that exists: none is dated later than the
\* source, and one as new as its row's last change has that very content.
Truthful(rows) == \A k \in Keys : rows[k] # Absent =>
    /\ rows[k].ver <= cur
    /\ row[k].live /\ row[k].ver <= rows[k].ver
          => rows[k].live /\ rows[k].val = row[k].ver

\* The cell of key k is at least as new as the row's last change.
Fresh(rows, k) == rows[k] # Absent /\ row[k].ver <= rows[k].ver

\* The row exists and no commit after v has touched it.
Due(k, v) == row[k].live /\ row[k].ver <= v

Held(rows, v) == \A k \in Keys : Due(k, v) => Fresh(rows, k)

\* The snapshots somebody may still act on: those the two states name and
\* those of the unfinished snapshot tasks, orphans included.
Loaders == {w \in Workers : task[w].kind = "snap" /\ task[w].pc # "result"}
Snapshot(x) == [sid |-> x.sid, sver |-> x.sver, plan |-> x.plan]
Known == {Snapshot(st), Snapshot(saved)} \cup {Snapshot(task[w]) : w \in Loaders}

OTables ==
    /\ nextSid >= 1 /\ nextSid <= MaxSnapshots + 1
    /\ target.tag < nextSid /\ staging.tag < nextSid
    /\ target.base <= cur /\ staging.base <= cur
    /\ target.tag # 0 => target.exists
    /\ staging.tag # 0 => staging.exists /\ staging.tag # target.tag
    /\ \A s \in Sids : s >= nextSid => \A p \in Parts : prog[s][p] = NoProgress

OTruth == Truthful(target.rows) /\ Truthful(staging.rows)

\* A snapshot keeps its id, its version and its plan, whoever knows it.
SnapshotSound(a) ==
    /\ a.sid < nextSid /\ a.sver <= cur
    /\ a.sid # 0 /\ a.sid = target.tag => a.sver = target.base
    /\ a.sid # 0 /\ a.sid = staging.tag => a.sver = staging.base

OKnown ==
    /\ \A a \in Known : SnapshotSound(a)
    /\ \A a, b \in Known :
          a.sid = b.sid /\ a.plan # NoPlan /\ b.plan # NoPlan => a.plan = b.plan

\* The persisted progress of a staged snapshot passes over no row that exists
\* and is not in the staging table.
Passed(a, k) ==
    /\ a.plan[k] \in Parts
    /\ \/ k <= prog[a.sid][a.plan[k]].key
       \/ prog[a.sid][a.plan[k]].done

OProgress == \A a \in Known : a.sid # 0 /\ a.sid = staging.tag =>
    \A k \in Keys : Passed(a, k) /\ Due(k, staging.base) => Fresh(staging.rows, k)

PartHeld(p) == \A k \in Keys :
    st.plan[k] = p /\ Due(k, staging.base) => Fresh(staging.rows, k)

OMemory ==
    st.phase = "snapshot" /\ loaded =>
        /\ st.sid = target.tag \/ st.sid = staging.tag
        /\ st.sid = target.tag => \A k \in Keys : st.plan[k] \in done
        /\ st.sid = staging.tag => \A p \in done : PartHeld(p)

OControl ==
    /\ pc # "idle" => up /\ ~stopping /\ Running = {}
    /\ ~up => ~loaded /\ Running = {}
    /\ pc \in {"plan_drop", "plan_create", "plan_save"} =>
          /\ st.phase \in {"new", "resync"}
          /\ planned <= cur /\ st.last <= planned /\ saved.last <= planned
    /\ pc = "plan_save" =>
          /\ staging.tag # 0 /\ staging.base = planned
          /\ \A a \in Known : a.sid # staging.tag
          /\ \A p \in Parts : prog[staging.tag][p] = NoProgress
    /\ pc \in {"fin_drop", "fin_save"} =>
          /\ st.phase = "snapshot" /\ st.sid = target.tag

\* The live table holds every existing row its snapshot or a checkpoint
\* covers, in every phase, since no table planned before one of the
\* checkpoints can replace it.
OCheckpoint ==
    /\ target.tag # 0 => Held(target.rows, target.base)
    /\ \A s \in States :
          /\ s.last <= cur
          /\ target.tag # 0 => Held(target.rows, s.last)
          /\ s.phase = "cdc" => target.tag # 0
          /\ s.phase = "snapshot" =>
                /\ s.sid = target.tag => s.last <= target.base
                /\ s.sid = staging.tag => s.last <= staging.base
    /\ st.phase = "snapshot" /\ st.sid = staging.tag => saved.last <= staging.base

\* Key k is in the rows, or in the buffer about to be inserted into them.
Carried(rows, t, k) == Fresh(rows, k) \/ Fresh(t.buf, k)

\* A snapshot task, orphan or not: what it has read of its range is in its
\* snapshot's staging table, or in its buffer.
LoaderSound(t) ==
    /\ t.plan # NoPlan
    /\ t.pc = "start" => t.buf = Empty
    /\ t.pc \in {"start", "read"} => ~t.eof
    /\ t.pc \in {"insert", "checkpoint"} /\ t.eof =>
          \A k \in Keys : t.plan[k] = t.part => k <= t.pos
    /\ \A k \in Keys : t.buf[k] # Absent => k <= t.pos
    /\ t.pc # "start" /\ t.sid = staging.tag => \A k \in Keys :
          t.plan[k] = t.part /\ k <= t.pos /\ Due(k, staging.base)
             => /\ Carried(staging.rows, t, k)
                /\ t.pc = "checkpoint" => Fresh(staging.rows, k)

\* A snapshot task the supervisor waits for loads the snapshot in memory.
SnapRunning(t) ==
    /\ st.phase \in {"snapshot", "resync"} /\ loaded
    /\ st.sid # 0 /\ st.sid = staging.tag
    /\ t.pc # "result" => t.sid = st.sid /\ t.plan = st.plan
    /\ t.pc = "result" /\ t.res = "done" => PartHeld(t.part)

\* A CDC task the supervisor waits for: every row that exists up to its
\* version is in the live table or in its buffer.
CdcRunning(t) ==
    /\ st.phase \in {"cdc", "resync"} /\ target.tag # 0
    /\ t.pc = "open" => t.last <= cur /\ Held(target.rows, t.last)
    /\ t.pc = "apply" =>
          t.ver <= cur /\ \A k \in Keys : Due(k, t.ver) => Carried(target.rows, t, k)
    /\ t.pc = "result" /\ t.res = "ok" => t.ver <= cur /\ Held(target.rows, t.ver)

TaskHeld(t) ==
    /\ Truthful(t.buf)
    /\ t.kind = "snap" /\ t.pc # "result" => LoaderSound(t)
    /\ t.kind = "snap" /\ ~t.orphan => SnapRunning(t)
    /\ t.kind = "cdc" /\ ~t.orphan => CdcRunning(t)

OTasks == \A w \in Workers : TaskHeld(task[w])

OSafe ==
    /\ InvSource /\ OTables /\ OTruth /\ OKnown /\ OProgress /\ OMemory
    /\ OControl /\ OCheckpoint /\ OTasks

OInv == TypeInv /\ OSafe

-----------------------------------------------------------------------------
(* Where sync_state takes every write that _plan_snapshot and _finalize    *)
(* make, cut-overs only go forward and requests are answered as well.  An  *)
(* orphan never writes to sync_state, so it cannot upset either.           *)

\* sync_state names the same snapshot as the memory, holds the very same
\* record while one is loaded, and never one older than the live table's.
ONames ==
    /\ up => st.sid = saved.sid
    /\ st.phase = "snapshot" => saved = st
    /\ target.tag <= saved.sid

\* A request marked handled is one the table was created after, be it the
\* live table or the one staged for the snapshot that goes live next.
OAnswers ==
    /\ \A s \in States :
          /\ s.handled <= req
          /\ s.phase = "cdc" => s.handled <= target.since
          /\ s.phase = "snapshot" =>
                /\ s.sid = target.tag => s.handled <= target.since
                /\ s.sid = staging.tag => s.handled <= staging.since
    /\ pc = "plan_save" => st.handled <= staging.since /\ saved.sid < staging.tag

OForward == ONames /\ OAnswers

-----------------------------------------------------------------------------

\* Readers never see a half-loaded table, whatever runs beside the supervisor:
\* from the first cut-over on, in every phase, crash or resync, the live table
\* shows, as it is, every row that exists and has not changed since the
\* snapshot behind it was planned, nor since either checkpoint, in memory or
\* saved, that CDC reached before.
NoMissingRow == target.tag # 0 =>
    \A v \in {target.base, st.last, saved.last}, k \in Keys :
        Due(k, v) => Agrees(target.rows, k)
=============================================================================
