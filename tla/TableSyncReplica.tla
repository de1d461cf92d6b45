-------------------------- MODULE TableSyncReplica --------------------------
(***************************************************************************)
(* TableSync as an implementation of Replica.  The view is the live table, *)
(* published once a snapshot was swapped in; promised is what a restart    *)
(* would go on from: the checkpoint in sync_state, or the version of the   *)
(* snapshot behind the live table where that is later.                     *)
(***************************************************************************)
EXTENDS TableSyncInv

Promised == IF saved.last > target.base THEN saved.last ELSE target.base

Reader == INSTANCE Replica WITH
    version <- cur,
    source <- row,
    view <- target.rows,
    published <- target.tag # 0,
    upto <- Promised

\* Every step of the supervisor, the workers and the source is a step of
\* Replica or leaves the reader's side alone: the version promised never goes
\* back, it is always covered, and rows are never replaced by older ones.
ImplementsReplica == Reader!Spec

-----------------------------------------------------------------------------
(* Why it does: the invariant behind the refinement, over IInv.  It needs  *)
(* sync_state to take every write that _plan_snapshot and _finalize make.  *)

\* Nothing was inserted into a live table that no snapshot built.
RBare == target.tag = 0 => target.rows = Empty /\ target.base = 0

\* sync_state follows the memory: same snapshot, no later checkpoint, and the
\* very same record while a snapshot is loaded.
RState ==
    /\ up => st.sid = saved.sid /\ saved.last <= st.last
    /\ st.phase = "snapshot" => saved = st
    /\ target.tag <= saved.sid

\* What a state in CDC, or one whose snapshot went live, says of the live table.
RLive == \A s \in States :
    /\ s.phase = "cdc" => s.sid = target.tag
    /\ s.phase = "snapshot" /\ s.sid = target.tag => s.last <= target.base

\* The snapshot being planned is later than all that was promised.
RPlan == pc \in {"plan_drop", "plan_create", "plan_save"} =>
    target.base <= planned /\ st.last <= planned

\* The staged snapshot may replace the live table: it is later than all that
\* was promised and has no row older than the one shown.
RStaged == \A s \in States : s.sid # 0 /\ s.sid = staging.tag =>
    /\ s.last <= staging.base /\ target.base <= staging.base
    /\ \A k \in Keys : staging.rows[k].live => staging.rows[k].val >= target.rows[k].val

\* The checkpoints are covered in every phase.
RCovered == target.tag # 0 => \A s \in States : Complete(target.rows, s.last)

\* No table has a content that the source is yet to commit.
RVals == \A k \in Keys :
    target.rows[k].val <= row[k].ver /\ staging.rows[k].val <= row[k].ver

\* What a task has read is neither newer than the source nor older than the
\* live table, and a CDC task goes on from the checkpoint in memory.
TaskFresh(t) ==
    /\ \A k \in Keys : t.buf[k] # Absent =>
          t.buf[k].val <= row[k].ver /\ t.buf[k].val >= target.rows[k].val
    /\ t.kind = "cdc" =>
          /\ st.sid = target.tag
          /\ t.pc = "open" => t.last = st.last
          /\ t.pc = "apply" \/ t.res = "ok" => st.last <= t.ver

RTasks == \A w \in Workers : TaskFresh(task[w])

RInv == RBare /\ RState /\ RLive /\ RPlan /\ RStaged /\ RCovered /\ RVals /\ RTasks
=============================================================================
