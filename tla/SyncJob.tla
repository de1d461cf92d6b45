------------------------------ MODULE SyncJob ------------------------------
(***************************************************************************)
(* POST /sync of the load-test API: a job that resets the ClickHouse       *)
(* load-test databases, starts a ch-sync of its own, polls ch-sync's saved *)
(* states until every table is in cdc, and stops ch-sync or leaves it      *)
(* running for a later job to stop.                                        *)
(*                                                                         *)
(* A ch-sync is named by the job that started it.  Here it only starts,    *)
(* saves states and dies; what it does inside is TableSync.                *)
(***************************************************************************)
EXTENDS JobManager

CONSTANTS
    Modes,       \* the values CH_SYNC_MODE is tried with
    MaxFaults    \* bound on failed commands, dying processes and API restarts

ASSUME SyncAssumption ==
    /\ Modes \subseteq {"docker", "local"}
    /\ MaxFaults \in Nat

VARIABLES
    mode,     \* MODE, read once from the environment
    live,     \* the ch-syncs that are up
    known,    \* ch-sync -> the phase it has in memory
    states,   \* what sync_state says of the tables, and which ch-sync wrote it
    left,     \* leftRunning, 0 for null
    run,      \* the run function of the active job
    astray,   \* ghost: a ch-sync may be up that the API has lost track of
    faults

chSyncVars == <<live, known, states>>
vars == <<jobVars, mode, chSyncVars, left, run, astray, faults>>

Phases == {"snapshot", "cdc"}

\* Phase "none" is a meta database that is not there.
States == [phase : {"none"} \cup Phases, by : JobIds \cup {0}]
NoStates == [phase |-> "none", by |-> 0]

RunPcs == {"idle", "check", "stopLeft", "remove", "reset", "start",
           "poll", "read", "collect", "finally"}
Run == [pc : RunPcs, reset : BOOLEAN, keep : BOOLEAN, late : BOOLEAN,
        finished : BOOLEAN, ok : BOOLEAN,
        source : JobIds \cup {0}]   \* ghost: who wrote the states it finished on
NoRun == [pc |-> "idle", reset |-> FALSE, keep |-> FALSE, late |-> FALSE,
          finished |-> FALSE, ok |-> FALSE, source |-> 0]

Fault == faults < MaxFaults /\ faults' = faults + 1

Goto(pc) == run' = [run EXCEPT !.pc = pc]

Init ==
    /\ JobsInit
    /\ mode \in Modes
    /\ live = {}
    /\ known = [p \in JobIds |-> "boot"]
    /\ states = NoStates
    /\ left = 0
    /\ run = NoRun
    /\ astray = FALSE
    /\ faults = 0

-----------------------------------------------------------------------------
(* The ch-syncs.                                                           *)

\* A mutated form: a missing meta database is taken as it is.
PhaseOnBootUnchecked == states.phase

\* A ch-sync goes on from the saved states, or starts from nothing.
PhaseOnBoot == IF states.phase = "none" THEN "snapshot" ELSE states.phase

\* It creates the meta database if it is missing.
Boot(p) ==
    /\ known[p] = "boot"
    /\ known' = [known EXCEPT ![p] = PhaseOnBoot]
    /\ states' = IF states.phase = "none" THEN [phase |-> "snapshot", by |-> p] ELSE states

\* It saves the phase it is in, maybe after its last cut-over.  When the meta
\* database was dropped under it the write fails and it carries on.
SaveStates(p) ==
    /\ known[p] # "boot"
    /\ \E phase \in {known[p], "cdc"} :
          /\ known' = [known EXCEPT ![p] = phase]
          /\ states' = IF states.phase = "none" THEN states ELSE [phase |-> phase, by |-> p]

ChSync ==
    /\ \E p \in live : Boot(p) \/ SaveStates(p)
    /\ UNCHANGED <<jobVars, mode, live, left, run, astray, faults>>

ChSyncDies ==
    /\ Fault
    /\ \E p \in live : live' = live \ {p}
    /\ UNCHANGED <<jobVars, mode, known, states, left, run, astray>>

-----------------------------------------------------------------------------
(* stopChSync and the docker commands.                                     *)

\* Whatever container has the name is gone.
ContainerGone == live' = {} /\ astray' = FALSE /\ UNCHANGED faults

\* A docker command that fails: the error is swallowed.
DockerFails == Fault /\ astray' = TRUE /\ UNCHANGED live

\* SIGTERM, and SIGKILL after a minute, end a local ch-sync.  In docker mode
\* only `docker stop` reaches the container; the kill reaches the client.
Stop(p) ==
    \/ p \notin live /\ UNCHANGED <<live, astray, faults>>
    \/ mode = "local" /\ live' = live \ {p} /\ UNCHANGED <<astray, faults>>
    \/ mode = "docker" /\ (ContainerGone \/ DockerFails)

-----------------------------------------------------------------------------
(* The job.                                                                *)

PostSync ==
    /\ StartJob
    /\ \E reset, keep \in BOOLEAN :
          run' = [NoRun EXCEPT !.pc = "check", !.reset = reset, !.keep = keep]
    /\ UNCHANGED <<mode, chSyncVars, left, astray, faults>>

PostCancel ==
    /\ CancelJob
    /\ UNCHANGED <<mode, chSyncVars, left, run, astray, faults>>

\* A mutated form: a ch-sync left running is forgotten.
AfterCheckForgetting == "remove"

AfterCheck == IF left # 0 THEN "stopLeft" ELSE "remove"

CheckSource ==
    /\ run.pc = "check"
    /\ Goto(AfterCheck)
    /\ UNCHANGED <<jobVars, mode, chSyncVars, left, astray, faults>>

StopLeft ==
    /\ run.pc = "stopLeft"
    /\ Stop(left)
    /\ left' = 0
    /\ Goto("remove")
    /\ UNCHANGED <<jobVars, mode, known, states>>

\* docker rm -f of a container an earlier run may have left.
RemoveContainer ==
    /\ run.pc = "remove"
    /\ \/ mode = "local" /\ UNCHANGED <<live, astray, faults>>
       \/ mode = "docker" /\ (ContainerGone \/ DockerFails)
    /\ Goto("reset")
    /\ UNCHANGED <<jobVars, mode, known, states, left>>

\* A mutated form: only the target database is dropped.
StatesAfterResetOfTargetOnly == states

StatesAfterReset == IF run.reset THEN NoStates ELSE states

ResetTarget ==
    /\ run.pc = "reset"
    /\ states' = StatesAfterReset
    /\ Goto("start")
    /\ UNCHANGED <<jobVars, mode, live, known, left, astray, faults>>

\* A container whose name is taken does not come up.
LiveAfterStart ==
    IF mode = "docker" /\ live # {} THEN live ELSE live \cup {active}

\* The last look at the cancel request before ch-sync is started.
StartChSync ==
    /\ run.pc = "start"
    /\ IF IsCancelled
       THEN Returns /\ run' = NoRun /\ UNCHANGED live
       ELSE live' = LiveAfterStart /\ Goto("poll") /\ UNCHANGED jobVars
    /\ UNCHANGED <<mode, known, states, left, astray, faults>>

EndPolling(ok) == run' = [run EXCEPT !.pc = "finally", !.ok = ok]

\* The head of the polling loop; an exit is seen some time after it happened.
Poll ==
    /\ run.pc = "poll"
    /\ \/ IsCancelled /\ EndPolling(TRUE)
       \/ ~IsCancelled /\ active \notin live /\ EndPolling(FALSE)
       \/ ~IsCancelled /\ Goto("read")
    /\ UNCHANGED <<jobVars, mode, chSyncVars, left, astray, faults>>

\* A mutated form: the deadline is never looked at.
TimedOutNever == FALSE

TimedOut == run.late

\* The states one poll reads decide the loop.
ReadStates ==
    /\ run.pc = "read"
    /\ \/ /\ states.phase = "cdc"
          /\ run' = [run EXCEPT !.pc = "collect", !.finished = TRUE, !.source = states.by]
       \/ states.phase # "cdc" /\ TimedOut /\ EndPolling(FALSE)
       \/ states.phase # "cdc" /\ ~TimedOut /\ Goto("poll")
    /\ UNCHANGED <<jobVars, mode, chSyncVars, left, astray, faults>>

\* Logs, storage and counts are read, and the result is ready to return.
CollectResults ==
    /\ run.pc = "collect"
    /\ EndPolling(TRUE)
    /\ UNCHANGED <<jobVars, mode, chSyncVars, left, astray, faults>>

\* A mutated form: every run that finished keeps its ch-sync.
MustStopUnfinished == ~run.finished

MustStop == ~(run.finished /\ run.keep)

\* The finally block: ch-sync is kept for a later job to stop, or stopped.
Finally ==
    /\ run.pc = "finally"
    /\ \/ MustStop /\ Stop(active)
       \/ ~MustStop /\ UNCHANGED <<live, astray, faults>>
    /\ left' = IF run.finished /\ run.keep THEN active ELSE left
    /\ IF run.ok THEN Returns ELSE Throws
    /\ run' = NoRun
    /\ UNCHANGED <<mode, known, states>>

\* A command or query fails: before ch-sync is started the job just ends.
SyncFails ==
    /\ Fault
    /\ \/ run.pc \in {"check", "reset", "start"} /\ Throws /\ run' = NoRun
       \/ run.pc \in {"read", "collect"} /\ EndPolling(FALSE) /\ UNCHANGED jobVars
    /\ UNCHANGED <<mode, chSyncVars, left, astray>>

DeadlinePasses ==
    /\ run.pc \in {"poll", "read"} /\ ~run.late
    /\ run' = [run EXCEPT !.late = TRUE]
    /\ UNCHANGED <<jobVars, mode, chSyncVars, left, astray, faults>>

\* The API process dies: jobs and leftRunning are forgotten, and the ch-syncs
\* it spawned may live on.
ApiRestart ==
    /\ Fault
    /\ ForgetJobs
    /\ run' = NoRun
    /\ left' = 0
    /\ live' \in SUBSET live
    /\ astray' = (live' # {})
    /\ UNCHANGED <<mode, known, states>>

SyncStep ==
    CheckSource \/ StopLeft \/ RemoveContainer \/ ResetTarget \/ StartChSync
    \/ Poll \/ ReadStates \/ CollectResults \/ Finally

\* MaxJobs is reached and the last job is over: the one state to rest in.
AllOver == active = 0 /\ nextJob \notin JobIds /\ UNCHANGED vars

Next ==
    \/ PostSync \/ PostCancel \/ SyncStep \/ SyncFails \/ DeadlinePasses
    \/ ChSync \/ ChSyncDies \/ ApiRestart \/ AllOver

Spec == Init /\ [][Next]_vars

\* Awaited calls return (stopChSync waits a minute at most), and time passes.
FairSpec == Spec /\ WF_vars(SyncStep) /\ WF_vars(DeadlinePasses)

-----------------------------------------------------------------------------
(* Properties.                                                             *)

\* The job, the ch-syncs and what they saved have their types.
TypeOK ==
    /\ JobsTypeOK
    /\ mode \in Modes
    /\ live \subseteq JobIds
    /\ known \in [JobIds -> {"boot"} \cup Phases]
    /\ states \in States
    /\ left \in JobIds \cup {0}
    /\ run \in Run
    /\ astray \in BOOLEAN
    /\ faults \in Nat

\* However a run ends (done, cancelled, timed out, failed half-way), no
\* ch-sync is up afterwards but the one leftRunning knows, as long as docker
\* obeys and the API stays up.
NoStray == active = 0 /\ ~astray => live \subseteq {left}

\* Two ch-syncs never work on the same databases: a run's own comes up only
\* when no other is up.  Only a local one that outlived the API escapes.
OneChSync == [][\A p \in live' \ live :
                    live = {} \/ (mode = "local" /\ astray)]_vars

\* A cold run reports success on states its own ch-sync saved, never on those
\* of an earlier run, unless docker failed it or a ch-sync outlived the API.
OwnResult == [][\A j \in JobIds :
    /\ jobs[j].status = "running" /\ jobs'[j].status = "succeeded"
    /\ run.reset /\ ~astray
    => run.source = j]_vars

\* Every run ends, whatever ch-sync does, and then the next one may start.
JobsEnd == \A j \in JobIds : (active = j) ~> (active # j)

-----------------------------------------------------------------------------
(* Why NoStray, OneChSync and OwnResult hold.                              *)

Started == run.pc \in {"poll", "read", "collect", "finally"}

\* A run function is at work exactly while its job is active, and it returns
\* without an error only when it finished or was cancelled.
InvRun ==
    /\ active = 0 <=> run.pc = "idle"
    /\ \A j \in JobIds : jobs[j].status = "running" <=> j = active
    /\ run.finished => run.pc \in {"collect", "finally"}
    /\ run.pc = "collect" => run.finished
    /\ run.pc = "finally" /\ run.ok => run.finished \/ IsCancelled

\* Which ch-sync may be up: the one kept, then none, then the run's own.
InvLive == ~astray =>
    /\ run.pc \in {"idle", "check", "stopLeft"} => live \subseteq {left}
    /\ run.pc \in {"remove", "reset", "start"} => live = {}
    /\ Started => live \subseteq {active}

\* After a reset only the run's own ch-sync has saved states.
InvStates == ~astray /\ run.reset =>
    /\ run.pc = "start" => states.phase = "none"
    /\ Started => states.phase = "none" \/ states.by = active
    /\ Started /\ run.finished => run.source = active

SyncInv == TypeOK /\ InvRun /\ InvLive /\ InvStates
=============================================================================
