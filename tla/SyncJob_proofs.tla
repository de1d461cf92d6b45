--------------------------- MODULE SyncJob_proofs ---------------------------
(***************************************************************************)
(* Theorems about SyncJob for any number of jobs and faults, in docker and *)
(* local mode: no ch-sync is leaked, two never work together, and a cold   *)
(* run reports its own result.                                             *)
(***************************************************************************)
EXTENDS SyncJob, TLAPS

-----------------------------------------------------------------------------
(* Jobs.                                                                   *)

LEMMA ConstantTypes ==
    /\ 0 \notin JobIds
    /\ NoJob \in Job /\ NoRun \in Run /\ NoStates \in States
    /\ NoRun.pc = "idle" /\ ~NoRun.finished
BY JobAssumption DEF JobIds, NoJob, Job, NoRun, Run, RunPcs, NoStates, States

\* A job that ends leaves none running.
LEMMA JobEnds ==
    ASSUME TypeOK, InvRun, Returns \/ Throws \/ ForgetJobs
    PROVE  /\ JobsTypeOK' /\ active' = 0
           /\ \A j \in JobIds : jobs'[j].status # "running"
<1>1. CASE ForgetJobs
  BY <1>1, ConstantTypes DEF ForgetJobs, TypeOK, JobsTypeOK, NoJob
<1>2. CASE Returns \/ Throws
  <2>1. PICK x \in {"succeeded", "cancelled", "failed"} :
          /\ active # 0 /\ active' = 0 /\ nextJob' = nextJob
          /\ jobs' = [jobs EXCEPT ![active].status = x]
    BY <1>2 DEF Returns, Throws, StatusOnReturn
  <2>2. active \in JobIds /\ jobs \in [JobIds -> Job] /\ nextJob \in Nat \ {0}
    BY <2>1 DEF TypeOK, JobsTypeOK
  <2>3. JobsTypeOK'
    BY <2>1, <2>2 DEF JobsTypeOK, Job
  <2>4. \A j \in JobIds : jobs'[j].status # "running"
    BY <2>1, <2>2 DEF InvRun, Job
  <2> QED
    BY <2>1, <2>3, <2>4
<1> QED
  BY <1>1, <1>2

\* Where a run is over, only what live and left say matters.
LEMMA RunOver ==
    ASSUME TypeOK, InvRun, Returns \/ Throws \/ ForgetJobs,
           run' = NoRun, mode' = mode, live' \subseteq JobIds,
           known' \in [JobIds -> {"boot"} \cup Phases], states' \in States,
           left' \in JobIds \cup {0}, astray' \in BOOLEAN, faults' \in Nat,
           ~astray' => live' \subseteq {left'}
    PROVE  SyncInv'
<1>1. /\ JobsTypeOK' /\ active' = 0 /\ run' \in Run /\ run'.pc = "idle" /\ ~run'.finished
      /\ \A j \in JobIds : jobs'[j].status # "running"
  BY JobEnds, ConstantTypes
<1>2. TypeOK'
  BY <1>1 DEF TypeOK
<1>3. InvRun'
  BY <1>1, ConstantTypes DEF InvRun
<1>4. InvLive' /\ InvStates'
  BY <1>1 DEF InvLive, InvStates, Started
<1> QED
  BY <1>2, <1>3, <1>4 DEF SyncInv

LEMMA SyncInit == Init => SyncInv
<1> SUFFICES ASSUME Init PROVE SyncInv
  OBVIOUS
<1>1. TypeOK
  <2>1. JobsTypeOK
    BY ConstantTypes DEF Init, JobsInit, JobsTypeOK
  <2>2. known \in [JobIds -> {"boot"} \cup Phases]
    BY DEF Init
  <2> QED
    BY <2>1, <2>2, ConstantTypes DEF Init, TypeOK
<1>2. InvRun
  BY ConstantTypes DEF Init, JobsInit, InvRun, NoJob
<1>3. InvLive /\ InvStates
  BY ConstantTypes DEF Init, InvLive, InvStates, Started
<1> QED
  BY <1>1, <1>2, <1>3 DEF SyncInv

-----------------------------------------------------------------------------
(* The job store, the ch-syncs and the clock.                              *)

LEMMA SyncJobStore == SyncInv /\ (PostSync \/ PostCancel) => SyncInv'
<1> SUFFICES ASSUME SyncInv, PostSync \/ PostCancel PROVE SyncInv'
  OBVIOUS
<1> USE DEF SyncInv, chSyncVars
<1>1. CASE PostSync
  <2>1. /\ active = 0 /\ nextJob \in JobIds /\ active' = nextJob /\ nextJob' = nextJob + 1
        /\ jobs' = [jobs EXCEPT ![nextJob] = [status |-> "running", cancel |-> FALSE]]
    BY <1>1 DEF PostSync, StartJob
  <2>2. PICK reset, keep \in BOOLEAN :
          run' = [NoRun EXCEPT !.pc = "check", !.reset = reset, !.keep = keep]
    BY <1>1 DEF PostSync
  <2>3. run' \in Run /\ run'.pc = "check" /\ ~run'.finished
    BY <2>2, ConstantTypes DEF Run, RunPcs
  <2>4. JobsTypeOK'
    BY <2>1 DEF TypeOK, JobsTypeOK, Job
  <2>5. TypeOK'
    BY <1>1, <2>3, <2>4 DEF PostSync, TypeOK
  <2>6. \A j \in JobIds : jobs'[j].status = "running" <=> j = active'
    BY <2>1, ConstantTypes DEF TypeOK, JobsTypeOK, InvRun
  <2>7. InvRun'
    BY <2>1, <2>3, <2>6, ConstantTypes DEF InvRun
  <2>8. run.pc = "idle"
    BY <2>1 DEF InvRun
  <2>9. InvLive' /\ InvStates'
    BY <1>1, <2>3, <2>8 DEF PostSync, InvLive, InvStates, Started
  <2> QED
    BY <2>5, <2>7, <2>9
<1>2. CASE PostCancel
  <2>1. PICK j \in JobIds : jobs' = [jobs EXCEPT ![j].cancel = TRUE]
    BY <1>2 DEF PostCancel, CancelJob
  <2>2. UNCHANGED <<active, nextJob, mode, chSyncVars, left, run, astray, faults>>
    BY <1>2 DEF PostCancel, CancelJob
  <2>3. JobsTypeOK' /\ \A i \in JobIds : jobs'[i].status = jobs[i].status
    BY <2>1, <2>2 DEF TypeOK, JobsTypeOK, Job
  <2>4. IsCancelled => IsCancelled'
    BY <2>1, <2>2 DEF IsCancelled, TypeOK, JobsTypeOK, Job
  <2>5. InvRun'
    BY <2>2, <2>3, <2>4 DEF InvRun
  <2> QED
    BY <2>2, <2>3, <2>5 DEF TypeOK, InvLive, InvStates, Started
<1> QED
  BY <1>1, <1>2

LEMMA SyncOutside == SyncInv /\ (ChSync \/ ChSyncDies \/ DeadlinePasses) => SyncInv'
<1> SUFFICES ASSUME SyncInv, ChSync \/ ChSyncDies \/ DeadlinePasses PROVE SyncInv'
  OBVIOUS
<1> USE DEF SyncInv, chSyncVars, jobVars
<1>1. CASE ChSync
  <2>1. PICK p \in live : Boot(p) \/ SaveStates(p)
    BY <1>1 DEF ChSync
  <2>2. /\ known' \in [JobIds -> {"boot"} \cup Phases]
        /\ states' = states \/ (states' \in States /\ states'.by = p)
    BY <2>1 DEF Boot, SaveStates, PhaseOnBoot, TypeOK, States, Phases
  <2>3. UNCHANGED <<jobVars, mode, live, left, run, astray, faults>>
    BY <1>1 DEF ChSync
  <2>4. TypeOK'
    BY <2>2, <2>3 DEF TypeOK, JobsTypeOK
  <2>5. InvRun' /\ InvLive'
    BY <2>3 DEF InvRun, InvLive, Started, IsCancelled
  <2>6. InvStates'
    BY <2>1, <2>2, <2>3 DEF InvStates, InvLive, Started
  <2> QED
    BY <2>4, <2>5, <2>6
<1>2. CASE ChSyncDies
  BY <1>2 DEF ChSyncDies, Fault, TypeOK, JobsTypeOK, InvRun, InvLive, InvStates, Started, IsCancelled
<1>3. CASE DeadlinePasses
  <2>1. run' \in Run /\ run' = [run EXCEPT !.late = TRUE]
    BY <1>3 DEF DeadlinePasses, TypeOK, Run
  <2>2. /\ run'.pc = run.pc /\ run'.finished = run.finished /\ run'.ok = run.ok
        /\ run'.reset = run.reset /\ run'.source = run.source
    BY <2>1 DEF TypeOK, Run
  <2> QED
    BY <1>3, <2>1, <2>2
    DEF DeadlinePasses, TypeOK, JobsTypeOK, InvRun, InvLive, InvStates, Started, IsCancelled
<1> QED
  BY <1>1, <1>2, <1>3

-----------------------------------------------------------------------------
(* The run function.                                                       *)

\* What Goto and EndPolling leave of the run.
LEMMA RunMoves ==
    ASSUME run \in Run, NEW pc \in RunPcs, NEW ok \in BOOLEAN,
           Goto(pc) \/ (pc = "finally" /\ EndPolling(ok))
    PROVE  /\ run' \in Run /\ run'.pc = pc /\ run'.finished = run.finished
           /\ run'.reset = run.reset /\ run'.source = run.source
           /\ EndPolling(ok) => run'.ok = ok
BY DEF Goto, EndPolling, Run, RunPcs

\* A docker command leaves no ch-sync, or leaves one astray.
LEMMA DockerCommand ==
    ASSUME TypeOK, ContainerGone \/ DockerFails
    PROVE  /\ live' \subseteq live /\ astray' \in BOOLEAN /\ faults' \in Nat
           /\ live' = {} \/ astray'
<1>1. CASE ContainerGone
  <2>1. astray' = FALSE
    BY <1>1 DEF ContainerGone
  <2> QED
    BY <1>1, <2>1 DEF ContainerGone, TypeOK
<1>2. CASE DockerFails
  <2>1. astray' = TRUE
    BY <1>2 DEF DockerFails
  <2>2. live' = live /\ faults' \in Nat
    BY <1>2 DEF DockerFails, Fault, TypeOK
  <2>3. astray' \in BOOLEAN /\ astray'
    BY <2>1, Zenon
  <2> QED
    BY <2>2, <2>3, Zenon
<1> QED
  BY <1>1, <1>2

\* stopChSync ends the one ch-sync there may be, unless docker fails it.
LEMMA Stops ==
    ASSUME TypeOK, NEW p, Stop(p)
    PROVE  /\ live' \subseteq JobIds /\ astray' \in BOOLEAN /\ faults' \in Nat
           /\ ~astray' /\ (~astray => live \subseteq {p}) => live' = {} \/ astray
           /\ ~astray' /\ astray => live' = {}
           /\ live' \subseteq live
<1>1. CASE p \notin live /\ UNCHANGED <<live, astray, faults>>
  BY <1>1 DEF TypeOK
<1>2. CASE mode = "local" /\ live' = live \ {p} /\ UNCHANGED <<astray, faults>>
  BY <1>2 DEF TypeOK
<1>3. CASE ContainerGone \/ DockerFails
  BY <1>3, DockerCommand DEF TypeOK
<1> QED
  BY <1>1, <1>2, <1>3 DEF Stop

LEMMA SyncBefore ==
    SyncInv /\ (CheckSource \/ StopLeft \/ RemoveContainer \/ ResetTarget \/ StartChSync) => SyncInv'
<1> SUFFICES ASSUME SyncInv, CheckSource \/ StopLeft \/ RemoveContainer \/ ResetTarget \/ StartChSync
             PROVE  SyncInv'
  OBVIOUS
<1> USE DEF SyncInv, chSyncVars, jobVars
<1>0. run \in Run /\ TypeOK
  BY DEF TypeOK
<1>1. CASE CheckSource
  <2>1. /\ run' \in Run /\ run'.pc = AfterCheck /\ run'.finished = run.finished
        /\ AfterCheck \in {"stopLeft", "remove"} /\ run.pc = "check"
    BY <1>0, <1>1, RunMoves DEF CheckSource, AfterCheck, RunPcs
  <2>2. AfterCheck = "remove" => left = 0
    BY DEF AfterCheck
  <2>3. TypeOK' /\ InvRun'
    BY <1>1, <2>1 DEF CheckSource, TypeOK, JobsTypeOK, InvRun
  <2>4. InvLive' /\ InvStates'
    BY <1>1, <2>1, <2>2, ConstantTypes DEF CheckSource, InvLive, InvStates, Started, TypeOK
  <2> QED
    BY <2>3, <2>4
<1>2. CASE StopLeft
  <2>1. run' \in Run /\ run'.pc = "remove" /\ run'.finished = run.finished /\ run.pc = "stopLeft"
    BY <1>0, <1>2, RunMoves DEF StopLeft, RunPcs
  <2>2. live' \subseteq JobIds /\ astray' \in BOOLEAN /\ faults' \in Nat
    BY <1>0, <1>2, Stops DEF StopLeft
  <2>3. ~astray' => live' = {}
    BY <1>0, <1>2, <2>1, Stops DEF StopLeft, InvLive
  <2>4. TypeOK' /\ InvRun'
    BY <1>2, <2>1, <2>2 DEF StopLeft, TypeOK, JobsTypeOK, InvRun
  <2> QED
    BY <2>1, <2>3, <2>4 DEF InvLive, InvStates, Started
<1>3. CASE RemoveContainer
  <2>1. run' \in Run /\ run'.pc = "reset" /\ run'.finished = run.finished /\ run.pc = "remove"
    BY <1>0, <1>3, RunMoves DEF RemoveContainer, RunPcs
  <2>2. /\ live' \subseteq JobIds /\ astray' \in BOOLEAN /\ faults' \in Nat
        /\ ~astray' => live' = {}
    BY <1>0, <1>3, <2>1, DockerCommand DEF RemoveContainer, TypeOK, InvLive
  <2>3. TypeOK' /\ InvRun'
    BY <1>3, <2>1, <2>2 DEF RemoveContainer, TypeOK, JobsTypeOK, InvRun
  <2> QED
    BY <2>1, <2>2, <2>3 DEF InvLive, InvStates, Started
<1>4. CASE ResetTarget
  <2>1. /\ run' \in Run /\ run'.pc = "start" /\ run'.finished = run.finished
        /\ run'.reset = run.reset /\ run.pc = "reset"
    BY <1>0, <1>4, RunMoves DEF ResetTarget, RunPcs
  <2>2. states' \in States /\ (run.reset => states'.phase = "none")
    BY <1>4, ConstantTypes DEF ResetTarget, StatesAfterReset, NoStates, TypeOK
  <2>3. TypeOK' /\ InvRun'
    BY <1>4, <2>1, <2>2 DEF ResetTarget, TypeOK, JobsTypeOK, InvRun
  <2>4. InvLive' /\ InvStates'
    BY <1>4, <2>1, <2>2 DEF ResetTarget, InvLive, InvStates, Started
  <2> QED
    BY <2>3, <2>4
<1>5. CASE StartChSync
  <2>1. CASE IsCancelled
    BY <1>0, <1>5, <2>1, RunOver DEF StartChSync, InvLive, TypeOK
  <2>2. CASE ~IsCancelled
    <3>1. /\ run' \in Run /\ run'.pc = "poll" /\ run'.finished = run.finished
          /\ run'.reset = run.reset /\ run.pc = "start"
      BY <1>0, <1>5, <2>2, RunMoves DEF StartChSync, RunPcs
    <3>2. active \in JobIds
      BY <3>1 DEF InvRun, TypeOK, JobsTypeOK
    <3>3. live' \subseteq live \cup {active}
      BY <1>5, <2>2 DEF StartChSync, LiveAfterStart
    <3>4. TypeOK' /\ InvRun'
      BY <1>5, <2>2, <3>1, <3>2, <3>3 DEF StartChSync, TypeOK, JobsTypeOK, InvRun
    <3>5. InvLive' /\ InvStates'
      BY <1>5, <2>2, <3>1, <3>3 DEF StartChSync, InvRun, InvLive, InvStates, Started
    <3> QED
      BY <3>4, <3>5
  <2> QED
    BY <2>1, <2>2
<1> QED
  BY <1>1, <1>2, <1>3, <1>4, <1>5

LEMMA SyncPolling == SyncInv /\ (Poll \/ ReadStates \/ CollectResults) => SyncInv'
<1> SUFFICES ASSUME SyncInv, Poll \/ ReadStates \/ CollectResults PROVE SyncInv'
  OBVIOUS
<1> USE DEF SyncInv, chSyncVars, jobVars
<1>0. run \in Run /\ TypeOK /\ Started
  BY DEF TypeOK, Started, Poll, ReadStates, CollectResults
<1>f. UNCHANGED <<jobVars, mode, chSyncVars, left, astray, faults>>
  BY DEF Poll, ReadStates, CollectResults
\* The loop goes on, or ends without having finished anything new.
<1>k. ASSUME run' \in Run, run'.pc \in {"poll", "read", "finally"}, run'.finished = run.finished,
             run'.reset = run.reset, run'.source = run.source,
             run.finished => run'.pc = "finally",
             run'.pc = "finally" /\ run'.ok => run.finished \/ IsCancelled
      PROVE  SyncInv'
  <2>1. TypeOK' /\ InvRun'
    BY <1>0, <1>f, <1>k DEF TypeOK, JobsTypeOK, InvRun, IsCancelled, Started
  <2>2. InvLive' /\ InvStates'
    BY <1>0, <1>f, <1>k DEF InvLive, InvStates, Started
  <2> QED
    BY <2>1, <2>2
<1>1. CASE Poll
  <2>1. ~run.finished
    BY <1>1 DEF Poll, InvRun
  <2>2. \/ Goto("read")
        \/ EndPolling(FALSE)
        \/ IsCancelled /\ EndPolling(TRUE)
    BY <1>1 DEF Poll
  <2> QED
    BY <1>0, <1>k, <2>1, <2>2, RunMoves DEF RunPcs
<1>2. CASE ReadStates
  <2>1. ~run.finished
    BY <1>2 DEF ReadStates, InvRun
  <2>2. CASE /\ states.phase = "cdc"
             /\ run' = [run EXCEPT !.pc = "collect", !.finished = TRUE, !.source = states.by]
    <3>1. states.by \in JobIds \cup {0}
      BY DEF TypeOK, States
    <3>2. /\ run' \in Run /\ run'.pc = "collect" /\ run'.finished
          /\ run'.reset = run.reset /\ run'.source = states.by
      BY <1>0, <2>2, <3>1 DEF Run, RunPcs
    <3>3. TypeOK' /\ InvRun'
      BY <1>0, <1>f, <3>2 DEF TypeOK, JobsTypeOK, InvRun, Started
    <3>4. InvLive' /\ InvStates'
      BY <1>0, <1>f, <2>2, <3>2 DEF InvLive, InvStates, Started
    <3> QED
      BY <3>3, <3>4
  <2>3. CASE EndPolling(FALSE) \/ Goto("poll")
    BY <1>0, <1>k, <2>1, <2>3, RunMoves DEF RunPcs
  <2> QED
    BY <1>2, <2>2, <2>3 DEF ReadStates
<1>3. CASE CollectResults
  <2>1. run.finished /\ EndPolling(TRUE)
    BY <1>3 DEF CollectResults, InvRun
  <2> QED
    BY <1>0, <1>k, <2>1, RunMoves DEF RunPcs
<1> QED
  BY <1>1, <1>2, <1>3

LEMMA SyncEnds == SyncInv /\ (Finally \/ SyncFails \/ ApiRestart) => SyncInv'
<1> SUFFICES ASSUME SyncInv, Finally \/ SyncFails \/ ApiRestart PROVE SyncInv'
  OBVIOUS
<1> USE DEF SyncInv, chSyncVars, jobVars
<1>0. run \in Run /\ TypeOK
  BY DEF TypeOK
<1>1. CASE Finally
  <2>1. run.pc = "finally" /\ active \in JobIds /\ run' = NoRun /\ (Returns \/ Throws)
    BY <1>1 DEF Finally, InvRun, TypeOK, JobsTypeOK
  <2>2. CASE MustStop /\ Stop(active)
    <3>1. /\ live' \subseteq JobIds /\ astray' \in BOOLEAN /\ faults' \in Nat
          /\ ~astray' => live' = {}
      BY <1>0, <2>1, <2>2, Stops DEF InvLive, Started
    <3> QED
      BY <1>0, <1>1, <2>1, <3>1, RunOver DEF Finally, TypeOK
  <2>3. CASE ~MustStop /\ UNCHANGED <<live, astray, faults>>
    <3>1. left' = active
      BY <1>1, <2>3 DEF Finally, MustStop
    <3> QED
      BY <1>0, <1>1, <2>1, <2>3, <3>1, RunOver DEF Finally, TypeOK, InvLive, Started
  <2> QED
    BY <1>1, <2>2, <2>3 DEF Finally
<1>2. CASE SyncFails
  <2>1. CASE run.pc \in {"check", "reset", "start"} /\ Throws /\ run' = NoRun
    BY <1>0, <1>2, <2>1, RunOver DEF SyncFails, Fault, TypeOK, InvLive
  <2>2. CASE run.pc \in {"read", "collect"} /\ EndPolling(FALSE) /\ UNCHANGED jobVars
    <3>1. /\ run' \in Run /\ run'.pc = "finally" /\ run'.finished = run.finished
          /\ run'.reset = run.reset /\ run'.source = run.source /\ ~run'.ok
      BY <1>0, <2>2, RunMoves DEF RunPcs
    <3>2. TypeOK' /\ InvRun'
      BY <1>0, <1>2, <2>2, <3>1 DEF SyncFails, Fault, TypeOK, JobsTypeOK, InvRun
    <3>3. InvLive' /\ InvStates'
      BY <1>2, <2>2, <3>1 DEF SyncFails, InvLive, InvStates, Started
    <3> QED
      BY <3>2, <3>3
  <2> QED
    BY <1>2, <2>1, <2>2 DEF SyncFails
<1>3. CASE ApiRestart
  <2>1. astray' = (live' # {})
    BY <1>3 DEF ApiRestart
  <2>2. astray' \in BOOLEAN /\ (~astray' => live' = {})
    BY <2>1, Zenon
  <2>3. live' \subseteq JobIds /\ faults' \in Nat /\ left' = 0
    BY <1>3 DEF ApiRestart, Fault, TypeOK
  <2>4. ~astray' => live' \subseteq {left'}
    BY <2>2
  <2> QED
    BY <1>0, <1>3, <2>2, <2>3, <2>4, RunOver DEF ApiRestart, TypeOK
<1> QED
  BY <1>1, <1>2, <1>3

LEMMA SyncStutters == SyncInv /\ UNCHANGED vars => SyncInv'
BY DEF SyncInv, vars, jobVars, chSyncVars, TypeOK, JobsTypeOK, InvRun, InvLive,
       InvStates, Started, IsCancelled

LEMMA SyncInvariant == Spec => []SyncInv
<1>1. SyncInv /\ [Next]_vars => SyncInv'
  BY SyncJobStore, SyncOutside, SyncBefore, SyncPolling, SyncEnds, SyncStutters
  DEF Next, SyncStep, AllOver
<1> QED
  BY SyncInit, <1>1, PTL DEF Spec

-----------------------------------------------------------------------------
(* The theorems.                                                           *)

\* Jobs, ch-syncs, saved states and the run function keep their types.
THEOREM SyncTypeCorrect == Spec => []TypeOK
<1>1. SyncInv => TypeOK
  BY DEF SyncInv
<1> QED
  BY SyncInvariant, <1>1, PTL

\* However a run ends, no ch-sync is up afterwards but the one leftRunning
\* knows, as long as docker obeys and the API stays up.
THEOREM NothingLeaks == Spec => []NoStray
<1>1. SyncInv => NoStray
  BY DEF SyncInv, InvRun, InvLive, NoStray
<1> QED
  BY SyncInvariant, <1>1, PTL

\* A ch-sync is only started while no other is up.
THEOREM ChSyncsExclude == Spec => OneChSync
<1> DEFINE A == \A p \in live' \ live : live = {} \/ (mode = "local" /\ astray)
<1>1. SyncInv /\ [Next]_vars => [A]_vars
  <2> SUFFICES ASSUME SyncInv, Next, NEW p \in live' \ live
               PROVE  live = {} \/ (mode = "local" /\ astray)
    OBVIOUS
  <2>1. StartChSync
    BY DEF Next, PostSync, PostCancel, SyncStep, CheckSource, StopLeft, RemoveContainer,
           ResetTarget, Poll, ReadStates, CollectResults, Finally, SyncFails,
           DeadlinePasses, ChSync, ChSyncDies, ApiRestart, AllOver, Stop, ContainerGone,
           DockerFails, vars, chSyncVars
  <2>2. /\ run.pc = "start" /\ mode \in {"docker", "local"}
        /\ live' = live \/ live' = LiveAfterStart
    BY <2>1, SyncAssumption DEF StartChSync, SyncInv, TypeOK
  <2> QED
    BY <2>2 DEF LiveAfterStart, SyncInv, InvLive
<1> QED
  BY SyncInvariant, <1>1, PTL DEF Spec, OneChSync

\* A cold run that is reported as succeeded ended on states its own ch-sync
\* saved.
THEOREM ResultsAreOwn == Spec => OwnResult
<1> DEFINE A == \A j \in JobIds :
               /\ jobs[j].status = "running" /\ jobs'[j].status = "succeeded"
               /\ run.reset /\ ~astray
               => run.source = j
<1>1. SyncInv /\ [Next]_vars => [A]_vars
  <2> SUFFICES ASSUME SyncInv, Next, NEW j \in JobIds,
                      jobs[j].status = "running", jobs'[j].status = "succeeded",
                      run.reset, ~astray
               PROVE  run.source = j
    OBVIOUS
  <2>1. j = active /\ active \in JobIds /\ jobs \in [JobIds -> Job]
    BY DEF SyncInv, InvRun, TypeOK, JobsTypeOK
  <2>2. jobs' # jobs /\ ~CancelJob /\ ~StartJob /\ ~Throws /\ ~ForgetJobs
    BY <2>1 DEF CancelJob, StartJob, Throws, ForgetJobs, NoJob, Job
  <2>3. Returns
    BY <2>2 DEF Next, PostSync, PostCancel, SyncStep, CheckSource, StopLeft, RemoveContainer,
           ResetTarget, StartChSync, Poll, ReadStates, CollectResults, Finally, SyncFails,
           DeadlinePasses, ChSync, ChSyncDies, ApiRestart, AllOver, vars, jobVars
  <2>4. ~IsCancelled
    BY <2>1, <2>3 DEF Returns, StatusOnReturn, IsCancelled, Job
  <2>5. Finally /\ run.ok
    BY <2>2, <2>4 DEF Next, PostSync, PostCancel, SyncStep, CheckSource, StopLeft, RemoveContainer,
           ResetTarget, StartChSync, Poll, ReadStates, CollectResults, Finally, SyncFails,
           DeadlinePasses, ChSync, ChSyncDies, ApiRestart, AllOver, vars, jobVars
  <2> QED
    BY <2>1, <2>4, <2>5 DEF Finally, SyncInv, InvRun, InvStates, Started
<1> QED
  BY SyncInvariant, <1>1, PTL DEF Spec, OwnResult
=============================================================================
