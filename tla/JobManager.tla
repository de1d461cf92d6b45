----------------------------- MODULE JobManager -----------------------------
(***************************************************************************)
(* The load-test API's in-memory job store: one job runs at a time, a job  *)
(* may be asked to cancel, and it ends when its run function returns or    *)
(* throws.  Node runs one handler at a time, so each operation below is    *)
(* atomic; a job's run function interleaves with other requests only where *)
(* it awaits.                                                              *)
(***************************************************************************)
EXTENDS Naturals

CONSTANT MaxJobs   \* bound on the jobs ever started

ASSUME JobAssumption == MaxJobs \in Nat

VARIABLES
    jobs,      \* the Map of jobs; a job the API has no record of is NoJob
    active,    \* activeJobId, 0 for null
    nextJob    \* the next fresh job id (randomUUID in the code)

jobVars == <<jobs, active, nextJob>>

JobIds == 1..MaxJobs

Job == [status : {"none", "running", "succeeded", "cancelled", "failed"},
        cancel : BOOLEAN]

NoJob == [status |-> "none", cancel |-> FALSE]

JobsTypeOK ==
    /\ jobs \in [JobIds -> Job]
    /\ active \in JobIds \cup {0}
    /\ nextJob \in Nat \ {0}

JobsInit ==
    /\ jobs = [j \in JobIds |-> NoJob]
    /\ active = 0
    /\ nextJob = 1

\* startJob: refused while another job is active.
StartJob ==
    /\ active = 0
    /\ nextJob \in JobIds
    /\ jobs' = [jobs EXCEPT ![nextJob] = [status |-> "running", cancel |-> FALSE]]
    /\ active' = nextJob
    /\ nextJob' = nextJob + 1

\* cancelJob: refused unless the job is still running.
CancelJob ==
    /\ \E j \in JobIds :
          /\ jobs[j].status = "running"
          /\ jobs' = [jobs EXCEPT ![j].cancel = TRUE]
    /\ UNCHANGED <<active, nextJob>>

\* ctx.isCancelled() of the running job.
IsCancelled == active # 0 /\ jobs[active].cancel

\* A mutated form: a run that returned has succeeded, cancelled or not.
StatusOnReturnIgnoringCancel(job) == "succeeded"

\* A run that returned after a cancel request counts as cancelled.
StatusOnReturn(job) == IF job.cancel THEN "cancelled" ELSE "succeeded"

\* The run function returned; the next job may start.
Returns ==
    /\ active # 0
    /\ jobs' = [jobs EXCEPT ![active].status = StatusOnReturn(jobs[active])]
    /\ active' = 0
    /\ UNCHANGED nextJob

\* A mutated form: only a run that returns clears activeJobId.
ThrowsKeepingActive ==
    /\ active # 0
    /\ jobs' = [jobs EXCEPT ![active].status = "failed"]
    /\ UNCHANGED <<active, nextJob>>

\* The run function threw: failed, whether or not it was being cancelled.
Throws ==
    /\ active # 0
    /\ jobs' = [jobs EXCEPT ![active].status = "failed"]
    /\ active' = 0
    /\ UNCHANGED nextJob

\* The API process is gone and with it every job.
ForgetJobs ==
    /\ jobs' = [j \in JobIds |-> NoJob]
    /\ active' = 0
    /\ UNCHANGED nextJob
=============================================================================
