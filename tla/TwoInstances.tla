---------------------------- MODULE TwoInstances ----------------------------
(***************************************************************************)
(* Two ch-sync instances that were given the same shard index, so both own *)
(* the table: each is a TableSync with a memory and workers of its own,    *)
(* and they share the source, both ClickHouse tables and the state tables. *)
(*                                                                         *)
(* Planned() takes the id just drawn from the staging table's comment; an  *)
(* instance about to save its plan is therefore not overtaken by the other *)
(* one's DROP and CREATE here, though it may be in the program.            *)
(***************************************************************************)
EXTENDS ReplacingTable

CONSTANTS MaxParts, BatchSize, Workers, MaxSnapshots, MaxRequests, MaxFaults,
          OrphansSurvive, SavesMayFail

VARIABLES target, staging, prog, saved, req, nextSid, faults,
          upA, stoppingA, pcA, stA, plannedA, loadedA, doneA, dirtyA, taskA,
          upB, stoppingB, pcB, stB, plannedB, loadedB, doneB, dirtyB, taskB

sharedVars == <<sourceVars, target, staging, prog, saved, req, nextSid, faults>>
aVars == <<upA, stoppingA, pcA, stA, plannedA, loadedA, doneA, dirtyA, taskA>>
bVars == <<upB, stoppingB, pcB, stB, plannedB, loadedB, doneB, dirtyB, taskB>>

A == INSTANCE TableSync WITH
    up <- upA, stopping <- stoppingA, pc <- pcA, st <- stA, planned <- plannedA,
    loaded <- loadedA, done <- doneA, dirty <- dirtyA, task <- taskA

B == INSTANCE TableSync WITH
    up <- upB, stopping <- stoppingB, pc <- pcB, st <- stB, planned <- plannedB,
    loaded <- loadedB, done <- doneB, dirty <- dirtyB, task <- taskB

\* An instance that is not about to save its plan, or whose staging table is
\* left as it is.
Undisturbed(pc) == pc = "plan_save" => staging'.tag = staging.tag

Init == A!Init /\ B!Init

Next ==
    \/ A!Next /\ Undisturbed(pcB) /\ UNCHANGED bVars
    \/ B!Next /\ Undisturbed(pcA) /\ UNCHANGED aVars

Spec == Init /\ [][Next]_<<sharedVars, aVars, bVars>>

\* "Results stay correct because writes are idempotent": whichever instance
\* believes to be in CDC, or says so in sync_state, the live table has every
\* row its checkpoint covers.
ResultsStayCorrect == A!CheckpointCovered /\ B!CheckpointCovered
=============================================================================
