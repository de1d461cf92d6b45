------------------------------ MODULE SeedJob ------------------------------
(***************************************************************************)
(* POST /seed and POST /schema of the load-test API against the LoadTest   *)
(* database: a seed job appends rows to the tables, parents first, in      *)
(* batches; a schema request drops and creates the same tables and is not  *)
(* a job, so nothing keeps the two apart.                                  *)
(*                                                                         *)
(* Tables are 1..NumTables in the order of TABLES and SHARES.  There are   *)
(* no FOREIGN KEY constraints: a child row's parents exist only because    *)
(* ids run 1..max and the seeder draws foreign keys from that range.       *)
(***************************************************************************)
EXTENDS JobManager, Integers, FiniteSets

CONSTANTS
    NumTables,
    Parents,      \* table -> the tables its foreign keys point into
    RowPlans,     \* the plans jobs ask for: rows per table (planRows)
    BatchSize,    \* rows per INSERT
    MayOverlap,   \* may a dropExisting request and a seed job overlap?
    MaxFaults     \* bound on failed statements and API restarts

Tables == 1..NumTables

ASSUME SeedAssumption ==
    /\ NumTables \in Nat /\ MaxFaults \in Nat
    /\ BatchSize \in Nat \ {0}
    /\ MayOverlap \in BOOLEAN
    /\ Parents \in [Tables -> SUBSET Tables]
    /\ RowPlans \subseteq [Tables -> Nat]

VARIABLES
    exists,   \* table -> it is there
    ids,      \* table -> the primary keys of its rows
    refs,     \* table -> the <<parent, id>> pairs its foreign keys hold
    seed,     \* the run function of the active seed job
    ddl,      \* the schema request being handled
    faults

sourceDbVars == <<exists, ids, refs>>
vars == <<jobVars, sourceDbVars, seed, ddl, faults>>

NoRows == [t \in Tables |-> 0]

SeedPcs == {"idle", "pool", "parents", "last", "loop", "insert", "stats"}
Seed == [pc : SeedPcs, plan : [Tables -> Nat], inserted : [Tables -> Nat],
         table : Nat, todo : SUBSET Tables, max : [Tables -> Nat], last : Nat]
NoSeed == [pc |-> "idle", plan |-> NoRows, inserted |-> NoRows,
           table |-> 0, todo |-> {}, max |-> NoRows, last |-> 0]

Ddl == [pc : {"idle", "drop", "create"}, table : Nat, dropping : BOOLEAN]
NoDdl == [pc |-> "idle", table |-> 0, dropping |-> FALSE]

Fault == faults < MaxFaults /\ faults' = faults + 1

Init ==
    /\ JobsInit
    /\ exists = [t \in Tables |-> FALSE]
    /\ ids = [t \in Tables |-> {}]
    /\ refs = [t \in Tables |-> {}]
    /\ seed = NoSeed
    /\ ddl = NoDdl
    /\ faults = 0

-----------------------------------------------------------------------------
(* The seed job.                                                           *)

\* Nothing in the API holds back a seed while tables are dropped, or a drop
\* while a seed runs; MayOverlap = FALSE is an operator who never does either.
PostSeed ==
    /\ StartJob
    /\ MayOverlap \/ ~ddl.dropping
    /\ \E plan \in RowPlans : seed' = [NoSeed EXCEPT !.pc = "pool", !.plan = plan]
    /\ UNCHANGED <<sourceDbVars, ddl, faults>>

PostCancel ==
    /\ CancelJob
    /\ UNCHANGED <<sourceDbVars, seed, ddl, faults>>

\* The run throws: what it inserted so far stays.
SeedThrows == Throws /\ seed' = NoSeed

\* Go on with the first table at or after t that wants rows, unless cancelled.
Advance(s, t) ==
    LET rest == {u \in Tables : u >= t /\ s.plan[u] > 0} IN
    \/ /\ IsCancelled \/ rest = {}
       /\ seed' = [s EXCEPT !.pc = "stats"]
    \/ /\ ~IsCancelled
       /\ \E u \in rest :
             /\ \A x \in rest : u <= x
             /\ seed' = [s EXCEPT !.pc = IF Parents[u] = {} THEN "last" ELSE "parents",
                                  !.table = u, !.todo = Parents[u], !.max = NoRows]

SeedBegin ==
    /\ seed.pc = "pool"
    /\ Advance(seed, 1)
    /\ UNCHANGED <<jobVars, sourceDbVars, ddl, faults>>

\* The ids that are the largest of t's.
Largest(t) == {m \in ids[t] : \A i \in ids[t] : i <= m}

\* A mutated form: MAX of no rows is not turned into 0.
MaxIdUnguarded(t) == IF ids[t] = {} THEN {-1} ELSE Largest(t)

\* maxId, as a singleton: ISNULL(MAX(pk), 0).
MaxId(t) == IF ids[t] = {} THEN {0} ELSE Largest(t)

\* The largest id of one parent; an empty or missing parent ends the job.
ReadParent ==
    /\ seed.pc = "parents"
    /\ \E p \in seed.todo : \E m \in MaxId(p) :
          IF ~exists[p] \/ m = 0
          THEN SeedThrows
          ELSE /\ seed' = [seed EXCEPT !.max[p] = m, !.todo = @ \ {p},
                                       !.pc = IF seed.todo = {p} THEN "last" ELSE "parents"]
               /\ UNCHANGED jobVars
    /\ UNCHANGED <<sourceDbVars, ddl, faults>>

\* The largest id of the table itself: new rows are numbered from there.
ReadLastId ==
    /\ seed.pc = "last"
    /\ \E m \in MaxId(seed.table) :
          IF ~exists[seed.table]
          THEN SeedThrows
          ELSE seed' = [seed EXCEPT !.last = m, !.pc = "loop"] /\ UNCHANGED jobVars
    /\ UNCHANGED <<sourceDbVars, ddl, faults>>

Left(s) == s.plan[s.table] - s.inserted[s.table]

\* The while loop between two batches: send one more, or go on.
SeedLoop ==
    /\ seed.pc = "loop"
    /\ IF Left(seed) > 0 /\ ~IsCancelled
       THEN seed' = [seed EXCEPT !.pc = "insert"]
       ELSE Advance(seed, seed.table + 1)
    /\ UNCHANGED <<jobVars, sourceDbVars, ddl, faults>>

BatchRows(s) == IF BatchSize <= Left(s) THEN BatchSize ELSE Left(s)

\* A mutated form: @start + 1 + ROW_NUMBER().
NewIdsOffByOne(s) == (s.last + 2)..(s.last + 1 + BatchRows(s))

\* @start + ROW_NUMBER() for @n rows.
NewIds(s) == (s.last + 1)..(s.last + BatchRows(s))

\* The foreign keys a batch can write: per parent, hashes into 1..max.
ForeignKeys(s) == UNION {{p} \X (1..s.max[p]) : p \in Parents[s.table]}

\* What n rows hold: for every parent at least one id and at most n.
FitsRows(R, n, t) == \A p \in Parents[t] :
    Cardinality({r \in R : r[1] = p}) \in 1..n

\* A mutated form: lastId stays where it was.
AfterInsertKeepingLast(s) ==
    [s EXCEPT !.pc = "loop", !.inserted[s.table] = @ + BatchRows(s)]

AfterInsert(s) ==
    [s EXCEPT !.pc = "loop", !.last = @ + BatchRows(s),
              !.inserted[s.table] = @ + BatchRows(s)]

\* One INSERT: all of its rows, or an error when the table is gone or a key is
\* already there.
Insert ==
    /\ seed.pc = "insert"
    /\ LET t == seed.table IN
       IF ~exists[t] \/ NewIds(seed) \cap ids[t] # {}
       THEN SeedThrows /\ UNCHANGED sourceDbVars
       ELSE /\ ids' = [ids EXCEPT ![t] = @ \cup NewIds(seed)]
            /\ \E R \in SUBSET ForeignKeys(seed) :
                  /\ FitsRows(R, BatchRows(seed), t)
                  /\ refs' = [refs EXCEPT ![t] = @ \cup R]
            /\ seed' = AfterInsert(seed)
            /\ UNCHANGED <<jobVars, exists>>
    /\ UNCHANGED <<ddl, faults>>

\* The final counts, and the job returns.
SeedReturns ==
    /\ seed.pc = "stats"
    /\ Returns
    /\ seed' = NoSeed
    /\ UNCHANGED <<sourceDbVars, ddl, faults>>

\* Any awaited statement can fail.
SeedFails ==
    /\ seed.pc # "idle"
    /\ Fault
    /\ SeedThrows
    /\ UNCHANGED <<sourceDbVars, ddl>>

-----------------------------------------------------------------------------
(* The schema request, and the API process.                                *)

PostSchema ==
    /\ ddl.pc = "idle"
    /\ NumTables > 0
    /\ \E d \in BOOLEAN :
          /\ d => MayOverlap \/ active = 0
          /\ ddl' = [pc |-> IF d THEN "drop" ELSE "create", table |-> 1, dropping |-> d]
    /\ UNCHANGED <<jobVars, sourceDbVars, seed, faults>>

DropTable ==
    /\ ddl.pc = "drop"
    /\ exists' = [exists EXCEPT ![ddl.table] = FALSE]
    /\ ids' = [ids EXCEPT ![ddl.table] = {}]
    /\ refs' = [refs EXCEPT ![ddl.table] = {}]
    /\ ddl' = [ddl EXCEPT !.pc = "create"]
    /\ UNCHANGED <<jobVars, seed, faults>>

\* Create the table if it is missing, and turn to the next one.
CreateTable ==
    /\ ddl.pc = "create"
    /\ exists' = [exists EXCEPT ![ddl.table] = TRUE]
    /\ ddl' = IF ddl.table = NumTables THEN NoDdl
              ELSE [ddl EXCEPT !.pc = IF ddl.dropping THEN "drop" ELSE "create",
                               !.table = @ + 1]
    /\ UNCHANGED <<jobVars, ids, refs, seed, faults>>

\* A failed statement ends the request where it is.
SchemaFails ==
    /\ ddl.pc # "idle"
    /\ Fault
    /\ ddl' = NoDdl
    /\ UNCHANGED <<jobVars, sourceDbVars, seed>>

\* The API process dies and comes back with an empty job store.
ApiRestart ==
    /\ Fault
    /\ ForgetJobs
    /\ seed' = NoSeed
    /\ ddl' = NoDdl
    /\ UNCHANGED sourceDbVars

SeedStep ==
    SeedBegin \/ ReadParent \/ ReadLastId \/ SeedLoop \/ Insert \/ SeedReturns

SchemaStep == DropTable \/ CreateTable

Next ==
    \/ PostSeed \/ PostCancel \/ SeedStep \/ SeedFails
    \/ PostSchema \/ SchemaStep \/ SchemaFails
    \/ ApiRestart

Spec == Init /\ [][Next]_vars

\* The event loop resumes a run function whose statement has ended.
FairSpec == Spec /\ WF_vars(SeedStep)

-----------------------------------------------------------------------------
(* Properties.                                                             *)

\* Jobs, tables and the run functions' locals have their types.
TypeOK ==
    /\ JobsTypeOK
    /\ exists \in [Tables -> BOOLEAN]
    /\ ids \in [Tables -> SUBSET Nat]
    /\ refs \in [Tables -> SUBSET (Tables \X Nat)]
    /\ seed \in Seed
    /\ ddl \in Ddl
    /\ faults \in Nat

\* "The seeder still only writes foreign-key values that exist in the parent
\* table": whatever jobs were cancelled, failed, lost or repeated before, and
\* wherever a drop was cut short, a new row's parents are there when it is
\* written.
WritesExistingParents ==
    [][\A t \in Tables : \A r \in refs'[t] \ refs[t] : r[2] \in ids[r[1]]]_vars

\* A batch never collides with rows a stopped, failed or forgotten job left
\* behind: appending is always possible.
NoKeyCollision ==
    seed.pc = "insert" => NewIds(seed) \cap ids[seed.table] = {}

\* A seed job the API reports as succeeded has inserted every row asked for;
\* one cut short by a cancel, an error or a restart is never reported so.
SucceededIsComplete ==
    [][\A j \in JobIds :
          jobs[j].status = "running" /\ jobs'[j].status = "succeeded"
             => seed.inserted = seed.plan]_vars

\* Every job ends, and then the next one may start.
JobsEnd == \A j \in JobIds : (active = j) ~> (active # j)

-----------------------------------------------------------------------------
(* The inductive invariant behind the properties.                          *)

InTable == seed.pc \in {"parents", "last", "loop", "insert"}

\* A run function runs exactly while its job is active, and a batch is sent
\* only while rows are left.
InvBusy ==
    /\ active # 0 <=> seed.pc # "idle"
    /\ \A j \in JobIds : jobs[j].status = "running" <=> j = active
    /\ InTable => seed.table \in Tables
    /\ seed.pc = "insert" => Left(seed) > 0
    /\ ddl.pc # "idle" => ddl.table \in Tables

\* New ids start above every id of the table.
InvNumbering ==
    seed.pc \in {"loop", "insert"} => \A i \in ids[seed.table] : i <= seed.last

\* What the job has passed over is inserted, unless it was cancelled.
InvProgress ==
    /\ \A u \in Tables : seed.inserted[u] <= seed.plan[u]
    /\ InTable => \A u \in Tables :
          u < seed.table => seed.inserted[u] = seed.plan[u] \/ IsCancelled
    /\ seed.pc = "stats" => \A u \in Tables :
          seed.inserted[u] = seed.plan[u] \/ IsCancelled

\* Ids run 1..max, and the bounds a job has read are still those of the tables.
InvRange ==
    /\ \A t \in Tables : \A i \in ids[t] : i >= 1 /\ 1..i \subseteq ids[t]
    /\ active # 0 => ~ddl.dropping
    /\ ddl.pc = "drop" => ddl.dropping
    /\ InTable => \A p \in Parents[seed.table] \ seed.todo : 1..seed.max[p] \subseteq ids[p]
    /\ seed.pc \in {"last", "loop", "insert"} => seed.todo = {}
    /\ seed.pc \in {"loop", "insert"} => 1..seed.last \subseteq ids[seed.table]

\* What makes the properties hold: checked here as an invariant, and proved to
\* be inductive.
SeedInv ==
    /\ TypeOK /\ InvBusy /\ InvNumbering /\ InvProgress
    /\ ~MayOverlap => InvRange
=============================================================================
