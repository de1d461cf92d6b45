--------------------------- MODULE SeedJob_proofs ---------------------------
(***************************************************************************)
(* Theorems about SeedJob for every number of tables, jobs, batch size and *)
(* set of row plans, and any shape of the Parents relation.                *)
(***************************************************************************)
EXTENDS SeedJob, TLAPS

-----------------------------------------------------------------------------
(* Facts about the pieces.                                                 *)

LEMMA ConstantTypes ==
    /\ NoRows \in [Tables -> Nat] /\ NoSeed \in Seed /\ NoDdl \in Ddl
    /\ NoJob \in Job
BY DEF NoRows, NoSeed, Seed, SeedPcs, NoDdl, Ddl, NoJob, Job

\* The largest id is a natural number, above every id of the table.
LEMMA MaxIdType ==
    ASSUME ids \in [Tables -> SUBSET Nat], NEW t \in Tables, NEW m \in MaxId(t)
    PROVE  /\ m \in Nat
           /\ \A i \in ids[t] : i <= m
           /\ m # 0 => m \in ids[t]
BY DEF MaxId, Largest

\* A batch has at least one row and no more than are left.
LEMMA BatchBound ==
    ASSUME seed \in Seed, seed.table \in Tables, Left(seed) > 0
    PROVE  /\ Left(seed) \in Int
           /\ BatchRows(seed) \in Nat \ {0}
           /\ BatchRows(seed) <= Left(seed)
BY SeedAssumption DEF Left, BatchRows, Seed

\* What Advance leaves: the job goes on in a table or comes to its end.
LEMMA AdvanceShape ==
    ASSUME seed \in Seed, NEW t \in Nat, Advance(seed, t)
    PROVE  /\ seed' \in Seed
           /\ seed'.plan = seed.plan /\ seed'.inserted = seed.inserted
           /\ \/ /\ seed'.pc = "stats"
                 /\ IsCancelled \/ \A u \in Tables : u >= t => seed.plan[u] = 0
              \/ /\ seed'.pc \in {"parents", "last"}
                 /\ seed'.table \in Tables /\ seed'.table >= t
                 /\ seed'.todo = Parents[seed'.table]
                 /\ seed'.pc = "last" => seed'.todo = {}
                 /\ \A u \in Tables : u >= t /\ u < seed'.table => seed.plan[u] = 0
<1> DEFINE rest == {u \in Tables : u >= t /\ seed.plan[u] > 0}
<1>1. CASE (IsCancelled \/ rest = {}) /\ seed' = [seed EXCEPT !.pc = "stats"]
  <2>1. rest = {} => \A u \in Tables : u >= t => seed.plan[u] = 0
    BY DEF Seed
  <2> QED
    BY <1>1, <2>1 DEF Seed, SeedPcs
<1>2. CASE \E u \in rest :
          /\ \A x \in rest : u <= x
          /\ seed' = [seed EXCEPT !.pc = IF Parents[u] = {} THEN "last" ELSE "parents",
                                  !.table = u, !.todo = Parents[u], !.max = NoRows]
  <2>1. PICK u \in rest :
          /\ \A x \in rest : u <= x
          /\ seed' = [seed EXCEPT !.pc = IF Parents[u] = {} THEN "last" ELSE "parents",
                                  !.table = u, !.todo = Parents[u], !.max = NoRows]
    BY <1>2
  <2>2. u \in Tables /\ u \in Nat /\ u >= t
    BY DEF Tables
  <2>3. \A x \in Tables : x >= t /\ x < u => seed.plan[x] = 0
    <3> SUFFICES ASSUME NEW x \in Tables, x >= t, x < u PROVE seed.plan[x] = 0
      OBVIOUS
    <3>1. x \notin rest
      BY <2>1, <2>2 DEF Tables
    <3> QED
      BY <3>1 DEF Seed
  <2>4. seed' = [seed EXCEPT !.pc = IF Parents[u] = {} THEN "last" ELSE "parents",
                             !.table = u, !.todo = Parents[u], !.max = NoRows]
    BY <2>1
  <2>5. seed' \in Seed
    BY <2>2, <2>4, ConstantTypes, SeedAssumption DEF Seed, SeedPcs
  <2>6. /\ seed'.plan = seed.plan /\ seed'.inserted = seed.inserted
        /\ seed'.pc = (IF Parents[u] = {} THEN "last" ELSE "parents")
        /\ seed'.table = u /\ seed'.todo = Parents[u]
    BY <2>4 DEF Seed
  <2> QED
    BY <2>2, <2>3, <2>5, <2>6
<1> QED
  BY <1>1, <1>2 DEF Advance

-----------------------------------------------------------------------------
(* Type correctness.                                                       *)

TypeInv == TypeOK /\ InvBusy

LEMMA TypeInit == Init => TypeInv
BY ConstantTypes
   DEF Init, JobsInit, TypeInv, TypeOK, JobsTypeOK, InvBusy, InTable, NoSeed, NoDdl, NoJob, JobIds

\* A job that ends leaves no run function behind.
LEMMA TypeEnds ==
    ASSUME TypeInv, Throws \/ Returns \/ ForgetJobs, seed' = NoSeed,
           ddl' = ddl \/ ddl' = NoDdl, UNCHANGED sourceDbVars,
           faults' \in Nat
    PROVE  TypeInv'
<1>1. JobsTypeOK'
  BY ConstantTypes DEF TypeInv, TypeOK, JobsTypeOK, Throws, Returns, ForgetJobs,
     StatusOnReturn, Job
<1>2. active' = 0 /\ \A j \in JobIds : jobs'[j].status # "running"
  <2>1. CASE ForgetJobs
    BY <2>1 DEF ForgetJobs, NoJob
  <2>2. CASE Throws \/ Returns
    <3>1. PICK x \in {"succeeded", "cancelled", "failed"} :
            jobs' = [jobs EXCEPT ![active].status = x] /\ active' = 0 /\ active # 0
      BY <2>2 DEF Throws, Returns, StatusOnReturn
    <3>2. jobs \in [JobIds -> Job] /\ active \in JobIds
      BY <3>1 DEF TypeInv, TypeOK, JobsTypeOK
    <3>3. \A j \in JobIds : j # active => jobs'[j] = jobs[j] /\ jobs[j].status # "running"
      BY <3>1, <3>2 DEF TypeInv, InvBusy
    <3>4. jobs'[active].status = x
      BY <3>1, <3>2 DEF Job
    <3> QED
      BY <3>1, <3>3, <3>4
  <2> QED
    BY <2>1, <2>2
<1>3. seed'.pc = "idle" /\ (ddl'.pc # "idle" => ddl'.table \in Tables)
  BY DEF NoSeed, NoDdl, TypeInv, InvBusy
<1>4. InvBusy'
  BY <1>2, <1>3 DEF InvBusy, InTable, JobIds
<1> QED
  BY <1>1, <1>4, ConstantTypes DEF TypeInv, TypeOK, sourceDbVars

LEMMA TypePost == TypeInv /\ (PostSeed \/ PostCancel) => TypeInv'
<1> SUFFICES ASSUME TypeInv, PostSeed \/ PostCancel PROVE TypeInv'
  OBVIOUS
<1>1. CASE PostSeed
  <2>a. /\ active = 0 /\ nextJob \in JobIds /\ active' = nextJob /\ nextJob' = nextJob + 1
        /\ jobs' = [jobs EXCEPT ![nextJob] = [status |-> "running", cancel |-> FALSE]]
        /\ jobs \in [JobIds -> Job] /\ nextJob \in Nat \ {0}
    BY <1>1 DEF PostSeed, StartJob, TypeInv, TypeOK, JobsTypeOK
  <2>1. JobsTypeOK'
    BY <2>a DEF JobsTypeOK, Job
  <2>2. \A j \in JobIds : jobs'[j].status = "running" <=> j = active'
    <3>1. 0 \notin JobIds
      BY JobAssumption DEF JobIds
    <3>2. \A j \in JobIds : jobs[j].status # "running"
      BY <2>a, <3>1 DEF TypeInv, InvBusy
    <3> QED
      BY <2>a, <3>2
  <2>3. seed' \in Seed /\ seed'.pc = "pool" /\ active' # 0
    <3>1. PICK plan \in [Tables -> Nat] : seed' = [NoSeed EXCEPT !.pc = "pool", !.plan = plan]
      BY <1>1, SeedAssumption DEF PostSeed
    <3> QED
      BY <2>a, <3>1, ConstantTypes DEF Seed, SeedPcs
  <2> QED
    BY <1>1, <2>1, <2>2, <2>3 DEF PostSeed, TypeInv, TypeOK, InvBusy, InTable, sourceDbVars
<1>2. CASE PostCancel
  <2>1. JobsTypeOK' /\ \A j \in JobIds : jobs'[j].status = jobs[j].status
    <3>1. PICK j \in JobIds : jobs' = [jobs EXCEPT ![j].cancel = TRUE]
      BY <1>2 DEF PostCancel, CancelJob
    <3>2. jobs \in [JobIds -> Job] /\ UNCHANGED <<active, nextJob>>
      BY <1>2 DEF PostCancel, CancelJob, TypeInv, TypeOK, JobsTypeOK
    <3> QED
      BY <3>1, <3>2 DEF TypeInv, TypeOK, JobsTypeOK, Job
  <2> QED
    BY <1>2, <2>1 DEF PostCancel, CancelJob, TypeInv, TypeOK, InvBusy, InTable, Left, sourceDbVars
<1> QED
  BY <1>1, <1>2

LEMMA TypeSeedStep == TypeInv /\ SeedStep => TypeInv'
<1> SUFFICES ASSUME TypeInv, SeedStep PROVE TypeInv'
  OBVIOUS
<1>s. seed \in Seed /\ faults \in Nat
  BY DEF TypeInv, TypeOK
\* A step within the job: the job store and the schema request stay.
<1>k. ASSUME seed' \in Seed, seed.pc # "idle", seed'.pc # "idle",
             InTable' => seed'.table \in Tables,
             seed'.pc = "insert" => Left(seed') > 0,
             UNCHANGED <<jobVars, sourceDbVars, ddl, faults>>
      PROVE TypeInv'
  BY <1>k DEF TypeInv, TypeOK, JobsTypeOK, InvBusy, jobVars, sourceDbVars
<1>1. CASE SeedBegin
  <2>1. seed' \in Seed /\ seed'.pc \in {"stats", "parents", "last"}
        /\ (seed'.pc # "stats" => seed'.table \in Tables)
    BY <1>1, <1>s, AdvanceShape DEF SeedBegin
  <2> QED
    BY <1>1, <1>k, <2>1 DEF SeedBegin, InTable
<1>2. CASE ReadParent
  <2>1. PICK p \in seed.todo : \E m \in MaxId(p) :
          IF ~exists[p] \/ m = 0
          THEN SeedThrows
          ELSE /\ seed' = [seed EXCEPT !.max[p] = m, !.todo = @ \ {p},
                                       !.pc = IF seed.todo = {p} THEN "last" ELSE "parents"]
               /\ UNCHANGED jobVars
    BY <1>2 DEF ReadParent
  <2>p. p \in Tables
    BY <1>s, <2>1 DEF Seed
  <2>m. PICK m \in MaxId(p) :
          IF ~exists[p] \/ m = 0
          THEN SeedThrows
          ELSE /\ seed' = [seed EXCEPT !.max[p] = m, !.todo = @ \ {p},
                                       !.pc = IF seed.todo = {p} THEN "last" ELSE "parents"]
               /\ UNCHANGED jobVars
    BY <2>1
  <2>2. p \in Tables /\ m \in Nat
    BY <2>p, <2>m, MaxIdType DEF TypeInv, TypeOK
  <2>3. CASE SeedThrows
    BY <1>2, <1>s, <2>3, TypeEnds DEF SeedThrows, ReadParent
  <2>4. CASE ~SeedThrows
    <3>1. seed' \in Seed /\ seed'.pc \in {"last", "parents"} /\ seed'.table = seed.table
      <4>1. [seed.max EXCEPT ![p] = m] \in [Tables -> Nat]
            /\ seed.todo \ {p} \in SUBSET Tables
        BY <1>s, <2>2 DEF Seed
      <4>2. seed' = [seed EXCEPT !.max = [seed.max EXCEPT ![p] = m], !.todo = seed.todo \ {p},
                                 !.pc = IF seed.todo = {p} THEN "last" ELSE "parents"]
        BY <1>s, <2>m, <2>4 DEF Seed
      <4> QED
        BY <1>s, <4>1, <4>2 DEF Seed, SeedPcs
    <3>2. seed.table \in Tables
      BY <1>2 DEF ReadParent, TypeInv, InvBusy, InTable
    <3> QED
      BY <1>2, <1>k, <2>m, <2>4, <3>1, <3>2 DEF ReadParent, InTable
  <2> QED
    BY <2>3, <2>4
<1>3. CASE ReadLastId
  <2>1. PICK m \in MaxId(seed.table) :
          IF ~exists[seed.table] THEN SeedThrows
          ELSE seed' = [seed EXCEPT !.last = m, !.pc = "loop"] /\ UNCHANGED jobVars
    BY <1>3 DEF ReadLastId
  <2>2. seed.table \in Tables
    BY <1>3 DEF ReadLastId, TypeInv, InvBusy, InTable
  <2>3. m \in Nat
    BY <2>1, <2>2, MaxIdType DEF TypeInv, TypeOK
  <2>4. CASE SeedThrows
    BY <1>3, <1>s, <2>4, TypeEnds DEF SeedThrows, ReadLastId
  <2>5. CASE ~SeedThrows
    <3>1. seed' \in Seed /\ seed'.pc = "loop" /\ seed'.table = seed.table
      BY <1>s, <2>1, <2>3, <2>5 DEF Seed, SeedPcs
    <3> QED
      BY <1>3, <1>k, <2>1, <2>2, <2>5, <3>1 DEF ReadLastId
  <2> QED
    BY <2>4, <2>5
<1>4. CASE SeedLoop
  <2>1. seed.table \in Tables
    BY <1>4 DEF SeedLoop, TypeInv, InvBusy, InTable
  <2>2. CASE Left(seed) > 0 /\ ~IsCancelled
    <3>1. seed' \in Seed /\ seed'.pc = "insert" /\ seed'.table = seed.table
          /\ Left(seed') = Left(seed)
      BY <1>4, <1>s, <2>2 DEF SeedLoop, Seed, SeedPcs, Left
    <3> QED
      BY <1>4, <1>k, <2>1, <2>2, <3>1 DEF SeedLoop
  <2>3. CASE ~(Left(seed) > 0 /\ ~IsCancelled)
    <3>1. seed.table + 1 \in Nat /\ Advance(seed, seed.table + 1)
      BY <1>4, <2>1, <2>3 DEF SeedLoop, Tables
    <3>2. seed' \in Seed /\ seed'.pc \in {"stats", "parents", "last"}
          /\ (seed'.pc # "stats" => seed'.table \in Tables)
      BY <1>s, <3>1, AdvanceShape
    <3> QED
      BY <1>4, <1>k, <3>2 DEF SeedLoop, InTable
  <2> QED
    BY <2>2, <2>3
<1>5. CASE Insert
  <2>1. seed.table \in Tables /\ Left(seed) > 0
    BY <1>5 DEF Insert, TypeInv, InvBusy, InTable
  <2>2. BatchRows(seed) \in Nat \ {0}
    BY <1>s, <2>1, BatchBound
  <2>3. CASE ~exists[seed.table] \/ NewIds(seed) \cap ids[seed.table] # {}
    BY <1>5, <1>s, <2>3, TypeEnds DEF Insert, SeedThrows
  <2>4. CASE ~(~exists[seed.table] \/ NewIds(seed) \cap ids[seed.table] # {})
    <3>1. /\ ids' = [ids EXCEPT ![seed.table] = @ \cup NewIds(seed)]
          /\ \E R \in SUBSET ForeignKeys(seed) :
                refs' = [refs EXCEPT ![seed.table] = @ \cup R]
          /\ seed' = AfterInsert(seed)
          /\ UNCHANGED <<jobVars, exists, ddl, faults>>
      BY <1>5, <2>4 DEF Insert
    <3>2. seed' \in Seed /\ seed'.pc = "loop" /\ seed'.table = seed.table
      <4> DEFINE n == BatchRows(seed)
      <4>1. /\ [seed.inserted EXCEPT ![seed.table] = @ + n] \in [Tables -> Nat]
            /\ seed.last + n \in Nat
        BY <1>s, <2>1, <2>2 DEF Seed
      <4>2. seed' = [seed EXCEPT !.pc = "loop", !.last = seed.last + n,
                       !.inserted = [seed.inserted EXCEPT ![seed.table] = @ + n]]
        BY <1>s, <3>1 DEF AfterInsert, Seed
      <4> QED
        BY <1>s, <4>1, <4>2 DEF Seed, SeedPcs
    <3>3. ids' \in [Tables -> SUBSET Nat]
      <4>1. NewIds(seed) \subseteq Nat
        BY <1>s, <2>2 DEF NewIds, Seed
      <4> QED
        BY <2>1, <3>1, <4>1 DEF TypeInv, TypeOK
    <3>4. refs' \in [Tables -> SUBSET (Tables \X Nat)]
      <4>1. ForeignKeys(seed) \subseteq Tables \X Nat
        BY <1>s, <2>1, SeedAssumption DEF ForeignKeys, Seed
      <4> QED
        BY <2>1, <3>1, <4>1 DEF TypeInv, TypeOK
    <3> QED
      BY <1>5, <2>1, <3>1, <3>2, <3>3, <3>4
         DEF Insert, TypeInv, TypeOK, JobsTypeOK, InvBusy, InTable, jobVars
  <2> QED
    BY <2>3, <2>4
<1>6. CASE SeedReturns
  BY <1>6, <1>s, TypeEnds DEF SeedReturns
<1> QED
  BY <1>1, <1>2, <1>3, <1>4, <1>5, <1>6 DEF SeedStep

LEMMA TypeRest ==
    TypeInv /\ (SeedFails \/ PostSchema \/ SchemaStep \/ SchemaFails \/ ApiRestart) => TypeInv'
<1> SUFFICES ASSUME TypeInv, SeedFails \/ PostSchema \/ SchemaStep \/ SchemaFails \/ ApiRestart
             PROVE  TypeInv'
  OBVIOUS
<1>f. Fault => faults' \in Nat
  BY DEF Fault, TypeInv, TypeOK
<1>1. CASE SeedFails
  BY <1>1, <1>f, TypeEnds DEF SeedFails, SeedThrows
<1>2. CASE ApiRestart
  BY <1>2, <1>f, TypeEnds DEF ApiRestart
<1>3. CASE PostSchema
  <2>1. ddl' \in Ddl /\ ddl'.table = 1 /\ 1 \in Tables
    BY <1>3, SeedAssumption DEF PostSchema, Ddl, Tables
  <2> QED
    BY <1>3, <2>1 DEF PostSchema, TypeInv, TypeOK, JobsTypeOK, InvBusy, InTable, jobVars, sourceDbVars
<1>4. CASE DropTable
  <2>1. ddl' \in Ddl /\ ddl'.table = ddl.table /\ ddl.table \in Tables
    BY <1>4 DEF DropTable, TypeInv, TypeOK, InvBusy, Ddl
  <2>2. /\ exists' \in [Tables -> BOOLEAN] /\ ids' \in [Tables -> SUBSET Nat]
        /\ refs' \in [Tables -> SUBSET (Tables \X Nat)]
    BY <1>4, <2>1 DEF DropTable, TypeInv, TypeOK
  <2> QED
    BY <1>4, <2>1, <2>2 DEF DropTable, TypeInv, TypeOK, JobsTypeOK, InvBusy, InTable, jobVars
<1>5. CASE CreateTable
  <2>1. ddl.table \in Tables /\ ddl \in Ddl
    BY <1>5 DEF CreateTable, TypeInv, TypeOK, InvBusy
  <2>2. ddl' \in Ddl /\ (ddl'.pc # "idle" => ddl'.table \in Tables)
    <3>1. CASE ddl.table = NumTables
      BY <1>5, <3>1, ConstantTypes DEF CreateTable, NoDdl
    <3>2. CASE ddl.table # NumTables
      <4>1. ddl.table \in Nat /\ NumTables \in Nat /\ ddl.table + 1 \in 1..NumTables
        BY <2>1, <3>2, SeedAssumption DEF Tables
      <4>2. ddl' = [ddl EXCEPT !.pc = IF ddl.dropping THEN "drop" ELSE "create",
                               !.table = ddl.table + 1]
        BY <1>5, <2>1, <3>2 DEF CreateTable, Ddl
      <4>3. ddl'.table = ddl.table + 1 /\ ddl.table + 1 \in Nat
        BY <2>1, <4>1, <4>2 DEF Ddl
      <4>4. ddl' \in Ddl
        BY <2>1, <4>2, <4>3 DEF Ddl
      <4> QED
        BY <4>1, <4>3, <4>4 DEF Tables
    <3> QED
      BY <3>1, <3>2
  <2>3. exists' \in [Tables -> BOOLEAN]
    BY <1>5, <2>1 DEF CreateTable, TypeInv, TypeOK
  <2> QED
    BY <1>5, <2>2, <2>3 DEF CreateTable, TypeInv, TypeOK, JobsTypeOK, InvBusy, InTable, jobVars
<1>6. CASE SchemaFails
  BY <1>6, <1>f, ConstantTypes
     DEF SchemaFails, NoDdl, TypeInv, TypeOK, JobsTypeOK, InvBusy, InTable, jobVars, sourceDbVars
<1> QED
  BY <1>1, <1>2, <1>3, <1>4, <1>5, <1>6 DEF SchemaStep

LEMMA TypeNext == TypeInv /\ [Next]_vars => TypeInv'
<1>1. TypeInv /\ UNCHANGED vars => TypeInv'
  BY DEF TypeInv, TypeOK, JobsTypeOK, InvBusy, InTable, vars, jobVars, sourceDbVars
<1> QED
  BY <1>1, TypePost, TypeSeedStep, TypeRest DEF Next

\* Jobs, tables and the run functions' locals have their types in every
\* reachable state, whatever overlaps.
THEOREM SeedTypeCorrect == Spec => []TypeOK
<1>1. TypeInv => TypeOK
  BY DEF TypeInv
<1> QED
  BY <1>1, TypeInit, TypeNext, PTL DEF Spec

-----------------------------------------------------------------------------
(* New ids are above the old ones.                                         *)

(* What the run function's own steps do to the locals the invariants speak *)
(* of: the job ends, or it goes on in one of five ways.                    *)

JobGoesOn == UNCHANGED <<jobVars, ddl>> /\ seed'.plan = seed.plan

Ends == seed' = NoSeed /\ active' = 0 /\ UNCHANGED <<sourceDbVars, ddl>>

Begins == SeedBegin /\ JobGoesOn /\ UNCHANGED sourceDbVars

ReadsParent ==
    /\ ReadParent /\ JobGoesOn /\ UNCHANGED sourceDbVars
    /\ seed'.inserted = seed.inserted /\ seed'.table = seed.table
    /\ seed'.pc \in {"parents", "last"}
    /\ seed'.pc = "last" => seed'.todo = {}
    /\ \E p \in seed.todo : \E m \in MaxId(p) :
          /\ m # 0
          /\ seed'.todo = seed.todo \ {p}
          /\ seed'.max = [seed.max EXCEPT ![p] = m]

ReadsLastId ==
    /\ ReadLastId /\ JobGoesOn /\ UNCHANGED sourceDbVars
    /\ seed'.inserted = seed.inserted /\ seed'.table = seed.table
    /\ seed'.todo = seed.todo /\ seed'.max = seed.max
    /\ seed'.pc = "loop" /\ seed'.last \in MaxId(seed.table)

Loops == SeedLoop /\ JobGoesOn /\ UNCHANGED sourceDbVars

Inserts ==
    /\ Insert /\ JobGoesOn /\ UNCHANGED exists
    /\ seed' = AfterInsert(seed)
    /\ ids' = [ids EXCEPT ![seed.table] = @ \cup NewIds(seed)]

LEMMA SeedMoves ==
    ASSUME TypeInv, SeedStep \/ SeedFails
    PROVE  Ends \/ Begins \/ ReadsParent \/ ReadsLastId \/ Loops \/ Inserts
<1>s. seed \in Seed
  BY DEF TypeInv, TypeOK
<1>1. CASE SeedBegin
  BY <1>1, <1>s, AdvanceShape DEF SeedBegin, Begins, JobGoesOn
<1>2. CASE ReadParent
  <2>1. PICK p \in seed.todo : \E m \in MaxId(p) :
          IF ~exists[p] \/ m = 0
          THEN SeedThrows
          ELSE /\ seed' = [seed EXCEPT !.max[p] = m, !.todo = @ \ {p},
                                       !.pc = IF seed.todo = {p} THEN "last" ELSE "parents"]
               /\ UNCHANGED jobVars
    BY <1>2 DEF ReadParent
  <2>2. CASE SeedThrows
    BY <1>2, <2>2 DEF ReadParent, SeedThrows, Throws, Ends
  <2>3. CASE ~SeedThrows
    <3>1. PICK m \in MaxId(p) :
                   /\ m # 0
                   /\ seed' = [seed EXCEPT !.max[p] = m, !.todo = @ \ {p},
                                !.pc = IF seed.todo = {p} THEN "last" ELSE "parents"]
                   /\ UNCHANGED jobVars
      BY <2>1, <2>3
    <3>2. /\ seed'.plan = seed.plan /\ seed'.inserted = seed.inserted
          /\ seed'.table = seed.table /\ seed'.todo = seed.todo \ {p}
          /\ seed'.pc = (IF seed.todo = {p} THEN "last" ELSE "parents")
          /\ seed'.max = [seed.max EXCEPT ![p] = m]
      BY <1>s, <3>1 DEF Seed
    <3> QED
      BY <1>2, <3>1, <3>2 DEF ReadParent, ReadsParent, JobGoesOn
  <2> QED
    BY <2>2, <2>3
<1>3. CASE ReadLastId
  <2>1. PICK m \in MaxId(seed.table) :
          IF ~exists[seed.table] THEN SeedThrows
          ELSE seed' = [seed EXCEPT !.last = m, !.pc = "loop"] /\ UNCHANGED jobVars
    BY <1>3 DEF ReadLastId
  <2>2. CASE SeedThrows
    BY <1>3, <2>2 DEF ReadLastId, SeedThrows, Throws, Ends
  <2>3. CASE ~SeedThrows
    BY <1>3, <1>s, <2>1, <2>3 DEF ReadLastId, Seed, ReadsLastId, JobGoesOn
  <2> QED
    BY <2>2, <2>3
<1>4. CASE SeedLoop
  <2>1. seed.table + 1 \in Nat
    BY <1>4 DEF SeedLoop, TypeInv, InvBusy, InTable, Tables
  <2>2. seed'.plan = seed.plan
    BY <1>4, <1>s, <2>1, AdvanceShape DEF SeedLoop, Seed
  <2> QED
    BY <1>4, <2>2 DEF SeedLoop, Loops, JobGoesOn
<1>5. CASE Insert
  <2>1. CASE SeedThrows
    <3>1. ~exists[seed.table] \/ NewIds(seed) \cap ids[seed.table] # {}
          \/ seed' = AfterInsert(seed)
      BY <1>5 DEF Insert
    <3>2. NoSeed # AfterInsert(seed)
      BY <1>s DEF NoSeed, AfterInsert, Seed
    <3>3. UNCHANGED sourceDbVars
      BY <1>5, <2>1, <3>1, <3>2 DEF Insert, SeedThrows
    <3> QED
      BY <1>5, <2>1, <3>3 DEF Insert, SeedThrows, Throws, Ends
  <2>2. CASE ~SeedThrows
    <3>1. seed' = AfterInsert(seed) /\ UNCHANGED <<jobVars, exists, ddl>>
          /\ ids' = [ids EXCEPT ![seed.table] = @ \cup NewIds(seed)]
      BY <1>5, <2>2 DEF Insert
    <3>2. seed'.plan = seed.plan
      BY <1>s, <3>1 DEF AfterInsert, Seed
    <3> QED
      BY <1>5, <3>1, <3>2 DEF Inserts, JobGoesOn
  <2> QED
    BY <2>1, <2>2
<1>6. CASE SeedReturns
  BY <1>6 DEF SeedReturns, Returns, Ends
<1>7. CASE SeedFails
  BY <1>7 DEF SeedFails, SeedThrows, Throws, Ends
<1> QED
  BY <1>1, <1>2, <1>3, <1>4, <1>5, <1>6, <1>7 DEF SeedStep

\* The fields AfterInsert leaves and moves.
LEMMA AfterInsertFields ==
    ASSUME seed \in Seed, seed.table \in Tables, Left(seed) > 0
    PROVE  LET s == AfterInsert(seed) IN
           /\ s.pc = "loop" /\ s.table = seed.table /\ s.todo = seed.todo /\ s.max = seed.max
           /\ s.last = seed.last + BatchRows(seed)
           /\ s.inserted[seed.table] = seed.inserted[seed.table] + BatchRows(seed)
           /\ \A u \in Tables : u # seed.table => s.inserted[u] = seed.inserted[u]
BY BatchBound DEF AfterInsert, Seed

LEMMA NumberingNext == TypeInv /\ InvNumbering /\ [Next]_vars => InvNumbering'
<1> SUFFICES ASSUME TypeInv, InvNumbering, [Next]_vars PROVE InvNumbering'
  OBVIOUS
<1>s. seed \in Seed /\ ids \in [Tables -> SUBSET Nat] /\ (InTable => seed.table \in Tables)
  BY DEF TypeInv, TypeOK, InvBusy
<1>0. CASE seed'.pc \notin {"loop", "insert"}
  BY <1>0 DEF InvNumbering
<1>1. CASE SeedStep \/ SeedFails
  <2>1. CASE Ends
    BY <2>1 DEF Ends, NoSeed, InvNumbering
  <2>2. CASE Begins
    BY <2>2, <1>s, AdvanceShape DEF Begins, SeedBegin, InvNumbering
  <2>3. CASE ReadsParent
    BY <2>3 DEF ReadsParent, InvNumbering
  <2>4. CASE ReadsLastId
    <3>1. seed.table \in Tables
      BY <2>4, <1>s DEF ReadsLastId, ReadLastId, InTable
    <3> QED
      BY <2>4, <3>1, <1>s, MaxIdType DEF ReadsLastId, InvNumbering, sourceDbVars
  <2>5. CASE Loops
    <3>1. seed.table + 1 \in Nat
      BY <2>5, <1>s DEF Loops, SeedLoop, InTable, Tables
    <3>2. CASE Advance(seed, seed.table + 1)
      BY <1>s, <3>1, <3>2, AdvanceShape DEF InvNumbering
    <3>3. CASE seed' = [seed EXCEPT !.pc = "insert"]
      BY <2>5, <1>s, <3>3 DEF Loops, SeedLoop, InvNumbering, Seed, sourceDbVars
    <3> QED
      BY <2>5, <3>2, <3>3 DEF Loops, SeedLoop
  <2>6. CASE Inserts
    <3>1. seed.table \in Tables /\ Left(seed) > 0
      BY <2>6, <1>s DEF Inserts, Insert, InTable, TypeInv, InvBusy
    <3>2. BatchRows(seed) \in Nat /\ seed.last \in Nat
      BY <1>s, <3>1, BatchBound DEF Seed
    <3>3. \A i \in ids[seed.table] : i \in Nat /\ i <= seed.last
      BY <2>6, <1>s, <3>1 DEF Inserts, Insert, InvNumbering
    <3>4. \A i \in NewIds(seed) : i <= seed.last + BatchRows(seed)
      BY <3>2 DEF NewIds
    <3>5. seed'.last = seed.last + BatchRows(seed) /\ seed'.table = seed.table
      BY <2>6, <1>s, <3>1, AfterInsertFields DEF Inserts
    <3>6. ids'[seed.table] = ids[seed.table] \cup NewIds(seed)
      BY <2>6, <1>s, <3>1 DEF Inserts
    <3> QED
      BY <3>2, <3>3, <3>4, <3>5, <3>6 DEF InvNumbering
  <2> QED
    BY <1>1, <2>1, <2>2, <2>3, <2>4, <2>5, <2>6, SeedMoves
<1>2. CASE PostSeed
  BY <1>2, ConstantTypes DEF PostSeed, NoSeed, Seed, InvNumbering
<1>3. CASE seed' = seed /\ (\A t \in Tables : ids'[t] \subseteq ids[t])
  BY <1>3, <1>s DEF InvNumbering, InTable
<1>4. CASE DropTable
  BY <1>4, <1>3, <1>s DEF DropTable
<1>5. CASE PostCancel \/ PostSchema \/ CreateTable \/ SchemaFails \/ UNCHANGED vars
  BY <1>5, <1>3 DEF PostCancel, PostSchema, CreateTable, SchemaFails, vars, sourceDbVars
<1>6. CASE ApiRestart
  BY <1>6 DEF ApiRestart, NoSeed, InvNumbering
<1> QED
  BY <1>1, <1>2, <1>4, <1>5, <1>6 DEF Next, SchemaStep

-----------------------------------------------------------------------------
(* What has been passed over is inserted.                                  *)

LEMMA CountsType ==
    ASSUME seed \in Seed, NEW u \in Tables
    PROVE  u \in Nat /\ seed.inserted[u] \in Nat /\ seed.plan[u] \in Nat
<1>1. seed.inserted \in [Tables -> Nat] /\ seed.plan \in [Tables -> Nat]
  BY DEF Seed
<1>2. u \in Nat
  BY DEF Tables
<1> QED
  BY <1>1, <1>2

\* Going on from a table that is done keeps the account of what is done.
LEMMA AdvanceProgress ==
    ASSUME TypeInv, InvProgress, NEW t \in Nat, Advance(seed, t), UNCHANGED jobVars,
           \A u \in Tables : u < t => seed.inserted[u] = seed.plan[u] \/ IsCancelled
    PROVE  InvProgress'
<1>s. /\ seed \in Seed /\ IsCancelled' = IsCancelled
      /\ \A u \in Tables : u \in Nat /\ seed.inserted[u] \in Nat /\ seed.plan[u] \in Nat
  <2>1. seed \in Seed
    BY DEF TypeInv, TypeOK
  <2>2. IsCancelled' = IsCancelled
    BY DEF IsCancelled, jobVars
  <2>3. \A u \in Tables : u \in Nat /\ seed.inserted[u] \in Nat /\ seed.plan[u] \in Nat
    BY <2>1, CountsType
  <2> QED
    BY <2>1, <2>2, <2>3
<1>1. seed'.plan = seed.plan /\ seed'.inserted = seed.inserted
  BY <1>s, AdvanceShape
<1>2. \A u \in Tables : seed.inserted[u] <= seed.plan[u]
  BY DEF InvProgress
<1>3. CASE seed'.pc = "stats"
  <2>1. IsCancelled \/ \A u \in Tables : u >= t => seed.plan[u] = 0
    BY <1>s, <1>3, AdvanceShape
  <2>2. \A u \in Tables : seed.inserted[u] = seed.plan[u] \/ IsCancelled
    BY <1>s, <1>2, <2>1
  <2> QED
    BY <1>s, <1>1, <1>2, <1>3, <2>2 DEF InvProgress, InTable
<1>4. CASE seed'.pc # "stats"
  <2>1. /\ seed'.table \in Tables /\ seed'.table >= t
        /\ \A u \in Tables : u >= t /\ u < seed'.table => seed.plan[u] = 0
    BY <1>s, <1>4, AdvanceShape
  <2>2. \A u \in Tables : u < seed'.table => seed.inserted[u] = seed.plan[u] \/ IsCancelled
    BY <1>s, <1>2, <2>1
  <2> QED
    BY <1>s, <1>1, <1>2, <1>4, <2>2 DEF InvProgress
<1> QED
  BY <1>3, <1>4

LEMMA ProgressNext == TypeInv /\ InvProgress /\ [Next]_vars => InvProgress'
<1> SUFFICES ASSUME TypeInv, InvProgress, [Next]_vars PROVE InvProgress'
  OBVIOUS
<1>s. /\ seed \in Seed /\ (InTable => seed.table \in Tables)
      /\ \A u \in Tables : u \in Nat /\ seed.inserted[u] \in Nat /\ seed.plan[u] \in Nat
  <2>1. seed \in Seed /\ (InTable => seed.table \in Tables)
    BY DEF TypeInv, TypeOK, InvBusy
  <2> QED
    BY <2>1, CountsType
<1>c. UNCHANGED jobVars => IsCancelled' = IsCancelled
  BY DEF IsCancelled, jobVars
<1>n. \A s \in Seed : s.inserted = NoRows /\ s.pc \in {"idle", "pool"} /\ seed' = s
         => InvProgress'
  BY DEF InvProgress, InTable, NoRows, Seed
<1>1. CASE SeedStep \/ SeedFails
  <2>1. CASE Ends
    BY <1>n, <2>1, ConstantTypes DEF Ends, NoSeed
  <2>2. CASE Begins
    <3>1. Advance(seed, 1) /\ 1 \in Nat /\ \A u \in Tables : ~(u < 1)
      BY <2>2 DEF Begins, SeedBegin, Tables
    <3> QED
      BY <2>2, <3>1, AdvanceProgress DEF Begins, JobGoesOn
  <2>3. CASE ReadsParent \/ ReadsLastId
    <3>1. InTable /\ seed'.pc \in {"parents", "last", "loop"}
      BY <2>3 DEF ReadsParent, ReadsLastId, ReadParent, ReadLastId, InTable
    <3>2. /\ seed'.plan = seed.plan /\ seed'.inserted = seed.inserted
          /\ seed'.table = seed.table /\ IsCancelled' = IsCancelled
      BY <1>c, <2>3 DEF ReadsParent, ReadsLastId, JobGoesOn
    <3> QED
      BY <3>1, <3>2 DEF InvProgress
  <2>4. CASE Loops
    <3>1. seed.table \in Tables /\ seed.table \in Nat /\ seed.table + 1 \in Nat
      BY <1>s, <2>4 DEF Loops, JobGoesOn, SeedLoop, InTable, Tables
    <3>2. CASE Left(seed) > 0 /\ ~IsCancelled
      BY <1>c, <1>s, <2>4, <3>2 DEF Loops, JobGoesOn, SeedLoop, InvProgress, InTable, Seed
    <3>3. CASE ~(Left(seed) > 0 /\ ~IsCancelled)
      <4>1. \A u \in Tables : u < seed.table + 1
                => seed.inserted[u] = seed.plan[u] \/ IsCancelled
        BY <1>s, <2>4, <3>1, <3>3 DEF Loops, JobGoesOn, SeedLoop, InvProgress, InTable, Left
      <4> QED
        BY <2>4, <3>1, <3>3, <4>1, AdvanceProgress DEF Loops, JobGoesOn, SeedLoop
    <3> QED
      BY <3>2, <3>3
  <2>5. CASE Inserts
    <3>1. seed.table \in Tables /\ Left(seed) > 0 /\ InTable
      BY <1>s, <2>5 DEF Inserts, Insert, InTable, TypeInv, InvBusy
    <3>2. BatchRows(seed) \in Nat /\ BatchRows(seed) <= seed.plan[seed.table] - seed.inserted[seed.table]
      BY <1>s, <3>1, BatchBound DEF Left
    <3>3. /\ seed'.pc = "loop" /\ seed'.table = seed.table
          /\ seed'.inserted[seed.table] = seed.inserted[seed.table] + BatchRows(seed)
          /\ \A u \in Tables : u # seed.table => seed'.inserted[u] = seed.inserted[u]
      BY <1>s, <2>5, <3>1, AfterInsertFields DEF Inserts
    <3>4. \A u \in Tables : seed'.inserted[u] <= seed.plan[u]
      BY <1>s, <3>1, <3>2, <3>3 DEF InvProgress
    <3>5. \A u \in Tables : u < seed.table
             => seed'.inserted[u] = seed.plan[u] \/ IsCancelled
      BY <1>s, <3>1, <3>3 DEF InvProgress
    <3> QED
      BY <1>c, <2>5, <3>3, <3>4, <3>5 DEF Inserts, JobGoesOn, InvProgress
  <2> QED
    BY <1>1, <2>1, <2>2, <2>3, <2>4, <2>5, SeedMoves
<1>2. CASE PostSeed
  <2>1. seed' \in Seed /\ seed'.inserted = NoRows /\ seed'.pc = "pool"
    BY <1>2, ConstantTypes, SeedAssumption DEF PostSeed, NoSeed, Seed, SeedPcs
  <2> QED
    BY <1>n, <2>1
<1>3. CASE seed' = seed /\ (IsCancelled => IsCancelled')
  BY <1>3 DEF InvProgress, InTable
<1>4. CASE PostCancel
  <2>1. IsCancelled => IsCancelled'
    <3>1. PICK j \in JobIds : jobs' = [jobs EXCEPT ![j].cancel = TRUE]
      BY <1>4 DEF PostCancel, CancelJob
    <3>2. jobs \in [JobIds -> Job] /\ active' = active /\ active \in JobIds \cup {0}
      BY <1>4 DEF PostCancel, CancelJob, TypeInv, TypeOK, JobsTypeOK
    <3> QED
      BY <3>1, <3>2 DEF IsCancelled, Job
  <2> QED
    BY <1>3, <1>4, <2>1 DEF PostCancel
<1>5. CASE PostSchema \/ SchemaStep \/ SchemaFails \/ UNCHANGED vars
  BY <1>3, <1>5, <1>c
     DEF PostSchema, SchemaStep, DropTable, CreateTable, SchemaFails, vars, sourceDbVars
<1>6. CASE ApiRestart
  BY <1>6, <1>n, ConstantTypes DEF ApiRestart, NoSeed
<1> QED
  BY <1>1, <1>2, <1>4, <1>5, <1>6 DEF Next

-----------------------------------------------------------------------------
(* Ids run 1..max, when nobody drops tables under a seed job.              *)

\* With the tables and the request as they were, the run's reads stay good.
LEMMA RangeSeed ==
    ASSUME TypeInv, InvRange, SeedStep \/ SeedFails
    PROVE  InvRange'
<1>s. seed \in Seed /\ ids \in [Tables -> SUBSET Nat] /\ (InTable => seed.table \in Tables)
  BY DEF TypeInv, TypeOK, InvBusy
<1>1. CASE Ends
  BY <1>1 DEF Ends, NoSeed, InvRange, InTable, sourceDbVars
<1>2. ASSUME NEW t \in Nat, Advance(seed, t), UNCHANGED <<jobVars, sourceDbVars, ddl>>
      PROVE  InvRange'
  BY <1>s, <1>2, AdvanceShape DEF InvRange, InTable, jobVars, sourceDbVars
<1>3. CASE Begins
  BY <1>2, <1>3 DEF Begins, JobGoesOn, SeedBegin
<1>4. CASE ReadsParent
  <2>1. PICK p \in seed.todo : \E m \in MaxId(p) :
                 /\ m # 0
                 /\ seed'.todo = seed.todo \ {p}
                 /\ seed'.max = [seed.max EXCEPT ![p] = m]
    BY <1>4 DEF ReadsParent
  <2>2. PICK m \in MaxId(p) :
                 /\ m # 0
                 /\ seed'.todo = seed.todo \ {p}
                 /\ seed'.max = [seed.max EXCEPT ![p] = m]
    BY <2>1
  <2>3. p \in Tables /\ seed.max \in [Tables -> Nat]
    BY <1>s DEF Seed
  <2>4. 1..m \subseteq ids[p]
    BY <1>s, <2>2, <2>3, MaxIdType DEF InvRange
  <2>5. seed.table \in Tables /\ Parents[seed.table] \subseteq Tables
    BY <1>s, <1>4, SeedAssumption DEF ReadsParent, ReadParent, InTable
  <2>6. \A q \in Parents[seed.table] \ seed'.todo : 1..seed'.max[q] \subseteq ids[q]
    <3> SUFFICES ASSUME NEW q \in Parents[seed.table] \ seed'.todo
                 PROVE  1..seed'.max[q] \subseteq ids[q]
      OBVIOUS
    <3>1. CASE q = p
      BY <2>2, <2>3, <2>4, <3>1
    <3>2. CASE q # p
      <4>1. q \in Parents[seed.table] \ seed.todo /\ q \in Tables /\ InTable
        BY <1>4, <2>2, <2>5, <3>2 DEF ReadsParent, ReadParent, InTable
      <4>2. seed'.max[q] = seed.max[q]
        BY <2>2, <2>3, <3>2, <4>1
      <4> QED
        BY <4>1, <4>2 DEF InvRange
    <3> QED
      BY <3>1, <3>2
  <2> QED
    BY <1>4, <2>6 DEF ReadsParent, ReadParent, JobGoesOn, InvRange, InTable, jobVars, sourceDbVars
<1>5. CASE ReadsLastId
  <2>1. seed.table \in Tables /\ seed.todo = {} /\ InTable
    BY <1>s, <1>5 DEF ReadsLastId, ReadLastId, InTable, InvRange
  <2>2. 1..seed'.last \subseteq ids[seed.table]
    <3>1. CASE seed'.last = 0
      BY <3>1
    <3>2. CASE seed'.last # 0
      BY <1>s, <1>5, <2>1, <3>2, MaxIdType DEF ReadsLastId, InvRange
    <3> QED
      BY <3>1, <3>2
  <2> QED
    BY <1>5, <2>1, <2>2 DEF ReadsLastId, JobGoesOn, InvRange, InTable, jobVars, sourceDbVars
<1>6. CASE Loops
  <2>1. seed.table + 1 \in Nat
    BY <1>6, <1>s DEF Loops, SeedLoop, InTable, Tables
  <2>2. CASE seed' = [seed EXCEPT !.pc = "insert"]
    <3>1. /\ seed'.pc = "insert" /\ seed'.table = seed.table /\ seed'.todo = seed.todo
          /\ seed'.max = seed.max /\ seed'.last = seed.last
      BY <1>s, <2>2 DEF Seed
    <3> QED
      BY <1>6, <3>1 DEF Loops, JobGoesOn, SeedLoop, InvRange, InTable, jobVars, sourceDbVars
  <2> QED
    BY <1>2, <1>6, <2>1, <2>2 DEF Loops, JobGoesOn, SeedLoop
<1>7. CASE Inserts
  <2>1. /\ seed.table \in Tables /\ Left(seed) > 0 /\ InTable
        /\ seed.pc = "insert" /\ seed.todo = {}
    BY <1>7, <1>s DEF Inserts, Insert, InTable, TypeInv, InvBusy, InvRange
  <2>2. BatchRows(seed) \in Nat /\ seed.last \in Nat /\ Parents[seed.table] \subseteq Tables
    BY <1>s, <2>1, BatchBound, SeedAssumption DEF Seed
  <2>3. /\ seed'.pc = "loop" /\ seed'.table = seed.table /\ seed'.todo = seed.todo
        /\ seed'.max = seed.max /\ seed'.last = seed.last + BatchRows(seed)
    BY <1>7, <1>s, <2>1, AfterInsertFields DEF Inserts
  <2>4. 1..seed.last \subseteq ids[seed.table]
    BY <2>1 DEF InvRange
  <2>5. \A t \in Tables : ids[t] \subseteq ids'[t]
    BY <1>7, <1>s, <2>1 DEF Inserts
  <2>6. ids'[seed.table] = ids[seed.table] \cup NewIds(seed)
    BY <1>7, <1>s, <2>1 DEF Inserts
  <2>7. 1..seed'.last \subseteq ids'[seed.table]
    BY <2>2, <2>3, <2>4, <2>6 DEF NewIds
  <2>8. \A t \in Tables : \A i \in ids'[t] : i >= 1 /\ 1..i \subseteq ids'[t]
    <3> SUFFICES ASSUME NEW t \in Tables, NEW i \in ids'[t]
                 PROVE  i >= 1 /\ 1..i \subseteq ids'[t]
      OBVIOUS
    <3>1. CASE i \in ids[t]
      BY <2>5, <3>1 DEF InvRange
    <3>2. CASE i \notin ids[t]
      <4>1. t = seed.table /\ i \in NewIds(seed)
        BY <1>7, <1>s, <2>1, <3>2 DEF Inserts
      <4>2. i \in Nat /\ i >= 1 /\ i <= seed'.last
        BY <2>2, <2>3, <4>1 DEF NewIds
      <4>3. 1..i \subseteq 1..seed'.last
        BY <2>2, <2>3, <4>2
      <4> QED
        BY <2>7, <4>1, <4>2, <4>3
    <3> QED
      BY <3>1, <3>2
  <2>9. \A p \in Parents[seed.table] \ seed.todo : 1..seed.max[p] \subseteq ids'[p]
    BY <2>1, <2>2, <2>5 DEF InvRange
  <2> QED
    BY <1>7, <2>1, <2>3, <2>7, <2>8, <2>9 DEF Inserts, JobGoesOn, Insert, InvRange, InTable, jobVars
<1> QED
  BY <1>1, <1>3, <1>4, <1>5, <1>6, <1>7, SeedMoves

LEMMA RangeNext == TypeInv /\ ~MayOverlap /\ InvRange /\ [Next]_vars => InvRange'
<1> SUFFICES ASSUME TypeInv, ~MayOverlap, InvRange, [Next]_vars PROVE InvRange'
  OBVIOUS
<1>s. /\ ids \in [Tables -> SUBSET Nat]
      /\ active # 0 <=> seed.pc # "idle"
      /\ ddl.pc # "idle" => ddl.table \in Tables
  BY DEF TypeInv, TypeOK, InvBusy
<1>1. CASE PostSeed
  BY <1>1, ConstantTypes DEF PostSeed, NoSeed, Seed, InvRange, InTable, sourceDbVars
<1>2. CASE PostCancel
  BY <1>2 DEF PostCancel, CancelJob, InvRange, InTable, sourceDbVars
<1>3. CASE PostSchema
  BY <1>3 DEF PostSchema, InvRange, InTable, jobVars, sourceDbVars
<1>4. CASE DropTable
  <2>1. active = 0 /\ active' = 0 /\ seed.pc = "idle" /\ seed' = seed /\ ddl.table \in Tables
    BY <1>4, <1>s DEF DropTable, InvRange, jobVars
  <2>2. \A t \in Tables : ids'[t] = ids[t] \/ ids'[t] = {}
    BY <1>4, <1>s, <2>1 DEF DropTable
  <2>3. ddl'.pc = "create"
    BY <1>4 DEF DropTable, TypeInv, TypeOK, Ddl
  <2> QED
    BY <2>1, <2>2, <2>3 DEF InvRange, InTable
<1>5. CASE CreateTable
  <2>1. ddl \in Ddl
    BY DEF TypeInv, TypeOK
  <2>2. /\ active # 0 => ~ddl'.dropping
        /\ ddl'.pc = "drop" => ddl'.dropping
    BY <1>5, <2>1 DEF CreateTable, NoDdl, Ddl, InvRange
  <2> QED
    BY <1>5, <2>2 DEF CreateTable, InvRange, InTable, jobVars
<1>6. CASE SchemaFails
  BY <1>6 DEF SchemaFails, NoDdl, InvRange, InTable, jobVars, sourceDbVars
<1>7. CASE ApiRestart
  BY <1>7 DEF ApiRestart, ForgetJobs, NoSeed, NoDdl, InvRange, InTable, sourceDbVars
<1>8. CASE UNCHANGED vars
  BY <1>8 DEF vars, InvRange, InTable, jobVars, sourceDbVars
<1> QED
  BY <1>1, <1>2, <1>3, <1>4, <1>5, <1>6, <1>7, <1>8, RangeSeed DEF Next, SchemaStep

-----------------------------------------------------------------------------
(* The theorems.                                                           *)

LEMMA InvInit == Init => SeedInv
<1>1. Init => TypeOK /\ InvBusy
  BY TypeInit DEF TypeInv
<1>2. Init => InvNumbering /\ InvProgress /\ InvRange
  BY DEF Init, JobsInit, InvNumbering, InvProgress, InvRange, InTable, NoSeed, NoDdl, NoRows
<1> QED
  BY <1>1, <1>2 DEF SeedInv

LEMMA InvNext == SeedInv /\ [Next]_vars => SeedInv'
<1>1. SeedInv /\ [Next]_vars => (TypeOK /\ InvBusy)'
  BY TypeNext DEF SeedInv, TypeInv
<1>2. SeedInv /\ [Next]_vars => InvNumbering'
  BY NumberingNext DEF SeedInv, TypeInv
<1>3. SeedInv /\ [Next]_vars => InvProgress'
  BY ProgressNext DEF SeedInv, TypeInv
<1>4. SeedInv /\ [Next]_vars /\ ~MayOverlap => InvRange'
  BY RangeNext DEF SeedInv, TypeInv
<1> QED
  BY <1>1, <1>2, <1>3, <1>4 DEF SeedInv

\* The inductive invariant of the seeder: run functions match jobs, ids are
\* handed out in order, and nothing passed over is missing.
THEOREM SeedInvariant == Spec => []SeedInv
BY InvInit, InvNext, PTL DEF Spec

\* Appending never collides with the rows earlier jobs left, even when tables
\* are dropped under the job.
THEOREM AppendingIsPossible == Spec => []NoKeyCollision
<1>1. SeedInv => NoKeyCollision
  <2> SUFFICES ASSUME SeedInv, seed.pc = "insert"
               PROVE  NewIds(seed) \cap ids[seed.table] = {}
    BY DEF NoKeyCollision
  <2>1. seed \in Seed /\ seed.table \in Tables /\ Left(seed) > 0
    BY DEF SeedInv, TypeOK, InvBusy, InTable
  <2>2. BatchRows(seed) \in Nat /\ seed.last \in Nat
    BY <2>1, BatchBound DEF Seed
  <2>3. \A i \in NewIds(seed) : i > seed.last
    BY <2>2 DEF NewIds
  <2>4. \A i \in ids[seed.table] : i \in Nat /\ i <= seed.last
    BY <2>1 DEF SeedInv, TypeOK, InvNumbering
  <2> QED
    BY <2>2, <2>3, <2>4
<1> QED
  BY <1>1, SeedInvariant, PTL

\* A job reported as succeeded has inserted every row asked for, in every run.
THEOREM SucceededMeansComplete == Spec => SucceededIsComplete
<1> DEFINE A == \A j \in JobIds :
          jobs[j].status = "running" /\ jobs'[j].status = "succeeded"
             => seed.inserted = seed.plan
<1>1. SeedInv /\ [Next]_vars => A
  <2> SUFFICES ASSUME SeedInv, [Next]_vars, NEW j \in JobIds,
                      jobs[j].status = "running", jobs'[j].status = "succeeded"
               PROVE  seed.inserted = seed.plan
    OBVIOUS
  <2>1. jobs \in [JobIds -> Job] /\ active \in JobIds \cup {0} /\ seed \in Seed
    BY DEF SeedInv, TypeOK, JobsTypeOK
  <2>2. ~UNCHANGED jobs
    OBVIOUS
  <2>3. ~PostCancel
    BY <2>1 DEF PostCancel, CancelJob, Job
  <2>4. ~Throws /\ ~ForgetJobs
    BY <2>1 DEF Throws, ForgetJobs, NoJob, Job
  <2>5. ~PostSeed
    <3>1. StartJob => jobs'[j] = jobs[j] \/ jobs'[j].status = "running"
      BY <2>1 DEF StartJob
    <3> QED
      BY <3>1 DEF PostSeed
  <2>6. ~ReadParent
    BY <2>2, <2>4 DEF ReadParent, SeedThrows, jobVars
  <2>7. ~(SeedBegin \/ SeedLoop \/ Insert \/ ReadLastId)
    BY <2>2, <2>4 DEF SeedBegin, SeedLoop, Insert, ReadLastId, SeedThrows, jobVars
  <2>8. ~(SeedFails \/ PostSchema \/ SchemaStep \/ SchemaFails \/ ApiRestart \/ UNCHANGED vars)
    BY <2>2, <2>4 DEF SeedFails, PostSchema, SchemaStep, DropTable, CreateTable, SchemaFails,
       ApiRestart, SeedThrows, vars, jobVars
  <2>9. seed.pc = "stats" /\ Returns
    BY <2>3, <2>5, <2>6, <2>7, <2>8 DEF Next, SeedStep, SeedReturns
  <2>10. j = active /\ ~IsCancelled
    BY <2>1, <2>9 DEF Returns, StatusOnReturn, IsCancelled, SeedInv, InvBusy, Job
  <2>11. \A u \in Tables : seed.inserted[u] = seed.plan[u]
    BY <2>9, <2>10 DEF SeedInv, InvProgress
  <2>12. seed.inserted \in [Tables -> Nat] /\ seed.plan \in [Tables -> Nat]
    BY <2>1 DEF Seed
  <2> QED
    BY <2>11, <2>12
<1>2. SeedInv /\ [Next]_vars => [A]_vars
  BY <1>1
<1> QED
  BY <1>2, SeedInvariant, PTL DEF Spec, SucceededIsComplete

\* As long as tables are not dropped under a seed job, every foreign key is
\* written when its parent is there.
THEOREM ParentsAreThere ==
    ASSUME ~MayOverlap
    PROVE  Spec => WritesExistingParents
<1> DEFINE A == \A t \in Tables : \A r \in refs'[t] \ refs[t] : r[2] \in ids[r[1]]
<1>1. SeedInv /\ [Next]_vars => A
  <2> SUFFICES ASSUME SeedInv, [Next]_vars, NEW t \in Tables, NEW r \in refs'[t] \ refs[t]
               PROVE  r[2] \in ids[r[1]]
    OBVIOUS
  <2>1. refs \in [Tables -> SUBSET (Tables \X Nat)] /\ seed \in Seed
    BY DEF SeedInv, TypeOK
  <2>2. ~UNCHANGED refs
    OBVIOUS
  <2>3. ~DropTable
    <3>1. DropTable => refs'[t] \subseteq refs[t]
      BY <2>1 DEF DropTable
    <3> QED
      BY <3>1
  <2>4. ~(PostSeed \/ PostCancel \/ SeedBegin \/ ReadParent \/ ReadLastId \/ SeedLoop
          \/ SeedReturns \/ SeedFails \/ PostSchema \/ CreateTable \/ SchemaFails
          \/ ApiRestart \/ UNCHANGED vars)
    BY <2>2 DEF PostSeed, PostCancel, SeedBegin, ReadParent, ReadLastId, SeedLoop, SeedReturns,
       SeedFails, PostSchema, CreateTable, SchemaFails, ApiRestart, vars, sourceDbVars
  <2>5. Insert
    BY <2>3, <2>4 DEF Next, SeedStep, SchemaStep
  <2>6. PICK R \in SUBSET ForeignKeys(seed) :
          refs' = [refs EXCEPT ![seed.table] = @ \cup R]
    BY <2>2, <2>5 DEF Insert, sourceDbVars
  <2>7. r \in ForeignKeys(seed)
    BY <2>1, <2>6
  <2>8. PICK p \in Parents[seed.table] : r \in {p} \X (1..seed.max[p])
    BY <2>7 DEF ForeignKeys
  <2>9. InTable /\ seed.todo = {} /\ InvRange
    BY <2>5 DEF Insert, InTable, SeedInv, InvRange
  <2>10. 1..seed.max[p] \subseteq ids[p]
    BY <2>8, <2>9 DEF InvRange
  <2> QED
    BY <2>8, <2>10
<1>2. SeedInv /\ [Next]_vars => [A]_vars
  BY <1>1
<1> QED
  BY <1>2, SeedInvariant, PTL DEF Spec, WritesExistingParents
=============================================================================
