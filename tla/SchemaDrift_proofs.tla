------------------------- MODULE SchemaDrift_proofs -------------------------
(***************************************************************************)
(* Theorems about SchemaDrift for any sets of keys, columns and workers    *)
(* and any bounds: outside a cut-over the view names no missing column     *)
(* and, where the primary key alone decides which rows are versions of one *)
(* another, it shows every covered row once and with every value that was  *)
(* not early.                                                              *)
(***************************************************************************)
EXTENDS SchemaDrift, FiniteSetTheorems, TLAPS

-----------------------------------------------------------------------------
(* The helpers return what they should.                                    *)

LEMMA SchemaType ==
    ASSUME TypeOK, NEW w \in Workers
    PROVE  Schema(w) \in SUBSET Columns
<1>1. schemas[w] \in SUBSET SUBSET Columns /\ cols \subseteq Columns
  BY DEF TypeOK
<1>2. CASE schemas[w] = {}
  BY <1>1, <1>2 DEF Schema, LoadSchema
<1>3. CASE schemas[w] # {}
  <2>1. (CHOOSE S \in schemas[w] : TRUE) \in schemas[w]
    BY <1>3
  <2> QED
    BY <1>1, <1>3, <2>1 DEF Schema
<1> QED
  BY <1>2, <1>3

\* A worker that has a schema uses it, any other loads one.
LEMMA SchemaInUse ==
    ASSUME NEW w \in Workers
    PROVE  Schema(w) \in schemas[w] \cup {cols}
<1>1. CASE schemas[w] = {}
  BY <1>1 DEF Schema, LoadSchema
<1>2. CASE schemas[w] # {}
  <2>1. (CHOOSE S \in schemas[w] : TRUE) \in schemas[w]
    BY <1>2
  <2> QED
    BY <1>2, <2>1 DEF Schema
<1> QED
  BY <1>1, <1>2

LEMMA TableOfType ==
    ASSUME TypeOK, NEW t
    PROVE  TableOf(t) \in Table /\ \A r \in TableOf(t).rows : r.ver <= cur
BY DEF TypeOK, TableOf

LEMMA ListedType ==
    ASSUME TypeOK, NEW w \in Workers, task[w].kind \in {"snap", "cdc"}
    PROVE  Listed(w) \in SUBSET Columns
<1> DEFINE L == names[w][task[w].kind]
<1>1. L \in SUBSET SUBSET Columns
  BY DEF TypeOK
<1>2. TableOf(task[w]).cols \in SUBSET Columns
  BY TableOfType DEF Table
<1>3. CASE \E N \in L : task[w].schema \subseteq N
  <2>1. (CHOOSE N \in L : TRUE) \in L
    BY <1>3
  <2> QED
    BY <1>1, <1>3, <2>1 DEF Listed
<1>4. CASE ~\E N \in L : task[w].schema \subseteq N
  BY <1>2, <1>4 DEF Listed
<1> QED
  BY <1>3, <1>4

LEMMA InsertSubset ==
    ASSUME NEW R, NEW B
    PROVE  Insert(R, B) \subseteq R \cup B
BY DEF Insert

\* A schema in use is a cached one, or one of a task yet to read.
LEMMA InUseMembers ==
    /\ \A S : S \in InUse <=> \E v \in Workers :
          S \in schemas[v] \/ (task[v].pc \in {"ensure", "read"} /\ S = task[v].schema)
    /\ \A S : S \in InUse' <=> \E v \in Workers :
          S \in schemas'[v] \/ (task'[v].pc \in {"ensure", "read"} /\ S = task'[v].schema)
BY DEF InUse

\* A worker whose task is at work has a task for a table.
LEMMA AtWork ==
    ASSUME TypeOK, NEW w \in Workers, task[w].pc # "idle"
    PROVE  task[w] \in Task /\ task[w].kind \in {"snap", "cdc"} /\ w \in Busy
BY DEF TypeOK, Task, Busy, NoTask

-----------------------------------------------------------------------------
(* Types.                                                                  *)

LEMMA NoTaskType == NoTask \in Task
BY DEF NoTask, Task

LEMMA InitType == Init => TypeOK
<1> SUFFICES ASSUME Init PROVE TypeOK
  OBVIOUS
<1>1. \A w \in Workers : Cardinality(schemas[w]) <= 1
  BY FS_EmptySet DEF Init
<1>2. MaxVersion \in Nat /\ MaxEvents \in Nat
  BY DriftAssumption
<1> DEFINE Rows == [ver : 0..cur, live : BOOLEAN, has : SUBSET cols, early : BOOLEAN]
<1>3. row \in [Keys -> Rows]
  <2>1. \A b \in BOOLEAN : [ver |-> 0, live |-> b, has |-> IF b THEN cols ELSE {},
                            early |-> FALSE] \in Rows
    BY DEF Init
  <2>2. row \in [Keys -> {[ver |-> 0, live |-> b, has |-> IF b THEN cols ELSE {},
                          early |-> FALSE] : b \in BOOLEAN}]
    BY DEF Init
  <2> HIDE DEF Rows
  <2> QED
    BY <2>1, <2>2
<1> QED
  BY <1>1, <1>2, <1>3, NoTaskType DEF Init, TypeOK, NoTask, NoTable, Table

LEMMA CommitType ==
    ASSUME TypeOK, NEW k \in Keys, Commit(k)
    PROVE  TypeOK'
<1>1. cur' \in 0..MaxVersion /\ cur' = cur + 1 /\ cur \in Nat
  BY DriftAssumption DEF TypeOK, Commit
<1>2. row' \in [Keys -> [ver : 0..cur', live : BOOLEAN, has : SUBSET cols', early : BOOLEAN]]
  <2> DEFINE B == \E S \in InUse : ~(cols \subseteq S)
  <2>1. B \in BOOLEAN
    OBVIOUS
  <2> HIDE DEF B
  <2>2. PICK b \in BOOLEAN : row' = [row EXCEPT ![k] =
            [ver |-> cur + 1, live |-> b, has |-> IF b THEN cols ELSE {}, early |-> B]]
    BY DEF Commit, B
  <2> QED
    BY <1>1, <2>1, <2>2 DEF TypeOK, Commit
<1>3. \A r \in Cell : r.ver <= cur => r.ver <= cur'
  BY <1>1 DEF Cell
<1>4. sver' \in 0..cur' /\ last' \in 0..cur'
  BY <1>1 DEF TypeOK, Commit, supervisorVars
<1>5. \A w \in Workers : task[w].ver <= cur'
  BY <1>1 DEF TypeOK, Task
<1>6. \A w \in Workers : \A r \in task[w].buf : r.ver <= cur'
  BY <1>1, <1>3 DEF TypeOK, Task
<1>7. \A r \in target.rows \cup staging.rows : r.ver <= cur'
  BY <1>3 DEF TypeOK, Table
<1> QED
  BY <1>1, <1>2, <1>4, <1>5, <1>6, <1>7
  DEF TypeOK, Commit, supervisorVars, clickhouseVars, workerVars

LEMMA SourceType ==
    ASSUME TypeOK, NEW c \in Columns, AddColumn(c) \/ DropColumn(c)
    PROVE  TypeOK'
<1>0. events' \in 0..MaxEvents /\ cols' \subseteq Columns
  BY DriftAssumption DEF TypeOK, AddColumn, DropColumn, Event
<1>1. row' \in [Keys -> [ver : 0..cur', live : BOOLEAN, has : SUBSET cols', early : BOOLEAN]]
  <2>1. CASE AddColumn(c)
    BY <2>1 DEF TypeOK, AddColumn
  <2>2. CASE DropColumn(c)
    BY <2>2 DEF TypeOK, DropColumn
  <2> QED
    BY <2>1, <2>2
<1> QED
  BY <1>0, <1>1 DEF TypeOK, AddColumn, DropColumn, supervisorVars, clickhouseVars, workerVars

LEMMA RequestType == TypeOK /\ Request => TypeOK'
BY DriftAssumption
DEF TypeOK, Request, Event, sourceVars, clickhouseVars, workerVars

LEMMA ExpireType ==
    ASSUME TypeOK, NEW w \in Workers, Expire(w)
    PROVE  TypeOK'
<1>1. \A v \in Workers : Cardinality(schemas'[v]) <= 1
  BY FS_EmptySet DEF TypeOK, Expire
<1> QED
  BY <1>1 DEF TypeOK, Expire, sourceVars, supervisorVars, clickhouseVars

LEMMA PlanType == TypeOK /\ Plan => TypeOK'
<1> SUFFICES ASSUME TypeOK, Plan PROVE TypeOK'
  OBVIOUS
<1>1. CreateTable \in Table /\ CreateTable.rows = {}
  BY DEF TypeOK, CreateTable, LoadSchema, Table
<1>2. target' \in Table /\ staging' \in Table /\ view' \subseteq Columns
  BY <1>1 DEF TypeOK, Plan, Table
<1>3. \A r \in target'.rows \cup staging'.rows : r.ver <= cur
  BY <1>1 DEF TypeOK, Plan
<1> QED
  BY <1>2, <1>3 DEF TypeOK, Plan, sourceVars, workerVars

\* The steps of a cut-over.
CutOverStep == Exchange \/ DropStaging \/ Finalize \/ CutOverFails \/ CutOverAgain

LEMMA CutOverType == TypeOK /\ CutOverStep => TypeOK'
<1> SUFFICES ASSUME TypeOK, CutOverStep PROVE TypeOK'
  OBVIOUS
<1>1. NoTable \in Table /\ NoTable.rows = {} /\ target.cols \subseteq Columns
  BY DEF TypeOK, NoTable, Table
<1>2. /\ target' \in Table /\ staging' \in Table /\ view' \subseteq Columns
      /\ \A r \in target'.rows \cup staging'.rows : r.ver <= cur
  <2>1. CASE Exchange \/ CutOverAgain
    BY <2>1 DEF TypeOK, Exchange, CutOverAgain, clickhouseVars
  <2>2. CASE DropStaging \/ Finalize \/ CutOverFails
    BY <1>1, <2>2 DEF TypeOK, DropStaging, Finalize, CutOverFails, ViewRecreated
  <2> QED
    BY <2>1, <2>2 DEF CutOverStep
<1>3. /\ UNCHANGED <<sourceVars, sver, loaded, workerVars>>
      /\ phase' \in {phase, "cdc"} /\ last' \in {last, sver}
      /\ cutover' \in {"no", "swapped", "dropped", "interrupted"}
  BY DEF CutOverStep, Exchange, DropStaging, Finalize, CutOverFails, CutOverAgain
<1>4. events' \in 0..MaxEvents
  <2>1. events' = events \/ Event
    BY DEF CutOverStep, Exchange, DropStaging, Finalize, CutOverFails, CutOverAgain
  <2> QED
    BY <2>1, DriftAssumption DEF TypeOK, Event
<1> QED
  BY <1>2, <1>3, <1>4 DEF TypeOK, sourceVars, workerVars

LEMMA StartType ==
    ASSUME TypeOK, NEW w \in Workers, NEW kind \in {"snap", "cdc"},
           NEW part \in SUBSET Keys, Start(w, kind, part)
    PROVE  TypeOK'
<1>1. Schema(w) \in SUBSET Columns
  BY SchemaType
<1> DEFINE t == [NoTask EXCEPT
          !.kind = kind, !.pc = "ensure", !.part = part, !.schema = Schema(w)]
<1>2. t \in Task /\ t.kind # "none" /\ t.pc # "idle" /\ t.ver = 0 /\ t.buf = {}
  BY <1>1 DEF NoTask, Task
<1>3. task' = [task EXCEPT ![w] = t]
  BY DEF Start
<1> HIDE DEF t
<1>4. task' \in [Workers -> Task]
  BY <1>2, <1>3 DEF TypeOK
<1>5. \A v \in Workers :
          /\ task'[v].kind = "none" <=> task'[v].pc = "idle"
          /\ task'[v].ver <= cur /\ \A r \in task'[v].buf : r.ver <= cur
  BY <1>2, <1>3 DEF TypeOK
<1>6. schemas' \in [Workers -> SUBSET SUBSET Columns]
  BY <1>1 DEF TypeOK, Start
<1>7. \A v \in Workers : Cardinality(schemas'[v]) <= 1
  <2>1. \A x : Cardinality({x}) <= 1
    <3>1. \A x : Cardinality({x}) = 1
      BY FS_Singleton, Zenon
    <3> QED
      BY <3>1
  <2> QED
    BY <2>1 DEF TypeOK, Start
<1> QED
  BY <1>4, <1>5, <1>6, <1>7
  DEF TypeOK, Start, sourceVars, supervisorVars, clickhouseVars

LEMMA CollectType ==
    ASSUME TypeOK, NEW w \in Workers, Collect(w)
    PROVE  TypeOK'
<1>1. task[w] \in Task /\ task[w].ver <= cur
  BY DEF TypeOK
<1>2. loaded' \subseteq Keys /\ last' \in 0..cur
  BY <1>1 DEF TypeOK, Collect, Task
<1>3. task' \in [Workers -> Task]
  BY NoTaskType DEF TypeOK, Collect
<1>4. \A v \in Workers :
          /\ task'[v].kind = "none" <=> task'[v].pc = "idle"
          /\ task'[v].ver <= cur /\ \A r \in task'[v].buf : r.ver <= cur
  BY DEF TypeOK, Collect, NoTask
<1> QED
  BY <1>2, <1>3, <1>4 DEF TypeOK, Collect, sourceVars, clickhouseVars

\* What a step of the tasks leaves alone.
LEMMA WritesType ==
    ASSUME TypeOK, NEW w \in Workers, NEW T \in Table, \A r \in T.rows : r.ver <= cur,
           Writes(task[w], T)
    PROVE  /\ target' \in Table /\ staging' \in Table
           /\ \A r \in target'.rows \cup staging'.rows : r.ver <= cur
BY DEF TypeOK, Writes, TableOf

LEMMA WidenedType ==
    ASSUME TypeOK, NEW t, NEW C \in SUBSET Columns
    PROVE  LET T == [TableOf(t) EXCEPT !.cols = @ \cup C] IN
           /\ T \in Table /\ \A r \in T.rows : r.ver <= cur
           /\ TableOf(t).cols \subseteq T.cols /\ T.rows = TableOf(t).rows
           /\ T.cols = TableOf(t).cols \cup C
BY TableOfType DEF Table

LEMMA EnsureType ==
    ASSUME TypeOK, NEW w \in Workers, Ensure(w)
    PROVE  TypeOK'
<1>1. task[w] \in Task /\ task[w].kind \in {"snap", "cdc"}
  BY AtWork DEF Ensure
<1>2. Listed(w) \in SUBSET Columns /\ Missing(w) \in SUBSET Columns
  BY <1>1, ListedType DEF Missing, Task
<1> DEFINE T == [TableOf(task[w]) EXCEPT !.cols = @ \cup Missing(w)]
<1>3. T \in Table /\ (\A r \in T.rows : r.ver <= cur)
  BY <1>2, WidenedType
<1>4. Writes(task[w], T)
  BY DEF Ensure
<1> HIDE DEF T
<1>5. /\ target' \in Table /\ staging' \in Table
      /\ \A r \in target'.rows \cup staging'.rows : r.ver <= cur
  BY <1>3, <1>4, WritesType
<1>6. view' \subseteq Columns
  BY <1>5 DEF Ensure, TypeOK, Table
<1>7. names' \in [Workers -> [{"snap", "cdc"} -> SUBSET SUBSET Columns]]
  <2>1. {Listed(w) \cup Missing(w)} \in SUBSET SUBSET Columns
    BY <1>2
  <2>2. names' = [names EXCEPT ![w][task[w].kind] = {Listed(w) \cup Missing(w)}]
    BY DEF Ensure
  <2> QED
    BY <1>1, <2>1, <2>2 DEF TypeOK
<1>8. task' = [task EXCEPT ![w] = [task[w] EXCEPT !.pc = "read"]] /\ task[w].pc = "ensure"
  BY DEF Ensure
<1>9. [task[w] EXCEPT !.pc = "read"] \in Task
  BY <1>1 DEF Task
<1>10. task' \in [Workers -> Task]
  BY <1>8, <1>9 DEF TypeOK
<1>11. \A v \in Workers :
          /\ task'[v].kind = "none" <=> task'[v].pc = "idle"
          /\ task'[v].ver <= cur /\ \A r \in task'[v].buf : r.ver <= cur
  BY <1>1, <1>8 DEF TypeOK, Task
<1> QED
  BY <1>5, <1>6, <1>7, <1>10, <1>11 DEF TypeOK, Ensure, sourceVars, supervisorVars

LEMMA RaiseType ==
    ASSUME TypeOK, NEW w \in Workers, task[w].pc # "idle", Raise(w),
           target' \in Table, staging' \in Table,
           \A r \in target'.rows \cup staging'.rows : r.ver <= cur,
           view' \subseteq Columns, events' \in 0..MaxEvents
    PROVE  TypeOK'
<1> DEFINE t == [NoTask EXCEPT !.kind = task[w].kind, !.part = task[w].part, !.pc = "error"]
<1>1. t \in Task /\ t.kind # "none" /\ t.pc # "idle" /\ t.ver = 0 /\ t.buf = {}
  BY AtWork DEF NoTask, Task
<1>2. task' = [task EXCEPT ![w] = t]
  BY DEF Raise
<1> HIDE DEF t
<1>3. task' \in [Workers -> Task]
  BY <1>1, <1>2 DEF TypeOK
<1>4. \A v \in Workers :
          /\ task'[v].kind = "none" <=> task'[v].pc = "idle"
          /\ task'[v].ver <= cur /\ \A r \in task'[v].buf : r.ver <= cur
  BY <1>1, <1>2 DEF TypeOK
<1>5. schemas' \in [Workers -> SUBSET SUBSET Columns]
  BY DEF TypeOK, Raise, ForgetCaches
<1>6. \A v \in Workers : Cardinality(schemas'[v]) <= 1
  BY FS_EmptySet DEF TypeOK, Raise, ForgetCaches
<1>7. names' \in [Workers -> [{"snap", "cdc"} -> SUBSET SUBSET Columns]]
  <2>1. [T \in {"snap", "cdc"} |-> {}] \in [{"snap", "cdc"} -> SUBSET SUBSET Columns]
    OBVIOUS
  <2> QED
    BY <2>1 DEF TypeOK, Raise, ForgetCaches
<1> QED
  BY <1>3, <1>4, <1>5, <1>6, <1>7 DEF TypeOK, Raise, sourceVars, supervisorVars

LEMMA TaskFailsType ==
    ASSUME TypeOK, NEW w \in Workers, TaskFails(w)
    PROVE  TypeOK'
<1>1. task[w].pc # "idle" /\ Raise(w)
  BY DEF TaskFails
<1>2. Missing(w) \in SUBSET Columns
  BY <1>1, AtWork DEF Missing, Task
<1>3. PICK added \in SUBSET Missing(w) :
          Writes(task[w], [TableOf(task[w]) EXCEPT !.cols = @ \cup added])
  BY DEF TaskFails
<1> DEFINE T == [TableOf(task[w]) EXCEPT !.cols = @ \cup added]
<1>4. T \in Table /\ (\A r \in T.rows : r.ver <= cur)
  BY <1>2, WidenedType
<1> HIDE DEF T
<1>5. /\ target' \in Table /\ staging' \in Table
      /\ \A r \in target'.rows \cup staging'.rows : r.ver <= cur
      /\ view' \subseteq Columns
  BY <1>3, <1>4, WritesType DEF T, TaskFails, TypeOK
<1>6. events' \in 0..MaxEvents
  BY DriftAssumption DEF TypeOK, TaskFails, Event
<1> QED
  BY <1>1, <1>5, <1>6, RaiseType

LEMMA ReadRaisesType ==
    ASSUME TypeOK, NEW w \in Workers, ReadRaises(w) \/ InsertRaises(w)
    PROVE  TypeOK'
<1>1. task[w].pc # "idle" /\ Raise(w) /\ UNCHANGED <<clickhouseVars, events>>
  BY DEF ReadRaises, InsertRaises
<1>2. /\ target' \in Table /\ staging' \in Table
      /\ \A r \in target'.rows \cup staging'.rows : r.ver <= cur
      /\ view' \subseteq Columns /\ events' \in 0..MaxEvents
  BY <1>1 DEF TypeOK, clickhouseVars
<1> QED
  BY <1>1, <1>2, RaiseType

LEMMA ContentType ==
    ASSUME TypeOK, NEW k \in Keys, NEW v \in 0..cur, NEW S
    PROVE  Content(k, v, S) \in Cell /\ Content(k, v, S).ver <= cur
<1>1. row[k] \in [ver : 0..cur, live : BOOLEAN, has : SUBSET cols, early : BOOLEAN]
  BY DEF TypeOK
<1>2. cur \in Nat /\ cols \subseteq Columns
  BY DriftAssumption DEF TypeOK
<1> QED
  BY <1>1, <1>2 DEF Content, Cell

LEMMA ReadType ==
    ASSUME TypeOK, NEW w \in Workers, Read(w)
    PROVE  TypeOK'
<1>1. task[w] \in Task /\ task[w].kind \in {"snap", "cdc"} /\ task[w].pc = "read"
  BY AtWork DEF Read
<1>2. cur \in Nat /\ sver \in 0..cur
  BY DriftAssumption DEF TypeOK
<1> DEFINE B == IF task[w].kind = "snap"
          THEN {Content(k, sver, task[w].schema) : k \in {k \in task[w].part : row[k].live}}
          ELSE {Content(k, row[k].ver, task[w].schema) : k \in {k \in Keys : row[k].ver > last}}
<1>3. \A r \in B : r \in Cell /\ r.ver <= cur
  <2>1. CASE task[w].kind = "snap"
    BY <1>1, <1>2, <2>1, ContentType DEF Task
  <2>2. CASE task[w].kind # "snap"
    <3>1. \A k \in Keys : row[k].ver \in 0..cur
      BY DEF TypeOK
    <3> QED
      BY <2>2, <3>1, ContentType
  <2> QED
    BY <2>1, <2>2
<1>4. task' = [task EXCEPT ![w] = [task[w] EXCEPT !.pc = "insert", !.ver = cur, !.buf = B]]
  BY DEF Read
<1> HIDE DEF B
<1>5. task' \in [Workers -> Task]
  <2>1. [task[w] EXCEPT !.pc = "insert", !.ver = cur, !.buf = B] \in Task
    BY <1>1, <1>2, <1>3 DEF Task
  <2> QED
    BY <1>4, <2>1 DEF TypeOK
<1>6. \A v \in Workers :
          /\ task'[v].kind = "none" <=> task'[v].pc = "idle"
          /\ task'[v].ver <= cur /\ \A r \in task'[v].buf : r.ver <= cur
  BY <1>1, <1>2, <1>3, <1>4 DEF TypeOK, Task
<1> QED
  BY <1>5, <1>6 DEF TypeOK, Read, sourceVars, supervisorVars, clickhouseVars

LEMMA InsertRowsType ==
    ASSUME TypeOK, NEW w \in Workers, InsertRows(w)
    PROVE  TypeOK'
<1>1. task[w] \in Task /\ task[w].kind \in {"snap", "cdc"} /\ task[w].pc = "insert"
  BY AtWork DEF InsertRows
<1> DEFINE I == Insert(TableOf(task[w]).rows, task[w].buf)
           T == [TableOf(task[w]) EXCEPT !.rows = I]
<1>2. I \subseteq Cell /\ \A r \in I : r.ver <= cur
  BY <1>1, InsertSubset, TableOfType DEF TypeOK, Task, Table
<1> HIDE DEF I
<1>3. T \in Table /\ (\A r \in T.rows : r.ver <= cur)
  BY <1>2, TableOfType DEF Table
<1>4. Writes(task[w], T)
  BY DEF InsertRows, I
<1> HIDE DEF T
<1>5. /\ target' \in Table /\ staging' \in Table
      /\ \A r \in target'.rows \cup staging'.rows : r.ver <= cur
  BY <1>3, <1>4, WritesType
<1> DEFINE u == [task[w] EXCEPT !.pc = "ok", !.schema = {}, !.buf = {}]
<1>6. u \in Task /\ u.kind # "none" /\ u.pc # "idle" /\ u.ver = task[w].ver /\ u.buf = {}
  BY <1>1 DEF Task
<1>7. task' = [task EXCEPT ![w] = u]
  BY DEF InsertRows
<1> HIDE DEF u
<1>8. task' \in [Workers -> Task]
  BY <1>6, <1>7 DEF TypeOK
<1>9. \A v \in Workers :
          /\ task'[v].kind = "none" <=> task'[v].pc = "idle"
          /\ task'[v].ver <= cur /\ \A r \in task'[v].buf : r.ver <= cur
  BY <1>6, <1>7 DEF TypeOK
<1> QED
  BY <1>5, <1>8, <1>9 DEF TypeOK, InsertRows, sourceVars, supervisorVars

LEMMA StutterType == TypeOK /\ UNCHANGED vars => TypeOK'
BY DEF TypeOK, vars, sourceVars, supervisorVars, clickhouseVars, workerVars

LEMMA TypeStep == TypeOK /\ [Next]_vars => TypeOK'
<1> SUFFICES ASSUME TypeOK, [Next]_vars PROVE TypeOK'
  OBVIOUS
<1>1. ASSUME NEW k \in Keys, Commit(k) PROVE TypeOK'
  BY <1>1, CommitType
<1>2. ASSUME NEW c \in Columns, AddColumn(c) \/ DropColumn(c) PROVE TypeOK'
  BY <1>2, SourceType
<1>3. ASSUME NEW w \in Workers, Submit(w) PROVE TypeOK'
  <2>1. \E kind \in {"snap", "cdc"}, part \in SUBSET Keys : Start(w, kind, part)
    BY <1>3 DEF Submit
  <2> QED
    BY <2>1, StartType
<1>4. ASSUME NEW w \in Workers, Collect(w) PROVE TypeOK'
  BY <1>4, CollectType
<1>5. ASSUME NEW w \in Workers, WorkerStep(w) PROVE TypeOK'
  BY <1>5, EnsureType, ReadType, ReadRaisesType, InsertRowsType DEF WorkerStep
<1>6. ASSUME NEW w \in Workers, Expire(w) \/ TaskFails(w) PROVE TypeOK'
  BY <1>6, ExpireType, TaskFailsType
<1>7. CASE Request \/ Plan \/ CutOverStep
  BY <1>7, RequestType, PlanType, CutOverType
<1>8. CASE UNCHANGED vars
  BY <1>8, StutterType
<1> QED
  BY <1>1, <1>2, <1>3, <1>4, <1>5, <1>6, <1>7, <1>8 DEF Next, SupervisorStep, CutOverStep

\* Tables and tasks hold rows the workers can build of columns the table may
\* have, and nothing is newer than the source, whatever the workers have cached.
THEOREM DriftTypeCorrect == Spec => []TypeOK
BY InitType, TypeStep, PTL DEF Spec

-----------------------------------------------------------------------------
(* The view.                                                               *)

\* A table only grows under its view.
LEMMA ViewKept ==
    ASSUME ViewAnswers, UNCHANGED <<cutover, view>>,
           target.cols \subseteq target'.cols
    PROVE  ViewAnswers'
BY DEF ViewAnswers

\* Tasks add columns and take none away; a task that adds some to the live
\* table makes the view anew.
LEMMA WorkerKeepsView ==
    ASSUME TypeOK, ViewAnswers, NEW w \in Workers, WorkerStep(w) \/ TaskFails(w)
    PROVE  ViewAnswers'
<1>1. ASSUME NEW C, Writes(task[w], [TableOf(task[w]) EXCEPT !.cols = @ \cup C])
      PROVE  target.cols \subseteq target'.cols
  BY <1>1 DEF Writes, TableOf, TypeOK, Table
<1>2. CASE Ensure(w)
  <2>1. target.cols \subseteq target'.cols
    BY <1>1, <1>2 DEF Ensure
  <2>2. cutover' = cutover /\ view' \in {view, target'.cols}
    BY <1>2 DEF Ensure, supervisorVars
  <2> QED
    BY <2>1, <2>2 DEF ViewAnswers
<1>3. CASE TaskFails(w)
  <2>1. target.cols \subseteq target'.cols
    BY <1>1, <1>3 DEF TaskFails
  <2>2. UNCHANGED <<cutover, view>>
    BY <1>3 DEF TaskFails, Raise, supervisorVars
  <2> QED
    BY <2>1, <2>2, ViewKept
<1>4. CASE Read(w) \/ ReadRaises(w) \/ InsertRaises(w)
  BY <1>4, ViewKept DEF Read, ReadRaises, InsertRaises, Raise, supervisorVars, clickhouseVars
<1>5. CASE InsertRows(w)
  <2>1. target.cols \subseteq target'.cols
    BY <1>5 DEF InsertRows, Writes, TableOf, TypeOK, Table
  <2>2. UNCHANGED <<cutover, view>>
    BY <1>5 DEF InsertRows, supervisorVars
  <2> QED
    BY <2>1, <2>2, ViewKept
<1> QED
  BY <1>2, <1>3, <1>4, <1>5 DEF WorkerStep

\* Queries of the view do not fail for a column its table lacks, but between
\* the exchange of the tables and the end of that cut-over.
THEOREM ViewNamesItsColumns == Spec => []ViewAnswers
<1>1. Init => ViewAnswers
  BY DEF Init, ViewAnswers
<1>2. TypeOK /\ ViewAnswers /\ [Next]_vars => ViewAnswers'
  <2> SUFFICES ASSUME TypeOK, ViewAnswers, [Next]_vars PROVE ViewAnswers'
    OBVIOUS
  <2>1. ASSUME NEW w \in Workers, WorkerStep(w) \/ TaskFails(w) PROVE ViewAnswers'
    BY <2>1, WorkerKeepsView
  <2>2. CASE Plan
    BY <2>2 DEF Plan, ViewAnswers
  <2>3. CASE Exchange \/ DropStaging \/ CutOverFails \/ CutOverAgain
    BY <2>3 DEF Exchange, DropStaging, CutOverFails, CutOverAgain, ViewAnswers
  <2>4. CASE Finalize
    BY <2>4 DEF Finalize, ViewRecreated, ViewAnswers
  <2>5. CASE UNCHANGED <<target, view, cutover>>
    BY <2>5, ViewKept
  <2>6. ASSUME NEW w \in Workers, Submit(w) \/ Collect(w) \/ Expire(w)
        PROVE  UNCHANGED <<target, view, cutover>>
    BY <2>6 DEF Submit, Start, Collect, Expire, supervisorVars, clickhouseVars
  <2>7. ASSUME \/ Request
               \/ \E k \in Keys : Commit(k)
               \/ \E c \in Columns : AddColumn(c) \/ DropColumn(c)
               \/ UNCHANGED vars
        PROVE  UNCHANGED <<target, view, cutover>>
    BY <2>7 DEF Request, Commit, AddColumn, DropColumn, vars, supervisorVars, clickhouseVars
  <2> QED
    BY <2>1, <2>2, <2>3, <2>4, <2>5, <2>6, <2>7 DEF Next, SupervisorStep
<1> QED
  BY <1>1, <1>2, DriftTypeCorrect, PTL DEF Spec

-----------------------------------------------------------------------------
(* Deduplication by the primary key.                                       *)

LEMMA SortKeyIsKey ==
    ASSUME OrderBy = {}, NEW r, NEW s
    PROVE  SortKey(r) = SortKey(s) <=> r.key = s.key
<1>1. [c \in OrderBy |-> IF c \in r.has THEN r.val ELSE 0]
      = [c \in OrderBy |-> IF c \in s.has THEN s.val ELSE 0]
  OBVIOUS
<1> QED
  BY <1>1 DEF SortKey

\* A batch row is in unless the table has a later one of its key; a table row
\* stays unless the batch has one of its key at least as late.
LEMMA InsertByKey ==
    ASSUME OrderBy = {}, NEW R, NEW B
    PROVE  \A r : r \in Insert(R, B) <=>
               \/ r \in R /\ \A b \in B : b.key = r.key => b.ver < r.ver
               \/ r \in B /\ \A q \in R : q.key = r.key => q.ver <= r.ver
<1>1. \A r, q : SortKey(r) = SortKey(q) <=> r.key = q.key
  BY SortKeyIsKey
<1> QED
  BY <1>1 DEF Insert

LEMMA OneRowPerKey ==
    ASSUME OrderBy = {}, NEW R \in SUBSET Cell, NEW B \in SUBSET Cell,
           OnePerKey(R), OnePerKey(B)
    PROVE  OnePerKey(Insert(R, B))
<1> SUFFICES ASSUME NEW r \in Insert(R, B), NEW q \in Insert(R, B), r.key = q.key
             PROVE  r = q
  BY DEF OnePerKey
<1>1. \A c \in R \cup B : c.ver \in Nat
  BY DEF Cell
<1> QED
  BY <1>1, InsertByKey DEF OnePerKey

-----------------------------------------------------------------------------
(* Steps that load, change and finish nothing keep the rest of DriftInv.   *)

\* What a task may become without having read or inserted anything.
Idler(t, u) ==
    \/ u = t
    \/ u.kind = t.kind /\ u.pc \in {"read", "error"} /\ u.buf \subseteq t.buf

LEMMA QuietStep ==
    ASSUME DriftInv, TypeOK',
           UNCHANGED <<cur, phase, sver, last, loaded, cutover>>,
           target'.rows = target.rows, staging'.rows = staging.rows,
           \A k \in Keys : /\ row'[k].ver = row[k].ver /\ row'[k].live = row[k].live
                           /\ row'[k].early = row[k].early /\ row'[k].has \subseteq row[k].has,
           Busy' \subseteq Busy,
           \A w \in Workers : Idler(task[w], task'[w]),
           InUse' \subseteq InUse \cup {cols}
    PROVE  DriftInv'
<1>1. /\ target'.rows \subseteq Cell /\ staging'.rows \subseteq Cell
      /\ \A w \in Workers : task[w].buf \subseteq Cell /\ task'[w].buf \subseteq Cell
  BY DEF DriftInv, TypeOK, Table, Task
<1>2. \A r \in Cell : r.key \in Keys
  BY DEF Cell
<1>3. \A w \in Busy' : /\ w \in Busy /\ task'[w].kind = task[w].kind
                       /\ task'[w].pc \in {"insert", "ok"} => task'[w] = task[w]
  BY DEF Idler, Busy
<1>4. \A w \in Busy' : w \in Workers /\ task[w] \in Task
  BY DEF Busy, DriftInv, TypeOK
<1>5. InvSnapshot'
  <2> SUFFICES ASSUME Loading PROVE InvSnapshot'
    BY DEF InvSnapshot, Loading
  <2>1. \A R \in SUBSET Cell : AsPlanned(R) => AsPlanned(R)'
    BY <1>2 DEF AsPlanned
  <2>2. \A R, K : K \subseteq Keys /\ Loaded(R, K) => Loaded(R, K)'
    BY DEF Loaded
  <2>3. OnePerKey(staging'.rows) /\ AsPlanned(staging.rows)' /\ Loaded(staging.rows, loaded)'
    BY <1>1, <2>1, <2>2 DEF DriftInv, InvSnapshot, TypeOK
  <2>4. ASSUME NEW w \in Busy'
        PROVE  /\ task'[w].kind = "snap"
               /\ task'[w].pc = "insert" =>
                     /\ OnePerKey(task'[w].buf) /\ AsPlanned(task[w].buf)'
                     /\ Loaded(task[w].buf, task[w].part)'
               /\ task'[w].pc = "ok" => Loaded(staging.rows, task[w].part)'
    <3>1. task[w].kind = "snap" /\ task'[w].kind = "snap" /\ w \in Busy
      BY <1>3 DEF DriftInv, InvSnapshot
    <3>2. CASE task'[w].pc \in {"insert", "ok"}
      <4>1. task'[w] = task[w] /\ task[w].part \subseteq Keys /\ task[w].buf \subseteq Cell
        BY <1>3, <1>4, <3>2 DEF Task
      <4>2. CASE task[w].pc = "insert"
        <5>1. OnePerKey(task[w].buf) /\ AsPlanned(task[w].buf) /\ Loaded(task[w].buf, task[w].part)
          BY <3>1, <4>2 DEF DriftInv, InvSnapshot
        <5>2. AsPlanned(task[w].buf)'
          BY <1>2, <4>1, <5>1 DEF AsPlanned
        <5>3. Loaded(task[w].buf, task[w].part)'
          BY <4>1, <5>1 DEF Loaded
        <5> QED
          BY <3>1, <4>1, <4>2, <5>1, <5>2, <5>3
      <4>3. CASE task[w].pc = "ok"
        <5>1. Loaded(staging.rows, task[w].part)
          BY <3>1, <4>3 DEF DriftInv, InvSnapshot
        <5>2. Loaded(staging.rows, task[w].part)'
          BY <4>1, <5>1 DEF Loaded
        <5> QED
          BY <3>1, <4>1, <4>3, <5>2
      <4> QED
        BY <3>2, <4>1, <4>2, <4>3
    <3> QED
      BY <3>1, <3>2
  <2> QED
    BY <2>3, <2>4 DEF InvSnapshot
<1>6. InvCdc'
  <2> SUFFICES ASSUME phase' = "cdc" PROVE InvCdc'
    BY DEF InvCdc
  <2>1. /\ OnePerKey(target.rows)
        /\ \A k \in Keys : row[k].ver <= last => Exact(target.rows, k)
        /\ \A r \in target.rows : r.ver <= last \/ r.ver <= row[r.key].ver
        /\ \A v, w \in Busy : v = w
    BY DEF DriftInv, InvCdc
  <2>2. \A k \in Keys : row'[k].ver <= last => Exact(target.rows, k)'
    BY <2>1 DEF Exact
  <2>3. ASSUME NEW w \in Busy'
        PROVE  /\ task'[w].kind = "cdc"
               /\ task'[w].pc \in {"insert", "ok"} => last <= task'[w].ver
               /\ task'[w].pc = "insert" => ChangesOf(task[w])'
               /\ task'[w].pc = "ok" =>
                     \A k \in Keys : row'[k].ver <= task'[w].ver => Exact(target.rows, k)'
    <3>1. task[w].kind = "cdc" /\ task'[w].kind = "cdc" /\ w \in Busy
      BY <1>3 DEF DriftInv, InvCdc
    <3>2. CASE task'[w].pc = "insert"
      <4>1. task'[w] = task[w] /\ ChangesOf(task[w]) /\ last <= task[w].ver
        BY <1>3, <3>1, <3>2 DEF DriftInv, InvCdc
      <4>2. ChangesOf(task[w])'
        BY <1>1, <1>2, <1>4, <4>1 DEF ChangesOf, OnePerKey
      <4> QED
        BY <3>1, <3>2, <4>1, <4>2
    <3>3. CASE task'[w].pc = "ok"
      <4>1. /\ task'[w] = task[w] /\ last <= task[w].ver
            /\ \A k \in Keys : row[k].ver <= task[w].ver => Exact(target.rows, k)
        BY <1>3, <3>1, <3>3 DEF DriftInv, InvCdc
      <4>2. \A k \in Keys : row'[k].ver <= task'[w].ver => Exact(target.rows, k)'
        BY <4>1 DEF Exact
      <4> QED
        BY <3>1, <3>3, <4>1, <4>2
    <3> QED
      BY <3>1, <3>2, <3>3
  <2>4. OnePerKey(target.rows)' /\ \A r \in target'.rows : r.ver <= last' \/ r.ver <= row'[r.key].ver
    BY <1>1, <1>2, <2>1 DEF OnePerKey
  <2>5. \A v, w \in Busy' : v = w
    BY <2>1
  <2> QED
    BY <2>2, <2>3, <2>4, <2>5 DEF InvCdc
<1>7. InvValues'
  <2>1. \A r \in Cell : Kept(r) => Kept(r)'
    BY <1>2 DEF Kept
  <2>2. \A w \in Workers : task'[w].buf \subseteq task[w].buf
    BY DEF Idler
  <2>3. \A k \in Keys : row[k].has \subseteq cols
    BY DEF DriftInv, TypeOK
  <2>4. \A r \in target'.rows \cup staging'.rows : Kept(r)'
    BY <1>1, <2>1 DEF DriftInv, InvValues
  <2>5. \A w \in Workers : \A r \in task'[w].buf : Kept(r)'
    BY <1>1, <2>1, <2>2 DEF DriftInv, InvValues
  <2>6. \A k \in Keys : ~row'[k].early => \A S \in InUse' : row'[k].has \subseteq S
    BY <2>3 DEF DriftInv, InvValues
  <2> QED
    BY <2>4, <2>5, <2>6 DEF InvValues
<1>8. InvCutOver'
  <2> SUFFICES ASSUME cutover # "no" PROVE InvCutOver'
    BY DEF InvCutOver
  <2>1. Busy' = {} /\ (phase = "snapshot" \/ (phase = "new" /\ cutover = "interrupted"))
    BY DEF DriftInv, InvCutOver
  <2>2. ASSUME phase = "snapshot"
        PROVE  /\ loaded = Keys
               /\ (OnePerKey(target.rows) /\ AsPlanned(target.rows) /\ Loaded(target.rows, Keys))'
    <3>1. /\ loaded = Keys
          /\ OnePerKey(target.rows) /\ AsPlanned(target.rows) /\ Loaded(target.rows, Keys)
      BY <2>2 DEF DriftInv, InvCutOver
    <3> QED
      BY <1>1, <1>2, <3>1 DEF OnePerKey, AsPlanned, Loaded
  <2> QED
    BY <2>1, <2>2 DEF InvCutOver
<1> QED
  BY <1>5, <1>6, <1>7, <1>8 DEF DriftInv

LEMMA SourceStep ==
    ASSUME DriftInv, NEW c \in Columns, AddColumn(c) \/ DropColumn(c)
    PROVE  DriftInv'
<1>1. TypeOK'
  BY SourceType DEF DriftInv
<1>2. \A k \in Keys : /\ row'[k].ver = row[k].ver /\ row'[k].live = row[k].live
                      /\ row'[k].early = row[k].early /\ row'[k].has \subseteq row[k].has
  BY DEF DriftInv, TypeOK, AddColumn, DropColumn
<1>3. UNCHANGED <<cur, phase, sver, last, loaded, cutover, target, staging, task, schemas>>
  BY DEF AddColumn, DropColumn, supervisorVars, clickhouseVars, workerVars
<1>4. InUse' = InUse /\ Busy' = Busy
  BY <1>3 DEF InUse, Busy
<1> QED
  BY <1>1, <1>2, <1>3, <1>4, QuietStep DEF Idler

LEMMA ExpireStep ==
    ASSUME DriftInv, NEW w \in Workers, Expire(w)
    PROVE  DriftInv'
<1>1. TypeOK'
  BY ExpireType DEF DriftInv
<1>2. /\ UNCHANGED <<cur, row, phase, sver, last, loaded, cutover, target, staging, task>>
      /\ \A v \in Workers : schemas'[v] \subseteq schemas[v]
  BY DEF DriftInv, TypeOK, Expire, sourceVars, supervisorVars, clickhouseVars
<1>3. InUse' \subseteq InUse /\ Busy' = Busy
  BY <1>2 DEF InUse, Busy
<1> QED
  BY <1>1, <1>2, <1>3, QuietStep DEF Idler

\* A task that goes on, or fails, before it has inserted.
LEMMA IdleTask ==
    ASSUME DriftInv, TypeOK', NEW w \in Workers, NEW u, task[w].pc # "idle",
           task' = [task EXCEPT ![w] = u], Idler(task[w], u),
           u.pc \in {"ensure", "read"} =>
               u.schema = task[w].schema /\ task[w].pc \in {"ensure", "read"},
           UNCHANGED <<sourceVars, supervisorVars>>,
           \A v \in Workers : schemas'[v] \subseteq schemas[v],
           target'.rows = target.rows, staging'.rows = staging.rows
    PROVE  DriftInv'
<1>1. w \in Busy
  BY AtWork DEF DriftInv
<1>2. Busy' \subseteq Busy /\ \A v \in Workers : Idler(task[v], task'[v])
  BY <1>1 DEF Busy, DriftInv, TypeOK, Idler
<1>3. \A v \in Workers : task'[v].pc \in {"ensure", "read"} =>
          task'[v].schema = task[v].schema /\ task[v].pc \in {"ensure", "read"}
  BY DEF DriftInv, TypeOK
<1>4. InUse' \subseteq InUse
  <2> SUFFICES ASSUME NEW S \in InUse' PROVE S \in InUse
    OBVIOUS
  <2>1. CASE \E v \in Workers : S \in schemas'[v]
    BY <2>1 DEF InUse
  <2>2. CASE \E v \in Workers : task'[v].pc \in {"ensure", "read"} /\ S = task'[v].schema
    BY <1>3, <2>2 DEF InUse
  <2> QED
    BY <2>1, <2>2 DEF InUse
<1> QED
  BY <1>2, <1>4, QuietStep DEF sourceVars, supervisorVars

\* Columns are added to a table without its rows.
LEMMA WidenedRows ==
    ASSUME TypeOK, NEW t, NEW C \in SUBSET Columns,
           Writes(t, [TableOf(t) EXCEPT !.cols = @ \cup C])
    PROVE  target'.rows = target.rows /\ staging'.rows = staging.rows
<1>1. [TableOf(t) EXCEPT !.cols = @ \cup C].rows = TableOf(t).rows
  BY WidenedType
<1> QED
  BY <1>1 DEF Writes, TableOf

LEMMA EnsureStep ==
    ASSUME DriftInv, NEW w \in Workers, Ensure(w)
    PROVE  DriftInv'
<1>1. TypeOK /\ TypeOK' /\ task[w].pc = "ensure"
  BY EnsureType DEF DriftInv, Ensure
<1>2. task[w] \in Task /\ task[w].kind \in {"snap", "cdc"}
  BY <1>1, AtWork
<1>3. Missing(w) \in SUBSET Columns
  BY <1>2 DEF Missing, Task
<1>4. target'.rows = target.rows /\ staging'.rows = staging.rows
  BY <1>1, <1>3, WidenedRows DEF Ensure
<1> DEFINE u == [task[w] EXCEPT !.pc = "read"]
<1>5. task' = [task EXCEPT ![w] = u]
  BY DEF Ensure
<1>6. /\ u.kind = task[w].kind /\ u.pc = "read" /\ u.buf = task[w].buf
      /\ u.schema = task[w].schema
  BY <1>2 DEF Task
<1> HIDE DEF u
<1>7. Idler(task[w], u)
  BY <1>6 DEF Idler
<1> QED
  BY <1>1, <1>4, <1>5, <1>6, <1>7, IdleTask DEF Ensure

LEMMA RaiseStep ==
    ASSUME DriftInv, TypeOK', NEW w \in Workers, task[w].pc # "idle", Raise(w),
           target'.rows = target.rows, staging'.rows = staging.rows
    PROVE  DriftInv'
<1> DEFINE u == [NoTask EXCEPT !.kind = task[w].kind, !.part = task[w].part, !.pc = "error"]
<1>1. task' = [task EXCEPT ![w] = u]
  BY DEF Raise
<1>2. u.kind = task[w].kind /\ u.pc = "error" /\ u.buf = {}
  BY DEF NoTask
<1> HIDE DEF u
<1>3. Idler(task[w], u)
  BY <1>2 DEF Idler
<1>4. \A v \in Workers : schemas'[v] \subseteq schemas[v]
  BY DEF DriftInv, TypeOK, Raise, ForgetCaches
<1>5. UNCHANGED <<sourceVars, supervisorVars>>
  BY DEF Raise
<1> QED
  BY <1>1, <1>2, <1>3, <1>4, <1>5, IdleTask

LEMMA FailureStep ==
    ASSUME DriftInv, NEW w \in Workers, TaskFails(w) \/ ReadRaises(w) \/ InsertRaises(w)
    PROVE  DriftInv'
<1>1. TypeOK /\ TypeOK' /\ Raise(w) /\ task[w].pc # "idle"
  BY TaskFailsType, ReadRaisesType DEF DriftInv, TaskFails, ReadRaises, InsertRaises
<1>2. target'.rows = target.rows /\ staging'.rows = staging.rows
  <2>1. CASE ReadRaises(w) \/ InsertRaises(w)
    BY <2>1 DEF ReadRaises, InsertRaises, clickhouseVars
  <2>2. CASE TaskFails(w)
    <3>1. Missing(w) \in SUBSET Columns
      BY <1>1, AtWork DEF Missing, Task
    <3>2. PICK added \in SUBSET Missing(w) :
              Writes(task[w], [TableOf(task[w]) EXCEPT !.cols = @ \cup added])
      BY <2>2 DEF TaskFails
    <3> QED
      BY <1>1, <3>1, <3>2, WidenedRows
  <2> QED
    BY <2>1, <2>2
<1> QED
  BY <1>1, <1>2, RaiseStep

-----------------------------------------------------------------------------
(* The steps of the source and of the operator.                            *)

LEMMA InitDrift == Init => DriftInv
<1> SUFFICES ASSUME Init PROVE DriftInv
  OBVIOUS
<1>1. TypeOK
  BY InitType
<1>2. InvSnapshot /\ InvCutOver /\ InvCdc
  BY DEF Init, InvSnapshot, Loading, InvCutOver, InvCdc
<1>3. InvValues
  <2>1. target.rows = {} /\ staging.rows = {} /\ \A w \in Workers : task[w].buf = {}
    BY DEF Init, NoTable, NoTask
  <2>2. InUse = {}
    BY DEF Init, InUse, NoTask
  <2> QED
    BY <2>1, <2>2 DEF InvValues
<1> QED
  BY <1>1, <1>2, <1>3 DEF DriftInv

LEMMA RequestStep == DriftInv /\ Request => DriftInv'
<1> SUFFICES ASSUME DriftInv, Request PROVE DriftInv'
  OBVIOUS
<1>1. TypeOK'
  BY RequestType DEF DriftInv
<1>2. InvSnapshot' /\ InvCutOver' /\ InvCdc'
  BY DEF Request, DriftInv, InvSnapshot, Loading, InvCutOver, InvCdc, Busy, workerVars
<1>3. InvValues'
  BY DEF DriftInv, InvValues, Kept, InUse, Request, sourceVars, clickhouseVars, workerVars
<1> QED
  BY <1>1, <1>2, <1>3 DEF DriftInv

\* A commit concerns no checkpoint, no snapshot and no task that has read.
LEMMA CommitStep ==
    ASSUME DriftInv, NEW k \in Keys, Commit(k)
    PROVE  DriftInv'
<1>1. TypeOK /\ TypeOK'
  BY CommitType DEF DriftInv
<1>2. /\ cur \in Nat /\ cur' = cur + 1 /\ sver \in 0..cur /\ last \in 0..cur
      /\ UNCHANGED <<phase, sver, last, loaded, cutover, target, staging, task, schemas>>
  BY <1>1, DriftAssumption DEF TypeOK, Commit, supervisorVars, clickhouseVars, workerVars
<1>3. /\ row'[k].ver = cur + 1
      /\ ~row'[k].early => \A S \in InUse : cols \subseteq S
      /\ row'[k].has \subseteq cols
      /\ \A j \in Keys : j # k => row'[j] = row[j]
  BY <1>1 DEF Commit, TypeOK
<1>4. \A j \in Keys : row[j].ver \in 0..cur /\ row[j].ver <= row'[j].ver
                      /\ row'[j].ver \in Nat
                      /\ \A v \in 0..cur : row'[j].ver <= v => row'[j] = row[j]
  <2> SUFFICES ASSUME NEW j \in Keys
               PROVE  /\ row[j].ver \in 0..cur /\ row[j].ver <= row'[j].ver
                      /\ row'[j].ver \in Nat
                      /\ \A v \in 0..cur : row'[j].ver <= v => row'[j] = row[j]
    OBVIOUS
  <2>1. row[j].ver \in 0..cur
    BY <1>1 DEF TypeOK
  <2>2. CASE j = k
    BY <1>2, <1>3, <2>1, <2>2
  <2>3. CASE j # k
    BY <1>2, <1>3, <2>1, <2>3
  <2> QED
    BY <2>2, <2>3, <2>1
<1>5. \A r \in Cell : r.key \in Keys
  BY DEF Cell
<1>6. /\ target.rows \subseteq Cell /\ staging.rows \subseteq Cell
      /\ \A w \in Workers : task[w] \in Task /\ task[w].buf \subseteq Cell /\ task[w].ver <= cur
  BY <1>1 DEF TypeOK, Table, Task
<1>7. \A R \in SUBSET Cell : AsPlanned(R) => AsPlanned(R)'
  <2> SUFFICES ASSUME NEW R \in SUBSET Cell, AsPlanned(R), NEW r \in R
               PROVE  /\ r.ver = sver /\ r.live
                      /\ row'[r.key].ver <= sver => row'[r.key].live /\ r.val = row'[r.key].ver
    BY <1>2 DEF AsPlanned
  <2>1. r.key \in Keys
    BY <1>5
  <2> QED
    BY <1>2, <1>4, <2>1 DEF AsPlanned
<1>8. \A R \in SUBSET Cell, K \in SUBSET Keys : Loaded(R, K) => Loaded(R, K)'
  <2> SUFFICES ASSUME NEW R \in SUBSET Cell, NEW K \in SUBSET Keys, Loaded(R, K),
                      NEW j \in K, row'[j].live, row'[j].ver <= sver
               PROVE  \E r \in R : r.key = j
    BY <1>2 DEF Loaded
  <2>1. j \in Keys /\ row'[j] = row[j]
    BY <1>2, <1>4
  <2> QED
    BY <2>1 DEF Loaded
<1>9. Busy' = Busy
  BY <1>2 DEF Busy
<1>10. InvSnapshot'
  <2> SUFFICES ASSUME Loading PROVE InvSnapshot'
    BY <1>2 DEF InvSnapshot, Loading
  <2>1. /\ OnePerKey(staging.rows) /\ AsPlanned(staging.rows) /\ Loaded(staging.rows, loaded)
        /\ loaded \in SUBSET Keys
    BY <1>1, <1>2 DEF DriftInv, InvSnapshot, TypeOK
  <2>2. (OnePerKey(staging.rows) /\ AsPlanned(staging.rows) /\ Loaded(staging.rows, loaded))'
    BY <1>2, <1>6, <1>7, <1>8, <2>1
  <2>3. ASSUME NEW w \in Busy
        PROVE  (/\ task[w].kind = "snap"
                /\ task[w].pc = "insert" =>
                      /\ OnePerKey(task[w].buf) /\ AsPlanned(task[w].buf)
                      /\ Loaded(task[w].buf, task[w].part)
                /\ task[w].pc = "ok" => Loaded(staging.rows, task[w].part))'
    <3>1. /\ task[w].kind = "snap"
          /\ task[w].pc = "insert" =>
                /\ OnePerKey(task[w].buf) /\ AsPlanned(task[w].buf)
                /\ Loaded(task[w].buf, task[w].part)
          /\ task[w].pc = "ok" => Loaded(staging.rows, task[w].part)
      BY <1>2 DEF DriftInv, InvSnapshot
    <3>2. task[w].buf \in SUBSET Cell /\ task[w].part \in SUBSET Keys
      BY <1>6 DEF Busy, Task
    <3> QED
      BY <1>2, <1>6, <1>7, <1>8, <3>1, <3>2
  <2> QED
    BY <1>9, <2>2, <2>3 DEF InvSnapshot
<1>11. InvCdc'
  <2> SUFFICES ASSUME phase' = "cdc" PROVE InvCdc'
    BY DEF InvCdc
  <2>1. InvCdc /\ phase = "cdc"
    BY <1>2 DEF DriftInv
  <2>2. \A j \in Keys : row'[j].ver <= cur /\ Exact(target.rows, j) => Exact(target.rows, j)'
    BY <1>2, <1>4 DEF Exact
  <2>3. \A j \in Keys : row'[j].ver <= last => Exact(target.rows, j)'
    <3> SUFFICES ASSUME NEW j \in Keys, row'[j].ver <= last PROVE Exact(target.rows, j)'
      OBVIOUS
    <3>1. row'[j] = row[j] /\ row'[j].ver <= cur
      BY <1>2, <1>4
    <3> QED
      BY <2>1, <2>2, <3>1 DEF InvCdc
  <2>4. \A r \in target.rows : r.ver <= last \/ r.ver <= row'[r.key].ver
    BY <1>1, <1>4, <1>5, <1>6, <2>1 DEF InvCdc, TypeOK, Cell
  <2>5. ASSUME NEW w \in Busy
        PROVE  (/\ task[w].kind = "cdc"
                /\ task[w].pc \in {"insert", "ok"} => last <= task[w].ver
                /\ task[w].pc = "insert" => ChangesOf(task[w])
                /\ task[w].pc = "ok" =>
                      \A j \in Keys : row[j].ver <= task[w].ver => Exact(target.rows, j))'
    <3>1. w \in Workers /\ task[w].ver <= cur /\ task[w].ver \in Nat
      BY <1>6 DEF Busy, Task
    <3>2. task[w].pc = "insert" => ChangesOf(task[w])'
      <4> SUFFICES ASSUME task[w].pc = "insert" PROVE ChangesOf(task[w])'
        OBVIOUS
      <4>1. ChangesOf(task[w])
        BY <2>1 DEF InvCdc
      <4>2. \A r \in task[w].buf : r.key \in Keys /\ r.ver \in Nat
        BY <1>6, <3>1 DEF Cell
      <4> QED
        <5>1. OnePerKey(task[w].buf)'
          BY <1>2, <4>1 DEF ChangesOf, OnePerKey
        <5>2. \A r \in task[w].buf :
                  /\ last < r.ver /\ r.ver <= row'[r.key].ver
                  /\ row'[r.key].ver <= task[w].ver =>
                        r.ver = row'[r.key].ver /\ r.val = r.ver /\ r.live = row'[r.key].live
          <6> SUFFICES ASSUME NEW r \in task[w].buf
                       PROVE  /\ last < r.ver /\ r.ver <= row'[r.key].ver
                              /\ row'[r.key].ver <= task[w].ver =>
                                    r.ver = row'[r.key].ver /\ r.val = r.ver /\ r.live = row'[r.key].live
            OBVIOUS
          <6>1. r.key \in Keys /\ r.ver \in Nat /\ task[w].ver \in 0..cur
            BY <1>2, <3>1, <4>2
          <6>2. row[r.key].ver <= row'[r.key].ver /\ row[r.key].ver \in Nat /\ row'[r.key].ver \in Nat
            BY <1>4, <6>1
          <6>3. row'[r.key].ver <= task[w].ver => row'[r.key] = row[r.key]
            BY <1>4, <6>1
          <6> QED
            BY <4>1, <6>1, <6>2, <6>3 DEF ChangesOf
        <5>3. \A j \in Keys : last < row'[j].ver /\ row'[j].ver <= task[w].ver =>
                  \E r \in task[w].buf : r.key = j
          <6>1. \A j \in Keys : row'[j].ver <= task[w].ver => row'[j] = row[j]
            BY <1>2, <1>4, <3>1
          <6> QED
            BY <4>1, <6>1 DEF ChangesOf
        <5> QED
          BY <1>2, <5>1, <5>2, <5>3 DEF ChangesOf
    <3>3. task[w].pc = "ok" =>
              \A j \in Keys : row'[j].ver <= task[w].ver => Exact(target.rows, j)'
      <4> SUFFICES ASSUME task[w].pc = "ok", NEW j \in Keys, row'[j].ver <= task[w].ver
                   PROVE  Exact(target.rows, j)'
        OBVIOUS
      <4>1. row'[j].ver <= cur /\ row'[j] = row[j]
        <5>1. row'[j].ver \in Nat
          BY <1>1 DEF TypeOK
        <5> QED
          BY <1>2, <1>4, <3>1, <5>1
      <4> QED
        BY <2>1, <2>2, <4>1 DEF InvCdc
    <3> QED
      BY <1>2, <2>1, <3>2, <3>3 DEF InvCdc
  <2> QED
    BY <1>2, <1>9, <2>1, <2>3, <2>4, <2>5 DEF InvCdc, OnePerKey
<1>12. InvValues'
  <2>1. \A r \in Cell : Kept(r) => Kept(r)'
    <3> SUFFICES ASSUME NEW r \in Cell, Kept(r) PROVE Kept(r)'
      OBVIOUS
    <3>1. r.key \in Keys /\ r.val \in Nat
      BY DEF Cell
    <3>2. CASE r.key = k
      BY <1>2, <1>3, <3>1, <3>2 DEF Kept
    <3>3. CASE r.key # k
      BY <1>2, <1>3, <3>1, <3>3 DEF Kept
    <3> QED
      BY <3>2, <3>3
  <2>2. InUse' = InUse
    BY <1>2 DEF InUse
  <2>3. \A j \in Keys : ~row'[j].early => \A S \in InUse : row'[j].has \subseteq S
    <3> SUFFICES ASSUME NEW j \in Keys, ~row'[j].early, NEW S \in InUse
                 PROVE  row'[j].has \subseteq S
      OBVIOUS
    <3>1. CASE j = k
      BY <1>3, <3>1
    <3>2. CASE j # k
      BY <1>3, <3>2 DEF DriftInv, InvValues
    <3> QED
      BY <3>1, <3>2
  <2> QED
    BY <1>2, <1>6, <2>1, <2>2, <2>3 DEF DriftInv, InvValues
<1>13. InvCutOver'
  <2> SUFFICES ASSUME cutover # "no" PROVE InvCutOver'
    BY <1>2 DEF InvCutOver
  <2>1. Busy = {} /\ (phase = "snapshot" \/ (phase = "new" /\ cutover = "interrupted"))
    BY DEF DriftInv, InvCutOver
  <2>2. ASSUME phase = "snapshot"
        PROVE  /\ loaded = Keys
               /\ (OnePerKey(target.rows) /\ AsPlanned(target.rows) /\ Loaded(target.rows, Keys))'
    <3>1. /\ loaded = Keys
          /\ OnePerKey(target.rows) /\ AsPlanned(target.rows) /\ Loaded(target.rows, Keys)
      BY <2>2 DEF DriftInv, InvCutOver
    <3>2. Keys \in SUBSET Keys
      OBVIOUS
    <3>3. OnePerKey(target.rows)'
      BY <1>2, <3>1 DEF OnePerKey
    <3>4. (AsPlanned(target.rows) /\ Loaded(target.rows, Keys))'
      BY <1>2, <1>6, <1>7, <1>8, <3>1, <3>2
    <3> QED
      BY <3>1, <3>3, <3>4
  <2> QED
    BY <1>2, <1>9, <2>1, <2>2 DEF InvCutOver
<1> QED
  BY <1>1, <1>10, <1>11, <1>12, <1>13 DEF DriftInv

-----------------------------------------------------------------------------
(* The supervisor's steps.                                                 *)

LEMMA PlanStep == DriftInv /\ Plan => DriftInv'
<1> SUFFICES ASSUME DriftInv, Plan PROVE DriftInv'
  OBVIOUS
<1>1. TypeOK'
  BY PlanType DEF DriftInv
<1>2. CreateTable.rows = {}
  BY DEF CreateTable
<1>3. /\ phase' = "snapshot" /\ staging'.rows = {} /\ loaded' = {} /\ Busy = {}
      /\ cutover' = "no"
      /\ UNCHANGED <<cur, row, task, schemas>>
      /\ target'.rows \subseteq target.rows
  BY <1>2 DEF Plan, sourceVars, workerVars
<1>4. Busy' = {}
  BY <1>3 DEF Busy
<1>5. InvSnapshot'
  BY <1>3, <1>4 DEF InvSnapshot, OnePerKey, AsPlanned, Loaded
<1>6. InvCdc' /\ InvCutOver'
  BY <1>3 DEF InvCdc, InvCutOver
<1>7. InvValues'
  BY <1>3 DEF DriftInv, InvValues, Kept, InUse
<1> QED
  BY <1>1, <1>5, <1>6, <1>7 DEF DriftInv

\* The exchange makes what was loaded the live table.
LEMMA ExchangeStep == DriftInv /\ Exchange => DriftInv'
<1> SUFFICES ASSUME DriftInv, Exchange PROVE DriftInv'
  OBVIOUS
<1>1. TypeOK'
  BY CutOverType DEF DriftInv, CutOverStep
<1>2. /\ phase = "snapshot" /\ loaded = Keys /\ Busy = {} /\ cutover = "no"
      /\ target' = staging /\ staging' = target /\ cutover' = "swapped"
      /\ UNCHANGED <<cur, row, phase, sver, loaded, task, schemas>>
  BY DEF Exchange, sourceVars, workerVars
<1>3. Busy' = {}
  BY <1>2 DEF Busy
<1>4. OnePerKey(staging.rows) /\ AsPlanned(staging.rows) /\ Loaded(staging.rows, Keys)
  BY <1>2 DEF DriftInv, InvSnapshot, Loading
<1>5. (OnePerKey(target.rows) /\ AsPlanned(target.rows) /\ Loaded(target.rows, Keys))'
  BY <1>2, <1>4 DEF OnePerKey, AsPlanned, Loaded
<1>6. InvSnapshot' /\ InvCdc' /\ InvCutOver'
  BY <1>2, <1>3, <1>5 DEF InvSnapshot, Loading, InvCdc, InvCutOver
<1>7. InvValues'
  BY <1>2 DEF DriftInv, InvValues, Kept, InUse
<1> QED
  BY <1>1, <1>6, <1>7 DEF DriftInv

\* Until the supervisor's memory changes the live table stays as exchanged.
LEMMA CutOverGoesOn ==
    ASSUME DriftInv, DropStaging \/ CutOverFails \/ CutOverAgain
    PROVE  DriftInv'
<1>1. TypeOK'
  BY CutOverType DEF DriftInv, CutOverStep
<1>2. /\ cutover # "no" /\ cutover' # "no" /\ staging' \in {staging, NoTable}
      /\ phase = "snapshot"
      /\ UNCHANGED <<cur, row, phase, sver, loaded, target, task, schemas>>
  BY DEF DropStaging, CutOverFails, CutOverAgain, DriftInv, InvCutOver,
         sourceVars, clickhouseVars, workerVars
<1>3. Busy' = Busy
  BY <1>2 DEF Busy
<1>4. InvCutOver
  BY DEF DriftInv
<1>5. InvSnapshot' /\ InvCdc' /\ InvCutOver'
  BY <1>2, <1>3, <1>4
  DEF InvSnapshot, Loading, InvCdc, InvCutOver, OnePerKey, AsPlanned, Loaded
<1>6. staging'.rows \subseteq staging.rows
  BY <1>2 DEF NoTable
<1>7. InvValues'
  BY <1>2, <1>6 DEF DriftInv, InvValues, Kept, InUse
<1> QED
  BY <1>1, <1>5, <1>7 DEF DriftInv

\* A loaded snapshot is exact up to its version and has no other rows.
LEMMA FinalizeStep == DriftInv /\ Finalize => DriftInv'
<1> SUFFICES ASSUME DriftInv, Finalize PROVE DriftInv'
  OBVIOUS
<1>1. TypeOK'
  BY CutOverType DEF DriftInv, CutOverStep
<1>2. /\ cutover = "dropped" /\ cutover' = "no" /\ phase' = "cdc" /\ last' = sver
      /\ UNCHANGED <<cur, row, sver, target, staging, task, schemas>>
  BY DEF Finalize, sourceVars, workerVars
<1>3. /\ Busy = {}
      /\ OnePerKey(target.rows) /\ AsPlanned(target.rows) /\ Loaded(target.rows, Keys)
  BY <1>2 DEF DriftInv, InvCutOver
<1>4. Busy' = {}
  BY <1>2, <1>3 DEF Busy
<1>5. target.rows \subseteq Cell /\ \A r \in Cell : r.key \in Keys /\ r.ver \in Nat
  BY DEF DriftInv, TypeOK, Table, Cell
<1>6. InvCdc'
  <2>1. \A k \in Keys : row[k].ver <= sver => Exact(target.rows, k)
    BY <1>3, <1>5 DEF AsPlanned, Loaded, Exact
  <2>2. \A k \in Keys : row'[k].ver <= last' => Exact(target.rows, k)'
    BY <1>2, <2>1 DEF Exact
  <2>3. \A r \in target'.rows : r.ver <= last'
    BY <1>2, <1>3, <1>5 DEF AsPlanned
  <2>4. OnePerKey(target.rows)'
    BY <1>2, <1>3 DEF OnePerKey
  <2> QED
    BY <1>4, <2>2, <2>3, <2>4 DEF InvCdc
<1>7. InvSnapshot' /\ InvCutOver'
  BY <1>2 DEF InvSnapshot, Loading, InvCutOver
<1>8. InvValues'
  BY <1>2 DEF DriftInv, InvValues, Kept, InUse
<1> QED
  BY <1>1, <1>6, <1>7, <1>8 DEF DriftInv

\* The schema a task starts with has the columns of every row that is not early.
LEMMA StartStep ==
    ASSUME DriftInv, NEW w \in Workers, Submit(w)
    PROVE  DriftInv'
<1>1. PICK kind \in {"snap", "cdc"}, part \in SUBSET Keys :
       /\ Start(w, kind, part)
       /\ \/ kind = "snap" /\ phase = "snapshot" /\ loaded # Keys
          \/ kind = "cdc" /\ phase = "cdc" /\ Busy = {}
  <2>1. CASE phase = "snapshot" /\ \E k \in Keys \ loaded : Start(w, "snap", {k})
    <3>1. PICK k \in Keys \ loaded : Start(w, "snap", {k})
      BY <2>1
    <3>2. {k} \in SUBSET Keys /\ loaded # Keys
      OBVIOUS
    <3> QED
      BY <2>1, <3>1, <3>2
  <2>2. CASE phase = "cdc" /\ Busy = {} /\ Start(w, "cdc", Keys)
    <3>1. Keys \in SUBSET Keys
      OBVIOUS
    <3> QED
      BY <2>2, <3>1
  <2> QED
    BY <2>1, <2>2 DEF Submit
<1>2. TypeOK /\ TypeOK'
  BY <1>1, StartType DEF DriftInv
<1> DEFINE t == [NoTask EXCEPT
          !.kind = kind, !.pc = "ensure", !.part = part, !.schema = Schema(w)]
<1>3. task' = [task EXCEPT ![w] = t]
  BY <1>1 DEF Start
<1>4. t.kind = kind /\ t.pc = "ensure" /\ t.buf = {} /\ t.schema = Schema(w)
  BY DEF NoTask
<1> HIDE DEF t
<1>5. task'[w] = t /\ \A v \in Workers : v # w => task'[v] = task[v]
  BY <1>2, <1>3 DEF TypeOK
<1>6. UNCHANGED <<cur, cols, row, target, staging, phase, sver, last, loaded, cutover>>
  BY <1>1 DEF Start, sourceVars, supervisorVars, clickhouseVars
<1>7. \A v \in Busy' : v = w \/ (v \in Busy /\ task'[v] = task[v])
  <2> SUFFICES ASSUME NEW v \in Busy', v # w PROVE v \in Busy /\ task'[v] = task[v]
    OBVIOUS
  <2>1. v \in Workers /\ task'[v] # NoTask
    BY DEF Busy
  <2> QED
    BY <1>5, <2>1 DEF Busy
<1>8. InvSnapshot'
  <2> SUFFICES ASSUME Loading PROVE InvSnapshot'
    BY <1>6 DEF InvSnapshot, Loading
  <2>1. InvSnapshot /\ kind = "snap"
    BY <1>1 DEF DriftInv, Loading
  <2>2. (OnePerKey(staging.rows) /\ AsPlanned(staging.rows) /\ Loaded(staging.rows, loaded))'
    BY <1>6, <2>1 DEF InvSnapshot, OnePerKey, AsPlanned, Loaded
  <2>3. ASSUME NEW v \in Busy'
        PROVE  (/\ task[v].kind = "snap"
                /\ task[v].pc = "insert" =>
                      /\ OnePerKey(task[v].buf) /\ AsPlanned(task[v].buf)
                      /\ Loaded(task[v].buf, task[v].part)
                /\ task[v].pc = "ok" => Loaded(staging.rows, task[v].part))'
    <3>1. CASE v = w
      BY <1>4, <1>5, <2>1, <3>1
    <3>2. CASE v \in Busy /\ task'[v] = task[v]
      BY <1>6, <2>1, <3>2 DEF InvSnapshot, OnePerKey, AsPlanned, Loaded
    <3> QED
      BY <1>7, <3>1, <3>2
  <2> QED
    BY <2>2, <2>3 DEF InvSnapshot
<1>9. InvCdc'
  <2> SUFFICES ASSUME phase = "cdc" PROVE InvCdc'
    BY <1>6 DEF InvCdc
  <2>1. InvCdc /\ kind = "cdc" /\ Busy = {}
    BY <1>1 DEF DriftInv
  <2>2. \A v \in Busy' : v = w
    BY <1>7, <2>1
  <2>3. \A v \in Busy' : task'[v].kind = "cdc" /\ task'[v].pc = "ensure"
    BY <1>4, <1>5, <2>1, <2>2
  <2> QED
    BY <1>6, <2>1, <2>2, <2>3 DEF InvCdc, OnePerKey, Exact
<1>10. InvValues'
  <2>1. \A r : Kept(r) <=> Kept(r)'
    BY <1>6 DEF Kept
  <2>2. InUse' \subseteq InUse \cup {cols}
    <3>1. Schema(w) \in schemas[w] \cup {cols}
      BY SchemaInUse
    <3>2. \A v \in Workers : \A S \in schemas'[v] : S \in InUse \cup {cols}
      BY <1>1, <1>2, <3>1 DEF Start, TypeOK, InUse
    <3>3. \A v \in Workers : task'[v].pc \in {"ensure", "read"} => task'[v].schema \in InUse \cup {cols}
      <4> SUFFICES ASSUME NEW v \in Workers, task'[v].pc \in {"ensure", "read"}
                   PROVE  task'[v].schema \in InUse \cup {cols}
        OBVIOUS
      <4>1. CASE v = w
        BY <1>4, <1>5, <3>1, <4>1, InUseMembers
      <4>2. CASE v # w
        BY <1>5, <4>2, InUseMembers
      <4> QED
        BY <4>1, <4>2
    <3> SUFFICES ASSUME NEW S \in InUse' PROVE S \in InUse \cup {cols}
      OBVIOUS
    <3>4. CASE \E v \in Workers : S \in schemas'[v]
      BY <3>2, <3>4
    <3>5. CASE \E v \in Workers : task'[v].pc \in {"ensure", "read"} /\ S = task'[v].schema
      BY <3>3, <3>5
    <3> QED
      BY <3>4, <3>5, InUseMembers
  <2>3. \A k \in Keys : row[k].has \subseteq cols
    BY <1>2 DEF TypeOK
  <2>4. \A k \in Keys : ~row'[k].early => \A S \in InUse' : row'[k].has \subseteq S
    BY <1>6, <2>2, <2>3 DEF DriftInv, InvValues
  <2>5. \A v \in Workers : \A r \in task'[v].buf : Kept(r)
    BY <1>4, <1>5 DEF DriftInv, InvValues
  <2> QED
    BY <1>6, <2>1, <2>4, <2>5 DEF DriftInv, InvValues
<1>11. InvCutOver'
  <2>1. cutover = "no"
    BY <1>1 DEF DriftInv, InvCutOver
  <2> QED
    BY <1>6, <2>1 DEF InvCutOver
<1> QED
  BY <1>2, <1>8, <1>9, <1>10, <1>11 DEF DriftInv

\* What a task reported becomes the supervisor's.
LEMMA CollectStep ==
    ASSUME DriftInv, NEW w \in Workers, Collect(w)
    PROVE  DriftInv'
<1>1. TypeOK /\ TypeOK' /\ task[w].pc \in {"ok", "error"}
  BY CollectType DEF DriftInv, Collect
<1>2. task[w] \in Task /\ w \in Busy
  BY <1>1, AtWork
<1>3. task'[w] = NoTask /\ \A v \in Workers : v # w => task'[v] = task[v]
  BY <1>1 DEF Collect, TypeOK
<1>4. /\ UNCHANGED <<cur, row, target, staging, phase, sver, cutover, schemas>>
      /\ loaded' = IF task[w].pc = "ok" /\ task[w].kind = "snap" THEN loaded \cup task[w].part ELSE loaded
      /\ last' = IF task[w].pc = "ok" /\ task[w].kind = "cdc" THEN task[w].ver ELSE last
  BY DEF Collect, sourceVars, clickhouseVars
<1>5. \A v \in Busy' : v \in Busy /\ v # w /\ task'[v] = task[v]
  BY <1>3 DEF Busy
<1>6. InvSnapshot'
  <2> SUFFICES ASSUME Loading PROVE InvSnapshot'
    BY <1>4 DEF InvSnapshot, Loading
  <2>1. InvSnapshot
    BY DEF DriftInv
  <2>2. Loaded(staging.rows, loaded)'
    BY <1>2, <1>4, <2>1 DEF InvSnapshot, Loaded
  <2>3. (OnePerKey(staging.rows) /\ AsPlanned(staging.rows))'
    BY <1>4, <2>1 DEF InvSnapshot, OnePerKey, AsPlanned
  <2>4. ASSUME NEW v \in Busy'
        PROVE  (/\ task[v].kind = "snap"
                /\ task[v].pc = "insert" =>
                      /\ OnePerKey(task[v].buf) /\ AsPlanned(task[v].buf)
                      /\ Loaded(task[v].buf, task[v].part)
                /\ task[v].pc = "ok" => Loaded(staging.rows, task[v].part))'
    BY <1>4, <1>5, <2>1 DEF InvSnapshot, OnePerKey, AsPlanned, Loaded
  <2> QED
    BY <2>2, <2>3, <2>4 DEF InvSnapshot
<1>7. InvCdc'
  <2> SUFFICES ASSUME phase = "cdc" PROVE InvCdc'
    BY <1>4 DEF InvCdc
  <2>1. InvCdc
    BY DEF DriftInv
  <2>2. Busy' = {}
    BY <1>2, <1>5, <2>1 DEF InvCdc
  <2>3. last <= last' /\ last \in Nat /\ last' \in Nat
    <3>1. last \in Nat /\ task[w].ver \in Nat
      BY <1>1, <1>2, DriftAssumption DEF TypeOK, Task
    <3>2. task[w].pc = "ok" => last <= task[w].ver
      BY <1>2, <2>1 DEF InvCdc
    <3> QED
      BY <1>4, <3>1, <3>2
  <2>4. \A k \in Keys : row[k].ver <= last' => Exact(target.rows, k)
    BY <1>2, <1>4, <2>1 DEF InvCdc
  <2>5. \A r \in target.rows : r.ver <= last' \/ r.ver <= row[r.key].ver
    <3>1. \A r \in target.rows : r.ver \in Nat
      BY <1>1 DEF TypeOK, Table, Cell
    <3> QED
      BY <2>1, <2>3, <3>1 DEF InvCdc
  <2>6. OnePerKey(target.rows)
    BY <2>1 DEF InvCdc
  <2> QED
    BY <1>4, <2>2, <2>4, <2>5, <2>6 DEF InvCdc, OnePerKey, Exact
<1>8. InvValues'
  <2>1. \A r : Kept(r) <=> Kept(r)'
    BY <1>4 DEF Kept
  <2>2. InUse' \subseteq InUse
    BY <1>3, <1>4 DEF InUse, NoTask
  <2>3. \A v \in Workers : task'[v].buf \subseteq task[v].buf
    BY <1>3 DEF NoTask
  <2> QED
    BY <1>4, <2>1, <2>2, <2>3 DEF DriftInv, InvValues
<1>9. InvCutOver'
  BY <1>2, <1>4 DEF DriftInv, InvCutOver
<1> QED
  BY <1>1, <1>6, <1>7, <1>8, <1>9 DEF DriftInv

-----------------------------------------------------------------------------
(* The workers' steps.                                                     *)

\* The rows of a part, or the changes since the checkpoint, as they are now.
LEMMA ReadStep ==
    ASSUME DriftInv, NEW w \in Workers, Read(w)
    PROVE  DriftInv'
<1>1. TypeOK /\ TypeOK' /\ task[w].pc = "read"
  BY ReadType DEF DriftInv, Read
<1>2. task[w] \in Task /\ task[w].kind \in {"snap", "cdc"} /\ w \in Busy
  BY <1>1, AtWork
<1> DEFINE t == task[w]
           B == IF t.kind = "snap"
                THEN {Content(k, sver, t.schema) : k \in {k \in t.part : row[k].live}}
                ELSE {Content(k, row[k].ver, t.schema) : k \in {k \in Keys : row[k].ver > last}}
           u == [t EXCEPT !.pc = "insert", !.ver = cur, !.buf = B]
<1>3. task' = [task EXCEPT ![w] = u]
  BY DEF Read
<1>4. u.kind = t.kind /\ u.part = t.part /\ u.pc = "insert" /\ u.ver = cur /\ u.buf = B
  BY <1>2 DEF Task
<1>5. t.kind = "snap" => \A r : r \in B <=> \E k \in t.part : row[k].live /\ r = Content(k, sver, t.schema)
  OBVIOUS
<1>6. t.kind = "cdc" => \A r : r \in B <=> \E k \in Keys : row[k].ver > last /\ r = Content(k, row[k].ver, t.schema)
  OBVIOUS
<1> HIDE DEF B, u
<1>7. task'[w] = u /\ \A v \in Workers : v # w => task'[v] = task[v]
  BY <1>1, <1>3 DEF TypeOK
<1>8. UNCHANGED <<cur, cols, row, target, staging, phase, sver, last, loaded, cutover, schemas>>
  BY DEF Read, sourceVars, supervisorVars, clickhouseVars
<1>9. \A v \in Busy' : v = w \/ (v \in Busy /\ task'[v] = task[v])
  BY <1>7 DEF Busy
<1>10. t.part \subseteq Keys
  BY <1>2 DEF Task
<1>11. InvSnapshot'
  <2> SUFFICES ASSUME Loading PROVE InvSnapshot'
    BY <1>8 DEF InvSnapshot, Loading
  <2>1. InvSnapshot /\ t.kind = "snap"
    BY <1>2 DEF DriftInv, InvSnapshot
  <2>2. (OnePerKey(staging.rows) /\ AsPlanned(staging.rows) /\ Loaded(staging.rows, loaded))'
    BY <1>8, <2>1 DEF InvSnapshot, OnePerKey, AsPlanned, Loaded
  <2>3. OnePerKey(B) /\ AsPlanned(B) /\ Loaded(B, t.part)
    <3>1. \A k, v, S : /\ Content(k, v, S).key = k /\ Content(k, v, S).ver = v
                       /\ Content(k, v, S).val = row[k].ver /\ Content(k, v, S).live = row[k].live
      BY DEF Content
    <3>2. \A r \in B : r.key \in t.part /\ row[r.key].live /\ r = Content(r.key, sver, t.schema)
      BY <1>5, <2>1, <3>1
    <3>3. \A k \in t.part : row[k].live => Content(k, sver, t.schema) \in B
      BY <1>5, <2>1
    <3>4. OnePerKey(B)
      BY <3>2 DEF OnePerKey
    <3>5. \A r \in B : r.ver = sver /\ r.live = row[r.key].live /\ r.val = row[r.key].ver
      BY <3>1, <3>2
    <3>6. AsPlanned(B)
      BY <3>2, <3>5 DEF AsPlanned
    <3>7. Loaded(B, t.part)
      BY <3>1, <3>3 DEF Loaded
    <3> QED
      BY <3>4, <3>6, <3>7
  <2>4. ASSUME NEW v \in Busy'
        PROVE  (/\ task[v].kind = "snap"
                /\ task[v].pc = "insert" =>
                      /\ OnePerKey(task[v].buf) /\ AsPlanned(task[v].buf)
                      /\ Loaded(task[v].buf, task[v].part)
                /\ task[v].pc = "ok" => Loaded(staging.rows, task[v].part))'
    <3>1. CASE v = w
      BY <1>4, <1>7, <1>8, <2>1, <2>3, <3>1 DEF OnePerKey, AsPlanned, Loaded
    <3>2. CASE v \in Busy /\ task'[v] = task[v]
      BY <1>8, <2>1, <3>2 DEF InvSnapshot, OnePerKey, AsPlanned, Loaded
    <3> QED
      BY <1>9, <3>1, <3>2
  <2> QED
    BY <2>2, <2>4 DEF InvSnapshot
<1>12. InvCdc'
  <2> SUFFICES ASSUME phase = "cdc" PROVE InvCdc'
    BY <1>8 DEF InvCdc
  <2>1. InvCdc /\ t.kind = "cdc" /\ Busy = {w}
    BY <1>2 DEF DriftInv, InvCdc
  <2>2. \A v \in Busy' : v = w
    BY <1>9, <2>1
  <2>3. \A k \in Keys : row[k].ver \in Nat
    BY <1>1 DEF TypeOK
  <2>4. last \in Nat /\ cur \in Nat /\ last <= cur
    BY <1>1, DriftAssumption DEF TypeOK
  <2>5. ChangesOf(u)
    <3>1. \A k, v, S : /\ Content(k, v, S).key = k /\ Content(k, v, S).ver = v
                       /\ Content(k, v, S).val = row[k].ver /\ Content(k, v, S).live = row[k].live
      BY DEF Content
    <3>2. \A r \in B : r.key \in Keys /\ row[r.key].ver > last
                       /\ r = Content(r.key, row[r.key].ver, t.schema)
      BY <1>6, <2>1, <3>1
    <3>3. \A k \in Keys : row[k].ver > last => Content(k, row[k].ver, t.schema) \in B
      BY <1>6, <2>1
    <3>4. OnePerKey(B)
      BY <3>2 DEF OnePerKey
    <3>5. \A r \in B : r.ver = row[r.key].ver /\ r.live = row[r.key].live /\ r.val = row[r.key].ver
      BY <3>1, <3>2
    <3>6. \A r \in B : last < r.ver /\ r.ver <= row[r.key].ver
      BY <2>3, <2>4, <3>2, <3>5
    <3>7. \A k \in Keys : last < row[k].ver => \E r \in B : r.key = k
      BY <2>3, <2>4, <3>1, <3>3
    <3> QED
      BY <1>4, <3>4, <3>5, <3>6, <3>7 DEF ChangesOf
  <2>6. ASSUME NEW v \in Busy'
        PROVE  (/\ task[v].kind = "cdc"
                /\ task[v].pc \in {"insert", "ok"} => last <= task[v].ver
                /\ task[v].pc = "insert" => ChangesOf(task[v])
                /\ task[v].pc = "ok" =>
                      \A k \in Keys : row[k].ver <= task[v].ver => Exact(target.rows, k))'
    <3>1. task'[v] = u
      BY <1>7, <2>2
    <3>2. ChangesOf(task[v])'
      BY <1>8, <2>5, <3>1 DEF ChangesOf, OnePerKey
    <3> QED
      BY <1>4, <1>8, <2>1, <2>4, <3>1, <3>2
  <2> QED
    BY <1>8, <2>1, <2>2, <2>6 DEF InvCdc, OnePerKey, Exact
<1>13. InvValues'
  <2>1. \A r : Kept(r) <=> Kept(r)'
    BY <1>8 DEF Kept
  <2>2. InUse' \subseteq InUse
    BY <1>4, <1>7, <1>8, InUseMembers
  <2>3. t.schema \in InUse
    BY <1>1, InUseMembers
  <2>4. \A k \in Keys : ~row[k].early => row[k].has \subseteq t.schema
    BY <2>3 DEF DriftInv, InvValues
  <2>5. \A k \in Keys : \A v : Kept(Content(k, v, t.schema))
    <3>1. \A k \in Keys : row[k].ver <= cur
      BY <1>1, DriftAssumption DEF TypeOK
    <3> QED
      BY <2>4, <3>1 DEF Kept, Content
  <2>6. \A r \in B : Kept(r)
    BY <1>2, <1>5, <1>6, <1>10, <2>5
  <2>7. \A v \in Workers : \A r \in task'[v].buf : Kept(r)
    BY <1>4, <1>7, <2>6 DEF DriftInv, InvValues
  <2> QED
    BY <1>8, <2>1, <2>2, <2>7 DEF DriftInv, InvValues
<1>14. InvCutOver'
  BY <1>2, <1>8 DEF DriftInv, InvCutOver
<1> QED
  BY <1>1, <1>11, <1>12, <1>13, <1>14 DEF DriftInv

\* Parts of one snapshot are of one version: what is inserted again replaces,
\* what was there of other parts stays.
LEMMA InsertPart ==
    ASSUME OrderBy = {}, NEW R \in SUBSET Cell, NEW B \in SUBSET Cell,
           AsPlanned(R), AsPlanned(B)
    PROVE  /\ AsPlanned(Insert(R, B))
           /\ \A K : Loaded(R, K) \/ Loaded(B, K) => Loaded(Insert(R, B), K)
<1>1. AsPlanned(Insert(R, B))
  BY InsertSubset DEF AsPlanned
<1>2. \A r \in R \cup B : r.ver = sver /\ r.ver \in Nat
  BY DEF AsPlanned, Cell
<1>3. \A b \in B : b \in Insert(R, B)
  BY <1>2, InsertByKey
<1>4. \A r \in R : \E q \in Insert(R, B) : q.key = r.key
  <2> SUFFICES ASSUME NEW r \in R PROVE \E q \in Insert(R, B) : q.key = r.key
    OBVIOUS
  <2>1. CASE \E b \in B : b.key = r.key
    BY <1>3, <2>1
  <2>2. CASE ~\E b \in B : b.key = r.key
    BY <2>2, InsertByKey
  <2> QED
    BY <2>1, <2>2
<1> QED
  BY <1>1, <1>3, <1>4 DEF Loaded

\* No row of the table outranks a change: the changes up to the version read
\* replace what is there, the other keys' rows stay.
LEMMA InsertChanges ==
    ASSUME OrderBy = {}, NEW t \in Task, TypeOK, ChangesOf(t), OnePerKey(target.rows),
           \A r \in target.rows : r.ver <= last \/ r.ver <= row[r.key].ver,
           \A k \in Keys : row[k].ver <= last => Exact(target.rows, k)
    PROVE  /\ \A k \in Keys : row[k].ver <= t.ver \/ row[k].ver <= last =>
                  Exact(Insert(target.rows, t.buf), k)
           /\ \A r \in Insert(target.rows, t.buf) : r.ver <= last \/ r.ver <= row[r.key].ver
<1> DEFINE R == target.rows
           B == t.buf
           I == Insert(R, B)
<1>1. R \subseteq Cell /\ B \subseteq Cell
  BY DEF TypeOK, Task, Table
<1>2. \A r \in Cell : r.key \in Keys /\ r.ver \in Nat
  BY DEF Cell
<1>3. /\ last \in Nat /\ t.ver \in Nat
      /\ \A k \in Keys : row[k].ver \in Nat
  BY DEF TypeOK, Task
<1>4. \A r \in I : r.ver <= last \/ r.ver <= row[r.key].ver
  BY InsertSubset DEF ChangesOf
<1>5. \A r : r \in I <=> \/ r \in R /\ \A b \in B : b.key = r.key => b.ver < r.ver
                         \/ r \in B /\ \A q \in R : q.key = r.key => q.ver <= r.ver
  BY InsertByKey
<1> HIDE DEF I
<1>6. ASSUME NEW k \in Keys, row[k].ver <= last
      PROVE  Exact(I, k)
  <2>1. \A b \in B : b.key # k
    BY <1>1, <1>2, <1>3, <1>6 DEF ChangesOf
  <2>2. \A r : r.key = k => (r \in I <=> r \in R)
    BY <1>5, <2>1
  <2>3. Exact(R, k)
    BY <1>6
  <2> QED
    BY <2>2, <2>3 DEF Exact
<1>7. ASSUME NEW k \in Keys, last < row[k].ver, row[k].ver <= t.ver
      PROVE  Exact(I, k)
  <2>1. PICK b \in B : b.key = k
    BY <1>7 DEF ChangesOf
  <2>2. b.ver = row[k].ver /\ b.val = b.ver /\ b.live = row[k].live
    BY <1>7, <2>1 DEF ChangesOf
  <2>3. \A r \in R : r.key = k => r.ver <= b.ver
    BY <1>1, <1>2, <1>3, <1>7, <2>2
  <2>4. b \in I
    BY <1>5, <2>1, <2>3
  <2>5. \A r \in I : r.key = k => r = b
    <3> SUFFICES ASSUME NEW r \in I, r.key = k PROVE r = b
      OBVIOUS
    <3>1. CASE r \in B
      BY <2>1, <3>1 DEF ChangesOf, OnePerKey
    <3>2. CASE r \in R /\ b.ver < r.ver
      BY <1>1, <1>2, <2>3, <3>2
    <3> QED
      BY <1>5, <2>1, <3>1, <3>2
  <2> QED
    BY <2>1, <2>2, <2>4, <2>5 DEF Exact
<1>8. \A k \in Keys : row[k].ver <= last \/ last < row[k].ver
  BY <1>3
<1> QED
  BY <1>4, <1>6, <1>7, <1>8 DEF I

LEMMA InsertRowsStep ==
    ASSUME OrderBy = {}, DriftInv, NEW w \in Workers, InsertRows(w)
    PROVE  DriftInv'
<1>1. TypeOK /\ TypeOK' /\ task[w].pc = "insert"
  BY InsertRowsType DEF DriftInv, InsertRows
<1>2. task[w] \in Task /\ task[w].kind \in {"snap", "cdc"} /\ w \in Busy
  BY <1>1, AtWork
<1> DEFINE t == task[w]
           u == [t EXCEPT !.pc = "ok", !.schema = {}, !.buf = {}]
<1>3. task' = [task EXCEPT ![w] = u]
  BY DEF InsertRows
<1>4. u.kind = t.kind /\ u.part = t.part /\ u.pc = "ok" /\ u.ver = t.ver /\ u.buf = {}
  BY <1>2 DEF Task
<1> HIDE DEF u
<1>5. task'[w] = u /\ \A v \in Workers : v # w => task'[v] = task[v]
  BY <1>1, <1>3 DEF TypeOK
<1>6. UNCHANGED <<cur, cols, row, phase, sver, last, loaded, cutover, schemas>>
  BY DEF InsertRows, sourceVars, supervisorVars
<1>7. [TableOf(t) EXCEPT !.rows = Insert(@, t.buf)].rows = Insert(TableOf(t).rows, t.buf)
  BY <1>1, TableOfType DEF Table
<1>8. /\ t.kind = "snap" => staging'.rows = Insert(staging.rows, t.buf) /\ target'.rows = target.rows
      /\ t.kind = "cdc" => target'.rows = Insert(target.rows, t.buf) /\ staging'.rows = staging.rows
  BY <1>7 DEF InsertRows, Writes, TableOf
<1>9. \A v \in Busy' : v = w \/ (v \in Busy /\ task'[v] = task[v])
  BY <1>5 DEF Busy
<1>10. target.rows \subseteq Cell /\ staging.rows \subseteq Cell /\ t.buf \subseteq Cell
  BY <1>1, <1>2 DEF TypeOK, Table, Task
<1>11. InvSnapshot'
  <2> SUFFICES ASSUME Loading PROVE InvSnapshot'
    BY <1>6 DEF InvSnapshot, Loading
  <2>1. InvSnapshot /\ t.kind = "snap"
    BY <1>2 DEF DriftInv, InvSnapshot
  <2> DEFINE I == Insert(staging.rows, t.buf)
  <2>2. /\ OnePerKey(staging.rows) /\ AsPlanned(staging.rows) /\ Loaded(staging.rows, loaded)
        /\ OnePerKey(t.buf) /\ AsPlanned(t.buf) /\ Loaded(t.buf, t.part)
    BY <1>1, <1>2, <2>1 DEF InvSnapshot
  <2>3. OnePerKey(I)
    BY <1>10, <2>2, OneRowPerKey
  <2>4. AsPlanned(I) /\ \A K : Loaded(staging.rows, K) \/ Loaded(t.buf, K) => Loaded(I, K)
    BY <1>10, <2>2, InsertPart
  <2>5. staging'.rows = I
    BY <1>8, <2>1
  <2> HIDE DEF I
  <2>6. (OnePerKey(staging.rows) /\ AsPlanned(staging.rows) /\ Loaded(staging.rows, loaded))'
    <3>1. Loaded(I, loaded)
      BY <2>2, <2>4
    <3> QED
      BY <1>6, <2>3, <2>4, <2>5, <3>1 DEF OnePerKey, AsPlanned, Loaded
  <2>7. ASSUME NEW v \in Busy'
        PROVE  (/\ task[v].kind = "snap"
                /\ task[v].pc = "insert" =>
                      /\ OnePerKey(task[v].buf) /\ AsPlanned(task[v].buf)
                      /\ Loaded(task[v].buf, task[v].part)
                /\ task[v].pc = "ok" => Loaded(staging.rows, task[v].part))'
    <3>1. CASE v = w
      <4>1. Loaded(I, t.part)
        BY <2>2, <2>4
      <4> QED
        BY <1>4, <1>5, <1>6, <2>1, <2>5, <3>1, <4>1 DEF Loaded
    <3>2. CASE v \in Busy /\ task'[v] = task[v]
      <4>1. task[v].pc = "ok" => Loaded(I, task[v].part)
        BY <2>1, <2>4, <3>2 DEF InvSnapshot
      <4>2. /\ task[v].kind = "snap"
            /\ task[v].pc = "insert" =>
                  /\ OnePerKey(task[v].buf) /\ AsPlanned(task[v].buf)
                  /\ Loaded(task[v].buf, task[v].part)
        BY <2>1, <3>2 DEF InvSnapshot
      <4> QED
        BY <1>6, <2>5, <3>2, <4>1, <4>2 DEF OnePerKey, AsPlanned, Loaded
    <3> QED
      BY <1>9, <3>1, <3>2
  <2> QED
    BY <2>6, <2>7 DEF InvSnapshot
<1>12. InvCdc'
  <2> SUFFICES ASSUME phase = "cdc" PROVE InvCdc'
    BY <1>6 DEF InvCdc
  <2>1. InvCdc /\ t.kind = "cdc" /\ Busy = {w}
    BY <1>2 DEF DriftInv, InvCdc
  <2>2. \A v \in Busy' : v = w
    BY <1>9, <2>1
  <2> DEFINE I == Insert(target.rows, t.buf)
  <2>3. ChangesOf(t) /\ OnePerKey(target.rows) /\ last <= t.ver
    BY <1>1, <2>1 DEF InvCdc
  <2>4. /\ \A k \in Keys : row[k].ver <= t.ver \/ row[k].ver <= last => Exact(I, k)
        /\ \A r \in I : r.ver <= last \/ r.ver <= row[r.key].ver
    BY <1>1, <1>2, <2>1, <2>3, InsertChanges DEF InvCdc
  <2>5. OnePerKey(I)
    BY <1>10, <2>3, OneRowPerKey DEF ChangesOf
  <2>6. target'.rows = I
    BY <1>8, <2>1
  <2> HIDE DEF I
  <2>7. \A k \in Keys : row[k].ver <= t.ver \/ row[k].ver <= last => Exact(target.rows, k)'
    BY <1>6, <2>4, <2>6 DEF Exact
  <2>8. ASSUME NEW v \in Busy'
        PROVE  (/\ task[v].kind = "cdc"
                /\ task[v].pc \in {"insert", "ok"} => last <= task[v].ver
                /\ task[v].pc = "insert" => ChangesOf(task[v])
                /\ task[v].pc = "ok" =>
                      \A k \in Keys : row[k].ver <= task[v].ver => Exact(target.rows, k))'
    BY <1>4, <1>5, <1>6, <2>1, <2>2, <2>3, <2>7
  <2> QED
    BY <1>6, <2>2, <2>4, <2>5, <2>6, <2>7, <2>8 DEF InvCdc, OnePerKey
<1>13. InvValues'
  <2>1. \A r : Kept(r) <=> Kept(r)'
    BY <1>6 DEF Kept
  <2>2. InUse' \subseteq InUse
    BY <1>4, <1>5, <1>6, InUseMembers
  <2>3. \A v \in Workers : \A r \in task'[v].buf : Kept(r)
    BY <1>4, <1>5 DEF DriftInv, InvValues
  <2>4. \A r \in target'.rows \cup staging'.rows : Kept(r)
    <3>1. \A r \in target.rows \cup staging.rows \cup t.buf : Kept(r)
      BY DEF DriftInv, InvValues
    <3>2. target'.rows \cup staging'.rows \subseteq target.rows \cup staging.rows \cup t.buf
      BY <1>2, <1>8, InsertSubset
    <3> QED
      BY <3>1, <3>2
  <2> QED
    BY <1>6, <2>1, <2>2, <2>3, <2>4 DEF DriftInv, InvValues
<1>14. InvCutOver'
  BY <1>2, <1>6 DEF DriftInv, InvCutOver
<1> QED
  BY <1>1, <1>11, <1>12, <1>13, <1>14 DEF DriftInv

-----------------------------------------------------------------------------

LEMMA StutterDrift == DriftInv /\ UNCHANGED vars => DriftInv'
<1> SUFFICES ASSUME DriftInv, UNCHANGED vars PROVE DriftInv'
  OBVIOUS
<1>1. TypeOK'
  BY StutterType DEF DriftInv
<1>2. UNCHANGED <<cur, cols, row, target, staging, phase, sver, last, loaded, cutover, schemas, task>>
  BY DEF vars, sourceVars, supervisorVars, clickhouseVars, workerVars
<1>3. InUse' = InUse /\ Busy' = Busy
  BY <1>2 DEF InUse, Busy
<1> QED
  BY <1>1, <1>2, <1>3, QuietStep DEF Idler

LEMMA DriftStep ==
    ASSUME OrderBy = {}
    PROVE  DriftInv /\ [Next]_vars => DriftInv'
<1> SUFFICES ASSUME DriftInv, [Next]_vars PROVE DriftInv'
  OBVIOUS
<1>1. ASSUME NEW k \in Keys, Commit(k) PROVE DriftInv'
  BY <1>1, CommitStep
<1>2. ASSUME NEW c \in Columns, AddColumn(c) \/ DropColumn(c) PROVE DriftInv'
  BY <1>2, SourceStep
<1>3. ASSUME NEW w \in Workers, Submit(w) \/ Collect(w) PROVE DriftInv'
  BY <1>3, StartStep, CollectStep
<1>4. ASSUME NEW w \in Workers, Expire(w) PROVE DriftInv'
  BY <1>4, ExpireStep
<1>5. ASSUME NEW w \in Workers, WorkerStep(w) \/ TaskFails(w) PROVE DriftInv'
  BY <1>5, EnsureStep, ReadStep, InsertRowsStep, FailureStep DEF WorkerStep
<1>6. CASE Request \/ Plan \/ CutOverStep
  BY <1>6, RequestStep, PlanStep, ExchangeStep, CutOverGoesOn, FinalizeStep DEF CutOverStep
<1>7. CASE UNCHANGED vars
  BY <1>7, StutterDrift
<1> QED
  BY <1>1, <1>2, <1>3, <1>4, <1>5, <1>6, <1>7 DEF Next, SupervisorStep, CutOverStep

\* What snapshot loads, CDC tasks and schema caches owe each other, as one
\* inductive invariant.
THEOREM DriftInvariant ==
    ASSUME OrderBy = {}
    PROVE  Spec => []DriftInv
BY InitDrift, DriftStep, PTL DEF Spec

\* With the primary key as the only ORDER BY, queries of the view see every
\* covered row once, as the source has it, however tasks fail and are tried
\* again with other columns.
THEOREM ViewShowsSource ==
    ASSUME OrderBy = {}
    PROVE  Spec => []ViewIsCurrent
<1>1. DriftInv => ViewIsCurrent
  <2> SUFFICES ASSUME DriftInv, NEW k \in Keys, Covered(k)
               PROVE  IF row[k].live THEN \E r \in Shown(k) : Shown(k) = {r} /\ r.val = row[k].ver
                      ELSE Shown(k) = {}
    BY DEF ViewIsCurrent
  <2>1. Exact(target.rows, k) /\ OnePerKey(target.rows)
    BY DEF DriftInv, InvCdc, Covered
  <2> QED
    BY <2>1 DEF Exact, OnePerKey, Shown
<1> QED
  BY DriftInvariant, <1>1, PTL

\* No value is lost of a row committed when every schema in use had its columns.
THEOREM NoValueLost ==
    ASSUME OrderBy = {}
    PROVE  Spec => []ValuesArrive
<1>1. DriftInv => ValuesArrive
  <2> SUFFICES ASSUME DriftInv, NEW k \in Keys, Covered(k), row[k].live, ~row[k].early,
                      NEW r \in Shown(k)
               PROVE  row[k].has \subseteq r.has
    BY DEF ValuesArrive
  <2>1. Exact(target.rows, k) /\ OnePerKey(target.rows)
    BY DEF DriftInv, InvCdc, Covered
  <2>2. r \in target.rows /\ r.key = k /\ r.live
    BY DEF Shown
  <2>3. r.val = row[k].ver
    BY <2>1, <2>2 DEF Exact, OnePerKey
  <2>4. Kept(r)
    BY <2>2 DEF DriftInv, InvValues
  <2> QED
    BY <2>2, <2>3, <2>4 DEF Kept
<1> QED
  BY DriftInvariant, <1>1, PTL
=============================================================================
