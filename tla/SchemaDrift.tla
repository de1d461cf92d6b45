---------------------------- MODULE SchemaDrift ----------------------------
(***************************************************************************)
(* The columns of one replicated table while the source table is altered.  *)
(* A worker reads with the schema it has cached, for up to                 *)
(* schema_refresh_seconds; ClickHouse tables get the columns the worker    *)
(* finds missing, by a column list it caches too; the supervisor creates   *)
(* the tables of a snapshot from a schema of its own.  Only an exception   *)
(* in a task drops the caches early.                                       *)
(*                                                                         *)
(* Progress, retention and crashes are TableSync's: here every key is a    *)
(* part of the snapshot and a batch is all that a task has read.  A commit *)
(* gives the row a value in every column there is, so a column's value is  *)
(* the version of that commit or nothing.                                  *)
(***************************************************************************)
EXTENDS Naturals, FiniteSets

CONSTANTS
    Keys,          \* primary keys
    Columns,       \* the other columns the table may have
    OrderBy,       \* the columns of order_by that are not in the primary key
    Workers,
    MaxVersion,    \* bound on commits
    MaxEvents      \* bound on columns added or dropped, resync requests and
                   \* tasks that fail for other reasons, taken together

ASSUME DriftAssumption ==
    /\ OrderBy \subseteq Columns
    /\ {MaxVersion, MaxEvents} \subseteq Nat

VARIABLES
    cur,      \* the source's commit counter
    cols,     \* the columns the source table has
    row,      \* key -> [ver, live, has: columns with a value, early: ghost]
    target,   \* [exists, cols, rows]: the live table
    staging,  \* [exists, cols, rows]
    view,     \* the columns of the *_current view
    phase,    \* "new" (or resync), "snapshot", "cdc"
    sver,     \* st.snapshot_version
    last,     \* st.last_version
    loaded,   \* the parts of the snapshot that are done
    cutover,  \* "no", "swapped", "dropped": how far _finalize is, "interrupted"
    schemas,  \* worker -> {} or {the columns of its cached schema}
    names,    \* worker -> table -> {} or {the cached columns of that table}
    task,     \* worker -> the task it runs
    events    \* columns added or dropped, requests and failures so far

sourceVars == <<cur, cols, row>>
supervisorVars == <<phase, sver, last, loaded, cutover>>
clickhouseVars == <<target, staging, view>>
workerVars == <<schemas, names, task>>
vars == <<sourceVars, supervisorVars, clickhouseVars, workerVars, events>>

\* A written row; a tombstone has no values.
Cell == [key : Keys, ver : Nat, val : Nat, has : SUBSET Columns, live : BOOLEAN]
Table == [exists : BOOLEAN, cols : SUBSET Columns, rows : SUBSET Cell]
NoTable == [exists |-> FALSE, cols |-> {}, rows |-> {}]

\* load_schema: the columns the source table has now.  A column configured to
\* be excluded is as if the table did not have it.
LoadSchema == cols

CreateTable == [exists |-> TRUE, cols |-> LoadSchema, rows |-> {}]

\* A mutated form: every column is a sorting column.
SortKeyOfAllColumns(r) ==
    <<r.key, [c \in Columns |-> IF c \in r.has THEN r.val ELSE 0]>>

\* The ORDER BY ReplacingMergeTree deduplicates on; a tombstone's missing
\* values are the placeholders ISNULL gives them.
SortKey(r) == <<r.key, [c \in OrderBy |-> IF c \in r.has THEN r.val ELSE 0]>>

\* Insert a batch: per sorting key the highest _version, the last among equals.
Insert(rows, batch) ==
    {r \in rows : \A b \in batch : SortKey(b) = SortKey(r) => b.ver < r.ver}
    \cup {b \in batch : \A r \in rows : SortKey(r) = SortKey(b) => r.ver <= b.ver}

\* What the view shows of key k.
Shown(k) == {r \in target.rows : r.key = k /\ r.live}

Task == [kind : {"none", "snap", "cdc"}, part : SUBSET Keys, schema : SUBSET Columns,
         pc : {"idle", "ensure", "read", "insert", "ok", "error"},
         buf : SUBSET Cell, ver : Nat]
NoTask == [kind |-> "none", pc |-> "idle", part |-> {}, schema |-> {}, buf |-> {}, ver |-> 0]

\* The schemas rows are yet to be read with.
InUse == (UNION {schemas[w] : w \in Workers})
         \cup {task[w].schema : w \in {w \in Workers : task[w].pc \in {"ensure", "read"}}}

Init ==
    /\ cur = 0 /\ cols \in SUBSET Columns /\ OrderBy \subseteq cols
    /\ row \in [Keys -> {[ver |-> 0, live |-> b, has |-> IF b THEN cols ELSE {},
                          early |-> FALSE] : b \in BOOLEAN}]
    /\ target = NoTable /\ staging = NoTable /\ view = {}
    /\ phase = "new" /\ sver = 0 /\ last = 0 /\ loaded = {} /\ cutover = "no"
    /\ schemas = [w \in Workers |-> {}]
    /\ names = [w \in Workers |-> [t \in {"snap", "cdc"} |-> {}]]
    /\ task = [w \in Workers |-> NoTask]
    /\ events = 0

-----------------------------------------------------------------------------
(* The source, the operator and time.                                      *)

Event == events < MaxEvents /\ events' = events + 1

\* A transaction inserts, updates or deletes the row of key k.  It is early
\* when a schema is in use that does not have all its columns.
Commit(k) ==
    /\ cur < MaxVersion
    /\ cur' = cur + 1
    /\ \E b \in BOOLEAN :
          /\ row[k].live \/ b
          /\ row' = [row EXCEPT ![k] =
                [ver |-> cur + 1, live |-> b, has |-> IF b THEN cols ELSE {},
                 early |-> \E S \in InUse : ~(cols \subseteq S)]]
    /\ UNCHANGED <<cols, events, supervisorVars, clickhouseVars, workerVars>>

\* ALTER TABLE at the source; Change Tracking does not report it.
AddColumn(c) ==
    /\ Event
    /\ c \notin cols
    /\ cols' = cols \cup {c}
    /\ UNCHANGED <<cur, row, supervisorVars, clickhouseVars, workerVars>>

DropColumn(c) ==
    /\ Event
    /\ c \in cols
    /\ cols' = cols \ {c}
    /\ row' = [k \in Keys |-> [row[k] EXCEPT !.has = @ \ {c}]]
    /\ UNCHANGED <<cur, supervisorVars, clickhouseVars, workerVars>>

\* A resync request is found, by the supervisor's loop: not within _finalize,
\* but perhaps after one that was interrupted.
Request ==
    /\ Event
    /\ cutover \in {"no", "interrupted"}
    /\ phase' = "new"
    /\ UNCHANGED <<sourceVars, sver, last, loaded, cutover, clickhouseVars, workerVars>>

\* A mutated form: a cached schema is used for ever.
MayExpireNever(w) == FALSE

\* A cached schema gets older than schema_refresh_seconds.
MayExpire(w) == schemas[w] # {}

Expire(w) ==
    /\ MayExpire(w)
    /\ schemas' = [schemas EXCEPT ![w] = {}]
    /\ UNCHANGED <<sourceVars, supervisorVars, clickhouseVars, names, task, events>>

-----------------------------------------------------------------------------
(* The supervisor.                                                         *)

Busy == {w \in Workers : task[w] # NoTask}

\* _plan_snapshot: both tables are created from a fresh schema, the live one
\* only if it is not there; the view shows the columns the live one has now.
Plan ==
    /\ phase = "new" /\ Busy = {}
    /\ OrderBy \subseteq LoadSchema
    /\ target' = IF target.exists THEN target ELSE CreateTable
    /\ view' = target'.cols
    /\ staging' = CreateTable
    /\ phase' = "snapshot" /\ sver' = cur /\ loaded' = {} /\ cutover' = "no"
    /\ UNCHANGED <<sourceVars, last, workerVars, events>>

\* A mutated form: the view stays as it was made for the other table.
ViewNotRecreated == view

\* The view is recreated for the table exchanged in.
ViewRecreated == target.cols

\* _finalize is one ClickHouse command after another.  First the tables are
\* exchanged: from here on the view is one of the table that was.
Exchange ==
    /\ phase = "snapshot" /\ loaded = Keys /\ Busy = {} /\ cutover = "no"
    /\ target' = staging /\ staging' = target
    /\ cutover' = "swapped"
    /\ UNCHANGED <<sourceVars, phase, sver, last, loaded, view, workerVars, events>>

\* The old table is dropped.
DropStaging ==
    /\ cutover = "swapped"
    /\ staging' = NoTable
    /\ cutover' = "dropped"
    /\ UNCHANGED <<sourceVars, phase, sver, last, loaded, target, view, workerVars, events>>

\* The view is recreated, and the table is in CDC.
Finalize ==
    /\ cutover = "dropped"
    /\ view' = ViewRecreated
    /\ phase' = "cdc" /\ last' = sver /\ cutover' = "no"
    /\ UNCHANGED <<sourceVars, sver, loaded, target, staging, workerVars, events>>

\* The command that is next raises or the process dies in it, and it may have
\* taken effect all the same.
CutOverFails ==
    /\ Event
    /\ \/ cutover = "swapped" /\ staging' \in {staging, NoTable} /\ UNCHANGED view
       \/ cutover = "dropped" /\ view' \in {view, ViewRecreated} /\ UNCHANGED staging
    /\ cutover' = "interrupted"
    /\ UNCHANGED <<sourceVars, phase, sver, last, loaded, target, workerVars>>

\* _finalize again, after its backoff or from _resume_snapshot: the comment of
\* the live table says that it has been exchanged.
CutOverAgain ==
    /\ cutover = "interrupted" /\ phase = "snapshot"
    /\ cutover' = "swapped"
    /\ UNCHANGED <<sourceVars, phase, sver, last, loaded, clickhouseVars, workerVars, events>>

\* _schema: the cached schema, or a fresh one.
Schema(w) == IF schemas[w] = {} THEN LoadSchema ELSE CHOOSE S \in schemas[w] : TRUE

\* A task for some keys of the table starts on a worker.
Start(w, kind, part) ==
    /\ task[w] = NoTask
    /\ task' = [task EXCEPT ![w] = [NoTask EXCEPT
          !.kind = kind, !.pc = "ensure", !.part = part, !.schema = Schema(w)]]
    /\ schemas' = [schemas EXCEPT ![w] = {Schema(w)}]
    /\ UNCHANGED <<sourceVars, supervisorVars, clickhouseVars, names, events>>

\* The parts that are neither loaded nor being loaded, or one CDC task alone.
Submit(w) ==
    \/ /\ phase = "snapshot"
       /\ \E k \in Keys \ loaded :
             /\ \A v \in Busy : k \notin task[v].part
             /\ Start(w, "snap", {k})
    \/ /\ phase = "cdc" /\ Busy = {}
       /\ Start(w, "cdc", Keys)

\* _on_result.  A failed task is submitted again later, to any worker.
Collect(w) ==
    LET t == task[w] IN
    /\ t.pc \in {"ok", "error"}
    /\ task' = [task EXCEPT ![w] = NoTask]
    /\ loaded' = IF t.pc = "ok" /\ t.kind = "snap" THEN loaded \cup t.part ELSE loaded
    /\ last' = IF t.pc = "ok" /\ t.kind = "cdc" THEN t.ver ELSE last
    /\ UNCHANGED <<sourceVars, phase, sver, cutover, clickhouseVars, schemas,
                   names, events>>

-----------------------------------------------------------------------------
(* The workers.                                                            *)

\* The ClickHouse table a task writes.
TableOf(t) == IF t.kind = "snap" THEN staging ELSE target

\* What a task changes of its table.
Writes(t, T) ==
    /\ staging' = IF t.kind = "snap" THEN T ELSE staging
    /\ target' = IF t.kind = "snap" THEN target ELSE T

\* The columns the worker takes its table to have: the cached list, unless it
\* lacks a column of the schema.
Listed(w) ==
    LET t == task[w] IN
    IF \E N \in names[w][t.kind] : t.schema \subseteq N
    THEN CHOOSE N \in names[w][t.kind] : TRUE
    ELSE TableOf(t).cols

Missing(w) == task[w].schema \ Listed(w)

\* ensure_columns, to its end: the missing columns are added and, for the live
\* table, the view is recreated.
Ensure(w) ==
    LET t == task[w] IN
    /\ t.pc = "ensure"
    /\ Writes(t, [TableOf(t) EXCEPT !.cols = @ \cup Missing(w)])
    /\ view' = IF t.kind = "cdc" /\ Missing(w) # {} THEN target'.cols ELSE view
    /\ names' = [names EXCEPT ![w][t.kind] = {Listed(w) \cup Missing(w)}]
    /\ task' = [task EXCEPT ![w].pc = "read"]
    /\ UNCHANGED <<sourceVars, supervisorVars, schemas, events>>

\* A mutated form: the column lists survive an exception.
ForgetSchemaOnly(w) ==
    /\ schemas' = [schemas EXCEPT ![w] = {}]
    /\ UNCHANGED names

\* _reset_connections drops both caches of the worker.
ForgetCaches(w) ==
    /\ schemas' = [schemas EXCEPT ![w] = {}]
    /\ names' = [names EXCEPT ![w] = [t \in {"snap", "cdc"} |-> {}]]

Raise(w) ==
    /\ ForgetCaches(w)
    /\ task' = [task EXCEPT ![w] = [NoTask EXCEPT !.kind = task[w].kind, !.part = task[w].part, !.pc = "error"]]
    /\ UNCHANGED <<sourceVars, supervisorVars>>

\* A task fails at any point for another reason; in ensure_columns, between two
\* of its commands.
TaskFails(w) ==
    /\ task[w].pc \in {"ensure", "read", "insert"}
    /\ Event
    /\ Raise(w)
    /\ \E added \in SUBSET Missing(w) :
          /\ task[w].pc = "ensure" \/ added = {}
          /\ Writes(task[w], [TableOf(task[w]) EXCEPT !.cols = @ \cup added])
    /\ UNCHANGED view

\* A mutated form: columns the view does not show are left out.
ContentOfView(k, ver, S) == [key |-> k, ver |-> ver, val |-> row[k].ver,
                             has |-> row[k].has \cap S \cap view, live |-> row[k].live]

\* The row as the columns of schema S show it.
Content(k, ver, S) == [key |-> k, ver |-> ver, val |-> row[k].ver,
                       has |-> row[k].has \cap S, live |-> row[k].live]

\* Without a new version change_session ends before any query.
NothingNew(t) == t.kind = "cdc" /\ cur = last

\* Run the query; it names every column of the worker's schema.
Read(w) ==
    LET t == task[w] IN
    /\ t.pc = "read"
    /\ t.schema \subseteq cols \/ NothingNew(t)
    /\ task' = [task EXCEPT ![w].pc = "insert", ![w].ver = cur, ![w].buf =
          IF t.kind = "snap"
          THEN {Content(k, sver, t.schema) : k \in {k \in t.part : row[k].live}}
          ELSE {Content(k, row[k].ver, t.schema) : k \in {k \in Keys : row[k].ver > last}}]
    /\ UNCHANGED <<sourceVars, supervisorVars, clickhouseVars, schemas, names, events>>

\* A column of the cached schema is gone: invalid column name.
ReadRaises(w) ==
    /\ task[w].pc = "read"
    /\ ~(task[w].schema \subseteq cols) /\ ~NothingNew(task[w])
    /\ Raise(w)
    /\ UNCHANGED <<clickhouseVars, events>>

\* An empty batch is not inserted.
InsertRows(w) ==
    LET t == task[w] IN
    /\ t.pc = "insert"
    /\ t.buf = {} \/ t.schema \subseteq TableOf(t).cols
    /\ Writes(t, [TableOf(t) EXCEPT !.rows = Insert(@, t.buf)])
    /\ task' = [task EXCEPT ![w] = [t EXCEPT !.pc = "ok", !.schema = {}, !.buf = {}]]
    /\ UNCHANGED <<sourceVars, supervisorVars, view, schemas, names, events>>

\* The table was exchanged for one without a column the worker has cached.
InsertRaises(w) ==
    LET t == task[w] IN
    /\ t.pc = "insert"
    /\ t.buf # {} /\ ~(t.schema \subseteq TableOf(t).cols)
    /\ Raise(w)
    /\ UNCHANGED <<clickhouseVars, events>>

-----------------------------------------------------------------------------

WorkerStep(w) ==
    Ensure(w) \/ Read(w) \/ ReadRaises(w) \/ InsertRows(w) \/ InsertRaises(w)

SupervisorStep ==
    \/ Plan \/ Exchange \/ DropStaging \/ Finalize \/ CutOverAgain
    \/ \E w \in Workers : Submit(w) \/ Collect(w)

Next ==
    \/ SupervisorStep \/ CutOverFails \/ Request
    \/ \E k \in Keys : Commit(k)
    \/ \E c \in Columns : AddColumn(c) \/ DropColumn(c)
    \/ \E w \in Workers : Expire(w) \/ WorkerStep(w) \/ TaskFails(w)

\* The supervisor's loop and the workers go on, and time passes.
Fairness ==
    /\ WF_vars(SupervisorStep)
    /\ \A w \in Workers : WF_vars(WorkerStep(w)) /\ WF_vars(Expire(w))

Spec == Init /\ [][Next]_vars /\ Fairness

-----------------------------------------------------------------------------
(* Properties.                                                             *)

\* Columns are the table's columns, rows the rows the tasks build, and nothing
\* is newer than the source.
TypeOK ==
    /\ cur \in 0..MaxVersion /\ cols \subseteq Columns
    /\ row \in [Keys -> [ver : 0..cur, live : BOOLEAN, has : SUBSET cols, early : BOOLEAN]]
    /\ target \in Table /\ staging \in Table
    /\ \A r \in target.rows \cup staging.rows : r.ver <= cur
    /\ view \subseteq Columns
    /\ events \in 0..MaxEvents
    /\ phase \in {"new", "snapshot", "cdc"} /\ sver \in 0..cur /\ last \in 0..cur
    /\ loaded \subseteq Keys
    /\ cutover \in {"no", "swapped", "dropped", "interrupted"}
    /\ schemas \in [Workers -> SUBSET SUBSET Columns]
    /\ \A w \in Workers : Cardinality(schemas[w]) <= 1
    /\ names \in [Workers -> [{"snap", "cdc"} -> SUBSET SUBSET Columns]]
    /\ task \in [Workers -> Task]
    /\ \A w \in Workers :
          /\ task[w].kind = "none" <=> task[w].pc = "idle"
          /\ task[w].ver <= cur /\ \A r \in task[w].buf : r.ver <= cur

\* The view names no column its table lacks, or every query of it would fail,
\* whatever columns come and go, whichever table is exchanged in and whoever
\* adds the columns.  The exception is a cut-over that is under way, or that
\* was interrupted and neither tried again nor replaced by another snapshot.
ViewAnswers == cutover = "no" => view \subseteq target.cols

Covered(k) == phase = "cdc" /\ row[k].ver <= last

\* "Use the view for correct current state": in CDC the view shows every row
\* the checkpoint covers exactly once, as the source has it, and no deleted one.
ViewIsCurrent == \A k \in Keys : Covered(k) =>
    IF row[k].live THEN \E r \in Shown(k) : Shown(k) = {r} /\ r.val = row[k].ver
    ELSE Shown(k) = {}

\* A row committed when every schema in use had all its columns arrives with a
\* value in each column the source still has, across resyncs, exchanged tables
\* and workers that know different columns.
ValuesArrive == \A k \in Keys : Covered(k) /\ row[k].live /\ ~row[k].early =>
    \A r \in Shown(k) : row[k].has \subseteq r.has

\* Cached schemas and column lists that no longer fit never stop a table for
\* good: when the source rests, the view becomes and stays equal to it.
CatchesUp == <>[](\A k \in Keys : Covered(k))

\* "New column in SQL Server: added automatically": in the end the live table
\* has every column the source keeps.  The one exception is a worker whose list
\* predates an exchange of the table: it sees nothing missing until a change
\* arrives and its insert fails.
ColumnsArrive ==
    LET listOutdated == \E w \in Workers : \E N \in names[w]["cdc"] : ~(N \subseteq target.cols) IN
    <>[](cols \subseteq target.cols \/ listOutdated)

-----------------------------------------------------------------------------
(* What else has to hold for ViewIsCurrent and ValuesArrive to be inductive, *)
(* where rows are deduplicated by the primary key alone.                     *)

OnePerKey(R) == \A r, s \in R : r.key = s.key => r = s

\* The source's row of key k is in R, and no older one.
Exact(R, k) ==
    IF row[k].live THEN \E r \in R : r.key = k /\ r.live /\ r.val = row[k].ver
    ELSE \A r \in R : r.key = k => ~r.live

\* Rows a snapshot has read are those of the source, unless changed since.
AsPlanned(R) == \A r \in R :
    /\ r.ver = sver /\ r.live
    /\ row[r.key].ver <= sver => row[r.key].live /\ r.val = row[r.key].ver

\* And they are all there, of the keys in K.
Loaded(R, K) == \A k \in K : row[k].live /\ row[k].ver <= sver =>
    \E r \in R : r.key = k

Loading == phase = "snapshot" /\ cutover = "no"

\* While a snapshot is loaded, staging has what the tasks reported.
InvSnapshot == Loading =>
    /\ OnePerKey(staging.rows) /\ AsPlanned(staging.rows) /\ Loaded(staging.rows, loaded)
    /\ \A w \in Busy :
          /\ task[w].kind = "snap"
          /\ task[w].pc = "insert" =>
                /\ OnePerKey(task[w].buf) /\ AsPlanned(task[w].buf)
                /\ Loaded(task[w].buf, task[w].part)
          /\ task[w].pc = "ok" => Loaded(staging.rows, task[w].part)

\* Once exchanged the snapshot is the live table, and no task is at work.
InvCutOver == cutover # "no" =>
    /\ phase = "snapshot" \/ (phase = "new" /\ cutover = "interrupted")
    /\ Busy = {}
    /\ phase = "snapshot" =>
          /\ loaded = Keys
          /\ OnePerKey(target.rows) /\ AsPlanned(target.rows) /\ Loaded(target.rows, Keys)

\* The changes a CDC task has read: each is newer than the checkpoint, and the
\* source's row unless that has changed since.
ChangesOf(t) ==
    /\ OnePerKey(t.buf)
    /\ \A r \in t.buf :
          /\ last < r.ver /\ r.ver <= row[r.key].ver
          /\ row[r.key].ver <= t.ver =>
                r.ver = row[r.key].ver /\ r.val = r.ver /\ r.live = row[r.key].live
    /\ \A k \in Keys : last < row[k].ver /\ row[k].ver <= t.ver => \E r \in t.buf : r.key = k

\* In CDC the live table is exact up to the checkpoint, up to the version of a
\* task that has ended well, and no row in it outranks a change to come.
InvCdc == phase = "cdc" =>
    /\ OnePerKey(target.rows)
    /\ \A k \in Keys : row[k].ver <= last => Exact(target.rows, k)
    /\ \A r \in target.rows : r.ver <= last \/ r.ver <= row[r.key].ver
    /\ \A v, w \in Busy : v = w
    /\ \A w \in Busy :
          /\ task[w].kind = "cdc"
          /\ task[w].pc \in {"insert", "ok"} => last <= task[w].ver
          /\ task[w].pc = "insert" => ChangesOf(task[w])
          /\ task[w].pc = "ok" =>
                \A k \in Keys : row[k].ver <= task[w].ver => Exact(target.rows, k)

\* A row read has every value of the source's row it shows, and the schemas to
\* read with know its columns, unless it was early.
Kept(r) ==
    /\ r.val <= cur
    /\ r.live /\ row[r.key].live /\ r.val = row[r.key].ver /\ ~row[r.key].early
          => row[r.key].has \subseteq r.has

InvValues ==
    /\ \A r \in target.rows \cup staging.rows : Kept(r)
    /\ \A w \in Workers : \A r \in task[w].buf : Kept(r)
    /\ \A k \in Keys : ~row[k].early => \A S \in InUse : row[k].has \subseteq S

DriftInv == TypeOK /\ InvSnapshot /\ InvCutOver /\ InvCdc /\ InvValues
=============================================================================
