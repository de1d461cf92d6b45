# ETLPipe in TLA+

ETLPipe keeps ClickHouse tables in step with SQL Server through Change Tracking
(`ch-sync`, Python, `src/src/ch_sync`), and ships a small HTTP API that seeds a
load-test database and times a full sync (Node, `src/api`).  This directory holds
models of both, the TLC runs that check them, and proofs checked by TLAPS.

Run a check with `tlc -workers 2 -config <cfg> <module>`, a proof with
`tlapm <module>.tla`.  `PROJECT.json` lists runs, mutants, the map from every
definition to source lines, findings, hazards and theorems.

## 1. The system

### ch-sync

| Part | State it keeps | Operations |
|---|---|---|
| Supervisor (`supervisor.py`), one thread | per table: `rt.state` (phase, last version, snapshot id and version, ranges, handled request), `rt.progress`, `rt.running` futures, `next_run`, `blocked_until`, `dirty` set; `futures` and the process pool; the set of tables | `_refresh_tables`, `_collect`/`_on_result`, `_check_requests`, `_schedule` (`_plan_snapshot`, `_resume_snapshot`, `_finalize`, `_submit`, `_rebuild_pool`), `_fail`, `_flush`, `_shutdown` |
| Workers (`tasks.py`), a pool of processes | a task's buffer and cursor; a cached schema per source table and a cached column list per ClickHouse table | `run_snapshot_partition`, `run_cdc`, `ensure_columns`, `_reset_connections` |
| Source (`source.py`, `queries.py`) | rows, Change Tracking versions and retention in SQL Server | version, minimum valid version, range plan, snapshot query, change session |
| Sink (`sink.py`, `ddl.py`) | `<table>`, `<table>__staging`, their comments | create, drop, insert, `EXCHANGE TABLES` |
| State store (`state.py`) | `sync_state`, `snapshot_progress`, `sync_requests` in ClickHouse | load and save states, save and read progress, newest request |
| CLI, configuration, model, types, logging | none that outlives a call | `run`, `init`, `status`, `resync` |

The supervisor calls the store and the sink synchronously and hands tasks to workers.
Workers talk to both databases on their own and report through futures.  Nothing but
ClickHouse outlives a crash.  A table's life:

    new --plan--> snapshot --all parts loaded--> EXCHANGE --> cdc
                     ^                                        |
                     +--- history lost, or a resync request --+

Correct means: readers never see a half-loaded table; no committed change is lost, across
crash, retry or resync; a checkpoint never runs ahead of the rows it stands for; a deleted
row does not come back; a resync request is served by rows read after it; the table
converges; healthy tables are served whatever fails elsewhere; the supervisor's books of
running tasks agree with its futures; new columns arrive and dropped ones stop nothing.
Hard: a crash between any two writes (insert/checkpoint, exchange/save), saves
that fail after the tables changed, requests arriving inside a snapshot, results of
stale tasks, retention overtaking a checkpoint, workers that outlive their supervisor,
pools that break with tasks in flight, tables that come and go, caches older than the
tables they describe, a second instance on the same tables.

### The load-test API

| Part | State it keeps | Operations |
|---|---|---|
| Job store (`jobs/jobManager.js`) | a Map of jobs, `activeJobId` | start, cancel, return, throw |
| Seeding (`services/seedService.js`) | rows in `LoadTest`; locals of the run | parents' and own largest id, batches, cancel checks |
| Schema (`services/schemaService.js`) | the tables | drop and create, outside the job store |
| Timed sync (`services/syncService.js`) | `leftRunning`, the child process or container, ch-sync's databases | stop the old one, reset, start, poll, collect, stop or keep |
| Shell (`app.js`, `routes`, `db`, health, swagger) | connections | wiring |

Node runs one handler at a time, so handlers interleave where they await.  Correct means:
one job at a time and every job ends; `succeeded` means complete; a foreign key points at a
row; no ch-sync is leaked, and two never work on the same databases; a result belongs to
its own run.  Hard: cancels and failures half-way, restarts that lose the job store,
schema requests between two statements of a seed, docker commands that fail quietly,
states an earlier ch-sync left behind.

## 2. Modules

| Module | Models | EXTENDS |
|---|---|---|
| `ChangeTracking` | rows with the version of their last change, current and minimum valid version (`Commit`, `Cleanup`) | |
| `ReplacingTable` | rows of a ReplacingMergeTree, `Upsert`, `Agrees`, `Complete` | `ChangeTracking` |
| `TableSync` | one table: supervisor, workers, state store, both ClickHouse tables | `ReplacingTable` |
| `TableSyncInv` | its inductive invariant `IInv` where workers die with their supervisor | `TableSync` |
| `TableSyncOrphans` | the one that needs no such assumption, `OInv`, and `OForward` | `TableSyncInv` |
| `Replica` | abstract: what a reader of the view is promised | |
| `TableSyncReplica` | the refinement mapping from `TableSync` to `Replica`, and the invariant `RInv` behind it | `TableSyncInv` |
| `TwoInstances` | two `TableSync`s on one source and one ClickHouse (`INSTANCE` twice) | `ReplacingTable` |
| `Scheduler` | many tables on one pool: discovery, passes, slots, cap, backoff, broken pools | |
| `SchemaDrift` | columns: source, caches, both tables, the view, the sorting key | |
| `SnapshotScan` | `plan_partitions`, range conditions, keyset predicate, checkpoint codec | |
| `JobManager` | the API's job store | |
| `SeedJob` | seed job and schema request on one database | `JobManager` |
| `SyncJob` | timed sync jobs, the ch-syncs they start | `JobManager` |
| `TableSync_safety`, `_orphans`, `_replica`; `Scheduler_proofs`, `SchemaDrift_proofs`, `SnapshotScan_proofs`, `SeedJob_proofs`, `SyncJob_proofs` | theorems | the module, TLAPS |
| `MCTableSync`, `MCScheduler`, `MCSnapshotScan`, `MCSeedJob` | values for TLC | |

`TableSync` composes source, sink, store, supervisor and workers; `SeedJob` and `SyncJob`
each compose the job store with a service.  `Scheduler` and `SchemaDrift` look at the same
supervisor and workers from two other sides and leave out what `TableSync` covers: in
`Scheduler` a task is something that takes a slot and ends, in `SchemaDrift` it never
keeps half of its rows.

### TableSync and the code

`st`, `loaded`, `done`, `dirty`, `task` are `rt.state`, `rt.progress is not None`, its done
parts, membership in `self.dirty`, and the pool.  `saved`, `prog`, `req` are the three
state tables.  `pc` says where the supervisor is inside `_plan_snapshot`
(`plan_drop`, `plan_create`, `plan_save`) and `_finalize` (`fin_drop`, `fin_save`):
one action per remote write, so a crash can fall between any two.  A snapshot task goes
start (read own progress), read, insert, checkpoint; a CDC task opens its session (one
SNAPSHOT transaction, hence one action), inserts batches, ends.  Ghosts: a table's `base`
and `since` are the version its snapshot was planned at and the last request made before.

Abstractions, and why they are safe:

* A commit changes one key; a row's content is the version of its last change.
  A longer transaction is several commits in a row; a session that falls between
  them is behaviour the model adds, never one it misses.
* The buffer is flushed at exactly `BatchSize` rows (`fetch_size` only makes batches larger).
* Retention moves at any moment (`Cleanup`), at most `MaxExpired` times.
* Poll interval, backoff and `next_run` are left out: a table may be scheduled whenever
  the code's other conditions allow.  Slots shared with other tables are `Scheduler`'s.
* Request times are in the order of the requests.
* A periodic flush that fails changes nothing and is no step.  The saves inside
  `_plan_snapshot` and `_finalize` may fail (`SavesMayFail`): there memory has
  already changed.
* `Stop` is SIGTERM or an exception leaving `step()`; `Exit` is the end of `_shutdown`.
  `Crash` loses memory; with `OrphansSurvive` the workers go on.
* `TaskFails` stands for any exception in a task, schema drift included.

### Replica and its implementation

`Replica` knows a source, a view and a version `upto`.  Nothing is promised before a snapshot
is published; from then on the view has every change up to `upto`, a version the source has
reached, `upto` never goes back, and no row is replaced by an older content.  It has four steps: the source commits, changes are
applied, a snapshot replaces the view, a later version is promised.  It states a promise
and models no code.  `TableSyncReplica` maps the view to the
live table and `upto` to `Promised`: what a restart would go on from, the checkpoint in
`sync_state` or the version behind the live table if that is later.

### TwoInstances and the code

Each instance has a memory and workers of its own; source, ClickHouse tables and the state
tables are shared.  `owns_table` gives a table to every instance with its shard index, and
nothing else keeps instances apart.  `Planned` takes the id of a plan from the comment of
the staging table, so an instance between its CREATE and its save is not overtaken by the
other's DROP here (`Undisturbed`): the model has fewer behaviours than the code, and
the finding is one of them.

### Scheduler and the code

`tracked`, `running`, `slot` are `self.tables`, `rt.running`, `self.futures`; a future knows
whether its pool is still the current one.  `ready` and `waiting` are the tables in the order
of `next_run`, split at now; `blocked` is `blocked_until > now`.  `pc` follows `step()`:
refresh and requests (`idle`), the pass over the tables that can do something (`visit`, in
the order of `next_run`), `wait()` (`collect`), one result after another (`result`).
Planning, resuming and cutting over are one step each that works or raises.

* All tables have one poll interval, so a table that was polled goes to the end.  A table
  whose `next_run` is 0 again (after a cut-over, or when tracked anew) sorts first; its place
  among tables already due is left open.
* A backoff is two seconds or more, a pass comes every half second: `BackoffEnds` only
  happens after a pass has begun without the table.
* `Sick` tables may fail without bound and keep their `next_run`, so they stay first in
  line; what happens to the others is bounded by `MaxEvents`.
* Tasks of a pool that was given up go on, keep their future and are collected
  (`shutdown(wait=False)`); those of a broken pool fail one after the other.
* A table's dirty state is taken to be flushed before the table leaves and returns
  (flushes are every two seconds, discovery every five minutes).

### SchemaDrift and the code

`schemas`, `names` are a worker's `_ctx["schemas"]` and `_ctx["target_cols"]`; `cols` the
columns of the source, `target.cols` and `staging.cols` those in ClickHouse, `view` the
columns of `*_current`.  A commit gives a value to every column there is, so a value is the
version of its commit or missing.  `SortKey` is the ORDER BY: the key and the
configured columns, placeholders in a tombstone (`select_expr(tombstone_safe=True)`).
`early` is a ghost: the row was committed while some schema in use lacked one of its
columns.  Columns of one name have one type; a changed type needs a resync by hand
(README "Operations").

`_finalize` is one action per ClickHouse command (`Exchange`, `DropStaging`, `Finalize`), and
`cutover` says how far it got.  `CutOverFails` is an exception or a crash in any of them
after the exchange; `CutOverAgain` is the retry, from `_schedule` or from
`_resume_snapshot`, which finds by the live table's comment that it has been exchanged.  A
resync request after the failure plans another snapshot instead, which recreates the view
too.  Between the exchange and the view, the view is the old table's: `ViewAnswers`
speaks of all other states.  The save is left to `TableSync`.

### SnapshotScan and the code

Bounds are sets, empty for None.  The insert of a batch and the save of its checkpoint are
two actions (`Flush`, `SaveProgress`; `PartDone` is the last save); a part may stop or fail
before, between and after them, and `Resume` reads on from the checkpoint that was saved, up to
`MaxResumes` times.  `codec` says how Python holds a key column: a datetime2(7) comes
back from `decode_key` without its last digit, a datetime (1/300 s) rounded to milliseconds,
down or up (`Stored`).  `Spaced` says that values a column can hold lie further apart than
they are rounded up, as ticks of 1/300 s do.  `Resumable` leaves out the one combination in
which rounding up loses rows, a composite key whose first column is a datetime (see
"Seen while reading").  Rows stand still while parts are read; commits during a snapshot
are `TableSync`'s.  The module justifies `TableSync`'s `Plans` (every key in one part, in key order) and its "next
key after the cursor".

### SeedJob and the code

`seed.pc` follows the run function from await to await.  `ids` and `refs` are the primary
keys and foreign keys in each table.  A foreign key is a hash into `1..max`, so a batch of
n rows may hold any 1 to n ids of that range.  One INSERT is atomic.  `ddl` is one
`POST /schema` at work; enabling Change Tracking changes nothing modelled and is
left out.  `MayOverlap = FALSE` is an operator who never runs a dropping request and a seed
together; nothing in the code enforces it (`POST /schema` is not a job).  Set it to TRUE to see
`WritesExistingParents` fail.

### SyncJob and the code

`live` are the ch-syncs that are up, `known[p]` the phase ch-sync p has reached, `states`
what `sync_state` holds and who saved it, `left` is `leftRunning`, `run` the run function.
Of a ch-sync only boot, saving and dying are modelled; all tables count as one phase.
`astray` is a ghost: a docker command failed, or an API restart left a ch-sync
up.  A process's exit is noticed some time after it happened.  SIGKILL works at once.
A container is up as soon as `docker run` has started, so a `docker stop` that is too early
for its container counts as a docker command that failed (`astray`).

## 3. Runs

| Run | Bounds | Shows | States, time |
|---|---|---|---|
| `crash` | 2 keys, 2 parts, 2 workers, 2 commits, 1 expiry, 1 fault, batches of 1 | whole live table, covered checkpoints and progress, the inductive invariant `IInv` | 1.5M, 60-90 s |
| `resync` | 1 key, 2 workers, 2 commits, 1 expiry, 1 request, 1 fault, saves work | implements `Replica`; no deleted row returns; nothing goes back in time; convergence; requests are served in the end | 0.5M, 140 s |
| `orphans` | 1 key, 2 workers, 2 commits, 1 expiry, 1 request, 1 fault, orphans | though orphans write: no existing row is lost or missing, requests answered by tables made after them, no older snapshot back, the inductive invariant `OInv` | 1.5M, 120 s |
| `ghost` | 1 key, orphans | violated: a deleted row comes back (finding) | |
| `swapback` | 1 key, 3 faults, saves fail | violated: an older table is swapped back (finding) | |
| `instances` | 1 key, no commits, no faults | violated: the live table lacks covered rows (finding) | |
| `scheduler` | 3 tables, 1 of them sick, 2 workers, default cap (1), 1 part, 2 events | books agree, loads keep to the cap, healthy tables are loaded and polled | 0.2M, 75 s |
| `drift` | 1 key, 1 column that comes and goes, 2 workers, 1 commit, 3 events (columns, requests, failed tasks and cut-overs) | a view that names its table's columns, correct view and its inductive invariant, values and columns arrive, tables catch up | 1.1M, 120 s |
| `sort_key` | 1 key, 1 worker, order_by with a column | violated: an old row stays in the view (finding) | |
| `scan` | keys -2..3, 1 to 3 parts; 8 two-column keys; the same with datetime ticks; 5 codecs; batches of 2; each part goes back twice | one part per key, every row read, none repeated beyond its checkpoint | 1.3M, 100 s |
| `seed_append` | 3 tables, 4 row plans, 2 jobs, 2 faults, batches of 1 | no key collision, parents exist, success is complete, jobs end | 115k, 15 s |
| `sync_jobs` | 2 jobs, docker and local, 3 faults | no leaked ch-sync, never two, own results, jobs end | 83k, 15 s |

Why the bounds are enough.  Two keys give two parts, a key read before and one read
after a commit, and a resume in the middle of a part.  Two commits give a commit before
and one after the plan, or an update and a delete of one key.  One fault is a
crash, failed task or failed save at every point of a run; `MaxSnapshots` leaves an id for
every replan the other bounds allow, so TLC finds no deadlock.  The other
bounds are in the guards of the environment's actions, so they cut off no step of the code.
`resync` has one key since its questions are about the order of snapshots and contents,
not about parts.  Two slots and three tables leave a table waiting in every pass;
`MCScheduler` lets the tables start with part of the events used up, so that three tables run
undisturbed, two are disturbed once and one twice.  Two workers with one column have every
pair of schema and column list, three events add and drop it and fail (a task or a cut-over) or
resync in between.  Three datetime ticks are rounded down, up and not at all; going back twice
puts one resume after another.
Two jobs are a job and what it leaves to the next.  The theorems of section 5 hold for
every value of all of them.

### Findings

* `swapback`: two failed state saves and a crash bring back an older snapshot, against
  "never swaps back".  CDC replays from that snapshot's version afterwards, so no row is
  lost for good; readers see an old table meanwhile.
* `ghost`: an orphaned worker writes an older snapshot's rows into a later staging table.
* `instances`: with one shard index given twice, results do not "stay correct": one
  instance exchanges the staging table that the other has just created.
* `sort_key`: an `order_by` chosen for query filters makes the "correct current state" view
  show rows twice, and deleted rows, once the extra column changes.

Seen while reading, without a run:

* With one worker the default cap is 1 (`config.py:168`), so "CDC always has capacity" (:147)
  does not hold; for two and more it does (`CdcKeepsASlot`).
* Rows changed, or resynced, within `schema_refresh_seconds` of an ADD COLUMN lose the
  new column's value until they change again (`early` in `SchemaDrift`).  A column dropped
  and added again shows its old values.  If `ensure_columns` fails between ALTER and the
  view, the retry sees nothing missing and the view lacks the column until the next plan or
  cut-over, against "the view is recreated" (README.md:155).
* After a column was dropped and the table resynced, the view names a missing column, and
  its queries fail, from EXCHANGE (`supervisor.py:330`) until the view is recreated (:334).
  That takes the DROP ... SYNC of the old table; if one of the two fails, or the process
  dies there, it lasts until the cut-over is retried or another snapshot is planned.
* A composite primary key whose first column is a `datetime` can lose rows of a snapshot: the
  raw value is ordered and compared (`queries.py:51-61`, :85), but the checkpoint has it as
  Python does, rounded to milliseconds.  Rounded up, a part that is resumed skips the rows
  with the same first value it has not read.  Take `Resumable` out of `ReadInFull` to see it.
* A worker whose column list predates an exchange does not add a missing column until an
  insert of its fails: the exception in `ColumnsArrive`.
* `_refresh_tables` compares keys in lower case and tracks them as written: a discovered
  table renamed only in case gets a second runtime, in phase cdc for a table never created.
* README "picked up automatically" for a table added to `tables:` needs a restart; the
  configuration is read once.
* Two source tables may have one target name (`dbo.a_b` and `a.b`); nothing checks it.
* Dates in a primary key are clamped, and its seventh fractional digit is lost: two
  source rows may become one.
* `POST /schema` with `dropExisting` can drop a parent's rows under a seed
  (`schemaService.js:5-6` says foreign keys exist).
* In local mode `leftRunning` does not survive an API restart, and the next run starts a
  second ch-sync.
* `routes/jobs.js` documents a cancelled job as ending `cancelled`; one whose run throws
  after the cancel ends `failed`.  A run without `resetTarget` finds the earlier
  run's `cdc` states and finishes at its first poll.

## 4. Fairness

* `TableSync`: `step()` calls every part of the supervisor in a loop, so each of its steps
  is weakly fair; a worker process runs its task to an end; a supervisor that stopped is
  restarted by the service manager (`restart: unless-stopped`, README "Run").  The
  source, operator, flushes and faults get none, and faults are finitely many.
* `Scheduler`: the loop of `step()` goes on and time passes (`next_run` is reached; a backoff
  ends, strongly fair because it is only seen between passes).  A CDC task ends, and futures of
  a broken pool fail.  Snapshot tasks may take for ever in `HealthyPolled`; `HealthyLoaded`
  assumes that they end too.  Results come in any order, and discovery and requests at any
  time or never.
* `SchemaDrift`: the supervisor's loop and the workers go on, and a cached schema gets
  older than its limit.  Failures are finitely many.
* `SeedJob`: the event loop resumes a run function whose statement ended.
* `SyncJob`: awaited calls return (`stopChSync` waits a minute at most) and the deadline
  passes.  ch-sync itself gets none: jobs end whatever it does.

## 5. Proofs

For all values of the constants under the named assumptions of the modules.

**TableSync, safety.** `TypeCorrect` proves `TypeOK` from `TypeInv`, which adds that snapshot
phases and unfinished tasks name a drawn id and a real plan.  `SyncInvariant` proves `IInv`
assuming `~OrphansSurvive`, and from it follow `ReadersSeeWholeTables`,
`CheckpointIsCovered`, `ProgressIsCovered`, `NoGhostsWithoutOrphans`.  None of those
properties is inductive alone:

* the live table is whole after the swap because every part of the plan in memory is
  in staging (`InvMemory`, `PartLoaded`), which holds because a part is reported done
  only by a task whose rows were in staging (`SnapTaskSound`);
* a part resumed from `snapshot_progress` misses nothing because rows go in before their
  key is checkpointed (`InvProgress`);
* a CDC task applies every change up to its version because its start was covered and
  not beyond retention (`CdcTaskSound`, used with the guard of `CdcOpen`);
* versions win in the right order because every cell carries its snapshot's version or
  that of a change of its key (`InvCells`);
* comments identify tables because snapshot ids are used once (`InvTables`), and memory
  and saved state agree on a snapshot they both name (`InvStates`);
* CDC runs alone and planning waits for running tasks (`InvTasks`, `InvControl`).

There is one lemma per action; frame lemmas carry over the parts an action cannot disturb.
The assumption is needed: `ghost` violates `NoGhostRow` without it.

Three theorems of the same module say why tasks may be run again, as tasks.py:4-6 claims:
`WritesRepeat` (an insert repeated after it got through adds nothing), `BatchesDoNotMatter`
and `OrderDoesNotMatter`, the last for batches that give one version of a row one content.
Snapshot rows do not: two readings of a part carry one version and maybe two contents,
which is why CDC must replay from the plan's version.

**TableSync, orphans.** What is left when workers outlive a killed supervisor and saves
fail: `OrphanInvariant` proves `OInv` without any assumption, and from it `NoRowIsLost` and
`NoRowIsMissing`, the halves of `CheckpointCovered` and `LiveTableWhole` that are about rows
that exist, the second also for both checkpoints in every phase.  An orphan may bring any
old row into any table, so the argument turns `IInv` round:

* versions in a table only grow, so a cell at least as new as its row (`Fresh`) stays so until
  the row changes, whoever inserts what; coverage is about `Fresh` cells only (`Held`);
* no cell lies about a row that exists: one as new as the row has its content (`Truthful`,
  `OTruth`), since a snapshot row is read live and dated no later than it was read;
* whoever knows a snapshot, the two states or a loader, orphan or not, knows one version and
  one plan of it (`OKnown`), so that an orphan's checkpoints stand for rows it has inserted
  (`LoaderSound`, `OProgress`): an orphan of an older snapshot writes another snapshot's
  progress, and one of the same snapshot writes true progress;
* no table planned before a checkpoint can replace the live table (`OCheckpoint`, `OControl`).

`CutOverIsFinal` and `RequestsAreHonoured` assume `~SavesMayFail` only.  They come from
`OForward` over `OInv`: `sync_state` names the snapshot the memory names (`ONames`), and a
request marked handled came before the table that answers it was made (`OAnswers`); an orphan
never writes to `sync_state`.  `swapback` shows that the assumption is needed.  With orphans,
`since` dates the staging table, not the rows an orphan may bring into it.

**TableSync, refinement.** `ReplicaImplemented` proves `Spec => ImplementsReplica` assuming
`~OrphansSurvive` and `~SavesMayFail`; `ReadersMoveOn` comes from the same invariant `RInv`,
inductive over `IInv`.  Its argument: `sync_state` follows the memory (`RState`), so after a
restart the staged snapshot is the latest planned and later than all that was promised
(`RPlan`, `RStaged`); what a task has read is no older than the live table and a CDC task goes
on from the checkpoint in memory (`RTasks`); both checkpoints stay covered in every phase
(`RCovered`).  `StepRefines` then needs three kinds of step only: a batch of changes, the
cut-over, a later checkpoint.  Both assumptions are needed: `swapback` and `ghost` break the
promise.  `PromisesAreKept` is about `Replica` alone: what is promised stays in the view while the
source commits on.  That no promise is taken back is in the form of `Replica`'s steps (the
lemma `ReaderOnward`); `RestartsKeepPromises` carries both over to `TableSync`, where
neither is.

**Scheduler.** `SchedulerTypeCorrect`, `BooksAgree` and `CapHolds` from `SchedInv`, which adds
that a snapshot never loads beside CDC of its table and that passes and batches exist only
where `step()` is at them.  The cap is a cardinality argument: a submission adds one
snapshot slot, and only below the cap.  `CdcKeepsASlot`: the default cap is below the number
of workers as soon as there are two.

**SchemaDrift.** `DriftTypeCorrect` (`TypeOK`) and `ViewNamesItsColumns` (`ViewAnswers`) for any
`OrderBy`; the second since every way out of a cut-over, the retry and the next plan,
recreates the view, and tables in use only gain columns.  `ViewShowsSource` and `NoValueLost`
assume `OrderBy = {}` (`sort_key` violates the first without it) and come from `DriftInv`
(`DriftInvariant`):
every row a snapshot has read carries the snapshot's version, so a part that is loaded again
replaces itself and nothing else (`InvSnapshot`, `InsertPart`); a change read by CDC is newer
than the checkpoint and no row of its key in the table outranks it, so it wins and the other
keys stay (`InvCdc`, `InsertChanges`); the schemas tasks are yet to read with have all the
columns of a row that is not early, since a fresh schema has every column and a dropped
column leaves the row (`InvValues`).  `QuietStep` carries all of it over steps that load,
change and finish nothing.

**SnapshotScan.** `PlansAreTotal`: bounds grow with the part number (floor division), so
each integer key lies between exactly two of them.  `NothingSkipped`: `ReadInFull` for every
table, codec and interleaving: a checkpoint is of a batch that was flushed, and a stored key
that is above the key read is still below the next one (`StoredIsBefore`, from `Spaced` and
`Resumable`), so that a resumed query never starts behind unread rows; what is inserted
again is what the part has inserted since its checkpoint.  `ScanTypeCorrect`: `TypeOK`.

**SeedJob.** `SeedInv` = types, `InvBusy` (a run function exactly while a job is active),
`InvNumbering` (new ids start above all present), `InvProgress` (nothing passed over is
missing unless cancelled) and, without overlap, `InvRange` (ids are `1..max` and the
bounds a job read still hold).  From it: `AppendingIsPossible`, even when tables are
dropped under a job, `SucceededMeansComplete`, and `ParentsAreThere` assuming
`~MayOverlap`.

**SyncJob.** `SyncInv` = types, `InvRun` (the run function and the jobs agree), `InvLive` (which
ch-sync may be up at each point of a run) and `InvStates` (after a reset only the run's own
ch-sync has saved).  From it: `SyncTypeCorrect`, `NothingLeaks`, `ChSyncsExclude`,
`ResultsAreOwn`.

Only model-checked: liveness (`Converges`, `RequestServed`, `HealthyPolled`, `HealthyLoaded`,
`CatchesUp`, `ColumnsArrive`, `JobsEnd`), which is out of the prover's reach.  Every other
property of a passing run is a theorem.

## 6. Not modelled

* READ COMMITTED change sessions (`use_snapshot_isolation: false`, `source.py:150`): three
  reads that commits may separate.
* Retention shorter than a snapshot takes, which resyncs for ever: `MaxExpired` is finite.
* The operator's clock behind request times, and equal `updated_at` times.
* Letter case and collisions of table names, and how `owns_table` spreads tables over shards.
* Type mapping, DDL and query text, parsing of configuration and command line, logging,
  status output, the run log, `partition_by` and table settings, request validation, report
  figures, health checks, Swagger, setup scripts and containers: conversions and
  wiring without state of their own.
* A seed job beside a ch-sync kept running: `SeedJob` and `SyncJob` share the job store but
  are not composed; the overlap distorts a timing and loses nothing.
* `src/loadtest` has signatures without bodies, and several API routes and services are
  empty files.

## 7. Plan

1. The set of tables: letter case, target names, shards.
2. `SeedJob` and `SyncJob` over one job store, with a kept ch-sync replicating during a seed.
3. READ COMMITTED change sessions in `TableSync`.
