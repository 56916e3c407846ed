# Formal models of the MDP migration and streaming backend

The Manufacturing Data Platform copies JD Edwards views from Oracle into
staging tables of a Postgres database (schema `mdp_staging`), keeps the copies
up to date, checks them against Oracle, and serves them to other systems
through generated APIs. The backend (`src/backend/app`, Python, FastAPI,
SQLAlchemy) does not read Oracle itself: it starts `ora2pg` in another
container through Docker's API and reads the process's output stream.

This directory holds TLA+ modules for the parts whose correctness depends on
the order of steps of several actors, the TLC configurations that check them on
small instances, and proofs that TLAPS checks for every value of the constants.

## 1. The system

### Components

| Component | State | Operations | What makes it hard |
|---|---|---|---|
| **Full reload** (`services/ora2pg_runner.py`: `full_reload_once`, `_atomic_swap`, `_copy_stream`) | the live table, `<target>_new`, `<target>_old`, a process in the ora2pg container | one cycle: count, drop leftovers, create, copy, guard, swap | the temporary name is shared by every cycle; crashes; streams that break while the process goes on; an exit code that is not known yet |
| **Migration and repair runs** (`api/ora2pg_dashboard.py`, `ora2pg_runner._worker`, `_repair_worker`, `_repair_pk_worker`, `migration_service.reconcile_ora2pg_run`) | `migration_runs` rows, the in-memory `_PROGRESS`, one daemon thread per run, the staging table | start, repair, report progress, fail, succeed, reconcile, look up | check-then-act in the request handler; the row, the snapshot and the thread disagree after a lost save, a dead thread or a restart; the tail of a run overlaps the next |
| **Incremental streaming** (`services/streaming_service.py`: `run_cycle`; `ora2pg_runner.streaming_pull_once`; `api/streaming.py`: `put_config`, `run_once`) | `streaming_configs` (marker, cursor), the staging table | a cycle: load, initialise the cursor, pull, advance; change the marker | late commits in JDE; half-finished pulls; overlapping cycles; a configuration change during a cycle, or half done |
| **Poll loop** (`services/streaming_refresher.py`, `main.py` lifespan) | a task, a Postgres advisory lock | start, tick (`run_all_due` in a thread), stop | several backend processes; a lock that cannot be taken because of an error |
| **Source counts and verification** (`source_count_service.py`, `source_count_refresher.py`, `verify_service.py`) | cached counts, a queue, batch status | refresh estimates, exact count, verify one or many | stale counts and runs that are replaced while Oracle counts; a queue beside a synchronous path |
| **Primary keys** (`ora2pg_dashboard.py`: discover, set, clear; `pk_reference_service.py`) | `migration_jobs.primary_key_columns`, a synced copy in `streaming_configs` | discover, set, clear, seed at start | precedence of sources; copies that drift; the key decides between incremental and full reload |
| **Data models, inbound, outbound** (`data_model_service.py`, `table_generator.py`, `inbound_service.py`, `outbound_service.py`, `type_b_*`) | model records, `mdp_data.dm_*` tables, transactions | create, change, archive, delete; insert; query | tables outlive their models; a model changes while requests use it |
| **Access** (`api/deps.py`, `core/security.py`, users, roles, API keys) | users, role permissions, keys | log in, check, seed at start | seeding against edits by an administrator |
| Time-zone backfill, jobs and templates, procurement staging, JDE demo, connections, database browser, preferences, frontend, schema migrations, deployment | records, files | CRUD, read-only I/O, scripts | no concurrency of their own |

### How they interact

The poll loop calls `run_all_due` in an executor thread; for each table that is
due, `run_cycle` either pulls incrementally (it has a marker and a key) or
reloads the whole view. The `run-once` endpoint calls the same `run_cycle` in a
request thread. Dashboard requests start `_worker` threads that drop, create
and fill the same staging table. All of them start processes in the same
ora2pg container. No lock is held across any of these: what keeps them apart is
a check in the handlers (for runs), nothing (for cycles), and Postgres
statements that are atomic one by one.

### Correctness, per component

- Full reload: readers see one complete copy or the previous one; an empty copy
  never replaces rows; nothing is left behind; the copy catches up.
- Runs: one run fills a table at a time; the row shown is one that happened; a
  success means that all the run was asked for is in the table and a repair has
  lost nothing; a table is never blocked for ever.
- Streaming: the cursor never passes a row that is not staged; it is a value of
  the marker it is compared with; every due row arrives, also those committed
  late and over a year boundary.
- Source counts and verification: a number shown as exact was counted exactly;
  a failure at Oracle keeps the last number; a verdict that nothing disturbed is
  true and on the latest run; tables are verified one at a time, in order; a
  polled batch is never forgotten while it has work, and is finished some time.
- All writers of a staging table together: no row twice, no hole that no later
  cycle looks at, every row tagged by its writer, a finished run complete.
- Primary keys: a manual key wins; migration and streaming use one key; a table
  keeps a unique index, and it is the one of the key that a cycle upserts on; a
  cleared key stays cleared.
- Data models: a table fits its model and belongs to one; an edit never undoes
  another's; a record is stored exactly if that is logged; names stay unique.
- Type B joins: the planner accepts exactly the trees; the SQL text says the
  same as the mapping; an answer has each key once and loses none.

## 2. Modules

| Module | Models | Proofs |
|---|---|---|
| `SnapshotTable` | abstract specification: what a full reload promises readers | |
| `FullReload` | `full_reload_once` and everything it calls, by several threads | `FullReloadProofs` |
| `MigrationRuns` | `start_migration`, `repair_table`, the workers, `_PROGRESS`, `_persist`, `_reconcile` | `MigrationRunsProofs` |
| `StreamingCycle` | `run_cycle` (incremental case), `streaming_pull_once`, `put_config`, `run_once`, and JDE as the source of rows | `StreamingCycleProofs` |
| `SourceCounts` | the cache row of one view, `perform_verify`, the estimate refresher | `SourceCountsProofs` |
| `VerifyQueue` | `enqueue_batch`, `_ensure_worker`, `_worker_loop`, batch status and its eviction | `VerifyQueueProofs` |
| `StagingWriters` | the rows, tags, index and cursor of one table under all three workers and the streaming cycles | `StagingWritersProofs` |
| `PrimaryKeys` | discover, set and clear, the copy in `streaming_configs`, the seed at start, every DDL statement of the unique index | `PrimaryKeysProofs` |
| `ModelRegistry` | abstract specification: what the data-model endpoints promise clients | |
| `DataModels` | create, edit, deactivate, delete, the generated tables, inbound and outbound requests and their log | `DataModelsProofs` |
| `TypeB` | the join planner, the validator, the SQL text and the SELECT of a Type B model | `DataModelsProofs` |
| `MC...` | one module per component above, with the instances for TLC | |

`MigrationRuns`, `StreamingCycle` and `StagingWriters` look at the same table
from three sides: who may run, which rows a cycle asks for, and what the rows
become when both write. `DataModels` is the detailed side of `ModelRegistry`, as
`FullReload` is of `SnapshotTable`. The modules are not composed into one: what
they share is one value each (the key of the job, whether a cycle is running),
which the other module leaves free.

`PROJECT.json` maps each definition to the lines it stands for.
Each module also holds a few operators that no action contains, named in the
comment above its actions: bugs a developer might have written. Every property
of a passing run is violated when one of them takes the place of the definition
that it alters ("mutants" in `PROJECT.json`).

### FullReload

One action per statement the cycle sends to Postgres or stage of the ora2pg
process: `CountBefore`, `ClearTemp`, `Unreachable`, `CreateTemp`, `TagTemp`,
`StartCopy`, `CopyChunk`, `CopyDone`, `RefuseEmpty`, `AcceptCopy`, `Swap`, and
the failures `FailAndDrop` (a stage fails and the handler drops the temporary
table), `FailUndropped` (Postgres is lost, so the DROP fails too),
`LoseStream`, `UnknownExit`, `Crash`. A table is a record of its rows, whether
some row is in it twice, and which content of the view it is a complete copy
of. The view itself changes at any time; `history` keeps its contents.
`_drop_table` on `<target>_old` has no counterpart: the swap renames and drops
it in one transaction, so no reader or later cycle ever finds it.
`_count_target` swallows every error, so a count may answer "no rows" for a
table that has some. That, an unknown exit code and a process that outlives its
cycle are the `Disturbances`; a configuration names those it lets happen.

`clean` and `leftover` are ghosts: `clean` is true until two cycles overlap or
a disturbance strikes, `leftover` marks a temporary table that no handler could
drop. The guarantees are stated under `clean` because the code gives none
without it: two overlapping reloads may publish an empty copy (`NeverEmptied`,
section 3).

### MigrationRuns

A request is checked, commits its row, and launches its thread in three steps,
with other requests and threads in between. A thread sets the live snapshot and
saves the row in separate steps, and a save may be lost (`_persist` swallows
errors). The three workers share their shape, and the model has one thread for
them, with `kind` for the differences that matter here: a load drops the table
(`Kept`), a range repair deletes what it asks for, a repair by the key deletes
nothing; only a load runs the schema export that can kill the thread. Of a row
only the status is modelled, since the guard reads nothing else: the counts, and
the verdict that `Reconcile` commits at last, decide nothing here. The source is
a set of `Parts`; `asked` is which of them a run is to bring: any for a load,
which may be capped, and for a range repair, all for a repair by the key.
`target` is the last run that began to fill the table, the parts it holds and
those that run found there. Rows one by one are in `StagingWriters`.

A thread whose ora2pg has not ended yet is in `orphans` once it has failed over a
broken stream (`LoseStream`), has taken an unknown exit for success
(`SucceedUnknown`, recorded in `unsure`), or died in a `Crash`; its rows may still
arrive (`LoadPart`). `raced` and `spoiled` (a run launched beside another, or
beside an orphan) are ghosts for the situations the code does not protect
against; the safety properties are stated outside them. `StartIsExclusive` and
`RefusedOnlyInFlight` (section 3) say what fails inside.

### StreamingCycle

A row of the view has a day and an id. A day is the number that the code
computes with, CYYDDD: `Julian` gives the number of each day that passes, one by
one within a year, with a gap at its end (124366 is followed by 125001), and
`Matches` subtracts the lookback from it as `build_streaming_predicate` does.
JDE inserts rows in order but commits them later, up to `Lookback` days (`Recent`);
it also updates them. The configuration row
holds the marker (the day, or the id) and the cursor with its value space.
A cycle loads the row (`Start`), initialises the cursor from the greatest
staged marker if it has none (`Prepare`), fixes what Oracle returns (`Query`),
inserts in chunks in any order (`Insert`; a staged key is skipped), and ends in
`Succeed`, `SucceedUnknown`, `Fail` or `Abort`. SQLAlchemy writes a column back
only if its value changed (`WriteBack`), which decides what an overlapping
`put_config` loses. `put_config` is two commits (`ChangeMarker`,
`ResetCursor`), and the second may never come (`LoseReset`).

`safe`, `ragged`, `used` (the markers there have been) and two fields of a row,
`late` (visible after a greater id) and `crossed` (visible in another year than
that of its day), are ghosts. `Passable` says under which markers a row may be
passed by: an id does not look back at all, and a date not over a year boundary.

Times of day (granularity "timestamp"), the interval and the enabled flag of a
table are left out: they choose when a cycle runs and refine the marker, and a
cycle may start at any time in the model.

### SourceCounts

One view, its cache row in `ora2pg_source_counts`, the staging table's count
and the runs it is stamped on. A verifier (`perform_verify`, in the worker of
the queue or in a request to `/verify`) goes through `Pick` (the latest run),
`CountTarget`, `AskExact`, `Load` (the read of the cache row), `Write` (the
commit), `Reread` (the refresh after it) and `Judge` (the verdict and the
stamp); between any two of them the refresher may do its own `AskEstimate`,
`Load` and `Write`, a run may be created, and the view and the table may
change. `Write` is what SQLAlchemy does: it sets the columns whose value
differs from the one that was read, so two writers that overlap may each
contribute some columns (`Merged`). Two that find no row both insert, and the
second violates the unique key (`Conflict`). A step may raise, or the backend
die, at any point (`Abort`). A number of rows is only compared, so `Counts` is
a set of any values.

`mixed` (an estimate and an exact count overlapped between reading and
writing), `sure` (the verifiers that nothing has disturbed) and `confirmed`
(what exact counts have returned) are ghosts for the properties.

### VerifyQueue

A request registers its batch, with evictions, under the lock (`Register`);
makes sure that there is a worker under the lock again (`EnsureWorker`); and
puts its names one by one (`Put`), each step interleaved with other requests
and with the worker's `Take`, `MarkRunning` and `Finish`. A name is in the
catalog or not; a verify ends in "done" or "error", an unknown name in
"error". `Crash` loses everything, as the queue is in memory only. Batches and
threads are numbered by the request that made them. What `perform_verify`
computes is left to `SourceCounts`.

### StagingWriters

One staging table, row by row. A row of the view is a number, its key and its
marker at once; `copies` says how often it is in the table, `tag` is its
`_migrate_run_id`, `default` the DEFAULT that every writer sets for itself
before it writes. A run goes through `StartRun`, `Recreate` (`_apply_ddl`, which
also drops index and DEFAULT), `TagRun`, `IndexForRun`, `ClearRange` (the DELETE
of the watermark repair, committed by itself), `StartCopy`, `CopyRow` in any
order, and `Succeed` (exit 0), `FailRun` or `LoseRun`; a full migration may be
capped (`test_rows`), and reports a failure of the index instead of stopping. A
cycle goes through `StartCycle`, `TagCycle`, `IndexForCycle`, `Query`, `PullRow`,
and `Advance` (exit 0), `FailCycle`, `LoseCycle` or `AdvanceUnknown`. The guard of
`MigrationRuns` keeps runs apart, so one is in flight at a time; nothing keeps a
run and a cycle apart. A COPY into a table with the index fails on a conflict
(the run fails), an INSERT skips it.

An ora2pg may outlive whoever started it: the stream breaks (`LoseRun`,
`LoseCycle`), the exit code is not known yet and counts as success (`LoseRun`
again, since for the rows it is the same; `AdvanceUnknown`, which moves the
cursor over rows still to come), or the backend dies (`Crash`, which saves
neither an outcome nor a cursor). It is then one of `orphans`, and inserts its
rows (`OrphanInserts`) under the DEFAULT and the index that others have set
since, until it is done or fails (`OrphanEnds`).

`by` (who wrote a row), `whole` (nothing was left unfinished that the cursor
cannot see), `met` (which writers overlapped since the table was created: "full",
a full migration and anyone; "copy", a watermark repair and an orphan of a COPY;
"other") and the field `mends` of a run (all below its range is in the table) are
ghosts. The properties under `met` are true only with it: `_repair_worker`
promises an idempotent re-pull (`ora2pg_runner.py` 520-521) and
`streaming_pull_once` that existing rows are never duplicated (790). Both fail
when a full migration takes the index from under a cycle or an orphan, and the
first also when the orphan of an earlier COPY inserts what the repair has deleted
and copies again.

### PrimaryKeys

The key is in three places: the job (with its source), the copy in
`streaming_configs`, the unique index of the table. `job` is the first two,
`idx` and `tmp` are the index and the temporary one of a rebuild, and `unique`
is which keys the rows satisfy, so that a CREATE UNIQUE INDEX may fail. Each
request (`set`, `clear`, `scan`, a load, a cycle) is a sequence of steps, one per
DDL statement, since each commits by itself. `set` builds the index first and
writes the job last; a session writes the columns that differ from what it
loaded (`Merged`). `_ensure_unique_index` and `_rebuild_unique_index` have the
same four statements and share `DropTmp`, `CreateTmp`, `DropIdx`, `Rename`; they
differ in what follows a failure (`NotBuilt`). Each of the four may fail by
itself, by a timeout or a lost connection: the handler of a set then drops the
temporary index (`CleanUp`, which may fail too), a load or a cycle has no handler
and leaves what is there. `Restart` ends every request where it is, and seeds.

`late` (a session wrote over what it had not seen), `orphan` (a rebuild was left
half done: by a crash, an overlap, or a DROP or RENAME that failed after the new
index was built), `cleared` and the field `alone` of a request are ghosts. Outside
them the code gives less than its comments say: a crash between the CREATE of
the temporary index and the DROP of the old one leaves two unique indexes, and
ON CONFLICT drops rows on the stale one, which `ora2pg_runner.py` 294-299 means
to exclude; two rebuilds at the same time, or a RENAME that fails by itself
(`FailureKeepsIndex`), may leave the table without an index, although
`ora2pg_dashboard.py` 759-761 and 777 promise that the prior one stays; a
cycle in flight during a clear writes its copy of the key back and revives it.

### DataModels and ModelRegistry

A request is two steps, what it loads and what it commits, with any others in
between; delete has its UPDATE of the log and its DELETE. A table is the set of
its columns, and a record is the request that brought it. `Edits` are what one
edit may ask for (`EditGroups` are the fields it may change together; those of a
configuration are the ones its properties tell apart), `Payload` leaves out what
is None (so an edit cannot clear the key), and `Written` is SQLAlchemy's
column-wise UPDATE. A generated table stays when its model goes; `Created`
adopts such a table as it is, `Synced` alters the table of the model's present
name, and `TableOf` is the table of the name that the model had when it was
created. An inbound request stores and logs in one transaction; its failure is
logged in another. A log row may be impossible (`Loggable`): of a model that is
gone it violates the foreign key, and with values that do not fit the columns of
`transactions` (`fits`: a path longer than 255, a NUL in a payload) it is
refused, and so is the one that the handler adds.

`moved` (renamed, or changed in type) and `adopted` (created over a table that
lacks a column) are ghosts. Inside them
the code does less than it says: after a rename the new columns go to a table
that inbound does not use, against `table_generator.py` 147-152 and the comment
on "never a live-model collision" at `data_model_service.py` 151-154. Outside
them, too, it does less: an edit that drops the key keeps it, so that the saved
row contradicts `schemas/data_model.py` 142-143 (`SavedRowIsValid`); a request whose
log row does not fit leaves none (`UseIsLogged`); a log row that commits between
the UPDATE and the DELETE makes the delete fail, although
`data_model_service.py` 221-222 says that it "never 500s".

`ModelRegistry` knows models by identity, with a name and whether they are
active. `ImplementsRegistry` maps the live rows to it, and holds for any overlap
of requests, as the column is UNIQUE and identities are not used again.

### TypeB

Pure definitions follow the code: `Place` is one join of one pass of
`_resolve_join_plan`, `Planned` repeats passes, `Sql` and `Parses` are
`generate_type_b_sql` and what `parse_type_b_sql` accepts, `Newest` is the
DISTINCT ON of latest_only, `Joined` one LEFT or INNER JOIN. Each loop of the
code is a recursive function of the number of rounds it has done (`PassStates`,
`PlanStates`, `SqlPassStates`, `SqlStates`, `ResultStates`). Where the code
repeats passes until one changes nothing, the function does as many as there are
joins; that no further pass would change anything is proved (section 4). The
names `QueryInit`, `QueryNext` and `QuerySpec` are its own, so that one module
of proofs can extend this one and `DataModels`. The state machine is one
request: plan, probe each join's right column and the key, answer. The source
tables are loaded again at any time, so a probe may be stale when the SELECT
runs (`touched`); a probe that raises counts as one that found duplicates. The
code probes while it looks at the joins' types and checks connectivity
afterwards, the model after both: a mapping that either refuses is never
queried, and no probe changes anything. `PlansTrees` compares the planner with a
reference that does not mention order: the distinct joins form a tree with the
base as its root. An attribute stands for its table; types of attributes,
filters and paging are left out.

What the model does not let through: the text loses `allow_fanout` and a second
identical join, and two tables of one name in different schemas are not read
back (`SqlMirrorsPlan` excepts them). With a recency column that ties and no id
column, DISTINCT ON picks any row; the model has an id, and `ContentsAssumption`
says that no two rows of a table share it.

## 3. Runs

Bounds are the constants of the configuration.

| Run | Bounds | Shows |
|---|---|---|
| `reload` | 2 rows, loop and one run-once thread, 2 contents, all disturbances, fair | `LiveIsSnapshot`, `TempOnlyInCycle`, `PublishesInOrder`, `ReloadCatchesUp` |
| `runs` | 2 requests, 1 part, all disturbances, fair | `SingleFlight`, `RowFollowsProgress`, `SuccessIsWhole`, `BlockedOnlyByThread`, `NeverBlockedForGood` |
| `streaming` | 2 keys, 2 cyclers, lookback 0, 2 days of two years, 1 version, all disturbances | `CursorIsStaged`, `CursorInSpaceWhenSafe` |
| `streaming_alone` | 2 keys, the loop, lookback 1, 3 days with a year boundary, 2 versions, marker changes, fair | `NothingMissed`, `RowsArrive` |
| `streaming_updates` | as above, 2 versions, no disturbance | `ChangesArrive` is violated |
| `source_counts` | 2 counts, 1 verifier, the refresher, 1 run | `ExactIsConfirmed`, `FailureKeepsCount`, `StampsAreTrue` |
| `verify_queue` | 3 requests, 1 known and 1 unknown name, up to 2 names, room for 1 batch, fair | `PendingIsListed`, `VerifiedInOrder`, `OverfullOnlyOfPending`, `BatchFinishes` |
| `staging_writers` | 2 rows, 2 runs, 1 orphan at a time, any number of cycles and crashes | `NoDuplicates`, `TagsAreTrue`, `NothingBehindCursor`, `RunIsComplete` |
| `primary_keys` | 2 keys, 2 requests in flight, any number in a row | `KeysAgree`, `InsertsOnItsKey`, `ManualWins`, `NeverUnguarded` |
| `primary_keys_cleared` | the same | `ClearedStaysCleared` is violated |
| `data_models` | 2 names, 2 attributes, 2 models, 3 overlapping calls, edits of name and attributes, of the type, or of the status | `TableFitsModel`, `SharedOnlyIfMoved`, `StoredIffLogged`, `DeactivationSticks`, `ImplementsRegistry` |
| `type_b` | 4 tables (2 of one name), up to 3 joins of 2 ways, 3 contents of a table | `PlansTrees`, `SqlMirrorsPlan`, `OneRowPerKey`, `NothingLost` |

Types are proved (section 4) and not checked again in the runs.

Why the bounds are enough: the hazards of each component need two actors (two
threads on one temporary table, a request and the thread of another, a cycle and
an operator). In `reload` the view starts with no row or one and then has any
contents, so that a copy of the second version may be partial without being
empty; two contents tell an older copy from a newer one. Two keys let one row be
staged while the other is behind the cursor; three days with a lookback of one
let a row be late within the lookback while the cursor moves past its day, in
one year and over its end. One part of the source is enough in `runs`, as no
action relates two parts: a run asks for it or not, the table has it or not, and
what happens to one of several is what happens to this one. Keys, requests,
names and calls are symmetric, and the safety runs say so where it matters; the
liveness runs do not use symmetry. Two counts tell a match from a mismatch. One
verifier with the refresher has every overlap of an exact count and an estimate;
two verifiers do not finish in the time of a run, and the theorems of
`SourceCountsProofs` cover any number of them. Three requests with room for one
batch let two batches be in the way of a third, so that eviction may drop one,
several or none; two names of a batch make an order. Two rows have one below a
cutoff and one in its range, or one within a cap and one above it; the second of
two runs may make up for the first, or meet its orphan; the theorems of
`StagingWritersProofs` cover any number of rows, runs and orphans. Two requests
in flight let any two sequences of DDL interleave. Three calls let two edits
overlap after a create, or a create follow a rename. Three joins have every
shape the planner distinguishes: chains out of order, diamonds, repeated and
conflicting joins, a join into the base, cycles beside the tree.

The violated properties each quote a comment or docstring of the repository
(see "findings" in `PROJECT.json`):

- `ChangesArrive`: `ON CONFLICT DO NOTHING` skips the changed row, although the
  docstrings promise an upsert.
- `ClearedStaysCleared`: a cleared key is seeded again at the next start.

Other statements of the repository that the models refute are kept as
definitions in the modules, without a run; adding one as an INVARIANT (an action
formula as a PROPERTY) to the configuration of its module shows it:

- `FullReload!NeverEmptied`: two overlapping full reloads. One cycle's guard has
  counted its copy; the other drops and recreates `<target>_new`; the swap
  publishes it empty (`ora2pg_runner.py` 904-906 and 971).
- `MigrationRuns!StartIsExclusive`: two requests pass the guard before either
  has launched (`ora2pg_dashboard.py` 311).
- `MigrationRuns!RefusedOnlyInFlight`: a thread killed by an exception in the
  schema export leaves "running" behind, and the table stays blocked until a
  restart (`ora2pg_runner.py` 456-459).
- `StreamingCycle!CursorInSpace`: a cycle in flight during `put_config`, or
  between its two commits, leaves or uses a cursor of the old marker
  (`streaming.py` 133-145).
- `StreamingCycle!CutoffOnlyOverPulls` (in `streaming_alone`): "a year-boundary
  cutoff merely over-pulls a few rows" (`streaming_service.py` 76-78). It
  under-pulls: 125001 - 1 is 125000, which is greater than 124366, so the rows of
  the last day of a year that are committed late are never asked for.
- `PrimaryKeys!FailureKeepsIndex`: "the prior ux_<t>_pk is untouched on failure"
  (`ora2pg_dashboard.py` 777). If the RENAME fails by itself, the old index is
  dropped already, and the handler drops the new one.
- `DataModels!SavedRowIsValid`, with `EditGroups` of one group of the attributes
  and the key: "primary_key must match one of the attribute names"
  (`schemas/data_model.py` 142-143). An edit that drops the key's attribute and the
  key is validated without a key and saved with the old one.
- `DataModels!UseIsLogged`: "Each inbound request writes a transaction log"
  (`src/README.md` 358) and the same of outbound (`src/docs/api-design.md` 134).
  `transactions.endpoint` is a String(255), and JSONB holds no NUL: if the log row
  does not fit its columns, the insert fails, and logging that failure fails the
  same way.

### Fairness

`FullReload` and `StreamingCycle` assume that the loop starts a cycle again and
again (`_loop` catches every exception of a tick, sleeps a bounded time and
never ends while the backend is up) and that a thread inside a cycle goes on to
its next statement or its failure; run-once requests need not come. Liveness is
claimed of behaviours in which faults stop at some time: `ReloadCatchesUp` and
`RowsArrive` name the faulty steps they assume away. `MigrationRuns` assumes
only that a thread that has started goes on, and that the ora2pg it waits for
ends; an orphaned process may run for ever, and requests need not come.
`VerifyQueue` assumes that a handler that has registered its batch goes on to
put its names, and that the worker thread, which catches every exception of a
table, goes on, so that each count at Oracle ends; requests need not come. No
strong fairness is used. The other modules claim safety only and state none.

`CHECK_DEADLOCK FALSE` is said where the system may really stop: when the
bounded number of requests, runs or calls is used up and they have ended, when
the days and versions are used up while no cycle needs to start, when the
requests of the verification queue are used up and it is empty, and when the one
request of `TypeB` is refused or answered.

## 4. Proofs

What follows holds for every value of the constants that meets the named
assumptions: any rows, threads, requests, days and keys (`KeysAssumption`: the
keys of `StreamingCycle` are a finite set; `NoneAssumption`: null is no key, name
or attribute; for `TypeB`, `TablesAssumption`: there are finitely many tables,
`ContentsAssumption`: a table has finitely many rows, each with an id,
`NullAssumption`: null is no value, `HowsAssumption`: the shape of a join), and
any choice of disturbances. The bounds of
the runs are parameters here and never used as finite.

- **FullReloadProofs.** `CleanInv` is the strengthening of `LiveIsSnapshot` and
  `TempOnlyInCycle`: while no overlap and no disturbance has happened, at most
  one thread is in a cycle, and the temporary table is exactly what its stage
  made of it (`StageInv`): absent after the drop, empty after the tag, the rows
  sent so far during the copy, a whole copy not older than the live one after
  it. `LiveIsSnapshot` alone is not inductive, since the swap publishes the
  temporary table. The action property `PublishesInOrder` follows from
  the same invariant, and with it the refinement
  `LoneLoopImplementsSnapshots`: without overlap and disturbances `FullReload`
  implements `SnapshotTable`.
- **MigrationRunsProofs.** `FlightInv`: requests arrive in order, a thread that
  loads has an unfinished row and an unfinished snapshot (and only a dead
  thread has the second without the first), and, unless requests raced, the one
  that decides or loads is the only one and its row is the latest. The order
  matters: the guard looks at the latest row only. From it `OneRunInFlight`,
  `OnlyThreadsBlock` and `RowNeverAhead`. `FillInv`: while no run was launched
  beside another or beside an orphan, one thread loads at most, it shares the
  table with no orphan, and while it copies, what a repair found in the table is
  there or among what it asks for (`FillOf`); what a success has brought stays
  until the next run begins. From it `SuccessMeansWhole`. It does not need that
  requests did not race: two that raced do no harm unless the run of one is
  launched on top of the other's, and then `spoiled` says so.
- **StreamingCycleProofs.** `BackedInv`: the saved cursor and what every cycle
  has loaded are backed by a staged row, and days and ids have a common bound,
  so that the greatest staged marker exists (`GreatestExists`, by
  well-foundedness of the natural numbers). From it `CursorIsBacked`.
  `SpaceInv`: while nothing unsafe happened, every cursor in the row or in a
  cycle is one of the marker; a reset is pending only while no cycle runs. From
  it `CursorFollowsMarker`. `CursorPassesNothing` needs, besides these two,
  `RowInv` (ids are distinct and below the next one, an open row is at most
  `Lookback` days old by the calendar, what was copied has a visible origin), `AloneInv` (one
  cycle at a time, which has loaded the cursor that is saved) and `AheadInv`: a
  row that is visible and not staged matches the saved cursor and the one of the
  cycle under way; while a cycle pulls, the row is about to be inserted or no
  row, staged or about to be, has come past it; and where the cursor may have to
  be computed anew from the table, no staged row has. `NothingMissed` alone is
  not inductive, since it says nothing of the rows a cycle holds, nor of the
  cursor that `Succeed` computes from them. The argument has one lemma for the
  cycle (`AheadOfCycle`), one for the operator (`AheadOfOperator`) and one for
  the rows of the view (`AheadOfView`: a row that is committed late enough to be
  in the way is late by id, or within the lookback by day, where the difference of
  two CYYDDD numbers is one of days only within a year). Of the calendar only
  `JulianAssumption` is used: the numbers of days rise, one by one within a year.
- **SourceCountsProofs.** `WriteInv` says what may happen to the cache row
  between a writer's read and its write, while nothing was mixed: no verifier
  writes beside an estimating refresher, the label is the one that was read,
  and the number is the one that was read or has been confirmed since. From it
  `ExactNumbersAreExact`, for any number of verifiers. `SureInv` follows a
  verifier that nothing disturbs from its pick to its stamp: its run is the
  latest, its answer the view's count, and an exact number in the row it will
  judge is that answer. From it `UndisturbedStampsAreTrue`.
  `FailuresKeepNumbers` needs types only: a failed count writes no column but
  the status.
- **VerifyQueueProofs.** `PendingInv`: every job is in one place only, still to
  be put, in the queue, or with one worker (`JobsInv`), so that nobody else
  ends it; a handler has put a prefix of its distinct names (`BatchInv`). Then
  a job in flight makes its batch unfinished, and eviction takes finished
  batches only. From it `PendingJobsAreShown`, for any requests, names and
  limit of batches. `BatchesAreVerifiedInOrder` rests on three more facts:
  one worker is alive (`OneWorker`, which the lock in `_ensure_worker` is for),
  behind a job of a batch wait all those put after it (`OrderInv`), and where a
  job is decides its status (`StatusInv`): a job that is nowhere any more has
  ended. The order of the statuses is not inductive without the queue.
  `OverfullIsPending` is about what the eviction in `enqueue_batch` keeps: it
  drops the oldest finished batches, as many as there are too many, so that
  too many are left only if no finished one is (`EvictionSuffices`, which
  counts the batches up to the oldest finished one that is kept; it exists by
  `LeastExists`).
- **StagingWritersProofs.** `NoDuplicates` is not inductive: a row may be
  inserted twice unless somebody has seen to it before. `ClearInv`: without the
  index, what a run is about to copy is not in the table. `ApartInv`: unless a
  full migration was overlapped, a cycle that inserts has the index, and so has
  an orphan of a cycle or of a PK repair. `LoneInv`: unless one of the
  two overlaps of `NoDuplicates` is on record, nobody copies beside an orphan that
  copies (one that skips conflicts does no harm), so that what one process inserts
  is not in the way of another. `KeyInv`: a PK repair has the index.
  `FillInv` adds that each row a run has to copy is left to be copied or in the
  table, and gives `RunsAreComplete`. `TagInv`: without an overlap the DEFAULT is
  the id of whoever inserts next, an orphan included. `ReachInv` is behind
  `CursorLeavesNothing`: above a mark the table has no gap up to the cursor, nor
  up to where the cycle began, nor below a row the cycle or an orphan holds
  (`Gapless`, with the rows that are still to come from such a process counted,
  `Coming`); the mark is 0 when the table counts as whole, and the end of its range
  while a repair is copying, which makes up for what is below if nothing was
  missing there when it began (`mends`). `StartInv` says where each kind of run
  begins and ends, `SeenInv` that nobody is ahead of the view. When the repair ends
  well the gaps below the mark are closed (`MadeIsGapless`).
- **PrimaryKeysProofs.** `TmpInv`: the second index exists only during a rebuild,
  or an orphan is on record. `BuiltInv`: a rebuild that is alone has built its
  index before it drops the old one, and a cycle that is alone inserts under its
  own. `AloneInv`: who is alone shares the table with nobody. From them
  `TableStaysGuarded` and `CyclesUpsertOnTheirKey`. `OpInv` says which kinds of
  request come to a stage and that a scan commits only if it saw no manual key,
  which is `ManualKeysStay`; `JobAndCopyAgree` needs it and what a session writes
  if it saw the job as it is.
- **DataModelsProofs.** `IInv` is type correctness with what a request in flight
  has loaded (`CallInv`: of a model that was not moved it knows name and type),
  unique names (`NamesAreUnique`), which table such a model has (`TablesInv`),
  that the table exists and has a column for each attribute unless it was adopted
  (`ColumnsInv`), that a record, its log row and the end of its request go
  together (`StoreInv`). `CallInv` is what overlapping edits
  need: the sync of an edit alters the table of the name it has loaded. From it
  the three invariants; the action properties need one step of it; the refinement
  `EndpointsImplementRegistry` maps each action to `Enter`, `Change`, `Remove` or
  a stutter.

- **TypeB, in DataModelsProofs** (with the data models that its requests belong
  to). What a loop computes is a recursive function of the rounds done, and the
  theorems hold for any number of joins and rows. A function of this kind is shown to
  exist and to satisfy its equation by `LoopExists`, once, and by `PassLoop`,
  `PlannedLoop`, `SqlPassLoop`, `SqlLoop` and `ResultLoop` for each loop. A loop
  invariant is then proved by `IntervalInduction`: the rounds at which it holds are
  a set of numbers that has 0 and with each number the next (from the
  well-foundedness of the natural numbers).
  - `TypeBPlansTrees`. `Placed` says what a plan knows of all joins but those
    still to be looked at: the joins placed so far form a tree from the base, and
    every join seen is placed, a repetition of one that is, waiting, or a conflict
    that has been noted. Each join keeps it (`PlaceKeeps`), so each pass does. A pass shortens the list of those
    waiting or leaves none that could be placed (`PassAdvances`), so that after as
    many passes as joins none can (`PlannedIs`). Then `PlannerIsRight`: a plan
    without waiting joins is a tree with every table in it, and in a tree no join
    waits forever, since every table is reached from the base (`Reach`).
  - `TypeBSqlMirrorsPlan` has the same shape for the text: `Told` is the
    invariant of the ordering by table name, `Stuck` its end, where the joins
    left are appended as they are. `SqlIsRight`: the text has every join, and it
    reads back, each left table before its join and no table twice, exactly if the
    planner accepts.
  - `TypeBNothingLost`. By induction on the joins of the SELECT, every row
    of the base has a result row that it is part of, as a LEFT JOIN without a
    match keeps its left side (`LeftJoinKeeps`); with latest_only every value of
    the key has a newest row (`NewestKeeps`: `Newer` is a strict total order on a
    finite set of rows).
  - `TypeBOneRowPerKey`. `TypeBInv` is the invariant of the request: the mapping
    is one that may be asked, the rows are typed, the plan is resolved once the
    request is past it, and while no table was loaded after the probes began, what has
    been probed is unique still (`Probed`: the right columns of the joins before
    `next`, and the key once it has come so far). The property
    alone is not inductive: the answer is computed in the last step from probes of
    earlier ones. From it each join adds at most one row to a result row
    (`OneAddition`), so that the SELECT has each key once (`SelectOnce`).

Every safety invariant and every action property of the runs that pass is thus a
theorem. Only model-checked are the liveness properties `ReloadCatchesUp`,
`NeverBlockedForGood`, `RowsArrive` and `BatchFinishes`: liveness under fairness
needs ENABLED, which is out of the prover's reach. Nothing in these modules uses
a RECURSIVE operator.

## 5. Plan

The order follows the risk: first what may show wrong data to readers, then
what may lose data, then what may block.

1. Done: `SnapshotTable`, `FullReload`, `MigrationRuns`, `StreamingCycle`,
   `SourceCounts`, `VerifyQueue` and their proofs.
2. Done: `StagingWriters`, `PrimaryKeys`, `ModelRegistry`, `DataModels` and their
   proofs, `TypeB`.
3. Done: the proofs of every safety and action property, those of `TypeB` included.
4. Left, models: the advisory locks and the poll loops of several processes; a
   composition of `PrimaryKeys` with `StagingWriters`, in which the index of the
   second is that of the first.

Disagreements that were met and have no definition: where ora2pg could not count a
view, the cached estimate or the cap of a test run stands in for its total
(`ora2pg_runner.py` 366), and a complete load is stamped MISMATCH against it, although
the comment at 514 says "source (ora2pg total) vs target"; after a failed count, an old
exact number in the cache still
gives MATCH or MISMATCH, although the docstring of `verify_table` promises
"never a fake MISMATCH"; the docstring of `verify_service` says that every
verify, single or batched, goes through the one worker, but `/verify` calls
`perform_verify` itself; an estimate and an exact count that overlap on a cache
row may leave the estimate labelled exact.

## 6. Not modelled, and why

- Formatting and parsing: progress lines, DDL rewriting, the rendering of the
  ora2pg configuration and of predicates (what they do to the rows is modelled);
  the grammar of the SQL subset, validation of values, filters and paging.
- Timing: intervals, the 12-hour floor of a full reload, log tails and rates; the
  refresher's blocking call on the event loop.
- The advisory locks of the two loops: any number of cyclers may overlap in the
  models, which is what a lock that fails leaves.
- The frontend: it polls the endpoints and keeps no state others rely on.
- The time-zone backfill: a script that an administrator runs by hand, in one
  transaction.
- Access (users, roles, keys, tokens): checks of single records within a request.
- Jobs and templates, connections, the database browser, preferences, the
  procurement and JDE demos, schema migrations, deployment scripts: sequential
  record keeping or read-only I/O.
- ora2pg, Oracle and JDE are external: their actions say what the backend's
  code relies on (chunks committed by parallel jobs, a truncate before a copy,
  a read of the view as of one moment per export).
