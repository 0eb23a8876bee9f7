# Lakebase Express: a verification project

Lakebase Express (`src/`) migrates a SQL Server or Azure SQL database to Databricks
Lakebase, a managed PostgreSQL. A FastAPI backend scans the source, builds a plan of
target objects, applies it, loads the data either in a thread of the app ("sync") or in
a Databricks job ("async"), and validates the result, repairing what is missing with the
help of a model.

What is hard in this program is less the text it produces than two other things. A data
load runs for hours over connections that fail, in a process or on a cluster that can be
lost at any step, and leaves the target in between in a state the user must never see as
done: foreign keys dropped, tables truncated, triggers disabled. And what the migration
creates is judged afterwards by code written apart from the code that created it, which
names, types, collations and kinds have to agree with. This project models both: who
writes the bookkeeping of a run, when, and whether it can be believed; and what a plan
leaves in the target and what a validation makes of it.

Paths below are relative to `src/backend/` unless they begin with `src/`.

## 1. The system and its parts

### Inventory

| Part | State it keeps | Operations | Talks to |
|---|---|---|---|
| Run registry (`run_registry.py`) | per run: state, time of last write, version, newest version written; two locks | `create`, `update` (throttled), `get`, `list` | the run store; called by the request thread, the run's thread, its heartbeat thread |
| Run store (`run_store.py`) | one row per run: kind, project, status, JSON, `updated_at` | upsert, load, list, delete | PostgreSQL; also written directly by the notebooks |
| Sync load (`migration/runs.py`, `data_loader.py`) | `RunState`: per-table progress, `dropped_fks`, `heartbeat_at`, `resumed_from` | start, resume, capture and drop FKs, copy a table, restore FKs, heartbeat | registry, source, target |
| Async load (`data_migration/etl_generator.py`, `migration/async_runs.py`) | the run-state row: per-table checkpoints, `dropped_fks`, status per task; variables of the notebook | provision, trigger, resume, checkpoint, report, copy by key ranges, post-load tasks, maintenance | Databricks Jobs, run store, source, target |
| Job provisioning (`migration/job_offload.py`, `async_setup.py`, `secret_setup.py`) | one job per project in the workspace, its notebooks, its identity and schedule | upload, find or create a job, reset, switch run-as, pause, run now | Databricks APIs |
| Plan executor (`migration/executor.py`, `retry.py`) | a session that can be reopened | apply items in order, retry, isolate failures | target |
| Planner and schema migration (`migration/planner.py`, `schema_migration/`) | none | catalogue to plan items: names, types, collations, guards | model (code objects) |
| Translation (`schema_migration/ai_translator.py`, `fm_params.py`) | results and progress of a build; what each endpoint refused, for the process | ask, correct, continue, negotiate, retry, count | model endpoint |
| Validation (`validation/runs.py`, `comparator.py`, `fixer.py`) | a report | count, compare, rescan and merge, fix one | source, target, model |
| Repair agent (`validation/agent.py`) | `RepairState`: rounds, attempts and status per item | pre-pass, propose, apply, count | model endpoint, executor, registry |
| Query parity (`query_parity/`) | a run's pairs and verdicts | generate pairs, guard, run on both sides, compare a sample | source, target, model |
| Credentials (`connectors/credential_store.py`, `credentials.py`) | encrypted or in-memory passwords and secret references; one key per workspace, cached per worker | resolve, log in, remember, clear | secret scope, secret managers, PostgreSQL |
| Projects (`projects/store.py`, `api/projects_routes.py`) | documents by id | create, get, put, delete with runs and credentials | PostgreSQL or files |
| Tuning (`data_migration/capacity.py`, `tuning.py`) | none | probe the limits, recommend streams, chunks and fetch sizes | source, target |
| Audit (`audit.py`) | a log of events | record, spawn a thread with the caller's context | sinks |
| Assessment, sizing, context bundle, report | none of their own | read-only scans and rendered documents | source |
| Front end (`src/frontend`) | what is on screen | polls, sends requests | API |

### How they interact

* Several threads update one run through the **registry**; it keeps the truth in memory
  and writes rows, some late, some never, possibly out of order.
* The **sync loader** relies on the registry: its row is all that survives a restart.
  Another worker process decides from the row, and from how old its heartbeat is, whether
  the run may be resumed.
* The **notebooks** bypass the registry and write the same rows with their own SQL, from
  a job whose tasks are killed, retried, repaired and resumed by other runs. The app
  reads those rows through the registry, which prefers its memory.
* Within the loader notebook, table threads share a **budget of streams** by a condition
  variable, and each has a pool of chunk threads over **key ranges** cut from a probe, by
  a plan that **tuning** made from limits read before.
* A **set-up** writes notebooks into a project's folder and points a job at them, found by
  its name or its tag, while other set-ups and renames do the same.
* **Requests** on several workers resolve, try and store credentials of a project that
  another request may be deleting; the workers share a table and a key, and cache both
  the key and which store they use.
* The threads of a **translation** share what the process has learned of the endpoint.
* The **plan**, the **executor** and the **validation** meet in the target: what the one
  made, the other finds, under the names both compute. The **repair agent** calls the
  executor in rounds; what one round creates, the next one can build on.

### What makes each part correct

* Registry: a row never goes back in time; a status is never held back; one end is
  audited per run, after the row has it.
* Loads: what the checkpoint calls loaded is in the target; no foreign key is forgotten;
  success means complete; an interrupted run can be resumed; each row is copied once.
* Budget and plan: never more readers than streams, nor more than the target has free;
  list order; nobody waits for ever.
* Set-up: one job per project; a run executes what its set-up uploaded, under the identity
  its notebooks need; its last task, and no other, reports it as over.
* Stores: a password that was stored can be read again; a referenced secret is never
  copied; a deleted project leaves nothing behind.
* Translation: success means whole and sound; a refusal is learned once; it ends.
* Validation: what callers lack is reported, what they have is not; equal counts were
  counted; fixes do not undo each other; equal answers are equal.
* Executor and agent: one failure does not spoil the next item; results are true; chains
  of dependencies resolve; the run ends.

## 2. Modules

| Module | Models | Composes |
|---|---|---|
| `DurableRun` | abstract: what the registry promises about a run's row | – |
| `RunRegistry` | `run_registry.py`, thread by thread | refines `DurableRun` |
| `SyncRun` | `migration/runs.py` with `data_loader.py` | uses the registry by `DurableRun`'s contract |
| `AsyncRun` | the loader notebook, the foreign keys' and the maintenance task, the app's view | |
| `StreamBudget` | `_StreamBudget`, `_load` and the two kinds of thread pool | |
| `Tuning` | `capacity.py`, `tuning.py`: limits to a plan, as functions | |
| `SourceColumns` | which columns of a table each loader reads, and how | |
| `ChunkLoad` | `snapshot_table` and its helpers, for one table of a changing source | extends `Tuning`, `SourceColumns` |
| `JobSetup` | `async_setup.py`, `job_offload.py` and the chain of tasks | |
| `Credentials` | `credential_store.py`, `credentials.py`, `test_connection` | |
| `Projects` | `projects_routes.py` and the stores under it | extends `Credentials` |
| `Translation` | `plan_runs.py`, `ai_translator.py`, `fm_params.py` | |
| `Naming`, `Types`, `Migration` | names, types and collations, plan items and what each statement needs and leaves | each extends the one before |
| `Comparator`, `QueryParity` | `comparator.py`; the comparison of answers | `Comparator` extends `Migration` |
| `Validation` | a migration applied, loaded, drifted, validated, fixed, rescanned, queried | extends `Comparator`, `QueryParity` |
| `PlanExecutor` | `executor.py` with `retry.py` | |
| `RepairAgent` | `agent.py` and the `/apply` request | extends `PlanExecutor` |
| `*Proofs` | theorems about the module they are named after; `RunsProofs` about `RunRegistry` and `Validation`, `LoadJobProofs` about `StreamBudget` and `JobSetup` | |
| `MC*` | small instances for TLC | |

In every module an operator introduced as "Mutant" is a plausible mistake in the
definition that follows it. It is not part of any specification; substituting it for that
definition makes TLC report the property it is paired with, which shows that the property
says something about the code.

### RunRegistry and DurableRun

`hist[r]` lists the values the run's state has had, so that a deep copy of it is an index
and "older" is `<`. `Create`, `Copy`, `UpdateThrottled`, `UpdateDue` are the parts of
`create` and `update` under the registry lock; `PersistClaim`, `PersistSkip` and `Save`
are `_persist` under the write lock; `Save(t, FALSE)` is the swallowed exception of the
store; `Return` is the audit event. `create` copies the state *after* it releases the lock,
which is an action of its own here. `Restart` empties the memory and keeps the rows.
No caller reopens a finished run (`Successors`): that is what `runs.py`, `agent.py` and
the other users do. `DurableRun` has a history and a pointer into it that only moves
forward.

### SyncRun

One action per statement that can fail or be interrupted: the capture of the foreign
keys (one commit), the write that records them, the start of a table, its copy (TRUNCATE
and COPY in one transaction), the settling of the result, each foreign key put back, the
report, the clearing of `dropped_fks`, the end. `CaptureRetry`, `LoadRetry` are the
attempts of `call_with_retry`. With `LostAcks`, a commit may succeed and still raise.
`Set` is `_REGISTRY.update`: a changed status is stored at once, anything else now or
later (`Beat` and every later write carry it along). Workers share nothing but the rows;
`View` is what a worker sees. `GoStale` is a heartbeat growing older than
`STALE_AFTER_SECONDS`, of any run that is stored as running: its loader is gone, or lives
while the registry swallows the store's failures, and is then taken for dead. `AskResume` is
the check of a request (`_check_resume`), `StartResume` the `start_run` that follows, which
reads the run again; anything may happen in between. `Crash` takes a worker, its memory and
its loaders.

Ghost variables: `recorded` and `lost` single out the keys a crash took before they were
stored, so that `FkConserved` can be stated for all others and the exception examined
separately (`FksRecordedBeforeLoad`). `resumed` are the runs that a later one continues:
their row no longer counts as a place where a key is kept, alive or not.

### AsyncRun

`life` and `attempts` are the job's side: a run is pending, running, failed or done;
`Repair` is a repair or a task retry (same run, same parameters, next attempt); the job
has one run at a time. `row` is the run-state table, which the notebook writes through
`Report` (status) and `Checkpoint` (whole values, status untouched), each its own
transaction. Unlike in the sync load, the TRUNCATE and every chunk commit by themselves
(`Truncate`, `CopyDone`, `CopyFails`), so `content` may be "part", and triggers may be left
`muted`. Tables finish in any order but are settled in the order of the list. After the
load, `StartTask` goes to the task of the foreign keys (`PlanFks` are those the plan can
create again) and then, with `Maintenance`, to the maintenance task, whose failure fails
the run although the data is there. `Die` is the loss of the cluster or an exception nobody
catches; all of the notebook's variables go. The ghost `lost` are the keys that such a death
took from everywhere, in one of two windows: between their drop and the first checkpoint
(`Unrecorded`), and, of those that could not be restored, between the checkpoint that clears
them and the report of the failure (`Unreported`). `FkConserved` excepts these and no other.
`mem` is the app's copy of a state it
submitted.

Assumptions named as constants: `StoreFails` (a statement on the run-state table fails both
its attempts), `RetryResumes` (a run that resumes another is itself retried), `ResumeAny`
(a request resumes an older run than the one offered). The order in which
`StreamBudget` lets tables start is not imposed here; any table the pool has taken may
proceed, which allows more behaviours.

### StreamBudget

`Take` is the pool of `MAX_PARALLEL_TABLES` threads, `Wait`/`Acquire` the condition
variable (a `notify_all` sends the waiting threads back to look), `StartChunk`/`EndChunk`
the table's own pool, `Cancel` the exception path that cancels what has not started but
lets running chunks finish, `Release` the `finally`.

### Tuning, SourceColumns, ChunkLoad

`Tuning` is the arithmetic of `capacity.py` and `tuning.py` as operators on records:
`Probe` reads limits that may be unknown, `Recommend` makes the plan of all tables. Sizes
are natural numbers in arbitrary units, which the constants scale down.
`SourceColumns` says, per column, whether a loader reads its value, a cast of it or
nothing, for the notebook (`SourceRelation`) and for the sync load (`SourceSelect`).

`ChunkLoad` is one table of the snapshot, from the probe of its key's bounds to the end of
its `finally`, while `Change` inserts and deletes rows at the source. Ranges are cut from
the `Bounds` the probe saw (`Edges`; `grain` 2 is a datetime key, whose edges lose their
fraction), named by their lower edge, and open at both ends of the table. A chunk reads
the rows it saw at its start and, nondeterministically, those that came or went since
(`seen`); it commits alone. `Cancel`, `PoolOver` and `Close` are the exception path: the
chunks that run finish, then the triggers are enabled, then the exception goes on.
`Retry` is Lakeflow's retry of the task at any point. `due` is a ghost: the rows that
were there at the TRUNCATE and ever since, which are the ones a snapshot owes.

### JobSetup

A set-up is a thread with its `pc` and its local variables in `setup`; the workspace is
`job` (title, tag, folder, tasks, schedule, identity) and `folder` (which set-up uploaded
each notebook, and what it was rendered for). `Upload` deletes and imports a notebook and
may fail in between; `FindByName`, `FindByTag` are the two searches of `_find_job`, of
which the second is bounded by `_TAG_SCAN_LIMIT` and its failure is swallowed (`missed`);
`EnsureJob` resets or creates; `RunAs` and `Pause` are `ensure_run_as_user`; `Trigger` is
`run_now`. `Rename` changes a project's name at any time. Nothing keeps two set-ups of one
project apart, and the model does not either: both may find no job and create one each, and
one may import notebooks under the other's chain. Two history variables say when that
happened: a search has `missed` a job when its listing failed or when another set-up of the
project was about to create one (`Creating`); a set-up is `beside` another when both were
under way at once. The properties except these and nothing else. `RunTaskKeys` is computed apart from `Generate`, as in the
code, and `RunsItsOwn` compares the two.

### Credentials and Projects

One project with one connection. A request resolves (`Resolve`, `ReadPassword`), logs in
(`Login`) and writes what worked (`Write`), with the key read or made in between
(`UseKey`, `GetKey`, `PutKey`); each worker caches its key and the class of its store. A
referenced secret's value is represented by the reference itself, so that storing the
value is storing an element of `Refs` where a password belongs. A lost or failed read of
the key is taken for its absence, as in `_fernet`. `Projects` adds the document (its
naming case and the case its plan was built under), an open tab, `Put` with its two
halves (`Put`, `Save`), and `Delete` in its three steps. `late` is a ghost: the deletes
under way that had cleared the credentials before a request wrote them again.

### Translation

`work[w]` is what a thread of the pool is doing: a call with the features it was sent with,
its attempt and how often it was continued, or the lock, the report, or nothing. `Refuse`
and `BlameFormat` are the negotiation; clamping the token cap is the refusal of a feature,
since both are one failed call that changes what later calls send. `Answer` judges a
reply by whether it was cut and by its quality; `Transient` is `call_with_retry`.

### Naming, Types, Migration, Comparator, QueryParity, Validation

An object of either side is a record: kind, place (`<<schema, name>>`), name, columns,
referenced place, and a tag (type, shape or provenance). A name is a sequence of words, so
that truncation to `MAX_IDENTIFIER` words makes collisions. `Lower` and the schema policy
are the naming rules. `Types` has the table of types, the names PostgreSQL's catalogue
gives them, and collations as sets of flags whose strength both sides must agree on:
`EqualIn` and `EqualInSource` say which letters compare equal. `Migration!PlanItems` is
`build_plan`; for each item `Created`, `Possible`, `There`, `Accepted`, `After` say what
its statement makes, needs, guards against and leaves.

`Comparator` is the report: a set of items with status, verdicts per object, and fixes
as sets of statements to make or drop. Where the code keeps a dictionary by name, later
entries replace earlier ones (`Latest`). The kind a routine has to be, what a plan's
statements made and whether they reshaped a routine are `ReturnsResultSet`,
`ReturnsSet`, `CreatedObjects` and `TargetKind` (`callable_shape.py`, whose reading of
SQL text is abstracted to an object's tag); `MatchScore` is the percentage the user is
shown, rounded down, so that 100 means that every item matches. `Validation` makes a
system of it. `Apply`, `Load` and `Drift` (objects dropped, added or altered by hand,
rows deleted) change the target; `Validate` counts rows, with either side's count
failing or estimated, and compares; `Rescan` compares objects and merges; `RunFix` runs
the statements of one item. Ghosts: `scanned` is the target the report was made from,
`fixed` what was made since. A dropped table takes its columns, constraints, indexes and
triggers with it, and the foreign keys and triggers that refer to it (`Falls`); a DROP
is without CASCADE, so `Droppable` refuses it as PostgreSQL does. The statements of a
fix are run by kind and as one (`Outcome`).

`StartParity`, `RunPair`, `EndParity` run pairs of queries. A pair names a table, the columns it
shows and those it filters on, and asks for the rows, the first of them (`TOP`/`LIMIT`), their
number, or something else: a join, a group or a sum, whose answer the rows of one table do not
determine. What a filter finds and how a column reads are left open as far as the code leaves
them open: a filter finds any number of the rows, on both sides the same only where the
collations compare alike; a column of another type than the migration gives it may still read
the same, as numbers, texts and padded texts do after `_normalize_value` (`Normalize`), or may
not. A statement's words and what it does are two things: `IsReadOnly` looks at the words, and a
SELECT that calls a writing function changes the target.

### PlanExecutor and RepairAgent

A statement is abstracted to what PostgreSQL does with it: it creates the object
("good"), is accepted without creating it ("useless"), is rejected ("bad") or is empty.
A "good" one needs the objects it refers to; and if it is one of `Guarded` (IF NOT EXISTS, OR
REPLACE, a guarded block), it is accepted again when they are there. A rejected statement leaves
the transaction aborted, and `Rollback` clears it or finds the connection gone. A connection fails before the commit or
after it (`Drop`); the session then holds a closed connection until `Reconnect`, which can
fail too. `RepairAgent` applies the plan once, validates (`Validate`: what is missing, and
any set of objects that drifted or exist only in the target), and repairs in rounds.

## 3. What is checked

Bounds are in the `.cfg` files. All passing runs are exhaustive. Deadlock is not checked
where a bounded number of runs, mutations, scans or rounds lets the system stop.

| Run | Instance | Shows |
|---|---|---|
| `registry` | 1 run, 3 threads, 5 mutations, 2 s | `QuiescentRowHasStatus`, `AuditAgreesWithRow`, `FinishedIsStored`, and that the registry implements `DurableRun` |
| `sync_run` | 2 workers, 2 tables, parent and child, 2 runs, 1 attempt, 1 lost worker, 1 table that may be skipped with a warning | `CheckpointSound`, `FkConserved`, `SuccessIsComplete` under overlap, failure of any call, loss, wrong suspicion and resume |
| `sync_resume` | 1 worker, 1 self-referencing table, append mode, 2 runs, 2 attempts, fairness | `LoadersEnd`, `InterruptedIsOffered` |
| `async_run` | 2 tables, 2 job runs of up to 2 attempts, post-load and maintenance | `AlreadyLoadedIsExact`, `FkConserved`, `SuccessIsComplete`, `StoredRunIsOffered` |
| `streams` | 3 tables, 2 streams, 2 threads, requests of 0 to 3 streams, 2 chunks | `StreamsBounded`, `InOrder`, `EveryTableSettles` |
| `repair_agent` | 3 items, 2 rounds, 2 attempts, 2 outages | `ResultsAreTrue`, `ChainsResolve`, `FailuresAreIsolated`, `RunEnds` |
| `app_state` | 2 workers, 2 requests at a time, 1 password, 1 reference, 2 keys, 1 restart | `KeyAgreementLasts`, `SecretValuesStayOut`, `DeletedLeavesNothing` |
| `job_setup` | 2 projects and requests without one, 2 names, 3 ids, 2 set-ups, which may overlap and be of one project, 2 renames | `OneJobPerProject`, `RunsItsOwn`, `NeverAsTheApp` |
| `translation` | 3 objects, 2 workers, 2 attempts, 1 continuation, every subset of refused features | `SuccessIsWhole`, `RefusalsAreRemembered`, `ProgressNeverGoesBack`, `BuildEnds` |
| `chunk_load` | 4 rows, 2 with one key, up to 3 chunks, 2 changes, 2 attempts, 3 tables of columns, 18 combinations of limits and overrides | `CopiedOnce`, `LoadedIsWhole`, `TriggersSleep`, `PlanFits` |
| `validation` | 22 migrations of up to 16 objects, 3 scans, 1 mishap, pairs of every kind of query | `AbsentIsReported`, `MatchedRowsAgree`, `CleanIsFull`, `FixesConverge`, `ParityTells` |
| `stale_drop` | the same | violated as described in section 4 |

Why these bounds are enough to be interesting. *registry*: an older snapshot overtaking
a newer one takes two updaters and a third thread between them; runs share only the write
lock, so one run shows what several would. *sync_run*: two tables are needed for a foreign
key between a loaded and an unloaded one; two runs for a resume, and for two loaders that
overlap; two workers, so that one judges the other's run by its row. One request at a time is
between its check and its start (`asked`), and a run that lives grows stale only while another
can be started: later it would change nothing. The repetition of attempts is in `sync_resume`. *async_run*: two tables for one that is checkpointed while the other is half
full; two attempts and two runs for a retry and a resume, alone and after each other.
*streams*: three tables, so that one can overtake a waiting one; a request larger than
the budget. *repair_agent*: two items that need a third, one applied after it by its kind
and one before it; two rounds, as deep as the chain. *app_state*: two workers for two
caches of a key and two choices of a store; two requests for a write between the steps
of a delete. *job_setup*: two projects for a shared name, three ids for a job too many;
two set-ups that overlap at every step, of one project or two; renames before and between their
searches; the workspace has no job from before the tags (`Legacy`),
see section 4. *translation*: three objects on two workers, so that a worker comes back
for another call after a refusal; a cut answer in each of the two forms and after a
continuation. *chunk_load*: an inner range with both edges, a row on an edge, two rows
with one key, rows below and above the probe; two streams, so that one chunk fails while
another runs. *validation*: the jobs are chosen so that each rule of names, types,
collations, kinds and helpers is met by some object and broken by some drift: two tables
of one name in two schemas that map to one, two indexes of one name, every type and every
collation, routines of each shape that an earlier plan may have left in each kind. The table
that is queried has twice as many rows as `TOP`, of which someone may delete any number, so
that a limited pair hides the missing ones or shows them. Two
`ASSUME`s of `MCValidation` evaluate for each of the 22 what section 5 asks of a migration:
all have `NamesApart`, and seven are `Sound`, those that a clean report can be expected of.

`stale_drop` and the configurations of section 4 that are not runs use the same modules;
`tlc -config MCSyncTwice.cfg MCSyncRun` reproduces the first of them, and the others alike.

### Fairness

* `registry`: weak fairness of each thread's steps *inside* the registry. They wait for
  nothing but the write lock, whose holder releases it whatever the store does. Nothing
  forces a caller to call.
* `sync_resume`: weak fairness of each loader (its calls return or time out) and of the
  heartbeat's age. No fairness of crashes, requests or heartbeats.
* `streams`: weak fairness of each table's threads, each step of which is local once the
  condition holds; a read of a chunk ends, well or badly. No fairness of the lock's
  order: a thread that is ready stays ready, because only the table whose turn it is can
  take streams.
* `repair_agent`: weak fairness of the run's own thread, alone in its loop.
* `translation`: weak fairness of each thread of the pool and of the main thread after it:
  every call returns, fails or times out. Nothing is assumed of what the endpoint answers.

## 4. Where code and documentation disagree

One of these is a run that is expected to fail, with its property quoted from the code; the
others each have a configuration that reproduces them, and their properties stand at the
end of the modules with the words they quote.

* `stale_drop` (`FixKeepsMatched`) – a routine that exists both as a function and as a
  procedure: "Drop whichever is stale". The report matches the one the source asks for,
  flags the other, and offers as its fix to drop the *matched* one
  (`validation/comparator.py:1157`: `stale` is the kind of the other routine).
* `MCSyncUnrecorded.cfg` – `runs.py` says the dropped keys are "Persisted before the
  load". The update changes no status, so the registry's throttle may hold it back for two
  seconds, during which the first table is truncated.
* `MCSyncLostAck.cfg` – `data_loader.py` says a retry of the capture is safe, since "a
  failed attempt drops nothing". An attempt whose commit was applied but not acknowledged
  dropped everything; the retry finds nothing, and the load goes on with no keys to put
  back.
* `MCSyncTwice.cfg` – "two loaders never compete for the same TRUNCATE". The check of a
  resume looks at the interrupted run only, which stays interrupted after it was resumed.
* `MCAsyncOffered.cfg` – the app that triggered a run reads the "submitted" state it keeps
  in memory, which nothing refreshes, and does not offer the run for resuming until it
  restarts. `StoredRunIsOffered` shows that reading the row would.
* `MCAsyncRun.cfg` with `StoreFails = TRUE` (`AlreadyLoadedIsExact`, `FkConserved`) – "Unreadable is not fatal ... a full snapshot rather than a
  wrong one". The attempt that could not read the row does not clear it either; if it is
  killed between a TRUNCATE and its first checkpoint, the next one skips a table it has
  emptied.
* `MCAsyncRun.cfg` with `RetryResumes = TRUE` (`FkConserved`) – a repair "continues the same run with no parameter". For a run that
  was itself a resume, the parameter is repeated, so the retry continues from the *older*
  run's row and overwrites the foreign keys that only its first attempt had dropped.
* `MCCredentialKey.cfg` – a password is remembered "so it survives an App restart". Two
  workers that find no key both make one (`KeyAgreementLasts` says that once they agree this
  cannot happen any more); the second put wins, and what the first worker
  stores from its cached key cannot be read after a restart. A read of the scope that
  fails for another reason has the same effect.
* `MCPlanCase.cfg` – a changed naming case drops the plan, but a PUT compares with what it
  read before and saves afterwards; two of them leave a plan of one case beside the other.
* `MCSchedule.cfg` – a schedule "waits paused rather than firing as the wrong identity".
  It is created unpaused and paused only after the run-as was refused; pausing may fail
  too, which is swallowed.
* `MCLearned.cfg` – `_LEARNED_UNSUPPORTED` is "what each endpoint rejected". Any bad
  request that carries a response format and mentions no parameter teaches that the
  endpoint rejects response formats, for the life of the process.

Others, seen while modelling:

* A resume request may name an older run than the one offered. `AlreadyLoadedIsExact` is
  violated with `ResumeAny = TRUE` and `MaxRuns = 3`: a later run has truncated what the older row calls
  loaded.
* `find_resumable` looks at the newest sync run only, because a later run "has rewritten
  the target". A later run that fails before its first TRUNCATE has not, and hides an
  older one whose foreign keys only that one can restore.
* A row that says "submitted" is written after the run was triggered; were the first task
  faster, its checkpoint would be replaced.
* A foreign key that is in place again is reported as a failed restore by the notebook.
* Spark may repeat a chunk after its COPY was committed; the rows are then there twice.
  The models take a chunk as copied once.
* With a job from before the tags, a project renamed to its title takes it and so gets a
  second job (`OneJobPerProject` is violated with `Legacy = TRUE`). A set-up that fails
  half way leaves its new notebooks under the old job's chain.
* A request that finishes after its project was deleted writes its credentials again;
  `DeletedLeavesNothing` excepts it. A PUT brings a deleted project back. A heartbeat
  inserts a deleted run's row again.
* When both exact counts of a table fail, the table is matched without numbers; when only
  the source's fails, the scan's older row count stands in for it.
* When the stored plan cannot be read, a routine that was reshaped into another kind is
  reported missing and its twin is offered for dropping.
* The rollup of constraints is keyed by name alone, so that a constraint and a column of
  one name share an entry; a primary key under another name is never settled by its fix;
  which table a foreign key references is not compared.
* Routines that belong to an extension are left out of the target's inventory, its tables
  are not, and the stored plan does not speak of them: after a migration with geometries the
  report lists PostGIS's own table as extra and offers to drop it (PostgreSQL refuses).
* Two schemas that map to one collapse two tables into one; two indexes of one table whose
  truncated names agree collapse likewise.
* The identity's sequence is set once, after the load; a later re-load leaves it behind.
* A value that becomes a FULLGLOBE after the check is stored as NULL, without a warning.
* The pairs of query parity are compared in a sample, as text. A column of another type whose
  values read alike goes unseen, as does a table with rows missing beyond a pair's LIMIT;
  two answers of a filter that compares otherwise may agree by chance. `ParityTells` says what
  a match does mean.
* The read-only guard looks at the words of a statement: a SELECT that calls a function which
  writes is run, and the transaction is committed (`query_parity/runner.py:47`,
  `connectors/lakebase.py:150`).
* Two set-ups of one project at the same time may create two jobs, and one may replace the
  notebooks of the other before they are run: nothing locks a project
  (`migration/job_offload.py:196`).
* The notebook clears the row's foreign keys before it reports those it could not restore
  (`etl_generator.py:825`, 831); a task killed in between leaves them nowhere. `Die`'s `lost`
  is this window and the one before the first checkpoint.
* A loader that lives, but whose heartbeats did not reach the store for 90 seconds, is offered
  to every other worker and may be resumed beside itself (`runs.py:82`). No key is forgotten
  by it and no checkpoint becomes wrong, as `sync_run` and the proofs show; but two loaders then
  truncate the same tables.
* The repair agent counts an accepted statement as a fix. `Fixed` is a subset of the
  objects only as long as the model's statements are right, which is how `ResultsAreTrue`
  states it.


## 5. What is proved

Eight modules of theorems, each named after the module or the parts it is about. They hold for every
value of the constants that the named `ASSUME`s of that module allow, hence for any number
of tables, keys, runs, workers, objects, attempts and failures; where a theorem needs more,
it says so in its own `ASSUME`. TLC evaluates the same `ASSUME`s in every run.

The argument has the same shape everywhere: an inductive invariant `IInv`, a conjunction of
named parts; a lemma per part saying that every action keeps it, with one case per action;
the properties as its consequences.

* **`RunsProofs`, the registry.** That a row never goes back is not inductive: whether a late
  write is harmless depends on versions that were handed out under another lock. `IInv` has
  `LockInv` (exactly the saving thread holds the lock, and its version is the newest
  claimed), `VersionInv` (versions are handed out once each), `CreateInv` (until `create`
  returns, its thread is alone with the run, which is what makes the copy outside the lock
  harmless), `SnapInv` (newer versions carry newer snapshots, and a write that may still
  reach the store is no older than the row), `StatusInv` (a status that memory has is in
  the row, or in a pending write, or a save failed). Hence `RowMonotone`,
  `QuiescentStatus`, and `Implementation`: every step of the registry is a step of
  `DurableRun` or a stutter. That the audit trail agrees with the row needs more: a finished
  run stays finished (`FinalStays`), one thread ends it (`EndInv`), a write that is skipped
  is one the row is ahead of (`SkipInv`), and from the end of the audited write on, every
  write that may still reach the row carries a finished state (`AuditInv`). Hence
  `AuditAgreement`: heartbeats after the end cannot take it back.
* **`RunsProofs`, the rows of a validation.** `RowsInv` says whose rows a table of the
  target can have, `ScanInv` that a scan is complete. With lemmas about what items a full
  comparison and a rescan contain for a table (`FullItems`, `RescanItems`), they give
  `MatchedTablesAgree`, over any order of scans, rescans, fixes and drift, and
  `ParityVerdicts`: an answer has as many rows as the query found, or its limit
  (`AnswerCount`), the sample of two answers that read alike has no difference (`SampleIs`,
  `AlikeMatch`), and a match tells the two numbers apart only beyond the limit (`MatchTells`).
  They assume what a catalogue of SQL Server grants: a table is known by
  its place, a column by its table and name, every object of a table has one
  (`JobsAssumption`, on every migration in `Jobs`). `ScoreIsFull` is about `Comparator`
  alone: 100 is reached only when every item matches.
* **`RunsProofs`, the objects of a validation.** That an absent object is reported, and that
  a fix that ran is not asked for again, speak of a scan that may be several steps old, so
  each needs an invariant about what happened in between.
  - `ReportInv`: the report is still that of what was scanned, although a rescan lays one
    comparison over another, and the tables and columns stay those of the first scan.
  - `CatInv`: every catalogue that can be scanned is `Reachable`. A table has one column of
    a name, a column's collation is there, everything else was made by a statement of the
    migration, left by an earlier one or added by someone (`Universe`). A fix can only make
    an item of the plan or a column, and drop only what no table of the source became
    (`Runnable`).
  - `KeptInv`: what was fixed since the last scan is in the target, under the name it is
    looked for. A fix is any finite set of statements run as one, so this is an
    induction over their number, by a least counterexample (`LeastNat`, `RunExists`,
    `OutcomeKept`).

  `AbsentObjectsTell` needs only the first: an object that the target lacked is reported, a
  column or an object of a table provided that what goes by its name in the target is one like
  it (`NameTells`), any other without a condition. `AbsentIsReportedApart` and
  `FixesConvergeApart` are the properties `AbsentIsReported` and `FixesConverge` under
  `NamesApart(J)`, a condition on the migration and not on its states: among all that
  its statements can make, what has the name of an object is one like it, and the guard of a
  statement (`IF NOT EXISTS`) is met by nothing else. The code does not see to that, and
  without it both are false: a constraint may have the name of a column's default, a table
  may have its primary key under another name (section 4). Names that the planner derives
  by its own rules from distinct ones satisfy it, and so does every migration of
  `MCValidation`. `MadeIsFound` is about the comparator alone: in any catalogue that
  contains what the statements of a plan make, whatever else it contains, no item is missing,
  of another type or of another collation.
* **`RunsProofs`, a migration in which nothing failed.** `CleanReport` is `CleanIsFull`,
  with no hypothesis beyond its own: a migration that is `Sound`, ran without a mishap, has
  a stored plan and was scanned once. `Sound` is a condition on the migration, in three parts.
  - `PlanGoes`: what a statement asks for is made by kinds that come before its own in
    `_ordered` (a new table's columns may use the table itself), no guard is met by what
    another statement makes, no name is taken and nothing of another statement is replaced.
  - `PlanTells`: the shape a routine was translated to is the one its source shows or the
    stored plan tells, nothing else has the name of a constraint or an index, and no
    extension brings tables or views (PostGIS does: section 4).
  - `RowsTell`: for a table that is not counted exactly, the row count of the scan is right,
    and an estimate from before the last changes is within the tolerance.

  The invariant is `CleanInv`: up to the first scan and as long as nothing fails, the target is
  what the statements that were run made, and a loaded table has the rows of its own source.
  `NextGoes` is its core: the item `_ordered` puts next has all that comes before it behind it,
  so it is accepted, and takes nothing away (`PlanGoesThrough`). The rest is the comparator
  on that one catalogue, kind by kind: a column, a key, a routine is matched and not only
  found (`CleanTable`, `CleanRollup`, `CleanRoutine`), an extra is a helper that the stored plan
  made, not to be dropped (`CleanExtra`), a count or an estimate agrees (`CleanCount`). That
  the score is 100 just when there are no helpers needs that a report is finite
  (`PlanFinite`, `MadeFinite`, `CompareFinite`), which is why a source, the helpers of a
  routine and what an extension brings are assumed to be.
* **`SyncRunProofs`.** `IInv` ties a run's loader, memory, row and target together, run by
  run: a loader is alive exactly while its memory and row say "running"; what any
  checkpoint calls loaded is in the target; a success has settled every table and holds no
  key; nothing of a run that has not started is anywhere. `OrderInv` says that runs start
  in order, so that a new run never disturbs an old one. None of it supposes that a run which
  is resumed is over: a live one may be, and its loader goes on. Each step of the loader has a
  `...Goes` lemma about its own run and one lemma (`Touches`) for all others. It gives
  `CheckpointTrue` and `SuccessComplete`. `FksConserved` follows a key instead
  of a run: `FksKept` lists where the key can be (held by the loader, among those left to
  restore, failed and to be reported, in the row of a run that nobody resumed). It
  assumes `LostAcks = FALSE`, without which it is false (section 4).
* **`AsyncRunProofs`.** `RunsInv` and `TaskInv` say that one task runs at a time, for the
  newest run, and what it knows. `HeldInv` and `FksKept` follow the foreign keys through
  the notebook's variables, its row and the row it resumed (`HeldInv`: between the first
  checkpoint and the clearing, what the notebook holds is in its row, which is why a death
  outside the two windows loses nothing); `ResumedInv`, `TableInv` and
  `RowInv` (together `DataInv`) follow a table through TRUNCATE, chunks, triggers and
  checkpoint. `TypeCorrect` has no hypothesis; `FksConserved` assumes that the run-state
  table answers and that a resuming run is not itself retried; `LoadedIsExact`,
  `SuccessComplete` and `StoredOffered` also that only the newest run is resumed. These
  are the constants `StoreFails`, `RetryResumes` and `ResumeAny`, and section 4 shows what
  happens without them.
* **`RepairAgentProofs`.** `CallInv` says what a call of the executor has done so far, with
  `AttemptInv` for its session (a closed connection or an aborted transaction means that an
  attempt failed *now* or none was made); `RoundInv` what a round makes of its results; `ExactInv` that, without
  an outage, what is reported as failed is not there. Hence `ResultsTrue`, and
  `FailuresIsolated`, which needs `DB_ATTEMPTS > 1`: with a single attempt the item after
  an outage would be tried on the closed connection. `ChainsAreResolved` takes any numbering of
  the items by levels in which an item comes after what it requires (`Levels`): each round
  resolves one level more, so a chain of `max_attempts` items is resolved when the run ends.
* **`LoadJobProofs`, the budget.** The tables that hold or have held streams are exactly
  those before `_turn` (`TurnInvariance`); hence no table overtakes (`OrderKept`).
  `BudgetInv` names each stream by its table and its number, so that the sum of what is
  held is the size of a set, which grows and shrinks by a block; a table reads only while
  it holds, cancelled or not. Hence `StreamsKept`.
* **`LoadJobProofs`, the set-up.** `JobInv` says that a set-up is a chain of distinct tasks whose
  notebooks it has uploaded or still has to (`FilesInv`); that a job's tag and folder belong
  together (`TagInv`); that a set-up deals with a job that has its project's tag (`IdInv`)
  and, while no search has missed one, the only one (`OneInv`); and whom it runs as (`AsInv`).
  Two set-ups of one project may overlap. `BesideInv` says that then both are `beside`, so one
  that is not is alone with its project's folder and tag; and two projects never share a tag, so
  nobody disturbs its job between the reset and the start. `OneInv` needs less: of the set-ups
  that have searched and found none, one alone may still create. Hence `OneJob`, `OwnNotebooksRun`, `AsTheUser`. All assume
  `~Legacy`: two projects of one title may both take an untagged job from before the tags, and
  the second resets it under the first (section 4).
* **`ChunkLoadProofs`.** `PhaseInv` and `RowInv` say which rows of a source that changes all
  the time are in the target at each step of a load: those that the committed chunks saw,
  each row within the range of one chunk only. Hence `RowsOnce`, `LoadIsWhole`,
  `TriggersAsleep`. `RecommendationFits` is about `Tuning` alone: for any limits, each
  known or not, and any overrides, what is recommended lies in the plan's bounds and within
  what the target has free; `GeneratedPlanFits` says so of the plan a notebook runs by.
* **`TranslationProofs`.** `RefusalInv` counts the requests under way that still carry a
  feature: a refusal is spent by one of them or remembered. With `LockInv`:
  `WholeSuccess`, `RefusalsRemembered`, `ProgressOnward`.
* **`ProjectsProofs`.** `KeyInv` is about who has which key, `ReqOK` about what a request
  carries, `RowInv` about deletes that have cleared the row. Hence `ValuesStayOut`,
  `DeleteIsClean` and `AgreedKeyLasts`: `AgreedOnKey` is not an invariant, since workers that
  start together may disagree, but no step ends it while the scope can be read.

Every type invariant of these modules is a theorem (`TypeCorrect`, or a part of
`Invariance`), and is not repeated in the runs.

Every invariant of every passing run is a theorem, some under a condition on the constants.
**Only model-checked** is liveness
(`FinishedIsStored`, `LoadersEnd`, `InterruptedIsOffered`, `EveryTableSettles`, `RunEnds`,
`BuildEnds`), since the prover handles neither fairness nor `ENABLED`.

## 6. What is not modelled, and why

* **Text**: the wording of DDL, notebooks, prompts, reports and recommendations; the
  mapping of expressions and types' lengths; parsing of connection strings. Data in, data
  out, with tests beside it. What the text *does* to the target is modelled.
* **Assessment, sizing, context bundle, report, egress, configuration**: computed from one
  scan, no state that outlives the call.
* **Secrets and grants of a job** (`secret_setup.py`), **Lakebase identity tokens**: calls
  to services whose behaviour nothing in the repository states.
* **Front end**: it polls and sends requests; what it may send is in the guards.
* **The run store's** listing and file backend; the registry's contract is the row.
* **Post-load tasks** other than the foreign keys': the same notebook, other statements.

Limits of what is modelled, by module:

* `SyncRun`: of a store that fails only the effect on the heartbeat is in it (a live run that
  grows stale); a final status that was not stored is in `RunRegistry`. Rows are counted to two, to see
  duplicates in append mode.
* `ChunkLoad`: a chunk is copied once (section 4); a table that was not described has no
  hidden column (`DescribedAssumption`).
* `JobSetup`: `Legacy = FALSE` in the run and in the theorems (section 4); a schedule of one
  set-up that fires while another is uploading is not a step.
* `Migration`: the executor orders items by kind, and the constraints of all tables are one kind.
  `Rank` splits that kind by what a constraint does, while the planner lists them table by
  table. This makes no difference to the catalogue that results: no default, identity, key or
  check of one table needs one of another, foreign keys being a later kind, and only two primary
  keys of one schema can want the same name. Which item of a rank comes first is a `CHOOSE`, and
  the theorems hold for every choice.
* `Validation`: in the migrations of `MCValidation` constraints and columns have different
  names, and which table a foreign key references is not compared, as in the code.
  `CleanIsFull` is about the migrations that are `Sound` (section 5): not those with
  PostGIS's types, nor those that find routines of an earlier plan or of an unknown shape.
  Query parity runs on one small migration of its own, since its answers depend on rows,
  types and collations only. A limited query returns the same first rows on both sides: the
  prompt asks for an ORDER BY over a stable key, and the code does not see to it.
* `Credentials`: one connection of one project; secrets do not change behind a reference.

## 7. Status

Everything planned for the core is there: registry with its refinement, both loads with
their post-load steps, the budget of streams, key ranges and tuning, set-up of jobs,
executor and repair agent, credentials and projects, translation, and the migration as the
validation sees it; with proofs about eleven of these modules.

Worth doing next:

1. `SyncRun` with a store that also loses the writes of a final status.
2. Larger instances of `SyncRun` and `AsyncRun` (three tables, three runs) outside of the
   five minutes a run has here.
