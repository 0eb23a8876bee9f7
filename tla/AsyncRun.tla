------------------------------ MODULE AsyncRun ------------------------------
(***************************************************************************)
(* The asynchronous data load: a Databricks job whose tasks are notebooks  *)
(* that backend/data_migration/etl_generator.py writes, and the app's view *)
(* of it in backend/migration/async_runs.py.                               *)
(*                                                                         *)
(* A job run executes the loader notebook and, if that succeeds, the       *)
(* post-load tasks, of which the foreign keys' task stands for all, and    *)
(* the maintenance task, which vacuums the tables and is the last one, so  *)
(* that only its end is the end of the run, if it is not turned off.  The  *)
(* loader takes the foreign keys off the target, copies the tables in      *)
(* parallel and puts the keys back.  What it did is checkpointed in the    *)
(* run's row, which is all that is left when the task is killed.  A failed *)
(* run is repaired or retried (the same run, a new attempt), or resumed by *)
(* another run that is given its id.                                       *)
(*                                                                         *)
(* Tables are their indexes in TABLES.  A foreign key is <<child, parent>>.*)
(***************************************************************************)
EXTENDS Naturals, FiniteSets, FiniteSetsExt

CONSTANTS
  NTables,       \* Len(TABLES)
  Fks,           \* foreign keys on the target before the first run
  PlanFks,       \* those of them the post-load task knows and can create again
  Triggered,     \* tables with triggers on the target
  Parallel,      \* MAX_PARALLEL_TABLES
  Maintenance,   \* maintenance_enabled()
  StoreFails,    \* whether a statement on the run-state table may fail (twice)
  RetryResumes,  \* whether a run that resumes another is itself repaired or retried
  ResumeAny,     \* whether a run other than the newest is resumed
  MaxRuns,       \* bound: job runs
  MaxAttempts    \* bound: attempts of one job run

Tables == 1 .. NTables
Runs == 1 .. MaxRuns
NoRun == 0

ASSUME TablesAssumption == NTables \in Nat \ {0}
ASSUME FksAssumption == Fks \subseteq Tables \X Tables /\ PlanFks \subseteq Fks
ASSUME TriggeredAssumption == Triggered \subseteq Tables
ASSUME ParallelAssumption == Parallel \in Nat \ {0}
ASSUME FlagsAssumption == {Maintenance, StoreFails, RetryResumes, ResumeAny} \subseteq BOOLEAN
ASSUME BoundsAssumption == MaxRuns \in Nat /\ MaxAttempts \in Nat \ {0}

VARIABLES
  content,   \* what each target table holds of the source: all, a part or none
  muted,     \* tables whose triggers are disabled
  fks,       \* foreign keys on the target
  row,       \* the run-state rows
  latest,    \* the run whose row has the newest updated_at
  mem,       \* runs whose "submitted" state the app has in memory
  param,     \* the job parameter resume_from of each run
  life,      \* the state of each run in the Jobs API
  attempts,  \* attempts of each run that were started
  cur,       \* the run the job executes, or executed last
  pc,        \* where the task of cur is
  loader,    \* the variables of the loader notebook
  tab,       \* the future of each table in todo
  reported,  \* foreign keys a run told it could not restore
  lost       \* foreign keys a task took with it, killed between two checkpoints

target == <<content, muted, fks>>
store == <<row, latest>>
jobs == <<mem, param, life, attempts, cur>>
ghosts == <<reported, lost>>
vars == <<target, store, jobs, pc, loader, tab, ghosts>>

DONE == {"success", "skipped"}
TERMINAL == {"success", "failed"}
Outcome == {"success", "warning", "failed"}

\* AsyncRunState; "none" is a table that has no entry, total says that
\* tables_total is known.
Row == [status : {"none", "submitted", "running"} \cup TERMINAL,
        tables : [Tables -> {"none", "skipped"} \cup Outcome],
        dropped : SUBSET Fks, total : BOOLEAN, resumed : Runs \cup {NoRun}]
NoRow == [status |-> "none", tables |-> [t \in Tables |-> "none"],
          dropped |-> {}, total |-> FALSE, resumed |-> NoRun]

\* dropped_fks, progress, the tables to copy, those not settled yet, the keys not
\* tried again yet and those that could not be restored.
Loader == [held : SUBSET Fks, progress : [Tables -> {"none", "skipped"} \cup Outcome],
           todo : SUBSET Tables, unsettled : SUBSET Tables,
           left : SUBSET Fks, failures : SUBSET Fks]
NoLoader == [held |-> {}, progress |-> [t \in Tables |-> "none"], todo |-> {},
             unsettled |-> {}, left |-> {}, failures |-> {}]

Loaded(s) == {t \in Tables : s.tables[t] \in DONE}

\* _RUNS.get(): the copy in memory is never refreshed.
Submitted(r) == [NoRow EXCEPT !.status = "submitted", !.total = TRUE, !.resumed = param[r]]
View(r) == IF r \in mem THEN Submitted(r) ELSE row[r]

TablesLeft(s) ==
  IF s.total THEN Tables \ Loaded(s)
  ELSE {t \in Tables : s.tables[t] \notin DONE \cup {"none"}}

Active(r) == life[r] \in {"pending", "running"}

\* Mutant: what the Jobs API says is not asked.
IsResumableFailed(r) ==
  /\ View(r).status = "failed"
  /\ TablesLeft(View(r)) # {}
  /\ Loaded(View(r)) # {} \/ View(r).dropped # {}

IsResumable(r) ==
  /\ View(r).status = "failed" \/ (View(r).status # "success" /\ ~Active(r))
  /\ TablesLeft(View(r)) # {}
  /\ Loaded(View(r)) # {} \/ View(r).dropped # {}

\* find_resumable()
Offered == IF latest # NoRun /\ IsResumable(latest) THEN latest ELSE NoRun

Init ==
  /\ content = [t \in Tables |-> "none"]
  /\ muted = {}
  /\ fks = Fks
  /\ row = [r \in Runs |-> NoRow]
  /\ latest = NoRun
  /\ mem = {}
  /\ param = [r \in Runs |-> NoRun]
  /\ life = [r \in Runs |-> "none"]
  /\ attempts = [r \in Runs |-> 0]
  /\ cur = NoRun
  /\ pc = "idle"
  /\ loader = NoLoader
  /\ tab = [t \in Tables |-> "none"]
  /\ reported = {}
  /\ lost = {}

-----------------------------------------------------------------------------
(* The job's runs.  The job runs one at a time (max_concurrent_runs). *)

Idle == cur # NoRun => ~Active(cur)
NextRun == Cardinality({r \in Runs : life[r] # "none"}) + 1

Launch(p) ==
  /\ Idle
  /\ NextRun \in Runs
  /\ cur' = NextRun
  /\ param' = [param EXCEPT ![NextRun] = p]
  /\ life' = [life EXCEPT ![NextRun] = "pending"]
  /\ attempts' = [attempts EXCEPT ![NextRun] = 1]
  /\ pc' = "loader"
  /\ UNCHANGED <<target, loader, tab, ghosts>>

\* create_job_and_run() and record(): the row is written and remembered before the
\* job's first task has started.
AppRun(p) ==
  /\ Launch(p)
  /\ row' = [row EXCEPT ![NextRun] = [NoRow EXCEPT !.status = "submitted", !.total = TRUE,
                                                   !.resumed = p]]
  /\ latest' = NextRun
  /\ mem' = mem \cup {NextRun}

AppRunFresh == AppRun(NoRun)

\* _check_async_resume()
AppResume(p) ==
  /\ IsResumable(p)
  /\ ResumeAny \/ p = latest
  /\ AppRun(p)

\* A run from the Jobs UI or the schedule.
JobsRun == Launch(NoRun) /\ UNCHANGED <<store, mem>>

\* "Repair run", or the retry of a failed task: the tasks that succeeded are kept.
Repair(r) ==
  /\ Idle
  /\ life[r] = "failed"
  /\ attempts[r] < MaxAttempts
  /\ r = cur
  /\ RetryResumes \/ param[r] = NoRun
  /\ attempts' = [attempts EXCEPT ![r] = attempts[r] + 1]
  /\ life' = [life EXCEPT ![r] = "pending"]
  /\ UNCHANGED <<target, store, mem, param, cur, pc, loader, tab, ghosts>>

AppRestart ==
  /\ mem # {}
  /\ mem' = {}
  /\ UNCHANGED <<target, store, param, life, attempts, cur, pc, loader, tab, ghosts>>

-----------------------------------------------------------------------------
(* The run-state table. *)

\* _run_store_exec() of an upsert: a failure is printed and swallowed.
Write(s) ==
  \/ row' = [row EXCEPT ![cur] = s] /\ latest' = cur
  \/ StoreFails /\ UNCHANGED store

\* A checkpoint leaves the status alone, but inserts a missing row as running.
Checkpoint(s) ==
  Write(IF s.status = "none" THEN [s EXCEPT !.status = "running"] ELSE s)

\* _report_run_state()
Report(status) == Write([row[cur] EXCEPT !.status = status, !.resumed = param[cur]])

At(label) == pc = label /\ life[cur] = "running"

\* The task ends, and with it the variables of its notebook.
End(task, state) ==
  /\ pc' = task
  /\ life' = [life EXCEPT ![cur] = state]
  /\ loader' = NoLoader
  /\ tab' = [t \in Tables |-> "none"]
  /\ UNCHANGED <<mem, param, attempts, cur>>

\* It ends with an exception: the run fails, and is repaired from this task on.
Fail(task) == End(task, "failed")

-----------------------------------------------------------------------------
(* The loader notebook. *)

StartLoader ==
  /\ cur # NoRun
  /\ life[cur] = "pending"
  /\ pc = "loader"
  /\ Report("running")
  /\ life' = [life EXCEPT ![cur] = "running"]
  /\ pc' = "resume"
  /\ loader' = NoLoader
  /\ tab' = [t \in Tables |-> "none"]
  /\ UNCHANGED <<target, mem, param, attempts, cur, ghosts>>

\* _resume_checkpoint(): the row of the resumed run, or of this one.
Source == IF param[cur] # NoRun THEN param[cur] ELSE cur

\* Mutant: any table with a checkpoint is skipped.
ResumeFromAny(s) ==
  /\ At("resume")
  /\ LET known == {t \in Tables : s.tables[t] # "none"}
     IN loader' = [NoLoader EXCEPT
          !.held = s.dropped,
          !.progress = [t \in Tables |-> IF t \in known THEN "skipped" ELSE "none"],
          !.todo = Tables \ known, !.unsettled = Tables \ known]
  /\ pc' = "seed"
  /\ UNCHANGED <<target, store, jobs, tab, ghosts>>

ResumeFrom(s) ==
  /\ At("resume")
  /\ loader' = [NoLoader EXCEPT
       !.held = s.dropped,
       !.progress = [t \in Tables |-> IF t \in Loaded(s) THEN "skipped" ELSE "none"],
       !.todo = Tables \ Loaded(s), !.unsettled = Tables \ Loaded(s)]
  /\ pc' = IF Loaded(s) = {} THEN "drop" ELSE "seed"
  /\ UNCHANGED <<target, store, jobs, tab, ghosts>>

ReadCheckpoint(readable) ==
  /\ readable \/ StoreFails
  /\ ResumeFrom(IF readable THEN row[Source] ELSE NoRow)

SeedProgress ==
  /\ At("seed")
  /\ Checkpoint([row[cur] EXCEPT !.tables = loader.progress])
  /\ pc' = "drop"
  /\ UNCHANGED <<target, jobs, loader, tab, ghosts>>

\* drop_target_fks() and _merge_fks(): every key with a side in todo.
Captured == {f \in fks : f[1] \in loader.todo \/ f[2] \in loader.todo}

\* Mutant: what the earlier run or attempt had dropped is forgotten.
DropFksUnmerged ==
  /\ At("drop")
  /\ fks' = fks \ Captured
  /\ loader' = [loader EXCEPT !.held = Captured]
  /\ pc' = "record"
  /\ UNCHANGED <<content, muted, store, jobs, tab, ghosts>>

DropFks ==
  /\ At("drop")
  /\ fks' = fks \ Captured
  /\ loader' = [loader EXCEPT !.held = loader.held \cup Captured]
  /\ pc' = "record"
  /\ UNCHANGED <<content, muted, store, jobs, tab, ghosts>>

RecordFks ==
  /\ At("record")
  /\ Checkpoint([row[cur] EXCEPT !.dropped = loader.held, !.total = TRUE])
  /\ pc' = "load"
  /\ tab' = [t \in Tables |-> IF t \in loader.todo THEN "waiting" ELSE "none"]
  /\ UNCHANGED <<target, jobs, loader, ghosts>>

Becomes(t, outcome) == tab' = [tab EXCEPT ![t] = outcome]
Loading == At("load") /\ UNCHANGED <<fks, store, jobs, pc, loader, ghosts>>

\* A thread of the pool takes the next table, in the order of TABLES.
TakeTable ==
  LET waiting == {t \in Tables : tab[t] = "waiting"}
  IN /\ Loading
     /\ waiting # {}
     /\ Cardinality({t \in Tables : tab[t] \in {"taken", "copying"}}) < Parallel
     /\ Becomes(Min(waiting), "taken")
     /\ UNCHANGED <<content, muted>>

\* snapshot_table() raises before it touches the table: FULLGLOBE, a missing table.
NotCopied(t, outcome) ==
  /\ Loading
  /\ tab[t] = "taken"
  /\ outcome \in {"warning", "failed"}
  /\ Becomes(t, outcome)
  /\ UNCHANGED <<content, muted>>

\* The triggers are disabled and the table is emptied, in a transaction of its own.
Truncate(t) ==
  /\ Loading
  /\ tab[t] = "taken"
  /\ content' = [content EXCEPT ![t] = "part"]
  /\ muted' = muted \cup ({t} \cap Triggered)
  /\ Becomes(t, "copying")

\* All chunks are committed and the triggers are back.
CopyDone(t) ==
  /\ Loading
  /\ tab[t] = "copying"
  /\ content' = [content EXCEPT ![t] = "all"]
  /\ muted' = muted \ {t}
  /\ Becomes(t, "success")

\* A chunk raises, or enabling the triggers does.
CopyFails(t, complete, enabled) ==
  /\ Loading
  /\ tab[t] = "copying"
  /\ complete => ~enabled
  /\ content' = [content EXCEPT ![t] = IF complete THEN "all" ELSE "part"]
  /\ muted' = IF enabled THEN muted \ {t} ELSE muted
  /\ Becomes(t, "failed")

\* The futures are read in the order of todo, and each result is checkpointed.
Settle ==
  /\ At("load")
  /\ loader.unsettled # {}
  /\ LET t == Min(loader.unsettled)
     IN /\ tab[t] \in Outcome
        /\ loader' = [loader EXCEPT !.unsettled = @ \ {t}, !.progress[t] = tab[t]]
        /\ Checkpoint([row[cur] EXCEPT !.tables = [loader.progress EXCEPT ![t] = tab[t]]])
  /\ UNCHANGED <<target, jobs, pc, tab, ghosts>>

BeginRestore ==
  /\ At("load")
  /\ loader.unsettled = {}
  /\ loader' = [loader EXCEPT !.left = loader.held]
  /\ pc' = "restore"
  /\ UNCHANGED <<target, store, jobs, tab, ghosts>>

Orphans(f) == content[f[1]] = "all" /\ content[f[2]] # "all" /\ f[1] # f[2]

RestoreFk(f) ==
  /\ At("restore")
  /\ f \in loader.left
  /\ f \notin fks
  /\ ~Orphans(f)
  /\ fks' = fks \cup {f}
  /\ loader' = [loader EXCEPT !.left = @ \ {f}]
  /\ UNCHANGED <<content, muted, store, jobs, pc, tab, ghosts>>

\* Also when the key is there already.
RestoreFkFails(f) ==
  /\ At("restore")
  /\ f \in loader.left
  /\ loader' = [loader EXCEPT !.left = @ \ {f}, !.failures = @ \cup {f}]
  /\ UNCHANGED <<target, store, jobs, pc, tab, ghosts>>

ClearFks ==
  /\ At("restore")
  /\ loader.left = {}
  /\ Checkpoint([row[cur] EXCEPT !.dropped = {}])
  /\ pc' = "report"
  /\ UNCHANGED <<target, jobs, loader, tab, ghosts>>

AnyFailed == loader.failures # {} \/ \E t \in Tables : tab[t] = "failed"

ReportFailure ==
  /\ At("report")
  /\ AnyFailed
  /\ Report("failed")
  /\ reported' = reported \cup loader.failures
  /\ Fail("loader")
  /\ UNCHANGED <<target, lost>>

\* Mutant: a failed table does not fail the task.
ReportSuccessAlways ==
  /\ At("report")
  /\ Report("running")
  /\ End("post", "pending")
  /\ UNCHANGED <<target, ghosts>>

\* The loader's task succeeds, and the run goes on with the next one.
ReportSuccess ==
  /\ At("report")
  /\ ~AnyFailed
  /\ Report("running")
  /\ End("post", "pending")
  /\ UNCHANGED <<target, ghosts>>

-----------------------------------------------------------------------------
(* The post-load task of the foreign keys. *)

StartTask(task) ==
  /\ cur # NoRun
  /\ life[cur] = "pending"
  /\ pc = task
  /\ Report("running")
  /\ life' = [life EXCEPT ![cur] = "running"]
  /\ UNCHANGED <<target, mem, param, attempts, cur, pc, loader, tab, ghosts>>

StartPost == StartTask("post")

\* Every statement leaves a key alone that is there, and commits by itself.
PostFk(f) ==
  /\ At("post")
  /\ f \in PlanFks \ fks
  /\ ~Orphans(f)
  /\ fks' = fks \cup {f}
  /\ UNCHANGED <<content, muted, store, jobs, pc, loader, tab, ghosts>>

PostFails ==
  /\ At("post")
  /\ PlanFks \ fks # {}
  /\ Report("failed")
  /\ Fail("post")
  /\ UNCHANGED <<target, ghosts>>

\* Only the last task finishes the run.
PostDone ==
  /\ At("post")
  /\ PlanFks \subseteq fks
  /\ IF Maintenance THEN Report("running") /\ End("maintenance", "pending")
                    ELSE Report("success") /\ End("idle", "done")
  /\ UNCHANGED <<target, ghosts>>

\* The maintenance task: a table that cannot be vacuumed, or only with a warning, fails
\* the run, although its data is there.
StartMaintenance == StartTask("maintenance")

MaintenanceFails ==
  /\ At("maintenance")
  /\ Report("failed")
  /\ Fail("maintenance")
  /\ UNCHANGED <<target, ghosts>>

MaintenanceDone ==
  /\ At("maintenance")
  /\ Report("success")
  /\ End("idle", "done")
  /\ UNCHANGED <<target, ghosts>>

\* What only the notebook's variables hold: the keys it dropped, until they are
\* checkpointed, and those it could not restore, from the checkpoint that clears them to
\* the report that names them.
Unrecorded == IF pc = "record" THEN loader.held ELSE {}
Unreported == IF pc = "report" THEN loader.failures ELSE {}

\* The task is killed, or an exception nobody catches ends it: nothing is recorded.
Die ==
  /\ cur # NoRun
  /\ life[cur] = "running"
  /\ Fail(IF pc \in {"post", "maintenance"} THEN pc ELSE "loader")
  /\ lost' = lost \cup ((Unrecorded \cup Unreported)
                            \ (fks \cup UNION {row[r].dropped : r \in Runs}))
  /\ UNCHANGED <<target, store, reported>>

-----------------------------------------------------------------------------
TaskStep ==
  \/ StartLoader
  \/ \E readable \in BOOLEAN : ReadCheckpoint(readable)
  \/ SeedProgress
  \/ DropFks
  \/ RecordFks
  \/ TakeTable
  \/ Settle
  \/ BeginRestore
  \/ ClearFks
  \/ ReportFailure
  \/ ReportSuccess
  \/ StartPost
  \/ PostFails
  \/ PostDone
  \/ StartMaintenance
  \/ MaintenanceFails
  \/ MaintenanceDone
  \/ \E t \in Tables :
       \/ \E outcome \in Outcome : NotCopied(t, outcome)
       \/ Truncate(t)
       \/ CopyDone(t)
       \/ \E complete, enabled \in BOOLEAN : CopyFails(t, complete, enabled)
  \/ \E f \in Fks : RestoreFk(f) \/ RestoreFkFails(f) \/ PostFk(f)

Next ==
  \/ AppRunFresh
  \/ \E p \in Runs : AppResume(p)
  \/ JobsRun
  \/ \E r \in Runs : Repair(r)
  \/ AppRestart
  \/ Die
  \/ TaskStep

Spec == Init /\ [][Next]_vars
-----------------------------------------------------------------------------
(***************************************************************************)
(* Properties.                                                             *)
(***************************************************************************)

\* Type invariant of the target, the rows, the job's runs and the notebook.
TypeOK ==
  /\ content \in [Tables -> {"none", "part", "all"}]
  /\ muted \subseteq Triggered
  /\ fks \subseteq Fks
  /\ row \in [Runs -> Row]
  /\ {latest, cur} \subseteq Runs \cup {NoRun}
  /\ mem \subseteq Runs
  /\ param \in [Runs -> Runs \cup {NoRun}]
  /\ life \in [Runs -> {"none", "pending", "running", "failed", "done"}]
  /\ attempts \in [Runs -> 0 .. MaxAttempts]
  /\ pc \in {"idle", "loader", "resume", "seed", "drop", "record", "load", "restore",
             "report", "post", "maintenance"}
  /\ loader \in Loader
  /\ tab \in [Tables -> {"none", "waiting", "taken", "copying"} \cup Outcome]
  /\ reported \subseteq Fks
  /\ lost \subseteq Fks

\* What the newest run has checkpointed as loaded is in the target, complete and with
\* its triggers on, although the TRUNCATE and every chunk commit by themselves: '"already
\* loaded" is exact rather than a guess'.
AlreadyLoadedIsExact ==
  cur # NoRun => \A t \in Loaded(row[cur]) : content[t] = "all" /\ t \notin muted

\* The definition of every foreign key survives: the key is in place, or the loader
\* holds it, or a row has it, or a run reported it, at whatever step of the load or
\* the restore the task was killed; except at two: between dropping the keys and
\* checkpointing them, and, of the keys that could not be restored, between the
\* checkpoint that clears dropped_fks and the report of the failure.
FkConserved ==
  \A f \in Fks \ (lost \cup reported) :
    \/ f \in fks
    \/ cur # NoRun /\ life[cur] = "running" /\ f \in loader.held
    \/ \E r \in Runs : f \in row[r].dropped

\* A run that ends well has every table in the target with its triggers on, except
\* those it warns about, and every key of the plan, whatever attempts and resumed
\* runs went before; and its row does not say that it ended well while a task is left.
SuccessIsComplete ==
  /\ cur # NoRun /\ life[cur] = "done" =>
       /\ \A t \in Tables : (content[t] = "all" /\ t \notin muted) \/ row[cur].tables[t] = "warning"
       /\ PlanFks \subseteq fks
  /\ \A r \in Runs : row[r].status = "success" => life[r] = "done"

\* The newest run stopped with a table loaded and one that the target lacks.
Unfinished ==
  /\ latest # NoRun
  /\ latest = cur
  /\ life[cur] = "failed"
  /\ Loaded(row[cur]) # {}
  /\ \E t \in Tables : content[t] # "all"

\* An unfinished run is offered for resuming by an app that reads it from the store,
\* whether its notebook recorded the end or was killed.
StoredRunIsOffered == Unfinished /\ cur \notin mem => Offered = cur

-----------------------------------------------------------------------------
(***************************************************************************)
(* What the documentation promises and the code does not keep.             *)
(***************************************************************************)

\* data_migration.mdx: "Resume last run in the app continues a different run"; stated
\* for any unfinished run, also one this app process triggered.
UnfinishedIsOffered == Unfinished => Offered = cur
=============================================================================
