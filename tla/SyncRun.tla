------------------------------- MODULE SyncRun -------------------------------
(***************************************************************************)
(* backend/migration/runs.py with backend/migration/data_loader.py: the    *)
(* in-app data load of a project, its checkpoint, and resuming it.         *)
(*                                                                         *)
(* A run copies the requested tables one by one into the target.  Before   *)
(* that it takes the foreign keys off the target, and afterwards it puts   *)
(* them back.  What it has done is kept in a RunState, in the memory of    *)
(* the worker process that runs the loader and, a little late, in a row of *)
(* the run store.  A worker can be lost at any step, taking the loader and *)
(* the memory with it; a later run may then resume from the row.           *)
(*                                                                         *)
(* The run registry is used by its contract (DurableRun, which RunRegistry *)
(* implements): a change of status is stored before the loader goes on,    *)
(* any other change now or later, with whatever is in memory by then.  The *)
(* store answers here; RunRegistry treats its failures.                    *)
(*                                                                         *)
(* Tables are their indexes in req.tables, and every run of the project    *)
(* asks for the same ones.  A foreign key is a pair <<child, parent>>.     *)
(***************************************************************************)
EXTENDS Naturals, FiniteSets, FiniteSetsExt

CONSTANTS
  NTables,         \* Len(req.tables)
  Fks,             \* foreign keys on the target before the first run
  Keyed,           \* tables with a key on the target: it holds a row only once
  Skippable,       \* tables that may turn out to have nothing the loader can read
  Workers,         \* processes that serve the API
  NoWorker,        \* owner of a run that has no loader
  TruncateFirst,   \* req.truncate_first
  LostAcks,        \* whether a commit can succeed and yet raise in the client
  DB_ATTEMPTS,     \* DB_POLICY.attempts
  LOAD_ATTEMPTS,   \* LOAD_POLICY.attempts
  MaxRuns,         \* bound: runs ever started
  MaxCrashes       \* bound: workers lost

Tables == 1 .. NTables
Runs == 1 .. MaxRuns
NoRun == 0

ASSUME TablesAssumption == NTables \in Nat \ {0}
ASSUME FksAssumption == Fks \subseteq Tables \X Tables
ASSUME RetryAssumption == {DB_ATTEMPTS, LOAD_ATTEMPTS} \subseteq Nat \ {0}
ASSUME NoWorkerAssumption == NoWorker \notin Workers
ASSUME FlagsAssumption == {TruncateFirst, LostAcks} \subseteq BOOLEAN
ASSUME BoundsAssumption == {MaxRuns, MaxCrashes} \subseteq Nat

VARIABLES
  rows,     \* copies of the source's rows in each target table (2: at least two)
  fks,      \* foreign keys on the target
  mem,      \* the RunState in the memory of the run's worker, while its loader lives
  row,      \* the RunState in the run store
  stale,    \* runs whose stored heartbeat is older than STALE_AFTER_SECONDS
  latest,   \* the run whose row has the newest updated_at
  pc,       \* where each run's loader thread is
  loader,   \* the local variables of _copy_tables
  owner,    \* the worker each run's loader lives in
  asked,    \* <<w, p>>: a request in worker w found run p resumable and is about to resume it
  prior,    \* the run each run resumed
  resumed,  \* runs that were resumed since they last dropped keys or wrote their row
  crashes,  \* workers lost so far
  recorded, \* runs whose row has shown all the foreign keys they dropped
  lost      \* foreign keys whose definition a crash took before it was recorded

target == <<rows, fks>>
store == <<row, stale, latest, recorded, resumed>>
history == <<asked, prior, crashes, lost>>
vars == <<target, mem, store, pc, loader, owner, history>>

DONE == {"success", "skipped"}
SETTLED == DONE \cup {"warning"}
TERMINAL == {"success", "failed", "partial"}

TableStatus == SETTLED \cup {"pending", "running", "failed"}
\* RunState; "unrestored" is the part of its error that names foreign keys.
RunState == [status : {"none", "running"} \cup TERMINAL, tables : [Tables -> TableStatus],
             dropped : SUBSET Fks, unrestored : SUBSET Fks]
NoState == [status |-> "none", tables |-> [t \in Tables |-> "pending"],
            dropped |-> {}, unrestored |-> {}]

\* dropped_fks, the tables still to copy, the attempt of call_with_retry, the
\* outcome of the table just tried, the foreign keys restore_fks has not tried,
\* those it could not restore, and any_failed.
Loader == [held : SUBSET Fks, todo : SUBSET Tables,
           attempt : 1 .. Max({DB_ATTEMPTS, LOAD_ATTEMPTS}),
           outcome : {"none", "success", "warning", "failed"},
           left : SUBSET Fks, failures : SUBSET Fks, anyFailed : BOOLEAN]
NoLoader == [held |-> {}, todo |-> {}, attempt |-> 1, outcome |-> "none",
             left |-> {}, failures |-> {}, anyFailed |-> FALSE]

Started == {r \in Runs : pc[r] # "none"}
Live(r) == owner[r] # NoWorker
Table(r) == Min(loader[r].todo)

\* get_run() in worker w.  Memory is shown for the worker's own run; once the
\* loader has ended the row is the same.
View(w, r) == IF owner[r] = w THEN mem[r] ELSE row[r]

TablesLeft(s) == {t \in Tables : s.tables[t] \notin SETTLED}

\* Mutant: a run that never reported its end is not resumed.
IsResumableEnded(w, r) ==
  /\ View(w, r).status \in TERMINAL
  /\ TablesLeft(View(w, r)) # {} \/ View(w, r).dropped # {}

\* The heartbeat of a worker's own run is in its memory, and fresh.
IsResumable(w, r) ==
  /\ View(w, r).status \in TERMINAL \/ (r \in stale /\ owner[r] # w)
  /\ TablesLeft(View(w, r)) # {} \/ View(w, r).dropped # {}

\* find_resumable(): the most recently updated run, or no run.
Offered(w) == IF latest # NoRun /\ IsResumable(w, latest) THEN latest ELSE NoRun

Init ==
  /\ rows = [t \in Tables |-> 0]
  /\ fks = Fks
  /\ mem = [r \in Runs |-> NoState]
  /\ row = [r \in Runs |-> NoState]
  /\ stale = {}
  /\ latest = NoRun
  /\ pc = [r \in Runs |-> "none"]
  /\ loader = [r \in Runs |-> NoLoader]
  /\ owner = [r \in Runs |-> NoWorker]
  /\ asked = {}
  /\ prior = [r \in Runs |-> NoRun]
  /\ resumed = {}
  /\ crashes = 0
  /\ recorded = {}
  /\ lost = {}

-----------------------------------------------------------------------------
(* The checkpoint. *)

Store(r, s) ==
  /\ row' = [row EXCEPT ![r] = s]
  /\ latest' = r
  /\ stale' = stale \ {r}
  /\ resumed' = resumed \ {r}
  /\ recorded' = IF pc[r] \notin {"none", "capture"} /\ loader[r].held \subseteq s.dropped
                 THEN recorded \cup {r} ELSE recorded

\* _set() of anything but the status: stored at once only when a write is due.
Set(r, s) ==
  /\ mem' = [mem EXCEPT ![r] = s]
  /\ Store(r, s) \/ UNCHANGED store

\* _set() of a final status, the last thing the loader does.
End(r, status) ==
  /\ Store(r, [mem[r] EXCEPT !.status = status])
  /\ mem' = [mem EXCEPT ![r] = NoState]
  /\ pc' = [pc EXCEPT ![r] = "ended"]
  /\ loader' = [loader EXCEPT ![r] = NoLoader]
  /\ owner' = [owner EXCEPT ![r] = NoWorker]
  /\ UNCHANGED <<target, history>>

GoTo(r, label) == pc' = [pc EXCEPT ![r] = label]

-----------------------------------------------------------------------------
(* Starting a run. *)

Seed(done) == [t \in Tables |-> IF t \in done THEN "skipped" ELSE "pending"]

\* start_run() in worker w of run r.
Begin(w, r, p, done, inherited) ==
  LET s == [NoState EXCEPT !.status = "running", !.tables = Seed(done), !.dropped = inherited]
  IN /\ owner' = [owner EXCEPT ![r] = w]
     /\ mem' = [mem EXCEPT ![r] = s]
     /\ row' = [row EXCEPT ![r] = s]
     /\ latest' = r
     /\ GoTo(r, "capture")
     /\ loader' = [loader EXCEPT ![r] = [NoLoader EXCEPT !.held = inherited,
                                                         !.todo = Tables \ done]]
     /\ prior' = [prior EXCEPT ![r] = p]
     /\ UNCHANGED <<target, stale, recorded, crashes, lost>>

NextRun == Cardinality(Started) + 1

StartFresh(w) ==
  /\ NextRun \in Runs
  /\ Begin(w, NextRun, NoRun, {}, {})
  /\ UNCHANGED <<asked, resumed>>

\* POST /data/start with resume_from: _check_resume().  Bound: one request at a time is
\* between its check and its start, and only while a run can be started.
AskResume(w, p) ==
  /\ NextRun \in Runs
  /\ asked = {}
  /\ p \in Started
  /\ IsResumable(w, p)
  /\ asked' = {<<w, p>>}
  /\ UNCHANGED <<target, mem, store, pc, loader, owner, prior, crashes, lost>>

\* start_run() reads the run again, which may have gone on since it was checked, and
\* starts with the tables in done and the foreign keys that run has dropped.
Resume(w, p, done) ==
  /\ <<w, p>> \in asked
  /\ NextRun \in Runs
  /\ Begin(w, NextRun, p, done, View(w, p).dropped)
  /\ asked' = {}
  /\ resumed' = resumed \cup {p}

\* Mutant: a table skipped with a warning counts as loaded.
StartResumeSettled(w, p) == Resume(w, p, {t \in Tables : View(w, p).tables[t] \in SETTLED})

StartResume(w, p) == Resume(w, p, {t \in Tables : View(w, p).tables[t] \in DONE})

-----------------------------------------------------------------------------
(* Taking the foreign keys off the target. *)

\* Mutant: what the resumed run had dropped is forgotten.
CaptureUnmerged(r) ==
  /\ pc[r] = "capture"
  /\ fks' = {}
  /\ loader' = [loader EXCEPT ![r].held = fks, ![r].attempt = 1]
  /\ resumed' = resumed \ {r}
  /\ GoTo(r, "record")
  /\ UNCHANGED <<rows, mem, row, stale, latest, recorded, owner, history>>

\* The capture commits; _merge_fks adds what the resumed run had dropped.
Capture(r) ==
  /\ pc[r] = "capture"
  /\ fks' = {}
  /\ loader' = [loader EXCEPT ![r].held = loader[r].held \cup fks, ![r].attempt = 1]
  /\ resumed' = resumed \ {r}
  /\ GoTo(r, "record")
  /\ UNCHANGED <<rows, mem, row, stale, latest, recorded, owner, history>>

\* An attempt raises before its commit, or, with a lost acknowledgement, after it.
CaptureRaises(r, committed) ==
  /\ pc[r] = "capture"
  /\ committed => LostAcks
  /\ fks' = IF committed THEN {} ELSE fks
  /\ UNCHANGED <<rows, mem, store, owner, history>>

CaptureRetry(r, committed) ==
  /\ CaptureRaises(r, committed)
  /\ loader[r].attempt < DB_ATTEMPTS
  /\ loader' = [loader EXCEPT ![r].attempt = loader[r].attempt + 1]
  /\ UNCHANGED pc

\* Not transient, or the last attempt; also a connector that cannot be built.
CaptureFails(r, committed) ==
  /\ CaptureRaises(r, committed)
  /\ GoTo(r, "abort")
  /\ UNCHANGED loader

RecordFks(r) ==
  /\ pc[r] = "record"
  /\ Set(r, [mem[r] EXCEPT !.dropped = loader[r].held])
  /\ GoTo(r, "table")
  /\ UNCHANGED <<target, loader, owner, history>>

-----------------------------------------------------------------------------
(* Copying a table. *)

StartTable(r) ==
  /\ pc[r] = "table"
  /\ loader[r].todo # {}
  /\ Set(r, [mem[r] EXCEPT !.tables[Table(r)] = "running"])
  /\ GoTo(r, "load")
  /\ UNCHANGED <<target, loader, owner, history>>

\* Postgres refuses to TRUNCATE a referenced table, to insert a child row without
\* its parent, and to insert a key twice.
Refused(t) ==
  \/ TruncateFirst /\ \E f \in fks : f[2] = t /\ f[1] # t
  \/ \E f \in fks : f[1] = t /\ f[2] # t /\ rows[f[2]] = 0
  \/ ~TruncateFirst /\ t \in Keyed /\ rows[t] > 0

\* The transaction of _load_table_once: TRUNCATE and COPY.
Copied(t) == [rows EXCEPT ![t] = IF TruncateFirst THEN 1 ELSE Min({@ + 1, 2})]

Tried(r, outcome) ==
  /\ loader' = [loader EXCEPT ![r].outcome = outcome, ![r].attempt = 1]
  /\ GoTo(r, "settle")
  /\ UNCHANGED <<fks, mem, store, owner, history>>

LoadCommits(r) ==
  /\ pc[r] = "load"
  /\ ~Refused(Table(r))
  /\ rows' = Copied(Table(r))
  /\ Tried(r, "success")

\* TableWarning, raised before the transaction.
LoadWarns(r) ==
  /\ pc[r] = "load"
  /\ Table(r) \in Skippable
  /\ UNCHANGED rows
  /\ Tried(r, "warning")

\* An attempt raises and is rolled back, or its acknowledgement is lost.
LoadRaises(r, committed) ==
  /\ pc[r] = "load"
  /\ committed => LostAcks /\ ~Refused(Table(r))
  /\ rows' = IF committed THEN Copied(Table(r)) ELSE rows

LoadRetry(r, committed) ==
  /\ LoadRaises(r, committed)
  /\ loader[r].attempt < LOAD_ATTEMPTS
  /\ loader' = [loader EXCEPT ![r].attempt = loader[r].attempt + 1]
  /\ UNCHANGED <<fks, mem, store, pc, owner, history>>

LoadFails(r, committed) ==
  /\ LoadRaises(r, committed)
  /\ Tried(r, "failed")

\* Mutant: a failed table does not make the run partial.
SettleSilently(r) ==
  /\ pc[r] = "settle"
  /\ Set(r, [mem[r] EXCEPT !.tables[Table(r)] = loader[r].outcome])
  /\ loader' = [loader EXCEPT ![r].todo = loader[r].todo \ {Table(r)},
                              ![r].outcome = "none"]
  /\ GoTo(r, "table")
  /\ UNCHANGED <<target, owner, history>>

\* Mutant: a failed table is tried until it succeeds.
SettleAgain(r) ==
  /\ pc[r] = "settle"
  /\ Set(r, [mem[r] EXCEPT !.tables[Table(r)] = loader[r].outcome])
  /\ loader' = IF loader[r].outcome = "failed" THEN loader
               ELSE [loader EXCEPT ![r].todo = loader[r].todo \ {Table(r)}]
  /\ GoTo(r, "table")
  /\ UNCHANGED <<target, owner, history>>

\* The checkpoint of the table, whatever became of it.
Settle(r) ==
  /\ pc[r] = "settle"
  /\ Set(r, [mem[r] EXCEPT !.tables[Table(r)] = loader[r].outcome])
  /\ loader' = [loader EXCEPT ![r].todo = loader[r].todo \ {Table(r)},
                              ![r].outcome = "none",
                              ![r].anyFailed = @ \/ loader[r].outcome = "failed"]
  /\ GoTo(r, "table")
  /\ UNCHANGED <<target, owner, history>>

-----------------------------------------------------------------------------
(* Putting the foreign keys back. *)

BeginRestore(r) ==
  /\ pc[r] = "table"
  /\ loader[r].todo = {}
  /\ loader' = [loader EXCEPT ![r].left = loader[r].held]
  /\ GoTo(r, "restore")
  /\ UNCHANGED <<target, mem, store, owner, history>>

\* restore_fks() cannot connect and raises.
RestoreRaises(r) ==
  /\ pc[r] = "restore"
  /\ loader[r].left # {}
  /\ loader[r].left = loader[r].held
  /\ GoTo(r, "abort")
  /\ UNCHANGED <<target, mem, store, loader, owner, history>>

\* Rows of the child have no parent row.
Orphans(f) == f[1] # f[2] /\ rows[f[1]] > 0 /\ rows[f[2]] = 0

\* ADD CONSTRAINT succeeds, or finds the constraint there already.
RestoreFk(r, f) ==
  /\ pc[r] = "restore"
  /\ f \in loader[r].left
  /\ f \in fks \/ ~Orphans(f)
  /\ fks' = fks \cup {f}
  /\ loader' = [loader EXCEPT ![r].left = @ \ {f}]
  /\ UNCHANGED <<rows, mem, store, pc, owner, history>>

\* The last attempt raises, and the others are still tried.
RestoreFkFails(r, f, committed) ==
  /\ pc[r] = "restore"
  /\ f \in loader[r].left
  /\ committed => LostAcks /\ ~Orphans(f)
  /\ fks' = IF committed THEN fks \cup {f} ELSE fks
  /\ loader' = [loader EXCEPT ![r].left = @ \ {f}, ![r].failures = @ \cup {f}]
  /\ UNCHANGED <<rows, mem, store, pc, owner, history>>

ReportFks(r) ==
  /\ pc[r] = "restore"
  /\ loader[r].left = {}
  /\ loader[r].failures # {}
  /\ Set(r, [mem[r] EXCEPT !.unrestored = loader[r].failures])
  /\ loader' = [loader EXCEPT ![r].anyFailed = TRUE]
  /\ GoTo(r, "clear")
  /\ UNCHANGED <<target, owner, history>>

ClearFks(r) ==
  /\ \/ pc[r] = "clear"
     \/ pc[r] = "restore" /\ loader[r].left = {} /\ loader[r].failures = {}
  /\ Set(r, [mem[r] EXCEPT !.dropped = {}])
  /\ GoTo(r, "finish")
  /\ UNCHANGED <<target, loader, owner, history>>

Finish(r) ==
  /\ pc[r] = "finish"
  /\ End(r, IF loader[r].anyFailed THEN "partial" ELSE "success")

\* The outer except: the run failed outside the copy of a table.
Abort(r) ==
  /\ pc[r] = "abort"
  /\ End(r, "failed")

-----------------------------------------------------------------------------
(* Heartbeats, time and lost workers. *)

\* A heartbeat or a progress tick of a live loader that is written through.
Beat(r) ==
  /\ Live(r)
  /\ <<row[r], latest>> # <<mem[r], r>>
  /\ Store(r, mem[r])
  /\ UNCHANGED <<target, mem, pc, loader, owner, history>>

\* No write of the run reached the store for three heartbeats: its loader is gone, or
\* it lives and the registry swallowed the failures of the store.  Bound: a live run
\* grows stale only while a run can be started that may resume it.
GoStale(r) ==
  /\ row[r].status = "running"
  /\ Live(r) => NextRun \in Runs
  /\ r \notin stale
  /\ stale' = stale \cup {r}
  /\ UNCHANGED <<target, mem, row, latest, recorded, resumed, pc, loader, owner, history>>

\* A worker goes away with its loaders and their memory, and is started again.
Crash(w) ==
  LET gone == {r \in Runs : owner[r] = w}
  IN /\ crashes < MaxCrashes
     /\ gone # {}
     /\ crashes' = crashes + 1
     /\ asked' = asked \ ({w} \X Runs)
     /\ lost' = lost \cup ((UNION {loader[r].held \ row[r].dropped : r \in gone \ recorded}) \ fks)
     /\ pc' = [r \in Runs |-> IF r \in gone THEN "lost" ELSE pc[r]]
     /\ mem' = [r \in Runs |-> IF r \in gone THEN NoState ELSE mem[r]]
     /\ loader' = [r \in Runs |-> IF r \in gone THEN NoLoader ELSE loader[r]]
     /\ owner' = [r \in Runs |-> IF r \in gone THEN NoWorker ELSE owner[r]]
     /\ UNCHANGED <<target, store, prior>>

-----------------------------------------------------------------------------
LoaderStep(r) ==
  \/ Capture(r)
  \/ RecordFks(r)
  \/ StartTable(r)
  \/ LoadCommits(r)
  \/ LoadWarns(r)
  \/ Settle(r)
  \/ BeginRestore(r)
  \/ RestoreRaises(r)
  \/ \E f \in Fks : RestoreFk(r, f)
  \/ ReportFks(r)
  \/ ClearFks(r)
  \/ Finish(r)
  \/ Abort(r)
  \/ \E committed \in BOOLEAN :
       \/ CaptureRetry(r, committed)
       \/ CaptureFails(r, committed)
       \/ LoadRetry(r, committed)
       \/ LoadFails(r, committed)
       \/ \E f \in Fks : RestoreFkFails(r, f, committed)

Next ==
  \/ \E w \in Workers :
       \/ StartFresh(w)
       \/ \E p \in Runs : AskResume(w, p) \/ StartResume(w, p)
       \/ Crash(w)
  \/ \E r \in Runs : LoaderStep(r) \/ Beat(r) \/ GoStale(r)

Spec == Init /\ [][Next]_vars

\* A loader thread runs on by itself, every call it makes returns or times out,
\* and the clock that makes the heartbeat of an abandoned run stale goes on.
FairSpec == Spec /\ \A r \in Runs : WF_vars(LoaderStep(r)) /\ WF_vars(pc[r] = "lost" /\ GoStale(r))
-----------------------------------------------------------------------------
(***************************************************************************)
(* Properties.                                                             *)
(***************************************************************************)

\* Type invariant of the target, the stored and remembered runs and the loaders.
TypeOK ==
  /\ rows \in [Tables -> 0 .. 2]
  /\ fks \subseteq Fks
  /\ mem \in [Runs -> RunState]
  /\ row \in [Runs -> RunState]
  /\ stale \subseteq Runs
  /\ latest \in Runs \cup {NoRun}
  /\ pc \in [Runs -> {"none", "capture", "record", "table", "load", "settle", "restore",
                      "clear", "finish", "abort", "ended", "lost"}]
  /\ loader \in [Runs -> Loader]
  /\ owner \in [Runs -> Workers \cup {NoWorker}]
  /\ asked \subseteq Workers \X Runs
  /\ prior \in [Runs -> Runs \cup {NoRun}]
  /\ resumed \subseteq Runs
  /\ crashes \in 0 .. MaxCrashes
  /\ recorded \subseteq Runs
  /\ lost \subseteq Fks

\* A table any run calls loaded, or skips because an earlier one loaded it, is in
\* the target, whatever crashed, was resumed or ran at the same time.
CheckpointSound ==
  \A r \in Runs, t \in Tables :
    {mem[r].tables[t], row[r].tables[t]} \cap DONE # {} => rows[t] > 0

\* A run stored as a success has settled every table, has nothing left to restore
\* and reports no foreign key, so it is never offered for resuming.
SuccessIsComplete ==
  \A r \in Runs : row[r].status = "success" =>
    TablesLeft(row[r]) = {} /\ row[r].dropped = {} /\ row[r].unrestored = {}

\* The state of r that survives so far.  The row of a run that was resumed no longer
\* counts, the newer run carries its foreign keys on.
Carries(r, f) ==
  \/ f \in loader[r].held
  \/ r \notin resumed /\ f \in row[r].dropped
  \/ f \in row[r].unrestored \cup mem[r].unrestored

\* A foreign key of the target is never forgotten, even when a run that is still alive
\* is taken for dead and resumed: the key is in place, or a loader holds it, or a run
\* that can still be resumed has it stored, or a run reported it.  The one exception is
\* a crash before its definition reached the store.
FkConserved == \A f \in Fks \ lost : f \in fks \/ \E r \in Runs : Carries(r, f)

\* Retries and failures always lead to the end of the loader.
LoadersEnd == \A r \in Runs : Live(r) ~> ~Live(r)

\* An interrupted run that left tables or foreign keys behind comes to be offered
\* by every worker, unless the project's history has moved on to another run.
InterruptedIsOffered ==
  \A r \in Runs :
    (pc[r] = "lost" /\ (TablesLeft(row[r]) # {} \/ row[r].dropped # {}))
      ~> (latest # r \/ \A w \in Workers : Offered(w) = r)
-----------------------------------------------------------------------------
(***************************************************************************)
(* What the code's comments and the documentation promise, and the code    *)
(* does not always keep.                                                   *)
(***************************************************************************)

\* runs.py: the dropped foreign keys are "Persisted before the load".
FksRecordedBeforeLoad ==
  \A r \in Runs : pc[r] = "load" => loader[r].held \subseteq row[r].dropped

\* data_loader.py: retrying the capture is safe, "a failed attempt drops nothing";
\* stated for a run that is alone on the target.
CaptureReturnsWhatItDropped ==
  \A r \in Runs : pc[r] = "record" => Fks = fks \cup loader[r].held

\* data_migration.mdx: a run is offered for resume only once it is over, "so two
\* loaders never compete for the same TRUNCATE"; stated for loaders of one run.
ResumesNeverCompete ==
  \A q, r \in Runs : q # r /\ prior[q] = prior[r] /\ prior[q] # NoRun
    => ~(pc[q] = "load" /\ pc[r] = "load" /\ Table(q) = Table(r))
=============================================================================
