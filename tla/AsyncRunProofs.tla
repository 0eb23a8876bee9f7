--------------------------- MODULE AsyncRunProofs ---------------------------
(***************************************************************************)
(* What is proved of AsyncRun, for any tables, foreign keys, triggers,     *)
(* threads, runs and attempts: the types; where writes reach the run-state *)
(* table and a run that resumes another is not itself retried, that no     *)
(* foreign key is forgotten; and where only the newest run is resumed,     *)
(* that the checkpoint is exact, a success complete and an unfinished run  *)
(* offered.  The hypotheses are the constants StoreFails, RetryResumes and *)
(* ResumeAny: with any one of them TRUE, TLC finds AlreadyLoadedIsExact    *)
(* violated (in two runs, or in three for ResumeAny).                      *)
(***************************************************************************)
EXTENDS AsyncRun, Integers, FiniteSetTheorems, TLAPS

\* Before the first run there is no task.
NoTask == cur = NoRun => pc = "idle" /\ latest = NoRun

\* The next run is the one after the newest.
RunsInOrder == \A r \in Runs : life[r] # "none" <=> r <= cur

\* Its number is the number of the runs started so far, plus one.
LEMMA NextRunIsNext ==
  ASSUME TypeOK, RunsInOrder PROVE NextRun = cur + 1
<1>1. cur \in Nat /\ cur <= MaxRuns /\ MaxRuns \in Nat
  BY BoundsAssumption DEF TypeOK, Runs, NoRun
<1>2. {r \in Runs : life[r] # "none"} = 1 .. cur
  BY <1>1 DEF RunsInOrder, Runs
<1>3. Cardinality(1 .. cur) = cur
  BY <1>1, FS_Interval
<1>4. QED BY <1>1, <1>2, <1>3 DEF NextRun

\* The smallest of some tables is one of them.
LEMMA SmallestTable ==
  ASSUME NEW S \in SUBSET Tables, S # {} PROVE Min(S) \in S
<1> DEFINE less == {p \in Nat \X Nat : p[1] < p[2]}
<1>1. S \subseteq Nat
  BY TablesAssumption DEF Tables
<1>2. PICK m \in S : \A n \in S : ~(<<n, m>> \in less)
  <2>1. IsWellFoundedOn(less, Nat)
    BY NatLessThanWellFounded DEF OpToRel
  <2> HIDE DEF less
  <2>2. QED BY <1>1, <2>1, WFMin
<1>3. \A n \in S : m <= n
  <2> SUFFICES ASSUME NEW n \in S, n < m PROVE FALSE
    BY <1>1
  <2>1. <<n, m>> \in less
    BY <1>1
  <2>2. QED BY <1>2, <2>1
<1>4. QED BY <1>3 DEF Min

\* A step of a task is one of the newest run, which is running.
LEMMA AtTask ==
  ASSUME TypeOK, NoTask, NEW label \in {"resume", "seed", "drop", "record", "load", "restore",
                                        "report", "post", "maintenance"},
         At(label)
  PROVE  cur \in Runs /\ life[cur] = "running" /\ pc = label
BY DEF TypeOK, NoTask, At

\* The row of a run that was not started, and the names of a notebook that has no task.
LEMMA NoRowType == NoRow \in Row
BY DEF NoRow, Row, Outcome

\* The same for the loader's names.
LEMMA NoLoaderType == NoLoader \in Loader
BY DEF NoLoader, Loader, Outcome

\* What a write leaves in the store, whether it fails or not.
LEMMA WriteTypes ==
  ASSUME TypeOK, cur \in Runs, NEW s \in Row, Write(s)
  PROVE  row' \in [Runs -> Row] /\ latest' \in Runs \cup {NoRun}
BY DEF Write, TypeOK, store

\* _report_run_state() and _run_store_exec() keep the types of the rows.
LEMMA ReportTypes ==
  ASSUME TypeOK, cur \in Runs, NEW st \in {"running"} \cup TERMINAL, Report(st)
  PROVE  row' \in [Runs -> Row] /\ latest' \in Runs \cup {NoRun}
<1>1. row[cur] \in Row /\ param[cur] \in Runs \cup {NoRun}
  BY DEF TypeOK
<1>2. [row[cur] EXCEPT !.status = st, !.resumed = param[cur]] \in Row
  BY <1>1 DEF Row
<1>3. QED BY <1>2, WriteTypes DEF Report

\* So does a checkpoint.
LEMMA CheckpointTypes ==
  ASSUME TypeOK, cur \in Runs, NEW s \in Row, Checkpoint(s)
  PROVE  row' \in [Runs -> Row] /\ latest' \in Runs \cup {NoRun}
<1>1. [s EXCEPT !.status = "running"] \in Row
  BY DEF Row
<1>2. QED BY <1>1, WriteTypes DEF Checkpoint

\* Starting a run keeps the types, whatever becomes of the store and the memory.
LEMMA LaunchTypes ==
  ASSUME TypeOK, RunsInOrder, NEW p \in Runs \cup {NoRun}, Launch(p),
         row' \in [Runs -> Row], {latest'} \subseteq Runs \cup {NoRun}, mem' \subseteq Runs
  PROVE  TypeOK'
<1>1. NextRun \in Runs /\ MaxAttempts >= 1 /\ MaxAttempts \in Nat
  BY BoundsAssumption DEF Launch
<1>2. attempts' \in [Runs -> 0 .. MaxAttempts]
  BY <1>1 DEF Launch, TypeOK
<1>3. QED BY <1>1, <1>2 DEF Launch, TypeOK, target, ghosts

\* Every step keeps the types.
LEMMA TypeStep ==
  ASSUME TypeOK, NoTask, RunsInOrder, [Next]_vars
  PROVE  TypeOK'
<1> USE NoRowType, NoLoaderType
<1>1. CASE UNCHANGED vars
  BY <1>1 DEF vars, target, store, jobs, ghosts, TypeOK
<1>2. ASSUME NEW p \in Runs \cup {NoRun}, AppRun(p) PROVE TypeOK'
  <2>1. Launch(p) /\ NextRun \in Runs
    BY <1>2 DEF AppRun, Launch
  <2>2. [NoRow EXCEPT !.status = "submitted", !.total = TRUE, !.resumed = p] \in Row
    BY DEF Row
  <2>3. row' \in [Runs -> Row]
    BY <1>2, <2>1, <2>2 DEF AppRun, TypeOK
  <2>4. QED BY <1>2, <2>1, <2>3, LaunchTypes DEF AppRun, TypeOK
<1>3. CASE AppRunFresh
  BY <1>2, <1>3 DEF AppRunFresh
<1>4. ASSUME NEW p \in Runs, AppResume(p) PROVE TypeOK'
  BY <1>2, <1>4 DEF AppResume
<1>5. CASE JobsRun
  BY <1>5, LaunchTypes DEF JobsRun, store, TypeOK
<1>6. ASSUME NEW r \in Runs, Repair(r) PROVE TypeOK'
  <2>1. attempts' \in [Runs -> 0 .. MaxAttempts]
    BY <1>6, BoundsAssumption DEF Repair, TypeOK
  <2>2. QED BY <1>6, <2>1 DEF Repair, TypeOK, target, store, ghosts
<1>7. CASE AppRestart
  BY <1>7 DEF AppRestart, TypeOK, target, store, ghosts
<1>8. CASE Die
  <2>1. lost' \subseteq Fks
    BY <1>8 DEF Die, TypeOK, Loader, Unrecorded, Unreported
  <2>2. QED BY <1>8, <2>1 DEF Die, Fail, End, TypeOK, target, store
<1>9. CASE TaskStep
  <2>1. CASE StartLoader
    <3>1. cur \in Runs
      BY <2>1 DEF StartLoader, TypeOK
    <3>2. QED BY <2>1, <3>1, ReportTypes DEF StartLoader, TypeOK, target, ghosts
  <2>2. ASSUME NEW readable \in BOOLEAN, ReadCheckpoint(readable) PROVE TypeOK'
    <3>1. PICK s \in Row : ResumeFrom(s)
      <4>1. Source \in Runs
        BY <2>2, AtTask DEF ReadCheckpoint, ResumeFrom, Source, TypeOK
      <4>2. row[Source] \in Row
        BY <4>1 DEF TypeOK
      <4>3. QED BY <2>2, <4>2 DEF ReadCheckpoint
    <3>2. loader' \in Loader
      <4>1. s.dropped \subseteq Fks
        BY DEF Row
      <4>2. QED BY <3>1, <4>1 DEF ResumeFrom, NoLoader, Loader, Outcome
    <3>3. pc' \in {"drop", "seed"}
      BY <3>1 DEF ResumeFrom
    <3>4. QED BY <3>1, <3>2, <3>3 DEF ResumeFrom, TypeOK, target, store, jobs, ghosts
  <2>3. CASE SeedProgress
    <3>1. cur \in Runs
      BY <2>3, AtTask DEF SeedProgress
    <3>2. [row[cur] EXCEPT !.tables = loader.progress] \in Row
      BY <3>1 DEF TypeOK, Row, Loader
    <3>3. QED BY <2>3, <3>1, <3>2, CheckpointTypes
              DEF SeedProgress, TypeOK, target, jobs, ghosts
  <2>4. CASE DropFks
    <3>1. loader' \in Loader
      BY <2>4 DEF DropFks, TypeOK, Loader, Captured
    <3>2. QED BY <2>4, <3>1 DEF DropFks, TypeOK, store, jobs, ghosts
  <2>5. CASE RecordFks
    <3>1. cur \in Runs
      BY <2>5, AtTask DEF RecordFks
    <3>2. [row[cur] EXCEPT !.dropped = loader.held, !.total = TRUE] \in Row
      BY <3>1 DEF TypeOK, Row, Loader
    <3>3. tab' \in [Tables -> {"none", "waiting", "taken", "copying"} \cup Outcome]
      BY <2>5 DEF RecordFks
    <3>4. QED BY <2>5, <3>1, <3>2, <3>3, CheckpointTypes
              DEF RecordFks, TypeOK, target, jobs, ghosts
  <2>6. CASE TakeTable
    <3>1. PICK t : tab' = [tab EXCEPT ![t] = "taken"]
      BY <2>6 DEF TakeTable, Becomes
    <3>2. QED BY <2>6, <3>1 DEF TakeTable, Loading, TypeOK, store, jobs, ghosts
  <2>7. CASE Settle
    <3>1. cur \in Runs
      BY <2>7, AtTask DEF Settle
    <3>2. PICK t : /\ tab[t] \in Outcome
                   /\ loader' = [loader EXCEPT !.unsettled = @ \ {t}, !.progress[t] = tab[t]]
                   /\ Checkpoint([row[cur] EXCEPT !.tables = [loader.progress EXCEPT ![t] = tab[t]]])
      BY <2>7 DEF Settle
    <3>3. loader' \in Loader
      BY <3>2 DEF TypeOK, Loader
    <3>4. [row[cur] EXCEPT !.tables = [loader.progress EXCEPT ![t] = tab[t]]] \in Row
      BY <3>1, <3>2 DEF TypeOK, Loader, Row
    <3>5. QED BY <2>7, <3>1, <3>2, <3>3, <3>4, CheckpointTypes
              DEF Settle, TypeOK, target, jobs, ghosts
  <2>8. CASE BeginRestore
    <3>1. loader' \in Loader
      BY <2>8 DEF BeginRestore, TypeOK, Loader
    <3>2. QED BY <2>8, <3>1 DEF BeginRestore, TypeOK, target, store, jobs, ghosts
  <2>9. CASE ClearFks
    <3>1. cur \in Runs
      BY <2>9, AtTask DEF ClearFks
    <3>2. [row[cur] EXCEPT !.dropped = {}] \in Row
      BY <3>1 DEF TypeOK, Row
    <3>3. QED BY <2>9, <3>1, <3>2, CheckpointTypes DEF ClearFks, TypeOK, target, jobs, ghosts
  <2>10. CASE ReportFailure
    <3>1. cur \in Runs
      BY <2>10, AtTask DEF ReportFailure
    <3>2. reported' \subseteq Fks
      BY <2>10 DEF ReportFailure, TypeOK, Loader
    <3>3. QED BY <2>10, <3>1, <3>2, ReportTypes
              DEF ReportFailure, Fail, End, TERMINAL, TypeOK, target
  <2>11. CASE ReportSuccess
    <3>1. cur \in Runs
      BY <2>11, AtTask DEF ReportSuccess
    <3>2. QED BY <2>11, <3>1, ReportTypes DEF ReportSuccess, End, TypeOK, target, ghosts
  <2>12. CASE StartPost \/ StartMaintenance
    <3>1. PICK task : StartTask(task)
      BY <2>12 DEF StartPost, StartMaintenance
    <3>2. cur \in Runs
      BY <3>1 DEF StartTask, TypeOK
    <3>3. QED BY <3>1, <3>2, ReportTypes DEF StartTask, TypeOK, target, ghosts
  <2>13. CASE PostFails \/ PostDone \/ MaintenanceFails \/ MaintenanceDone
    <3>1. cur \in Runs
      BY <2>13, AtTask DEF PostFails, PostDone, MaintenanceFails, MaintenanceDone
    <3>2. PICK st \in {"running"} \cup TERMINAL, task \in {"post", "maintenance", "idle"},
               state \in {"failed", "pending", "done"} :
            Report(st) /\ End(task, state) /\ UNCHANGED <<target, ghosts>>
      BY <2>13 DEF PostFails, PostDone, MaintenanceFails, MaintenanceDone, Fail, TERMINAL
    <3>3. QED BY <3>1, <3>2, ReportTypes DEF End, TypeOK, target, ghosts
  <2>14. ASSUME NEW t \in Tables, NEW outcome \in Outcome, NotCopied(t, outcome) PROVE TypeOK'
    BY <2>14 DEF NotCopied, Loading, Becomes, TypeOK, store, jobs, ghosts
  <2>15. ASSUME NEW t \in Tables, Truncate(t) PROVE TypeOK'
    BY <2>15 DEF Truncate, Loading, Becomes, TypeOK, store, jobs, ghosts
  <2>16. ASSUME NEW t \in Tables, CopyDone(t) PROVE TypeOK'
    BY <2>16 DEF CopyDone, Loading, Becomes, TypeOK, Outcome, store, jobs, ghosts
  <2>17. ASSUME NEW t \in Tables, NEW complete \in BOOLEAN, NEW enabled \in BOOLEAN,
                CopyFails(t, complete, enabled)
         PROVE  TypeOK'
    BY <2>17 DEF CopyFails, Loading, Becomes, TypeOK, Outcome, store, jobs, ghosts
  <2>18. ASSUME NEW f \in Fks, RestoreFk(f) PROVE TypeOK'
    <3>1. loader' \in Loader
      BY <2>18 DEF RestoreFk, TypeOK, Loader
    <3>2. QED BY <2>18, <3>1 DEF RestoreFk, TypeOK, store, jobs, ghosts
  <2>19. ASSUME NEW f \in Fks, RestoreFkFails(f) PROVE TypeOK'
    <3>1. loader' \in Loader
      <4>1. loader.left \ {f} \subseteq Fks /\ loader.failures \cup {f} \subseteq Fks
        BY DEF TypeOK, Loader
      <4>2. loader' = [loader EXCEPT !.left = loader.left \ {f},
                                     !.failures = loader.failures \cup {f}]
        BY <2>19 DEF RestoreFkFails
      <4>3. QED BY <4>1, <4>2 DEF TypeOK, Loader
    <3>2. QED BY <2>19, <3>1 DEF RestoreFkFails, TypeOK, target, store, jobs, ghosts
  <2>20. ASSUME NEW f \in Fks, PostFk(f) PROVE TypeOK'
    BY <2>20 DEF PostFk, TypeOK, store, jobs, ghosts
  <2>21. QED BY <1>9, <2>1, <2>2, <2>3, <2>4, <2>5, <2>6, <2>7, <2>8, <2>9, <2>10, <2>11, <2>12,
                <2>13, <2>14, <2>15, <2>16, <2>17, <2>18, <2>19, <2>20 DEF TaskStep
<1>10. QED BY <1>1, <1>3, <1>4, <1>5, <1>6, <1>7, <1>8, <1>9 DEF Next

-----------------------------------------------------------------------------
(* What the steps of a task leave in the row of its run, where a write reaches the *)
(* store. *)

\* The rows and the lives of the other runs, and which run it is, stay.
OthersStay ==
  /\ cur \in Runs /\ cur' = cur /\ UNCHANGED <<param, attempts>>
  /\ \A r \in Runs \ {cur} : row'[r] = row[r] /\ life'[r] = life[r]

\* The row stays but for its status and the parameter.
RowStays ==
  /\ row'[cur].tables = row[cur].tables
  /\ row'[cur].dropped = row[cur].dropped
  /\ row'[cur].total = row[cur].total

\* The row is what was written, and it is the newest.
LEMMA Written ==
  ASSUME StoreFails = FALSE, TypeOK, cur \in Runs, NEW s, Write(s)
  PROVE  /\ row'[cur] = s /\ latest' = cur
         /\ \A r \in Runs \ {cur} : row'[r] = row[r]
BY DEF Write, TypeOK

\* A report leaves all of the row but the status and the parameter.
LEMMA Reported ==
  ASSUME StoreFails = FALSE, TypeOK, cur \in Runs, NEW st, Report(st)
  PROVE  /\ RowStays /\ row'[cur].status = st /\ latest' = cur
         /\ \A r \in Runs \ {cur} : row'[r] = row[r]
<1>1. row[cur] \in Row
  BY DEF TypeOK
<1>2. DEFINE s == [row[cur] EXCEPT !.status = st, !.resumed = param[cur]]
<1>3. s.tables = row[cur].tables /\ s.dropped = row[cur].dropped /\ s.total = row[cur].total
      /\ s.status = st
  BY <1>1 DEF Row
<1>4. Write(s)
  BY DEF Report
<1>5. HIDE DEF s
<1>6. QED BY <1>3, <1>4, Written DEF RowStays

\* A checkpoint leaves the status, or makes it running.
LEMMA Checked ==
  ASSUME StoreFails = FALSE, TypeOK, cur \in Runs, NEW s \in Row, Checkpoint(s),
         s.status = row[cur].status
  PROVE  /\ row'[cur].tables = s.tables /\ row'[cur].dropped = s.dropped
         /\ row'[cur].total = s.total /\ latest' = cur
         /\ row'[cur].status = "success" => row[cur].status = "success"
         /\ \A r \in Runs \ {cur} : row'[r] = row[r]
<1>1. CASE s.status = "none"
  <2>1. DEFINE q == [s EXCEPT !.status = "running"]
  <2>2. q.tables = s.tables /\ q.dropped = s.dropped /\ q.total = s.total /\ q.status = "running"
    BY DEF Row
  <2>3. Write(q)
    BY <1>1 DEF Checkpoint
  <2>4. HIDE DEF q
  <2>5. QED BY <2>2, <2>3, Written
<1>2. CASE s.status # "none"
  BY <1>2, Written DEF Checkpoint
<1>3. QED BY <1>1, <1>2

\* The four checkpoints.
LEMMA Seeded ==
  ASSUME StoreFails = FALSE, TypeOK, cur \in Runs, SeedProgress
  PROVE  /\ row'[cur].tables = loader.progress /\ row'[cur].dropped = row[cur].dropped
         /\ row'[cur].total = row[cur].total /\ latest' = cur
         /\ row'[cur].status = "success" => row[cur].status = "success"
         /\ \A r \in Runs \ {cur} : row'[r] = row[r]
<1>1. DEFINE s == [row[cur] EXCEPT !.tables = loader.progress]
<1>2. row[cur] \in Row /\ loader \in Loader
  BY DEF TypeOK
<1>3. s \in Row
  BY <1>2 DEF Row, Loader
<1>4. s.tables = loader.progress /\ s.dropped = row[cur].dropped /\ s.total = row[cur].total
      /\ s.status = row[cur].status
  BY <1>2 DEF Row
<1>5. Checkpoint(s)
  BY DEF SeedProgress
<1>6. HIDE DEF s
<1>7. QED BY <1>3, <1>4, <1>5, Checked

\* The second: the foreign keys that are off the target.
LEMMA Recorded ==
  ASSUME StoreFails = FALSE, TypeOK, cur \in Runs, RecordFks
  PROVE  /\ row'[cur].tables = row[cur].tables /\ row'[cur].dropped = loader.held
         /\ row'[cur].total = TRUE /\ latest' = cur
         /\ row'[cur].status = "success" => row[cur].status = "success"
         /\ \A r \in Runs \ {cur} : row'[r] = row[r]
<1>1. DEFINE s == [row[cur] EXCEPT !.dropped = loader.held, !.total = TRUE]
<1>2. row[cur] \in Row /\ loader \in Loader
  BY DEF TypeOK
<1>3. s \in Row
  BY <1>2 DEF Row, Loader
<1>4. s.tables = row[cur].tables /\ s.dropped = loader.held /\ s.total = TRUE
      /\ s.status = row[cur].status
  BY <1>2 DEF Row
<1>5. Checkpoint(s)
  BY DEF RecordFks
<1>6. HIDE DEF s
<1>7. QED BY <1>3, <1>4, <1>5, Checked

\* The fourth: the foreign keys are done with.
LEMMA Cleared ==
  ASSUME StoreFails = FALSE, TypeOK, cur \in Runs, ClearFks
  PROVE  /\ row'[cur].tables = row[cur].tables /\ row'[cur].dropped = {}
         /\ row'[cur].total = row[cur].total /\ latest' = cur
         /\ row'[cur].status = "success" => row[cur].status = "success"
         /\ \A r \in Runs \ {cur} : row'[r] = row[r]
<1>1. DEFINE s == [row[cur] EXCEPT !.dropped = {}]
<1>2. row[cur] \in Row
  BY DEF TypeOK
<1>3. s \in Row
  BY <1>2 DEF Row
<1>4. s.tables = row[cur].tables /\ s.dropped = {} /\ s.total = row[cur].total
      /\ s.status = row[cur].status
  BY <1>2 DEF Row
<1>5. Checkpoint(s)
  BY DEF ClearFks
<1>6. HIDE DEF s
<1>7. QED BY <1>3, <1>4, <1>5, Checked

\* Settling a table: the loader's variables after it, and the row.
LEMMA Settled ==
  ASSUME StoreFails = FALSE, TypeOK, cur \in Runs, Settle
  PROVE  \E t \in Tables :
           /\ tab[t] \in Outcome /\ t \in loader.unsettled
           /\ loader'.unsettled = loader.unsettled \ {t}
           /\ loader'.progress = [loader.progress EXCEPT ![t] = tab[t]]
           /\ loader'.held = loader.held /\ loader'.todo = loader.todo
           /\ loader'.left = loader.left /\ loader'.failures = loader.failures
           /\ row'[cur].tables = loader'.progress /\ row'[cur].dropped = row[cur].dropped
           /\ row'[cur].total = row[cur].total /\ latest' = cur
           /\ row'[cur].status = "success" => row[cur].status = "success"
           /\ \A r \in Runs \ {cur} : row'[r] = row[r]
<1>1. row[cur] \in Row /\ loader \in Loader
  BY DEF TypeOK
<1>2. PICK t : /\ t = Min(loader.unsettled)
               /\ tab[t] \in Outcome
               /\ loader' = [loader EXCEPT !.unsettled = @ \ {t}, !.progress[t] = tab[t]]
               /\ Checkpoint([row[cur] EXCEPT !.tables = [loader.progress EXCEPT ![t] = tab[t]]])
  BY DEF Settle
<1>3. t \in loader.unsettled
  <2>1. loader.unsettled # {} /\ loader.unsettled \subseteq Tables
    BY <1>1 DEF Settle, Loader
  <2>2. QED BY <1>2, <2>1, SmallestTable
<1>4. t \in Tables
  BY <1>1, <1>3 DEF Loader
<1>5. DEFINE s == [row[cur] EXCEPT !.tables = [loader.progress EXCEPT ![t] = tab[t]]]
<1>6. s \in Row
  BY <1>1, <1>2 DEF Row, Loader
<1>7. s.tables = [loader.progress EXCEPT ![t] = tab[t]] /\ s.dropped = row[cur].dropped
      /\ s.total = row[cur].total /\ s.status = row[cur].status
  BY <1>1 DEF Row
<1>8. /\ loader'.unsettled = loader.unsettled \ {t}
      /\ loader'.progress = [loader.progress EXCEPT ![t] = tab[t]]
      /\ loader'.held = loader.held /\ loader'.todo = loader.todo
      /\ loader'.left = loader.left /\ loader'.failures = loader.failures
  BY <1>1, <1>2 DEF Loader
<1>9. Checkpoint(s)
  BY <1>2
<1>10. HIDE DEF s
<1>11. /\ row'[cur].tables = loader'.progress /\ row'[cur].dropped = row[cur].dropped
       /\ row'[cur].total = row[cur].total /\ latest' = cur
       /\ row'[cur].status = "success" => row[cur].status = "success"
       /\ \A r \in Runs \ {cur} : row'[r] = row[r]
  BY <1>6, <1>7, <1>8, <1>9, Checked
<1>12. QED BY <1>2, <1>3, <1>4, <1>8, <1>11

-----------------------------------------------------------------------------
(* The runs of the job and the state of its task. *)

\* The loader's task while it has read the checkpoint.
Phases == {"seed", "drop", "record", "load", "restore", "report"}
Working == cur # NoRun /\ life[cur] = "running" /\ pc \in Phases

\* Runs are started in order, the newest one alone is active, and a row says that its run
\* ended well only if it did.
RunsInv ==
  /\ NoTask
  /\ RunsInOrder
  /\ \A r \in Runs : r # cur => life[r] \notin {"pending", "running"}
  /\ \A r \in Runs : cur < r => row[r] = NoRow /\ param[r] = NoRun
  /\ \A r \in Runs : row[r].status = "success" => life[r] = "done"

\* The state of the newest run and its task go together; its row is the newest once the
\* task has started; and the notebook has variables only while it works.
TaskInv ==
  /\ cur # NoRun =>
       /\ life[cur] = "pending" => pc \in {"loader", "post", "maintenance"}
       /\ life[cur] = "running" => pc \in Phases \cup {"resume", "post", "maintenance"}
       /\ life[cur] = "failed" => pc \in {"loader", "post", "maintenance"}
       /\ life[cur] = "done" => pc = "idle"
       /\ (life[cur] = "pending" /\ pc = "loader") \/ latest = cur
       /\ param[cur] < cur
  /\ ~Working => loader = NoLoader /\ \A t \in Tables : tab[t] = "none"

\* A step of the newest run leaves the runs in order.
LEMMA OwnStepKeepsRuns ==
  ASSUME TypeOK, RunsInv, OthersStay, life[cur] # "none", life'[cur] # "none",
         row'[cur].status = "success" => life'[cur] = "done"
  PROVE  RunsInv'
<1> USE DEF OthersStay
<1>1. cur \in Runs /\ cur # NoRun
  BY DEF Runs, NoRun
<1>2. NoTask' /\ RunsInOrder'
  BY <1>1 DEF RunsInv, NoTask, RunsInOrder
<1>3. \A r \in Runs : r # cur => life'[r] \notin {"pending", "running"}
  BY DEF RunsInv
<1>4. \A r \in Runs : cur < r => row'[r] = NoRow /\ param'[r] = NoRun
  <2> SUFFICES ASSUME NEW r \in Runs, cur < r PROVE row'[r] = NoRow /\ param'[r] = NoRun
    OBVIOUS
  <2>1. r # cur
    BY DEF Runs
  <2>2. QED BY <2>1 DEF RunsInv
<1>5. \A r \in Runs : row'[r].status = "success" => life'[r] = "done"
  BY DEF RunsInv
<1>6. QED BY <1>2, <1>3, <1>4, <1>5 DEF RunsInv

\* Every step of a task, and its death, is one of the newest run.
LEMMA StepOfTask ==
  ASSUME StoreFails = FALSE, TypeOK, RunsInv, TaskInv, TaskStep \/ Die
  PROVE  OthersStay /\ RunsInv' /\ TaskInv'
<1> DEFINE Goes == /\ OthersStay /\ TaskInv' /\ life[cur] # "none" /\ life'[cur] # "none"
                   /\ row'[cur].status = "success" => life'[cur] = "done"
<1> SUFFICES Goes
  BY OwnStepKeepsRuns
<1>0. NoTask
  BY DEF RunsInv
<1>r. \A r \in Runs : row[r].status = "success" => life[r] = "done"
  BY DEF RunsInv
<1>p. cur \in Runs => cur # NoRun /\ param[cur] < cur
  BY DEF TaskInv, Runs, NoRun
<1>l. life \in [Runs -> {"none", "pending", "running", "failed", "done"}]
  BY DEF TypeOK
<1>1. CASE Die
  <2>1. cur \in Runs /\ cur # NoRun
    BY <1>1 DEF Die, TypeOK
  <2>2. OthersStay /\ life'[cur] = "failed" /\ row' = row
    BY <1>1, <1>l, <2>1 DEF Die, Fail, End, OthersStay, store
  <2>3. TaskInv'
    BY <1>1, <2>1, <2>2 DEF Die, Fail, End, TaskInv, OthersStay, store, Working
  <2>4. QED BY <1>1, <1>r, <2>1, <2>2, <2>3 DEF Die
<1>2. CASE StartLoader
  <2>1. cur \in Runs /\ cur # NoRun
    BY <1>2 DEF StartLoader, TypeOK
  <2>2. /\ row'[cur].status = "running" /\ latest' = cur
        /\ \A r \in Runs \ {cur} : row'[r] = row[r]
    BY <1>2, <2>1, Reported DEF StartLoader
  <2>3. OthersStay /\ life'[cur] = "running"
    BY <1>2, <1>l, <2>1, <2>2 DEF StartLoader, OthersStay
  <2>4. TaskInv'
    BY <1>2, <1>p, <2>1, <2>2, <2>3 DEF StartLoader, TaskInv, OthersStay, Working, Phases
  <2>5. QED BY <1>2, <2>2, <2>3, <2>4 DEF StartLoader
<1>3. ASSUME NEW readable \in BOOLEAN, ReadCheckpoint(readable) PROVE Goes
  <2>1. PICK s : ResumeFrom(s)
    BY <1>3 DEF ReadCheckpoint
  <2>2. cur \in Runs /\ life[cur] = "running" /\ pc = "resume"
    BY <1>0, <2>1, AtTask DEF ResumeFrom
  <2>3. OthersStay /\ life'[cur] = "running" /\ row' = row /\ latest' = latest
    BY <2>1, <2>2 DEF ResumeFrom, OthersStay, store, jobs
  <2>4. TaskInv'
    BY <1>p, <2>1, <2>2, <2>3 DEF ResumeFrom, TaskInv, OthersStay, Working, Phases
  <2>5. QED BY <1>r, <2>2, <2>3, <2>4
<1>4. CASE SeedProgress \/ DropFks \/ RecordFks \/ Settle \/ BeginRestore \/ ClearFks
            \/ \E f \in Fks : RestoreFk(f) \/ RestoreFkFails(f)
  <2>1. cur \in Runs /\ life[cur] = "running" /\ pc \in Phases /\ pc' \in Phases
    BY <1>0, <1>4, AtTask DEF SeedProgress, DropFks, RecordFks, Settle, BeginRestore, ClearFks,
                              RestoreFk, RestoreFkFails, Phases
  <2>2. UNCHANGED jobs
    BY <1>4 DEF SeedProgress, DropFks, RecordFks, Settle, BeginRestore, ClearFks, RestoreFk,
                RestoreFkFails
  <2>3. /\ row'[cur].status = "success" => row[cur].status = "success"
        /\ \A r \in Runs \ {cur} : row'[r] = row[r]
        /\ latest' = cur
    <3>1. CASE SeedProgress
      BY <2>1, <3>1, Seeded
    <3>2. CASE RecordFks
      BY <2>1, <3>2, Recorded
    <3>3. CASE Settle
      BY <2>1, <3>3, Settled
    <3>4. CASE ClearFks
      BY <2>1, <3>4, Cleared
    <3>5. CASE DropFks \/ BeginRestore \/ \E f \in Fks : RestoreFk(f) \/ RestoreFkFails(f)
      <4>1. UNCHANGED store
        BY <3>5 DEF DropFks, BeginRestore, RestoreFk, RestoreFkFails
      <4>2. QED BY <1>p, <2>1, <4>1 DEF store, TaskInv
    <3>6. QED BY <1>4, <3>1, <3>2, <3>3, <3>4, <3>5
  <2>4. OthersStay /\ life'[cur] = "running"
    BY <2>1, <2>2, <2>3 DEF OthersStay, jobs
  <2>5. TaskInv'
    BY <1>p, <2>1, <2>3, <2>4 DEF TaskInv, OthersStay, Working, Phases
  <2>6. QED BY <1>r, <2>1, <2>3, <2>4, <2>5
<1>5. CASE TakeTable \/ \E t \in Tables :
             \/ \E outcome \in Outcome : NotCopied(t, outcome)
             \/ Truncate(t)
             \/ CopyDone(t)
             \/ \E complete, enabled \in BOOLEAN : CopyFails(t, complete, enabled)
  <2>1. Loading
    BY <1>5 DEF TakeTable, NotCopied, Truncate, CopyDone, CopyFails
  <2>2. cur \in Runs /\ life[cur] = "running" /\ pc = "load"
    BY <1>0, <2>1, AtTask DEF Loading
  <2>3. OthersStay /\ life'[cur] = "running" /\ row' = row /\ latest' = latest /\ pc' = pc
    BY <2>1, <2>2 DEF Loading, OthersStay, store, jobs
  <2>4. TaskInv'
    BY <1>p, <2>2, <2>3 DEF TaskInv, OthersStay, Working, Phases
  <2>5. QED BY <1>r, <2>2, <2>3, <2>4
<1>6. CASE ReportFailure \/ ReportSuccess \/ PostFails \/ PostDone \/ MaintenanceFails
            \/ MaintenanceDone
  <2>1. cur \in Runs /\ life[cur] = "running"
    BY <1>0, <1>6, AtTask DEF ReportFailure, ReportSuccess, PostFails, PostDone,
                              MaintenanceFails, MaintenanceDone
  <2>2. PICK st, task, state :
          /\ Report(st) /\ End(task, state)
          /\ \/ st = "failed" /\ state = "failed" /\ task \in {"loader", "post", "maintenance"}
             \/ st = "running" /\ state = "pending" /\ task \in {"post", "maintenance"}
             \/ st = "success" /\ state = "done" /\ task = "idle"
    BY <1>6 DEF ReportFailure, ReportSuccess, PostFails, PostDone, MaintenanceFails,
                MaintenanceDone, Fail
  <2>3. /\ row'[cur].status = st /\ latest' = cur
        /\ \A r \in Runs \ {cur} : row'[r] = row[r]
    BY <2>1, <2>2, Reported
  <2>4. OthersStay /\ life'[cur] = state
    BY <1>l, <2>1, <2>2, <2>3 DEF End, OthersStay
  <2>5. TaskInv'
    BY <1>p, <2>1, <2>2, <2>3, <2>4 DEF End, TaskInv, OthersStay, Working
  <2>6. QED BY <2>1, <2>2, <2>3, <2>4, <2>5
<1>7. CASE StartPost \/ StartMaintenance
  <2>1. PICK task \in {"post", "maintenance"} : StartTask(task)
    BY <1>7 DEF StartPost, StartMaintenance
  <2>2. cur \in Runs /\ life[cur] = "pending"
    BY <2>1 DEF StartTask, TypeOK
  <2>3. /\ row'[cur].status = "running" /\ latest' = cur
        /\ \A r \in Runs \ {cur} : row'[r] = row[r]
    BY <2>1, <2>2, Reported DEF StartTask
  <2>4. OthersStay /\ life'[cur] = "running"
    BY <1>l, <2>1, <2>2, <2>3 DEF StartTask, OthersStay
  <2>5. TaskInv'
    BY <1>p, <2>1, <2>2, <2>3, <2>4 DEF StartTask, TaskInv, OthersStay, Working, Phases
  <2>6. QED BY <2>2, <2>3, <2>4, <2>5
<1>8. ASSUME NEW f \in Fks, PostFk(f) PROVE Goes
  <2>1. cur \in Runs /\ life[cur] = "running" /\ pc = "post"
    BY <1>0, <1>8, AtTask DEF PostFk
  <2>2. OthersStay /\ life'[cur] = "running" /\ row' = row /\ latest' = latest
        /\ UNCHANGED <<pc, loader, tab>>
    BY <1>8, <2>1 DEF PostFk, OthersStay, store, jobs
  <2>3. TaskInv'
    BY <1>p, <2>1, <2>2 DEF TaskInv, OthersStay, Working, Phases
  <2>4. QED BY <1>r, <2>1, <2>2, <2>3
<1>9. QED BY <1>1, <1>2, <1>3, <1>4, <1>5, <1>6, <1>7, <1>8 DEF TaskStep

\* A run of the job is started: the app's run with its row, or one without.
Launched(p) ==
  /\ cur' = cur + 1 /\ cur' \in Runs /\ p < cur'
  /\ cur # NoRun => life[cur] \notin {"pending", "running"}
  /\ \A r \in Runs \ {cur'} : row'[r] = row[r] /\ life'[r] = life[r] /\ param'[r] = param[r]
  /\ life'[cur'] = "pending" /\ pc' = "loader" /\ param'[cur'] = p
  /\ row'[cur'].dropped = {} /\ row'[cur'].status # "success"
  /\ \A t \in Tables : row'[cur'].tables[t] = "none"
  /\ p # NoRun => row'[cur'].total
  /\ UNCHANGED <<target, loader, tab, ghosts>>

\* The run that is started is the next one, and no other is active.
LEMMA LaunchIsNext ==
  ASSUME TypeOK, RunsInv, NEW p \in Runs \cup {NoRun}, Launch(p)
  PROVE  /\ NextRun = cur + 1 /\ cur' = cur + 1 /\ cur' \in Runs /\ row[cur'] = NoRow
         /\ cur # NoRun => life[cur] \notin {"pending", "running"}
<1>1. NextRun = cur + 1
  BY NextRunIsNext DEF RunsInv
<1>2. cur' = cur + 1 /\ cur' \in Runs
  BY <1>1 DEF Launch
<1>3. cur < cur'
  BY <1>2, BoundsAssumption DEF TypeOK, Runs, NoRun
<1>4. QED BY <1>1, <1>2, <1>3 DEF Launch, Idle, Active, RunsInv

\* The app's run.
LEMMA AppRunLaunches ==
  ASSUME TypeOK, RunsInv, NEW p \in Runs \cup {NoRun}, AppRun(p), p < cur + 1
  PROVE  Launched(p)
<1>1. Launch(p)
  BY DEF AppRun
<1>2. /\ NextRun = cur + 1 /\ cur' = cur + 1 /\ cur' \in Runs
      /\ cur # NoRun => life[cur] \notin {"pending", "running"}
  BY <1>1, LaunchIsNext
<1>3. DEFINE s == [NoRow EXCEPT !.status = "submitted", !.total = TRUE, !.resumed = p]
<1>4. s.status = "submitted" /\ s.total = TRUE /\ s.dropped = {} /\ s.tables = NoRow.tables
  BY DEF NoRow
<1>5. row' = [row EXCEPT ![NextRun] = s]
  BY DEF AppRun
<1>6. HIDE DEF s
<1>7. row'[cur'] = s /\ \A r \in Runs \ {cur'} : row'[r] = row[r]
  BY <1>2, <1>5 DEF TypeOK
<1>8. \A t \in Tables : row'[cur'].tables[t] = "none"
  BY <1>4, <1>7 DEF NoRow
<1>9. /\ life'[cur'] = "pending" /\ param'[cur'] = p
      /\ \A r \in Runs \ {cur'} : life'[r] = life[r] /\ param'[r] = param[r]
  BY <1>1, <1>2 DEF Launch, TypeOK
<1>10. QED BY <1>1, <1>2, <1>4, <1>7, <1>8, <1>9 DEF Launched, Launch

\* A run the app did not start has no row yet.
LEMMA JobsRunLaunches ==
  ASSUME TypeOK, RunsInv, JobsRun PROVE Launched(NoRun)
<1>1. Launch(NoRun) /\ row' = row
  BY DEF JobsRun, store
<1>2. /\ cur' = cur + 1 /\ cur' \in Runs /\ row[cur'] = NoRow /\ NextRun = cur + 1
      /\ cur # NoRun => life[cur] \notin {"pending", "running"}
  BY <1>1, LaunchIsNext
<1>3. /\ row'[cur'].dropped = {} /\ row'[cur'].status # "success"
      /\ \A t \in Tables : row'[cur'].tables[t] = "none"
  BY <1>1, <1>2 DEF NoRow
<1>4. /\ life'[cur'] = "pending" /\ param'[cur'] = NoRun
      /\ \A r \in Runs \ {cur'} : life'[r] = life[r] /\ param'[r] = param[r]
  BY <1>1, <1>2 DEF Launch, TypeOK
<1>5. NoRun < cur'
  BY <1>2 DEF Runs, NoRun
<1>6. QED BY <1>1, <1>2, <1>3, <1>4, <1>5 DEF Launched, Launch

\* A run that can be resumed was started, and ended with a failure or without a word.
LEMMA ResumableIsPast ==
  ASSUME TypeOK, RunsInv, NEW p \in Runs, IsResumable(p)
  PROVE  p < cur + 1
<1>1. View(p) = row[p]
  <2>1. ASSUME p \in mem PROVE FALSE
    <3>1. View(p) = [NoRow EXCEPT !.status = "submitted", !.total = TRUE, !.resumed = param[p]]
      BY <2>1 DEF View, Submitted
    <3>2. View(p).dropped = {} /\ \A t \in Tables : View(p).tables[t] = "none"
      BY <3>1 DEF NoRow
    <3>3. QED BY <3>2 DEF IsResumable, Loaded, DONE
  <2>2. QED BY <2>1 DEF View
<1>2. row[p] # NoRow
  <2>1. NoRow.dropped = {} /\ \A t \in Tables : NoRow.tables[t] = "none"
    BY DEF NoRow
  <2>2. QED BY <1>1, <2>1 DEF IsResumable, Loaded, DONE
<1>3. ~(cur < p)
  BY <1>2 DEF RunsInv
<1>4. QED BY <1>3, BoundsAssumption DEF TypeOK, Runs, NoRun

\* Starting a run keeps the order of the runs.
LEMMA LaunchKeepsRuns ==
  ASSUME TypeOK, RunsInv, TaskInv, NEW p \in Runs \cup {NoRun}, Launched(p)
  PROVE  RunsInv' /\ TaskInv'
<1> USE DEF Launched
<1>1. cur \in Nat /\ cur' = cur + 1 /\ cur' \in Runs /\ cur' # NoRun
  BY BoundsAssumption DEF TypeOK, Runs, NoRun
<1>2. NoTask'
  BY <1>1 DEF NoTask
<1>3. RunsInOrder'
  <2> SUFFICES ASSUME NEW r \in Runs PROVE life'[r] # "none" <=> r <= cur + 1
    BY <1>1 DEF RunsInOrder
  <2>1. CASE r = cur'
    BY <1>1, <2>1
  <2>2. CASE r # cur'
    BY <1>1, <2>2 DEF RunsInv, RunsInOrder, Runs
  <2>3. QED BY <2>1, <2>2
<1>4. \A r \in Runs : r # cur' => life'[r] \notin {"pending", "running"}
  <2> SUFFICES ASSUME NEW r \in Runs, r # cur' PROVE life[r] \notin {"pending", "running"}
    BY <1>1
  <2>1. CASE r = cur
    <3>1. cur # NoRun
      BY <2>1 DEF Runs, NoRun
    <3>2. QED BY <2>1, <3>1
  <2>2. CASE r # cur
    BY <2>2 DEF RunsInv
  <2>3. QED BY <2>1, <2>2
<1>5. \A r \in Runs : cur' < r => row'[r] = NoRow /\ param'[r] = NoRun
  <2> SUFFICES ASSUME NEW r \in Runs, cur' < r PROVE row[r] = NoRow /\ param[r] = NoRun
    BY <1>1 DEF Runs
  <2>1. cur < r
    BY <1>1 DEF Runs
  <2>2. QED BY <2>1 DEF RunsInv
<1>6. \A r \in Runs : row'[r].status = "success" => life'[r] = "done"
  BY <1>1 DEF RunsInv
<1>7. loader = NoLoader /\ \A t \in Tables : tab[t] = "none"
  BY DEF TaskInv, Working
<1>8. TaskInv'
  BY <1>1, <1>7 DEF TaskInv, Working
<1>9. QED BY <1>2, <1>3, <1>4, <1>5, <1>6, <1>8 DEF RunsInv

\* So does the repair of the newest run.
LEMMA RepairKeepsRuns ==
  ASSUME TypeOK, RunsInv, TaskInv, NEW r \in Runs, Repair(r)
  PROVE  RunsInv' /\ TaskInv'
<1>1. /\ cur \in Runs /\ cur # NoRun /\ r = cur /\ life[cur] = "failed" /\ life'[cur] = "pending"
      /\ \A q \in Runs \ {cur} : life'[q] = life[q]
      /\ UNCHANGED <<cur, row, latest, param, pc, loader, tab>>
  BY DEF Repair, TypeOK, store, Runs, NoRun
<1>2. NoTask' /\ RunsInOrder'
  BY <1>1 DEF RunsInv, NoTask, RunsInOrder
<1>3. RunsInv'
  BY <1>1, <1>2 DEF RunsInv
<1>4. TaskInv'
  BY <1>1 DEF TaskInv, Working
<1>5. QED BY <1>3, <1>4

\* And so does every step, if writes reach the store.
LEMMA RunsStep ==
  ASSUME StoreFails = FALSE, TypeOK, RunsInv, TaskInv, [Next]_vars
  PROVE  RunsInv' /\ TaskInv'
<1>1. CASE AppRestart \/ UNCHANGED vars
  <2>1. UNCHANGED <<row, latest, param, life, cur, pc, loader, tab>>
    BY <1>1 DEF AppRestart, vars, store, jobs
  <2>2. NoTask' /\ RunsInOrder'
    BY <2>1 DEF RunsInv, NoTask, RunsInOrder
  <2>3. QED BY <2>1, <2>2 DEF RunsInv, TaskInv, Working
<1>2. CASE AppRunFresh
  <2>1. NoRun < cur + 1
    BY BoundsAssumption DEF TypeOK, Runs, NoRun
  <2>2. QED BY <1>2, <2>1, AppRunLaunches, LaunchKeepsRuns DEF AppRunFresh
<1>3. ASSUME NEW p \in Runs, AppResume(p) PROVE RunsInv' /\ TaskInv'
  <2>1. p < cur + 1
    BY <1>3, ResumableIsPast DEF AppResume
  <2>2. QED BY <1>3, <2>1, AppRunLaunches, LaunchKeepsRuns DEF AppResume
<1>4. CASE JobsRun
  BY <1>4, JobsRunLaunches, LaunchKeepsRuns
<1>5. QED BY <1>1, <1>2, <1>3, <1>4, RepairKeepsRuns, StepOfTask DEF Next

-----------------------------------------------------------------------------
(* The foreign keys. *)

\* A run that resumes another has no keys in its row before it has read the other's; what
\* its row has, the loader has; what the loader has is in the row it was read from until
\* the keys are dropped, and in its own while it loads and restores; and what the loader
\* had to restore is on the target, still to do or a failure.
HeldInv ==
  /\ /\ cur # NoRun /\ param[cur] # NoRun
     /\ life[cur] \in {"pending", "running"} /\ pc \in {"loader", "resume"}
     => row[cur].dropped = {}
  /\ Working /\ pc # "report" => row[cur].dropped \subseteq loader.held
  /\ Working /\ pc \in {"seed", "drop"} => loader.held = row[Source].dropped
  /\ Working /\ pc \in {"load", "restore"} => loader.held \subseteq row[cur].dropped
  /\ Working /\ pc \in {"restore", "report"} =>
       loader.held \subseteq fks \cup loader.left \cup loader.failures
  /\ Working /\ pc = "report" => loader.left = {}

\* Where f is kept, if it is not forgotten.
KeptIn(f) ==
  \/ f \in fks \cup lost \cup reported
  \/ cur # NoRun /\ life[cur] = "running" /\ f \in loader.held
  \/ \E r \in Runs : f \in row[r].dropped

FksKept == \A f \in Fks : KeptIn(f)

\* A step that takes no key off the target, from the loader or from a row.
LEMMA KeptStays ==
  ASSUME FksKept, fks \subseteq fks', lost \subseteq lost', reported \subseteq reported',
         cur # NoRun /\ life[cur] = "running" =>
           \/ cur' = cur /\ life'[cur] = "running" /\ loader.held \subseteq loader'.held
           \/ loader.held \subseteq fks' \cup reported'
           \/ loader.held \subseteq fks' \cup lost' \cup UNION {row[r].dropped : r \in Runs},
         \A r \in Runs : row[r].dropped \subseteq row'[r].dropped
  PROVE  FksKept'
<1> SUFFICES ASSUME NEW f \in Fks PROVE KeptIn(f)'
  BY DEF FksKept
<1>1. KeptIn(f)
  BY DEF FksKept
<1>2. CASE \E r \in Runs : f \in row[r].dropped
  BY <1>2 DEF KeptIn
<1>3. CASE f \in fks \cup lost \cup reported
  BY <1>3 DEF KeptIn
<1>4. CASE cur # NoRun /\ life[cur] = "running" /\ f \in loader.held
  <2>1. CASE cur' = cur /\ life'[cur] = "running" /\ loader.held \subseteq loader'.held
    BY <1>4, <2>1 DEF KeptIn
  <2>2. CASE loader.held \subseteq fks' \cup reported'
    BY <1>4, <2>2 DEF KeptIn
  <2>3. CASE loader.held \subseteq fks' \cup lost' \cup UNION {row[r].dropped : r \in Runs}
    BY <1>4, <2>3 DEF KeptIn
  <2>4. QED BY <1>4, <2>1, <2>2, <2>3
<1>5. QED BY <1>1, <1>2, <1>3, <1>4 DEF KeptIn

\* The steps of a task.
LEMMA TaskKeepsFks ==
  ASSUME StoreFails = FALSE, TypeOK, RunsInv, TaskInv, HeldInv, FksKept, OthersStay,
         TaskStep \/ Die
  PROVE  HeldInv' /\ FksKept'
<1> DEFINE Goes == HeldInv' /\ FksKept'
<1>0. NoTask /\ cur \in Runs /\ cur # NoRun /\ cur' = cur /\ param' = param
  BY DEF RunsInv, OthersStay, Runs, NoRun
<1>o. \A r \in Runs \ {cur} : row'[r] = row[r]
  BY DEF OthersStay
<1>t. life \in [Runs -> {"none", "pending", "running", "failed", "done"}] /\ loader \in Loader
  BY DEF TypeOK
<1>n. NoLoader.held = {} /\ NoLoader.failures = {} /\ NoLoader.left = {}
  BY DEF NoLoader
<1>w. ~Working => loader.held = {}
  BY <1>n DEF TaskInv
<1>1. CASE Die
  <2>1. life[cur] = "running" /\ life'[cur] = "failed" /\ UNCHANGED <<row, fks, reported>>
        /\ lost' = lost \cup ((Unrecorded \cup Unreported)
                                  \ (fks \cup UNION {row[r].dropped : r \in Runs}))
    BY <1>0, <1>1, <1>t DEF Die, Fail, End, target, store
  <2>2. HeldInv'
    BY <1>0, <2>1 DEF HeldInv, Working
  <2>3. FksKept'
    <3> DEFINE Rows == UNION {row[r].dropped : r \in Runs}
               Held == loader.held \subseteq fks' \cup lost' \cup Rows
    <3>1. \A r \in Runs : row[r].dropped \subseteq Rows
      OBVIOUS
    <3>2. ASSUME ~Working PROVE Held
      BY <1>w, <3>2
    <3>3. ASSUME Working, pc \in {"seed", "drop"} PROVE Held
      <4>1. Source \in Runs
        BY <1>0 DEF Source, TypeOK
      <4>2. QED BY <3>1, <3>3, <4>1 DEF HeldInv
    <3>4. ASSUME Working, pc \in {"load", "restore"} PROVE Held
      BY <1>0, <3>1, <3>4 DEF HeldInv
    <3>5. ASSUME Working, pc = "record" PROVE Held
      BY <2>1, <3>5 DEF Unrecorded
    <3>6. ASSUME Working, pc = "report" PROVE Held
      <4>1. loader.held \subseteq fks \cup loader.failures
        BY <3>6 DEF HeldInv
      <4>2. QED BY <2>1, <3>6, <4>1 DEF Unreported
    <3>7. Held
      BY <3>2, <3>3, <3>4, <3>5, <3>6 DEF Working, Phases
    <3>8. QED BY <2>1, <3>7, KeptStays
  <2>4. QED BY <2>2, <2>3
<1>2. CASE StartLoader \/ StartPost \/ StartMaintenance
  <2>1. PICK task \in {"loader", "post", "maintenance"} :
          /\ pc = task /\ life[cur] = "pending" /\ Report("running")
          /\ life' = [life EXCEPT ![cur] = "running"]
          /\ IF task = "loader" THEN pc' = "resume" /\ loader' = NoLoader
                                ELSE UNCHANGED <<pc, loader>>
          /\ UNCHANGED <<fks, reported, lost>>
    BY <1>2 DEF StartLoader, StartPost, StartMaintenance, StartTask, target, ghosts
  <2>2. row'[cur].dropped = row[cur].dropped
    BY <1>0, <2>1, Reported DEF RowStays
  <2>3. HeldInv'
    BY <1>0, <1>t, <2>1, <2>2 DEF HeldInv, Working, Phases
  <2>4. FksKept'
    BY <1>o, <2>1, <2>2, KeptStays
  <2>5. QED BY <2>3, <2>4
<1>3. ASSUME NEW readable \in BOOLEAN, ReadCheckpoint(readable) PROVE Goes
  <2>1. ResumeFrom(row[Source])
    BY <1>3 DEF ReadCheckpoint
  <2>2. life[cur] = "running" /\ pc = "resume"
    BY <1>0, <2>1, AtTask DEF ResumeFrom
  <2>3. UNCHANGED <<row, fks, life, reported, lost>> /\ pc' \in {"seed", "drop"}
    BY <2>1 DEF ResumeFrom, store, target, jobs, ghosts
  <2>4. loader'.held = row[Source].dropped
    BY <2>1 DEF ResumeFrom, NoLoader
  <2>5. row[cur].dropped \subseteq loader'.held
    BY <1>0, <2>2, <2>4 DEF HeldInv, Source
  <2>6. HeldInv'
    BY <1>0, <2>2, <2>3, <2>4, <2>5 DEF HeldInv, Working, Source
  <2>7. loader.held = {}
    BY <1>w, <2>2 DEF Working, Phases
  <2>8. FksKept'
    BY <2>3, <2>7, KeptStays
  <2>9. QED BY <2>6, <2>8
<1>4. CASE SeedProgress
  <2>1. life[cur] = "running" /\ pc = "seed"
    BY <1>0, <1>4, AtTask DEF SeedProgress
  <2>2. UNCHANGED <<fks, life, loader, reported, lost>> /\ pc' = "drop"
        /\ row'[cur].dropped = row[cur].dropped
    BY <1>0, <1>4, Seeded DEF SeedProgress, target, jobs, ghosts
  <2>3. HeldInv'
    <3>1. row'[Source].dropped = row[Source].dropped /\ Source' = Source
      BY <1>0, <1>o, <2>2 DEF Source, TypeOK
    <3>2. QED BY <1>0, <2>1, <2>2, <3>1 DEF HeldInv, Working, Phases
  <2>4. FksKept'
    BY <1>0, <1>o, <2>1, <2>2, KeptStays
  <2>5. QED BY <2>3, <2>4
<1>5. CASE DropFks
  <2>1. life[cur] = "running" /\ pc = "drop"
    BY <1>0, <1>5, AtTask DEF DropFks
  <2>2. UNCHANGED <<row, life, reported, lost>> /\ pc' = "record"
        /\ fks' = fks \ Captured /\ loader'.held = loader.held \cup Captured
    BY <1>5, <1>t DEF DropFks, Loader, store, jobs, ghosts
  <2>3. HeldInv'
    BY <1>0, <2>1, <2>2 DEF HeldInv, Working, Phases
  <2>4. FksKept'
    <3> SUFFICES ASSUME NEW f \in Fks PROVE KeptIn(f)'
      BY DEF FksKept
    <3>1. KeptIn(f)
      BY DEF FksKept
    <3>2. CASE f \in fks
      BY <1>0, <2>1, <2>2, <3>2 DEF KeptIn
    <3>3. CASE f \notin fks
      BY <1>0, <2>1, <2>2, <3>1, <3>3 DEF KeptIn
    <3>4. QED BY <3>2, <3>3
  <2>5. QED BY <2>3, <2>4
<1>6. CASE RecordFks \/ ClearFks
  <2>1. life[cur] = "running" /\ pc \in {"record", "restore"}
    BY <1>0, <1>6, AtTask DEF RecordFks, ClearFks
  <2>2. UNCHANGED <<fks, life, loader, reported, lost>>
    BY <1>6 DEF RecordFks, ClearFks, target, jobs, ghosts
  <2>3. \/ pc = "record" /\ pc' = "load" /\ row'[cur].dropped = loader.held
        \/ pc = "restore" /\ pc' = "report" /\ row'[cur].dropped = {} /\ loader.left = {}
    <3>1. CASE RecordFks
      BY <1>0, <3>1, Recorded, AtTask DEF RecordFks
    <3>2. CASE ClearFks
      BY <1>0, <3>2, Cleared, AtTask DEF ClearFks
    <3>3. QED BY <1>6, <3>1, <3>2
  <2>4. HeldInv'
    BY <1>0, <2>1, <2>2, <2>3 DEF HeldInv, Working, Phases
  <2>5. row[cur].dropped \subseteq loader.held
    BY <1>0, <2>1 DEF HeldInv, Working, Phases
  <2>6. FksKept'
    <3> SUFFICES ASSUME NEW f \in Fks PROVE KeptIn(f)'
      BY DEF FksKept
    <3>1. KeptIn(f)
      BY DEF FksKept
    <3>2. CASE f \in loader.held
      BY <1>0, <2>1, <2>2, <3>2 DEF KeptIn
    <3>3. CASE f \notin loader.held
      <4>1. ASSUME NEW r \in Runs, f \in row[r].dropped PROVE f \in row'[r].dropped
        BY <1>o, <2>5, <3>3, <4>1
      <4>2. QED BY <2>2, <3>1, <3>3, <4>1 DEF KeptIn
    <3>4. QED BY <3>2, <3>3
  <2>7. QED BY <2>4, <2>6
<1>7. CASE Settle
  <2>1. life[cur] = "running" /\ pc = "load"
    BY <1>0, <1>7, AtTask DEF Settle
  <2>2. UNCHANGED <<fks, life, pc, reported, lost>>
    BY <1>7 DEF Settle, target, jobs, ghosts
  <2>3. row'[cur].dropped = row[cur].dropped /\ loader'.held = loader.held
    BY <1>0, <1>7, Settled
  <2>4. HeldInv'
    BY <1>0, <2>1, <2>2, <2>3 DEF HeldInv, Working, Phases
  <2>5. FksKept'
    BY <1>0, <1>o, <2>1, <2>2, <2>3, KeptStays
  <2>6. QED BY <2>4, <2>5
<1>8. CASE TakeTable \/ \E t \in Tables :
             \/ \E outcome \in Outcome : NotCopied(t, outcome)
             \/ Truncate(t)
             \/ CopyDone(t)
             \/ \E complete, enabled \in BOOLEAN : CopyFails(t, complete, enabled)
  <2>1. UNCHANGED <<fks, row, life, cur, param, pc, loader, reported, lost>>
    BY <1>8 DEF TakeTable, NotCopied, Truncate, CopyDone, CopyFails, Loading, store, jobs, ghosts
  <2>2. QED BY <2>1 DEF HeldInv, Working, Source, FksKept, KeptIn
<1>9. CASE BeginRestore
  <2>1. life[cur] = "running" /\ pc = "load"
    BY <1>0, <1>9, AtTask DEF BeginRestore
  <2>2. UNCHANGED <<row, fks, life, reported, lost>> /\ pc' = "restore"
        /\ loader'.held = loader.held /\ loader'.left = loader.held
    BY <1>9, <1>t DEF BeginRestore, Loader, target, store, jobs, ghosts
  <2>3. HeldInv'
    BY <1>0, <2>1, <2>2 DEF HeldInv, Working, Phases
  <2>4. FksKept'
    BY <1>0, <2>1, <2>2, KeptStays
  <2>5. QED BY <2>3, <2>4
<1>10. ASSUME NEW f \in Fks, RestoreFk(f) \/ RestoreFkFails(f) PROVE Goes
  <2>1. life[cur] = "running" /\ pc = "restore"
    BY <1>0, <1>10, AtTask DEF RestoreFk, RestoreFkFails
  <2>2. UNCHANGED <<row, life, pc, reported, lost>> /\ loader'.held = loader.held
        /\ fks \subseteq fks'
        /\ fks \cup loader.left \cup loader.failures
             \subseteq fks' \cup loader'.left \cup loader'.failures
    <3>1. CASE RestoreFk(f)
      BY <1>t, <3>1 DEF RestoreFk, Loader, store, jobs, ghosts
    <3>2. CASE RestoreFkFails(f)
      BY <1>t, <3>2 DEF RestoreFkFails, Loader, target, store, jobs, ghosts
    <3>3. QED BY <1>10, <3>1, <3>2
  <2>3. HeldInv'
    BY <1>0, <2>1, <2>2 DEF HeldInv, Working, Phases
  <2>4. FksKept'
    BY <1>0, <2>1, <2>2, KeptStays
  <2>5. QED BY <2>3, <2>4
<1>11. CASE ReportFailure \/ ReportSuccess
  <2>1. life[cur] = "running" /\ pc = "report"
    BY <1>0, <1>11, AtTask DEF ReportFailure, ReportSuccess
  <2>2. loader.held \subseteq fks \cup loader.failures
    BY <1>0, <2>1 DEF HeldInv, Working, Phases
  <2>3. fks' = fks /\ lost' = lost /\ reported \subseteq reported' /\ loader.failures \subseteq reported'
    BY <1>11 DEF ReportFailure, ReportSuccess, AnyFailed, target, ghosts
  <2>4. row'[cur].dropped = row[cur].dropped
    BY <1>0, <1>11, Reported DEF ReportFailure, ReportSuccess, RowStays
  <2>5. life'[cur] = "failed" \/ (life'[cur] = "pending" /\ pc' = "post")
    BY <1>0, <1>11, <1>t DEF ReportFailure, ReportSuccess, Fail, End
  <2>6. HeldInv'
    BY <1>0, <2>5 DEF HeldInv, Working
  <2>7. FksKept'
    BY <1>o, <2>2, <2>3, <2>4, KeptStays
  <2>8. QED BY <2>6, <2>7
<1>12. CASE PostFails \/ PostDone \/ MaintenanceFails \/ MaintenanceDone
  <2>1. life[cur] = "running" /\ pc \in {"post", "maintenance"}
    BY <1>0, <1>12, AtTask DEF PostFails, PostDone, MaintenanceFails, MaintenanceDone
  <2>2. UNCHANGED <<fks, reported, lost>> /\ life'[cur] # "running"
        /\ pc' \in {"post", "maintenance", "idle"}
    BY <1>0, <1>12, <1>t DEF PostFails, PostDone, MaintenanceFails, MaintenanceDone, Fail, End,
                             target, ghosts
  <2>3. row'[cur].dropped = row[cur].dropped
    BY <1>0, <1>12, Reported DEF PostFails, PostDone, MaintenanceFails, MaintenanceDone, RowStays
  <2>4. loader.held = {}
    BY <1>w, <2>1 DEF Working, Phases
  <2>5. HeldInv'
    BY <1>0, <2>2 DEF HeldInv, Working
  <2>6. FksKept'
    BY <1>o, <2>2, <2>3, <2>4, KeptStays
  <2>7. QED BY <2>5, <2>6
<1>13. ASSUME NEW f \in Fks, PostFk(f) PROVE Goes
  <2>1. life[cur] = "running" /\ pc = "post"
    BY <1>0, <1>13, AtTask DEF PostFk
  <2>2. UNCHANGED <<row, life, pc, loader, reported, lost>> /\ fks \subseteq fks'
    BY <1>13 DEF PostFk, store, jobs, ghosts
  <2>3. HeldInv'
    BY <1>0, <2>1, <2>2 DEF HeldInv, Working, Phases
  <2>4. FksKept'
    BY <1>0, <2>1, <2>2, KeptStays
  <2>5. QED BY <2>3, <2>4
<1>14. QED BY <1>1, <1>2, <1>3, <1>4, <1>5, <1>6, <1>7, <1>8, <1>9, <1>10, <1>11, <1>12, <1>13
           DEF TaskStep

\* The start of a run.
LEMMA LaunchKeepsFks ==
  ASSUME TypeOK, RunsInv, HeldInv, FksKept, NEW p \in Runs \cup {NoRun}, Launched(p),
         row[cur'] = NoRow
  PROVE  HeldInv' /\ FksKept'
<1> USE DEF Launched
<1>1. HeldInv'
  BY DEF HeldInv, Working
<1>2. \A r \in Runs : row[r].dropped \subseteq row'[r].dropped
  BY DEF NoRow
<1>3. FksKept'
  BY <1>2, KeptStays DEF target, ghosts
<1>4. QED BY <1>1, <1>3

\* No key is forgotten where a statement on the run-state table does not fail twice and a
\* run that resumes another is not itself retried.
LEMMA FksStep ==
  ASSUME StoreFails = FALSE, RetryResumes = FALSE,
         TypeOK, RunsInv, TaskInv, HeldInv, FksKept, [Next]_vars
  PROVE  HeldInv' /\ FksKept'
<1>1. CASE AppRestart \/ UNCHANGED vars
  <2>1. UNCHANGED <<fks, row, param, life, cur, pc, loader, reported, lost>>
    BY <1>1 DEF AppRestart, vars, target, store, jobs, ghosts
  <2>2. QED BY <2>1 DEF HeldInv, Working, Source, FksKept, KeptIn
<1>2. ASSUME NEW p \in Runs \cup {NoRun}, Launch(p), Launched(p) PROVE HeldInv' /\ FksKept'
  BY <1>2, LaunchIsNext, LaunchKeepsFks
<1>3. CASE AppRunFresh
  <2>1. NoRun < cur + 1
    BY BoundsAssumption DEF TypeOK, Runs, NoRun
  <2>2. QED BY <1>2, <1>3, <2>1, AppRunLaunches DEF AppRunFresh, AppRun
<1>4. ASSUME NEW p \in Runs, AppResume(p) PROVE HeldInv' /\ FksKept'
  <2>1. p < cur + 1
    BY <1>4, ResumableIsPast DEF AppResume
  <2>2. QED BY <1>2, <1>4, <2>1, AppRunLaunches DEF AppResume, AppRun
<1>5. CASE JobsRun
  BY <1>2, <1>5, JobsRunLaunches DEF JobsRun
<1>6. ASSUME NEW r \in Runs, Repair(r) PROVE HeldInv' /\ FksKept'
  <2>1. /\ r = cur /\ param[cur] = NoRun /\ life[cur] = "failed" /\ life'[cur] = "pending"
        /\ UNCHANGED <<fks, row, param, cur, pc, loader, reported, lost>>
    BY <1>6 DEF Repair, TypeOK, target, store, ghosts
  <2>2. HeldInv'
    BY <2>1 DEF HeldInv, Working
  <2>3. FksKept'
    BY <2>1, KeptStays
  <2>4. QED BY <2>2, <2>3
<1>7. CASE TaskStep \/ Die
  BY <1>7, StepOfTask, TaskKeepsFks
<1>8. QED BY <1>1, <1>3, <1>4, <1>5, <1>6, <1>7 DEF Next

-----------------------------------------------------------------------------
(* The tables. *)

\* The table holds all of the source and its triggers are on.
Whole(t) == content[t] = "all" /\ t \notin muted

\* A run that resumes another has nothing in its row before it has read the other's, which
\* is exact.
ResumedInv ==
  cur # NoRun /\ param[cur] # NoRun =>
    /\ row[cur].total
    /\ life[cur] \in {"pending", "running"} /\ pc \in {"loader", "resume"} =>
         \A t \in Tables :
           /\ row[cur].tables[t] = "none"
           /\ row[param[cur]].tables[t] \in DONE => Whole(t)

\* What the loader knows of a table: it is loaded, it is still to settle, and then a
\* thread may be on it, or it is settled and the row has it.
LoaderInv(t) ==
  /\ loader.progress[t] \in DONE \/ tab[t] = "success" => Whole(t)
  /\ row[cur].tables[t] \in DONE => loader.progress[t] \in DONE
  /\ t \in loader.unsettled => loader.progress[t] = "none"
  /\ t \notin loader.unsettled =>
       \/ loader.progress[t] = "skipped"
       \/ tab[t] \in Outcome /\ loader.progress[t] = tab[t] /\ row[cur].tables[t] = tab[t]
  /\ tab[t] \in {"waiting", "taken", "copying"} => t \in loader.unsettled
  /\ pc \in {"seed", "drop", "record"} =>
       tab[t] = "none" /\ (t \in loader.unsettled <=> t \in loader.todo)
  /\ pc \in {"restore", "report"} => t \notin loader.unsettled

\* A table the row calls loaded is, and once the loader is done so is every table it
\* does not warn about.
TableInv(t) ==
  /\ Working => LoaderInv(t)
  /\ cur # NoRun /\ row[cur].tables[t] \in DONE => Whole(t)
  /\ cur # NoRun /\ (pc \in {"post", "maintenance"} \/ life[cur] = "done") =>
       Whole(t) \/ row[cur].tables[t] = "warning"

\* A row that has a loaded table knows how many there are; and the keys of the plan are
\* in place when their task is over.
RowInv ==
  cur # NoRun =>
    /\ (\E t \in Tables : row[cur].tables[t] \in DONE) => row[cur].total
    /\ Working /\ pc \in {"seed", "load", "restore", "report"} => row[cur].total
    /\ pc = "maintenance" \/ life[cur] = "done" => PlanFks \subseteq fks

DataInv == ResumedInv /\ RowInv /\ \A t \in Tables : TableInv(t)

\* The steps of a task keep the rows and the tables together.
LEMMA TaskKeepsData ==
  ASSUME StoreFails = FALSE, TypeOK, RunsInv, TaskInv, DataInv, OthersStay, TaskStep \/ Die
  PROVE  DataInv'
<1>0. NoTask /\ cur \in Runs /\ cur # NoRun /\ cur' = cur /\ param' = param
  BY DEF RunsInv, OthersStay, Runs, NoRun
<1>o. \A r \in Runs \ {cur} : row'[r] = row[r]
  BY DEF OthersStay
<1>p. param[cur] \in Runs \ {cur} \/ param[cur] = NoRun
  BY <1>0 DEF TaskInv, TypeOK, Runs
<1>t. /\ life \in [Runs -> {"none", "pending", "running", "failed", "done"}] /\ loader \in Loader
      /\ tab \in [Tables -> {"none", "waiting", "taken", "copying"} \cup Outcome]
      /\ content \in [Tables -> {"none", "part", "all"}]
  BY DEF TypeOK
<1>d. ResumedInv /\ RowInv /\ \A t \in Tables : TableInv(t)
  BY DEF DataInv
<1>1. CASE Die
  <2>1. life'[cur] = "failed" /\ UNCHANGED <<row, content, muted, fks>>
        /\ pc' \in {"loader", "post", "maintenance"} /\ (pc' # "loader" => pc' = pc)
    BY <1>0, <1>1, <1>t DEF Die, Fail, End, target, store
  <2>2. ResumedInv'
    BY <1>0, <1>d, <2>1 DEF ResumedInv
  <2>3. RowInv'
    BY <1>0, <1>d, <2>1 DEF RowInv, Working
  <2>4. ASSUME NEW t \in Tables PROVE TableInv(t)'
    BY <1>0, <1>d, <2>1 DEF TableInv, Whole, Working
  <2>5. QED BY <2>2, <2>3, <2>4 DEF DataInv
<1>2. CASE StartLoader \/ StartPost \/ StartMaintenance
  <2>1. PICK task \in {"loader", "post", "maintenance"} :
          /\ pc = task /\ life[cur] = "pending" /\ Report("running")
          /\ life' = [life EXCEPT ![cur] = "running"]
          /\ IF task = "loader" THEN pc' = "resume" ELSE pc' = pc
          /\ UNCHANGED <<fks, content, muted>>
    BY <1>2 DEF StartLoader, StartPost, StartMaintenance, StartTask, target, ghosts
  <2>2. RowStays
    BY <1>0, <2>1, Reported
  <2>3. ~Working' /\ life'[cur] = "running"
    BY <1>0, <1>t, <2>1 DEF Working, Phases
  <2>4. ResumedInv'
    BY <1>0, <1>o, <1>p, <1>d, <2>1, <2>2, <2>3 DEF ResumedInv, RowStays, Whole
  <2>5. RowInv'
    BY <1>0, <1>d, <2>1, <2>2, <2>3 DEF RowInv, RowStays
  <2>6. ASSUME NEW t \in Tables PROVE TableInv(t)'
    BY <1>0, <1>d, <2>1, <2>2, <2>3 DEF TableInv, Whole, RowStays
  <2>7. QED BY <2>4, <2>5, <2>6 DEF DataInv
<1>3. ASSUME NEW readable \in BOOLEAN, ReadCheckpoint(readable) PROVE DataInv'
  <2>1. ResumeFrom(row[Source])
    BY <1>3 DEF ReadCheckpoint
  <2>2. life[cur] = "running" /\ pc = "resume"
    BY <1>0, <2>1, AtTask DEF ResumeFrom
  <2>3. UNCHANGED <<row, fks, content, muted, life, tab>> /\ pc' \in {"seed", "drop"}
        /\ (pc' = "seed" => \E t \in Tables : row[Source].tables[t] \in DONE)
    BY <2>1 DEF ResumeFrom, store, target, jobs, ghosts, Loaded
  <2>4. /\ loader'.todo = Tables \ Loaded(row[Source])
        /\ loader'.unsettled = Tables \ Loaded(row[Source])
        /\ loader'.progress = [t \in Tables |-> IF t \in Loaded(row[Source]) THEN "skipped" ELSE "none"]
    BY <2>1 DEF ResumeFrom, NoLoader
  <2>5. /\ \A t \in Tables : row[Source].tables[t] \in DONE => Whole(t)
        /\ \A t \in Tables : row[cur].tables[t] \in DONE => row[Source].tables[t] \in DONE
        /\ (\E t \in Tables : row[Source].tables[t] \in DONE) => row[cur].total
    <3>1. CASE param[cur] = NoRun
      BY <1>0, <1>d, <3>1 DEF Source, TableInv, RowInv
    <3>2. CASE param[cur] # NoRun
      BY <1>0, <1>d, <2>2, <3>2 DEF Source, ResumedInv, DONE
    <3>3. QED BY <3>1, <3>2
  <2>6. ResumedInv'
    BY <1>0, <1>d, <2>3 DEF ResumedInv
  <2>7. RowInv'
    BY <1>0, <1>d, <2>2, <2>3, <2>5 DEF RowInv, Working
  <2>8. \A t \in Tables : tab[t] = "none"
    BY <2>2 DEF TaskInv, Working, Phases
  <2>9. ASSUME NEW t \in Tables PROVE TableInv(t)'
    <3>1. LoaderInv(t)'
      BY <1>0, <2>3, <2>4, <2>5, <2>8 DEF LoaderInv, Loaded, DONE, Whole
    <3>2. QED BY <1>0, <1>d, <2>2, <2>3, <3>1 DEF TableInv, Whole
  <2>10. QED BY <2>6, <2>7, <2>9 DEF DataInv
<1>4. CASE SeedProgress
  <2>1. life[cur] = "running" /\ pc = "seed"
    BY <1>0, <1>4, AtTask DEF SeedProgress
  <2>2. UNCHANGED <<fks, content, muted, life, loader, tab>> /\ pc' = "drop"
        /\ row'[cur].tables = loader.progress /\ row'[cur].total = row[cur].total
    BY <1>0, <1>4, Seeded DEF SeedProgress, target, jobs, ghosts
  <2>3. row[cur].total
    BY <1>0, <1>d, <2>1 DEF RowInv, Working, Phases
  <2>4. ResumedInv'
    BY <1>0, <2>1, <2>2, <2>3 DEF ResumedInv
  <2>5. RowInv'
    BY <1>0, <2>1, <2>2, <2>3 DEF RowInv
  <2>6. ASSUME NEW t \in Tables PROVE TableInv(t)'
    <3>1. LoaderInv(t)
      BY <1>0, <1>d, <2>1 DEF TableInv, Working, Phases
    <3>2. LoaderInv(t)'
      BY <1>0, <2>1, <2>2, <3>1 DEF LoaderInv, Whole, Outcome
    <3>3. QED BY <1>0, <2>1, <2>2, <3>1, <3>2 DEF TableInv, LoaderInv, Whole
  <2>7. QED BY <2>4, <2>5, <2>6 DEF DataInv
<1>5. CASE DropFks \/ \E f \in Fks : RestoreFk(f) \/ RestoreFkFails(f)
  <2>1. /\ life[cur] = "running" /\ pc \in {"drop", "restore"}
        /\ pc' = IF pc = "drop" THEN "record" ELSE "restore"
    BY <1>0, <1>5, AtTask DEF DropFks, RestoreFk, RestoreFkFails
  <2>2. UNCHANGED <<row, content, muted, life, tab>>
    BY <1>5 DEF DropFks, RestoreFk, RestoreFkFails, target, store, jobs, ghosts
  <2>3. loader'.progress = loader.progress /\ loader'.unsettled = loader.unsettled
        /\ loader'.todo = loader.todo
    BY <1>5, <1>t DEF DropFks, RestoreFk, RestoreFkFails, Loader
  <2>4. ResumedInv'
    BY <1>0, <1>d, <2>1, <2>2 DEF ResumedInv
  <2>5. RowInv'
    BY <1>0, <1>d, <2>1, <2>2 DEF RowInv, Working, Phases
  <2>6. ASSUME NEW t \in Tables PROVE TableInv(t)'
    <3>1. LoaderInv(t)
      BY <1>0, <1>d, <2>1 DEF TableInv, Working, Phases
    <3>2. LoaderInv(t)'
      BY <1>0, <2>1, <2>2, <2>3, <3>1 DEF LoaderInv, Whole
    <3>3. QED BY <1>0, <1>d, <2>1, <2>2, <3>2 DEF TableInv, Whole
  <2>7. QED BY <2>4, <2>5, <2>6 DEF DataInv
<1>6. CASE RecordFks
  <2>1. life[cur] = "running" /\ pc = "record"
    BY <1>0, <1>6, AtTask DEF RecordFks
  <2>2. UNCHANGED <<fks, content, muted, life, loader>> /\ pc' = "load"
        /\ row'[cur].tables = row[cur].tables /\ row'[cur].total = TRUE
        /\ tab' = [t \in Tables |-> IF t \in loader.todo THEN "waiting" ELSE "none"]
    BY <1>0, <1>6, Recorded DEF RecordFks, target, jobs, ghosts
  <2>3. ResumedInv'
    BY <1>0, <2>1, <2>2 DEF ResumedInv
  <2>4. RowInv'
    BY <1>0, <2>1, <2>2 DEF RowInv
  <2>5. ASSUME NEW t \in Tables PROVE TableInv(t)'
    <3>1. LoaderInv(t)
      BY <1>0, <1>d, <2>1 DEF TableInv, Working, Phases
    <3>2. LoaderInv(t)'
      BY <1>0, <2>1, <2>2, <3>1 DEF LoaderInv, Whole, Outcome
    <3>3. QED BY <1>0, <1>d, <2>1, <2>2, <3>2 DEF TableInv, Whole
  <2>6. QED BY <2>3, <2>4, <2>5 DEF DataInv
<1>7. ASSUME NEW u \in Tables, Loading, tab[u] \in {"waiting", "taken", "copying"}, NEW v,
             tab' = [tab EXCEPT ![u] = v], v \in {"taken", "copying"} \cup Outcome,
             \A t \in Tables \ {u} : content'[t] = content[t] /\ (t \in muted' <=> t \in muted),
             v = "success" => Whole(u)'
      PROVE  DataInv'
  <2>1. life[cur] = "running" /\ pc = "load"
    BY <1>0, <1>7, AtTask DEF Loading
  <2>2. UNCHANGED <<row, fks, life, loader, pc>>
    BY <1>7 DEF Loading, store, jobs
  <2>3. ResumedInv'
    BY <1>0, <1>d, <2>1, <2>2 DEF ResumedInv
  <2>4. RowInv'
    BY <1>0, <1>d, <2>1, <2>2 DEF RowInv, Working
  <2>5. ASSUME NEW t \in Tables PROVE TableInv(t)'
    <3>1. LoaderInv(t)
      BY <1>0, <1>d, <2>1 DEF TableInv, Working, Phases
    <3>2. CASE t # u
      <4>1. tab'[t] = tab[t] /\ (Whole(t)' <=> Whole(t))
        BY <1>7, <1>t, <3>2 DEF Whole
      <4>2. LoaderInv(t)'
        BY <1>0, <2>1, <2>2, <3>1, <4>1 DEF LoaderInv
      <4>3. QED BY <1>0, <1>d, <2>1, <2>2, <4>1, <4>2 DEF TableInv
    <3>3. CASE t = u
      <4>1. tab'[t] = v /\ t \in loader.unsettled
        BY <1>7, <1>t, <3>1, <3>3 DEF LoaderInv
      <4>2. loader.progress[t] = "none" /\ row[cur].tables[t] \notin DONE
        BY <3>1, <4>1 DEF LoaderInv, DONE
      <4>3. LoaderInv(t)'
        BY <1>0, <1>7, <2>1, <2>2, <3>1, <3>3, <4>1, <4>2 DEF LoaderInv, DONE
      <4>4. QED BY <1>0, <2>1, <2>2, <4>2, <4>3 DEF TableInv
    <3>4. QED BY <3>2, <3>3
  <2>6. QED BY <2>3, <2>4, <2>5 DEF DataInv
<1>8. CASE TakeTable
  <2>1. DEFINE u == Min({t \in Tables : tab[t] = "waiting"})
  <2>2. u \in Tables /\ tab[u] = "waiting"
    <3>1. u \in {t \in Tables : tab[t] = "waiting"}
      BY <1>8, SmallestTable DEF TakeTable
    <3>2. QED BY <3>1
  <2>3. Loading /\ tab' = [tab EXCEPT ![u] = "taken"] /\ UNCHANGED <<content, muted>>
    BY <1>8 DEF TakeTable, Becomes
  <2>4. HIDE DEF u
  <2>5. QED BY <1>7, <2>2, <2>3
<1>9. ASSUME NEW t \in Tables, NEW outcome \in Outcome, NotCopied(t, outcome) PROVE DataInv'
  <2>1. /\ Loading /\ tab[t] = "taken" /\ outcome \in {"warning", "failed"}
        /\ tab' = [tab EXCEPT ![t] = outcome] /\ UNCHANGED <<content, muted>>
    BY <1>9 DEF NotCopied, Becomes
  <2>2. QED BY <1>7, <2>1
<1>10. ASSUME NEW t \in Tables, Truncate(t) PROVE DataInv'
  <2>1. Loading /\ tab[t] = "taken" /\ tab' = [tab EXCEPT ![t] = "copying"]
    BY <1>10 DEF Truncate, Becomes
  <2>2. \A q \in Tables \ {t} : content'[q] = content[q] /\ (q \in muted' <=> q \in muted)
    BY <1>10, <1>t DEF Truncate
  <2>3. QED BY <1>7, <2>1, <2>2
<1>11. ASSUME NEW t \in Tables, CopyDone(t) PROVE DataInv'
  <2>1. Loading /\ tab[t] = "copying" /\ tab' = [tab EXCEPT ![t] = "success"]
    BY <1>11 DEF CopyDone, Becomes
  <2>2. /\ \A q \in Tables \ {t} : content'[q] = content[q] /\ (q \in muted' <=> q \in muted)
        /\ Whole(t)'
    BY <1>11, <1>t DEF CopyDone, Whole
  <2>3. QED BY <1>7, <2>1, <2>2 DEF Outcome
<1>12. ASSUME NEW t \in Tables, NEW complete \in BOOLEAN, NEW enabled \in BOOLEAN,
              CopyFails(t, complete, enabled)
       PROVE  DataInv'
  <2>1. Loading /\ tab[t] = "copying" /\ tab' = [tab EXCEPT ![t] = "failed"]
    BY <1>12 DEF CopyFails, Becomes
  <2>2. \A q \in Tables \ {t} : content'[q] = content[q] /\ (q \in muted' <=> q \in muted)
    BY <1>12, <1>t DEF CopyFails
  <2>3. QED BY <1>7, <2>1, <2>2 DEF Outcome
<1>13. CASE Settle
  <2>1. life[cur] = "running" /\ pc = "load"
    BY <1>0, <1>13, AtTask DEF Settle
  <2>2. UNCHANGED <<fks, content, muted, life, pc, tab>>
    BY <1>13 DEF Settle, target, jobs, ghosts
  <2>3. PICK u \in Tables :
          /\ tab[u] \in Outcome /\ loader'.unsettled = loader.unsettled \ {u}
          /\ loader'.progress = [loader.progress EXCEPT ![u] = tab[u]]
          /\ row'[cur].tables = loader'.progress /\ row'[cur].total = row[cur].total
    BY <1>0, <1>13, Settled
  <2>4. row[cur].total
    BY <1>0, <1>d, <2>1 DEF RowInv, Working, Phases
  <2>5. ResumedInv'
    BY <1>0, <2>1, <2>2, <2>3, <2>4 DEF ResumedInv
  <2>6. RowInv'
    BY <1>0, <2>1, <2>2, <2>3, <2>4 DEF RowInv
  <2>7. ASSUME NEW t \in Tables PROVE TableInv(t)'
    <3>1. LoaderInv(t)
      BY <1>0, <1>d, <2>1 DEF TableInv, Working, Phases
    <3>2. loader'.progress[t] = IF t = u THEN tab[u] ELSE loader.progress[t]
      BY <1>t, <2>3 DEF Loader
    <3>3. LoaderInv(t)'
      BY <1>0, <2>1, <2>2, <2>3, <3>1, <3>2 DEF LoaderInv, Whole, Outcome, DONE
    <3>4. QED BY <1>0, <2>1, <2>2, <2>3, <3>3 DEF TableInv, LoaderInv, Whole
  <2>8. QED BY <2>5, <2>6, <2>7 DEF DataInv
<1>14. CASE BeginRestore
  <2>1. life[cur] = "running" /\ pc = "load"
    BY <1>0, <1>14, AtTask DEF BeginRestore
  <2>2. UNCHANGED <<row, fks, content, muted, life, tab>> /\ pc' = "restore"
        /\ loader'.progress = loader.progress /\ loader'.unsettled = loader.unsettled
        /\ loader'.unsettled = {}
    BY <1>14, <1>t DEF BeginRestore, Loader, target, store, jobs, ghosts
  <2>3. ResumedInv'
    BY <1>0, <1>d, <2>1, <2>2 DEF ResumedInv
  <2>4. RowInv'
    BY <1>0, <1>d, <2>1, <2>2 DEF RowInv, Working, Phases
  <2>5. ASSUME NEW t \in Tables PROVE TableInv(t)'
    <3>1. LoaderInv(t)
      BY <1>0, <1>d, <2>1 DEF TableInv, Working, Phases
    <3>2. LoaderInv(t)'
      BY <1>0, <2>1, <2>2, <3>1 DEF LoaderInv, Whole
    <3>3. QED BY <1>0, <1>d, <2>1, <2>2, <3>2 DEF TableInv, Whole
  <2>6. QED BY <2>3, <2>4, <2>5 DEF DataInv
<1>15. CASE ClearFks
  <2>1. life[cur] = "running" /\ pc = "restore"
    BY <1>0, <1>15, AtTask DEF ClearFks
  <2>2. UNCHANGED <<fks, content, muted, life, tab, loader>> /\ pc' = "report"
        /\ row'[cur].tables = row[cur].tables /\ row'[cur].total = row[cur].total
    BY <1>0, <1>15, Cleared DEF ClearFks, target, jobs, ghosts
  <2>3. ResumedInv'
    BY <1>0, <1>d, <2>1, <2>2 DEF ResumedInv
  <2>4. RowInv'
    BY <1>0, <1>d, <2>1, <2>2 DEF RowInv, Working, Phases
  <2>5. ASSUME NEW t \in Tables PROVE TableInv(t)'
    <3>1. LoaderInv(t)
      BY <1>0, <1>d, <2>1 DEF TableInv, Working, Phases
    <3>2. LoaderInv(t)'
      BY <1>0, <2>1, <2>2, <3>1 DEF LoaderInv, Whole
    <3>3. QED BY <1>0, <1>d, <2>1, <2>2, <3>2 DEF TableInv, Whole
  <2>6. QED BY <2>3, <2>4, <2>5 DEF DataInv
<1>16. CASE ReportFailure \/ ReportSuccess
  <2>1. life[cur] = "running" /\ pc = "report"
    BY <1>0, <1>16, AtTask DEF ReportFailure, ReportSuccess
  <2>2. UNCHANGED <<fks, content, muted>> /\ ~Working' /\ life'[cur] \notin {"running", "done"}
        /\ pc' \in {"loader", "post"}
    BY <1>0, <1>16, <1>t DEF ReportFailure, ReportSuccess, Fail, End, Working, target
  <2>3. RowStays
    BY <1>0, <1>16, Reported DEF ReportFailure, ReportSuccess
  <2>4. pc' = "loader" => life'[cur] = "failed"
    BY <1>0, <1>16, <1>t DEF ReportFailure, ReportSuccess, Fail, End
  <2>5. ResumedInv'
    BY <1>0, <1>d, <2>2, <2>3, <2>4 DEF ResumedInv, RowStays
  <2>6. RowInv'
    BY <1>0, <1>d, <2>2, <2>3 DEF RowInv, RowStays
  <2>7. ASSUME NEW t \in Tables PROVE TableInv(t)'
    <3>1. LoaderInv(t)
      BY <1>0, <1>d, <2>1 DEF TableInv, Working, Phases
    <3>2. pc' = "post" => tab[t] # "failed"
      BY <1>16 DEF ReportFailure, ReportSuccess, AnyFailed, Fail, End
    <3>3. pc' = "post" => Whole(t) \/ row[cur].tables[t] = "warning"
      BY <2>1, <3>1, <3>2 DEF LoaderInv, Outcome, DONE
    <3>4. QED BY <1>0, <1>d, <2>2, <2>3, <3>3 DEF TableInv, Whole, RowStays
  <2>8. QED BY <2>5, <2>6, <2>7 DEF DataInv
<1>17. CASE PostFails \/ PostDone \/ MaintenanceFails \/ MaintenanceDone
  <2>1. life[cur] = "running" /\ pc \in {"post", "maintenance"}
    BY <1>0, <1>17, AtTask DEF PostFails, PostDone, MaintenanceFails, MaintenanceDone
  <2>2. UNCHANGED <<fks, content, muted>> /\ ~Working' /\ life'[cur] # "running"
        /\ pc' \in {"post", "maintenance", "idle"}
    BY <1>0, <1>17, <1>t DEF PostFails, PostDone, MaintenanceFails, MaintenanceDone, Fail, End,
                             Working, target
  <2>3. RowStays
    BY <1>0, <1>17, Reported DEF PostFails, PostDone, MaintenanceFails, MaintenanceDone
  <2>4. pc' = "maintenance" \/ life'[cur] = "done" => PlanFks \subseteq fks
    BY <1>0, <1>17, <1>d, <1>t, <2>1
       DEF PostFails, PostDone, MaintenanceFails, MaintenanceDone, Fail, End, RowInv, At
  <2>5. ResumedInv'
    BY <1>0, <1>d, <2>2, <2>3 DEF ResumedInv, RowStays
  <2>6. RowInv'
    BY <1>0, <1>d, <2>2, <2>3, <2>4 DEF RowInv, RowStays
  <2>7. ASSUME NEW t \in Tables PROVE TableInv(t)'
    BY <1>0, <1>d, <2>1, <2>2, <2>3 DEF TableInv, Whole, RowStays
  <2>8. QED BY <2>5, <2>6, <2>7 DEF DataInv
<1>18. ASSUME NEW f \in Fks, PostFk(f) PROVE DataInv'
  <2>1. life[cur] = "running" /\ pc = "post"
    BY <1>0, <1>18, AtTask DEF PostFk
  <2>2. UNCHANGED <<row, content, muted, life, pc>>
    BY <1>18 DEF PostFk, store, jobs, ghosts
  <2>3. ResumedInv'
    BY <1>0, <1>d, <2>1, <2>2 DEF ResumedInv
  <2>4. RowInv'
    BY <1>0, <1>d, <2>1, <2>2 DEF RowInv, Working, Phases
  <2>5. ASSUME NEW t \in Tables PROVE TableInv(t)'
    BY <1>0, <1>d, <2>1, <2>2 DEF TableInv, Whole, Working, Phases
  <2>6. QED BY <2>3, <2>4, <2>5 DEF DataInv
<1>19. QED BY <1>1, <1>2, <1>3, <1>4, <1>5, <1>6, <1>8, <1>9, <1>10, <1>11, <1>12, <1>13, <1>14,
              <1>15, <1>16, <1>17, <1>18 DEF TaskStep

\* The row of a run that is resumed is exact, because it is the newest run's.
LEMMA LaunchKeepsData ==
  ASSUME TypeOK, RunsInv, TaskInv, DataInv, NEW p \in Runs \cup {NoRun}, Launched(p),
         p # NoRun => p = cur
  PROVE  DataInv'
<1> USE DEF Launched
<1>1. cur' # NoRun /\ cur' # cur
  BY BoundsAssumption DEF TypeOK, Runs, NoRun
<1>2. UNCHANGED <<content, muted, fks>> /\ \A t \in Tables : TableInv(t)
  BY DEF target, DataInv
<1>3. ResumedInv'
  <2> SUFFICES ASSUME p # NoRun
               PROVE  \A t \in Tables : row'[p].tables[t] \in DONE => Whole(t)'
    BY <1>1 DEF ResumedInv
  <2>1. row'[p] = row[cur] /\ cur # NoRun
    BY <1>1
  <2>2. QED BY <1>2, <2>1 DEF TableInv, Whole
<1>4. ~Working'
  BY DEF Working
<1>5. RowInv'
  BY <1>4 DEF RowInv, DONE
<1>6. ASSUME NEW t \in Tables PROVE TableInv(t)'
  BY <1>4 DEF TableInv, DONE
<1>7. QED BY <1>3, <1>5, <1>6 DEF DataInv

\* Every step does, if only the newest run is resumed, and that once.
LEMMA DataStep ==
  ASSUME StoreFails = FALSE, RetryResumes = FALSE, ResumeAny = FALSE,
         TypeOK, RunsInv, TaskInv, DataInv, [Next]_vars
  PROVE  DataInv'
<1>1. CASE AppRestart \/ UNCHANGED vars
  <2>1. UNCHANGED <<content, muted, fks, row, param, life, cur, pc, loader, tab>>
    BY <1>1 DEF AppRestart, vars, target, store, jobs, ghosts
  <2>2. ASSUME NEW t \in Tables PROVE TableInv(t)'
    <3>1. LoaderInv(t) => LoaderInv(t)'
      BY <2>1 DEF LoaderInv, Whole
    <3>2. QED BY <2>1, <3>1 DEF DataInv, TableInv, Working, Whole
  <2>3. ResumedInv' /\ RowInv'
    BY <2>1 DEF DataInv, ResumedInv, RowInv, Working, Whole
  <2>4. QED BY <2>2, <2>3 DEF DataInv
<1>2. CASE AppRunFresh
  <2>1. NoRun < cur + 1
    BY BoundsAssumption DEF TypeOK, Runs, NoRun
  <2>2. QED BY <1>2, <2>1, AppRunLaunches, LaunchKeepsData DEF AppRunFresh
<1>3. ASSUME NEW p \in Runs, AppResume(p) PROVE DataInv'
  <2>1. p < cur + 1 /\ Launched(p)
    BY <1>3, ResumableIsPast, AppRunLaunches DEF AppResume
  <2>2. p = latest /\ latest # NoRun
    BY <1>3 DEF AppResume, Runs, NoRun
  <2>3. latest = cur
    BY <2>1, <2>2 DEF Launched, RunsInv, NoTask, TaskInv
  <2>4. QED BY <2>1, <2>2, <2>3, LaunchKeepsData
<1>4. CASE JobsRun
  BY <1>4, JobsRunLaunches, LaunchKeepsData
<1>5. ASSUME NEW r \in Runs, Repair(r) PROVE DataInv'
  <2>1. /\ r = cur /\ param[cur] = NoRun /\ life[cur] = "failed" /\ life'[cur] = "pending"
        /\ UNCHANGED <<content, muted, fks, row, param, cur, pc>>
    BY <1>5 DEF Repair, TypeOK, target, store, ghosts
  <2>2. ResumedInv' /\ RowInv'
    BY <2>1 DEF DataInv, ResumedInv, RowInv, Working
  <2>3. ASSUME NEW t \in Tables PROVE TableInv(t)'
    BY <2>1 DEF DataInv, TableInv, Working, Whole
  <2>4. QED BY <2>2, <2>3 DEF DataInv
<1>6. CASE TaskStep \/ Die
  BY <1>6, StepOfTask, TaskKeepsData
<1>7. QED BY <1>1, <1>2, <1>3, <1>4, <1>5, <1>6 DEF Next

-----------------------------------------------------------------------------
(* The theorems. *)

IInv == TypeOK /\ RunsInv /\ TaskInv

\* The first state.
LEMMA InitInv == Init => IInv /\ HeldInv /\ FksKept /\ DataInv
<1> SUFFICES ASSUME Init PROVE IInv /\ HeldInv /\ FksKept /\ DataInv
  OBVIOUS
<1> USE DEF Init
<1>1. TypeOK
  BY NoRowType, NoLoaderType, FksAssumption, BoundsAssumption DEF TypeOK, NoRun
<1>2. RunsInOrder
  BY DEF RunsInOrder, NoRun, Runs
<1>3. RunsInv
  BY <1>2 DEF RunsInv, NoTask, NoRow
<1>4. TaskInv
  BY DEF TaskInv
<1>5. HeldInv /\ FksKept
  BY DEF HeldInv, FksKept, KeptIn, Working
<1>6. DataInv
  BY DEF DataInv, ResumedInv, RowInv, TableInv, Working
<1>7. QED BY <1>1, <1>3, <1>4, <1>5, <1>6 DEF IInv

\* Runs are started in order, also when writes fail.
LEMMA OrderStep ==
  ASSUME TypeOK, NoTask, RunsInOrder, [Next]_vars
  PROVE  NoTask' /\ RunsInOrder'
<1>1. ASSUME UNCHANGED <<life, cur, pc>>, latest' = latest \/ cur # NoRun
      PROVE  NoTask' /\ RunsInOrder'
  BY <1>1 DEF NoTask, RunsInOrder
<1>2. ASSUME NEW state \in {"pending", "running", "failed", "done"}, cur \in Runs, cur' = cur,
             life[cur] # "none", life' = [life EXCEPT ![cur] = state]
      PROVE  NoTask' /\ RunsInOrder'
  BY <1>2 DEF NoTask, RunsInOrder, TypeOK, Runs, NoRun
<1>3. ASSUME NEW p, Launch(p) PROVE NoTask' /\ RunsInOrder'
  <2>1. NextRun = cur + 1 /\ cur \in Nat
    BY NextRunIsNext, BoundsAssumption DEF TypeOK, Runs, NoRun
  <2>2. cur' = cur + 1 /\ cur' \in Runs /\ life' = [life EXCEPT ![cur'] = "pending"]
    BY <1>3, <2>1 DEF Launch
  <2>3. QED BY <2>1, <2>2 DEF NoTask, RunsInOrder, TypeOK, Runs, NoRun
<1>4. CASE AppRestart \/ UNCHANGED vars
  BY <1>1, <1>4 DEF AppRestart, vars, store, jobs
<1>5. CASE AppRunFresh \/ (\E p \in Runs : AppResume(p)) \/ JobsRun
  BY <1>3, <1>5 DEF AppRunFresh, AppResume, AppRun, JobsRun
<1>6. ASSUME NEW r \in Runs, Repair(r) PROVE NoTask' /\ RunsInOrder'
  BY <1>2, <1>6 DEF Repair
<1>7. CASE Die \/ StartLoader \/ StartPost \/ StartMaintenance
  <2>1. cur \in Runs /\ cur' = cur /\ life[cur] # "none"
    BY <1>7 DEF Die, Fail, End, StartLoader, StartPost, StartMaintenance, StartTask, TypeOK
  <2>2. \E state \in {"running", "failed"} : life' = [life EXCEPT ![cur] = state]
    BY <1>7 DEF Die, Fail, End, StartLoader, StartPost, StartMaintenance, StartTask
  <2>3. QED BY <1>2, <2>1, <2>2
<1>8. CASE ReportFailure \/ ReportSuccess \/ PostFails \/ PostDone \/ MaintenanceFails
            \/ MaintenanceDone
  <2>1. cur \in Runs /\ life[cur] = "running"
    BY <1>8, AtTask DEF ReportFailure, ReportSuccess, PostFails, PostDone, MaintenanceFails,
                        MaintenanceDone
  <2>2. /\ cur' = cur
        /\ \E state \in {"pending", "failed", "done"} : life' = [life EXCEPT ![cur] = state]
    BY <1>8 DEF ReportFailure, ReportSuccess, PostFails, PostDone, MaintenanceFails,
                MaintenanceDone, Fail, End
  <2>3. QED BY <1>2, <2>1, <2>2
<1>9. ASSUME UNCHANGED jobs, NEW label \in {"resume", "seed", "drop", "record", "load", "restore",
                                            "report", "post", "maintenance"}, At(label)
      PROVE  NoTask' /\ RunsInOrder'
  <2>1. cur \in Runs /\ cur' = cur /\ life' = life /\ cur # NoRun
    BY <1>9, AtTask DEF jobs, Runs, NoRun
  <2>2. QED BY <2>1 DEF NoTask, RunsInOrder
<1>10. CASE SeedProgress \/ DropFks \/ RecordFks \/ Settle \/ BeginRestore \/ ClearFks
             \/ (\E readable \in BOOLEAN : ReadCheckpoint(readable))
             \/ (\E f \in Fks : RestoreFk(f) \/ RestoreFkFails(f) \/ PostFk(f))
  BY <1>9, <1>10 DEF SeedProgress, DropFks, RecordFks, Settle, BeginRestore, ClearFks,
                     ReadCheckpoint, ResumeFrom, RestoreFk, RestoreFkFails, PostFk
<1>11. CASE TakeTable \/ \E t \in Tables :
              \/ \E outcome \in Outcome : NotCopied(t, outcome)
              \/ Truncate(t)
              \/ CopyDone(t)
              \/ \E complete, enabled \in BOOLEAN : CopyFails(t, complete, enabled)
  <2>1. Loading
    BY <1>11 DEF TakeTable, NotCopied, Truncate, CopyDone, CopyFails
  <2>2. QED BY <1>9, <2>1 DEF Loading
<1>12. QED BY <1>4, <1>5, <1>6, <1>7, <1>8, <1>10, <1>11 DEF Next, TaskStep

\* The target, the store, the job and the notebook keep their types, whatever fails (Row
\* is AsyncRunState, Loader what the loader notebook keeps in names).
THEOREM TypeCorrect == Spec => []TypeOK
<1>1. Init => TypeOK /\ NoTask /\ RunsInOrder
  BY InitInv DEF IInv, RunsInv
<1>2. TypeOK /\ NoTask /\ RunsInOrder /\ [Next]_vars => (TypeOK /\ NoTask /\ RunsInOrder)'
  BY TypeStep, OrderStep
<1>3. QED BY <1>1, <1>2, PTL DEF Spec

\* One run at a time, its task and its row go together (max_concurrent_runs, _report).
THEOREM Invariance == ASSUME StoreFails = FALSE PROVE Spec => []IInv
<1>1. Init => IInv
  BY InitInv
<1>2. IInv /\ [Next]_vars => IInv'
  BY TypeStep, RunsStep DEF IInv, RunsInv
<1>3. QED BY <1>1, <1>2, PTL DEF Spec

\* Every foreign key taken off the target is kept by the loader, a row or a report
\* (drop_target_fks, _merge_fks, restore_fks and the dropped_fks of the row).
THEOREM FksConserved ==
  ASSUME StoreFails = FALSE, RetryResumes = FALSE PROVE Spec => []FkConserved
<1>1. Init => IInv /\ HeldInv /\ FksKept
  BY InitInv
<1>2. IInv /\ HeldInv /\ FksKept /\ [Next]_vars => (IInv /\ HeldInv /\ FksKept)'
  BY TypeStep, RunsStep, FksStep DEF IInv, RunsInv
<1>3. FksKept => FkConserved
  BY DEF FksKept, KeptIn, FkConserved
<1>4. QED BY <1>1, <1>2, <1>3, PTL DEF Spec

\* The rows and the tables agree in every state.
LEMMA DataInvariance ==
  ASSUME StoreFails = FALSE, RetryResumes = FALSE, ResumeAny = FALSE
  PROVE  Spec => [](IInv /\ DataInv)
<1>1. Init => IInv /\ DataInv
  BY InitInv
<1>2. IInv /\ DataInv /\ [Next]_vars => (IInv /\ DataInv)'
  BY TypeStep, RunsStep, DataStep DEF IInv, RunsInv
<1>3. QED BY <1>1, <1>2, PTL DEF Spec

\* What the newest row calls loaded is in the target, through kills, repairs and resumed
\* runs (_resume_checkpoint and the checkpoint after each table).
THEOREM LoadedIsExact ==
  ASSUME StoreFails = FALSE, RetryResumes = FALSE, ResumeAny = FALSE
  PROVE  Spec => []AlreadyLoadedIsExact
<1>1. DataInv => AlreadyLoadedIsExact
  BY DEF DataInv, TableInv, Whole, Loaded, AlreadyLoadedIsExact
<1>2. QED BY <1>1, DataInvariance, PTL

\* A run that ends well has loaded every table it does not warn about and has the plan's
\* keys in place, and no row says so before (the last task of the job reports success).
THEOREM SuccessComplete ==
  ASSUME StoreFails = FALSE, RetryResumes = FALSE, ResumeAny = FALSE
  PROVE  Spec => []SuccessIsComplete
<1>1. IInv /\ DataInv => SuccessIsComplete
  BY DEF IInv, RunsInv, DataInv, TableInv, RowInv, Whole, SuccessIsComplete
<1>2. QED BY <1>1, DataInvariance, PTL

\* A run that stopped with a part of the tables loaded is offered for resuming from its
\* row (find_resumable and is_resumable).
THEOREM StoredOffered ==
  ASSUME StoreFails = FALSE, RetryResumes = FALSE, ResumeAny = FALSE
  PROVE  Spec => []StoredRunIsOffered
<1>1. IInv /\ DataInv => StoredRunIsOffered
  <2> SUFFICES ASSUME IInv, DataInv, Unfinished, cur \notin mem PROVE Offered = cur
    BY DEF StoredRunIsOffered
  <2>1. /\ latest = cur /\ cur \in Runs /\ cur # NoRun /\ life[cur] = "failed"
        /\ Loaded(row[cur]) # {}
    BY DEF Unfinished, IInv, TypeOK
  <2>2. View(cur) = row[cur]
    BY DEF View
  <2>3. row[cur].status # "success"
    BY <2>1 DEF IInv, RunsInv
  <2>4. PICK t \in Tables : content[t] # "all"
    BY DEF Unfinished
  <2>5. row[cur].total /\ t \notin Loaded(row[cur])
    BY <2>1, <2>4 DEF DataInv, RowInv, TableInv, Whole, Loaded
  <2>6. t \in TablesLeft(row[cur])
    BY <2>5 DEF TablesLeft
  <2>7. IsResumable(cur)
    BY <2>1, <2>2, <2>3, <2>6 DEF IsResumable, Active
  <2>8. QED BY <2>1, <2>7 DEF Offered
<1>2. QED BY <1>1, DataInvariance, PTL
=============================================================================
