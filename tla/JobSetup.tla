------------------------------ MODULE JobSetup ------------------------------
(***************************************************************************)
(* backend/migration/async_setup.py and job_offload.py: setting up the     *)
(* Lakeflow job of a project.  The notebooks are uploaded to the project's *)
(* folder, the project's job is found or created and pointed at them, it   *)
(* is switched to run as the signed-in user where the notebooks connect    *)
(* with the user's identity, and then it is run, or left to its schedule.  *)
(* The workspace (jobs, permissions, notebooks) is external.               *)
(*                                                                         *)
(* Several set-ups run at a time, also of one project: nothing in the code *)
(* keeps them apart.  The workspace can fail at every call.                *)
(***************************************************************************)
EXTENDS Naturals, Sequences, FiniteSets, SequencesExt

CONSTANTS
  Projects,   \* projects with an id
  NoProject,  \* a request that carries no project id
  Names,      \* names of projects, as they appear in a job's title
  BaseName,   \* JOB_NAME, the title of the job of no project
  NoTag,      \* a job without the tag lbx_project_id
  NoJob,      \* an id no job has
  Ids,        \* ids of jobs the workspace may give out
  Legacy,     \* whether the workspace has a job from before the tags
  Requests,   \* the set-ups that are requested, see RequestsAssumption
  Threads,    \* requests that can be under way at a time
  MaxSetups,  \* bound: set-ups
  MaxRenames  \* bound: renamings of projects

ASSUME IdsAssumption == Ids \subseteq Nat \ {0}  \* 0 where a set-up has no job yet
ASSUME NamesAssumption == BaseName \notin Names /\ NoProject \notin Projects /\ NoTag \notin Projects

\* _POST_LOAD_PHASES: the kinds of statements after the load, each a task.
POST_LOAD_PHASES == <<"constraint", "index", "foreign_key", "trigger">>

Owners == Projects \cup {NoProject}
Auths == {"password", "databricks"}
Modes == {"run", "create", "schedule"}
TaskNames == {"load", "constraint", "index", "foreign_key", "trigger", "maintenance"}
Files == Nat \X TaskNames

\* How to connect, whether to run the job, create it or schedule it, the kinds of
\* statements the plan has for after the load, and whether maintenance is on.
ASSUME RequestsAssumption ==
  Requests \subseteq [auth : Auths, mode : Modes,
                      post : SUBSET ToSet(POST_LOAD_PHASES), maintain : BOOLEAN]

\* The settings of a job: its title and tag, the folder its tasks are in and their
\* notebooks in the order of the chain, its schedule, and whom it runs as.
JobSettings ==
  [title : Names \cup {BaseName}, tag : Projects \cup {NoTag}, dir : Owners, tasks : Seq(Files),
   sched : {"off", "on", "paused"}, as : {"app", "user"}]

ASSUME NoJobAssumption == NoJob \notin JobSettings

VARIABLES
  job,      \* the jobs of the workspace, NoJob where an id is free
  folder,   \* the notebooks of each folder: the set-up that uploaded each, and what it was
            \* generated for
  name,     \* the name of each project
  pc,       \* where each set-up is
  setup,    \* its project, its request and its local variables
  missed,   \* history: projects of which a search did not see every job
  beside,   \* history: the set-ups that another one of their project ran beside
  setups,   \* set-ups so far
  renames   \* renamings so far

vars == <<job, folder, name, pc, setup, missed, beside, setups, renames>>

NoSetup == [v |-> 0]

\* job_tags(), job_name() and project_dir(): a folder goes by its project.
TagOf(p) == IF p = NoProject THEN NoTag ELSE p
Title(p) == IF p = NoProject THEN BaseName ELSE name[p]

FolderOf(p) == p

-----------------------------------------------------------------------------
(* The notebooks of a request (backend/data_migration/etl_generator.py). *)

\* The task of a kind of statements, when the plan has some, and those of all kinds.
TaskOf(kind, r) == IF kind \in r.post THEN <<kind>> ELSE <<>>
Phases(r) == TaskOf(POST_LOAD_PHASES[1], r) \o TaskOf(POST_LOAD_PHASES[2], r)
             \o TaskOf(POST_LOAD_PHASES[3], r) \o TaskOf(POST_LOAD_PHASES[4], r)

\* generate(): the file names, which carry a number and the name of the task.
Generate(r) ==
  LET tasks == <<"load">> \o Phases(r) \o (IF r.maintain THEN <<"maintenance">> ELSE <<>>)
  IN  [i \in DOMAIN tasks |-> <<i, tasks[i]>>]
TaskKey(file) == file[2]

\* run_task_keys(): RUN_STATE_TASKS of every notebook, the last of which finishes the run.
RunTaskKeys(r) ==
  IF r.maintain THEN Append(<<"load">> \o Phases(r), "maintenance") ELSE <<"load">> \o Phases(r)

\* What a notebook was generated with: the preamble of the connection, and the tasks.
Notebook(s) == [v |-> s.v, auth |-> s.auth, tasks |-> s.tasks]
Empty == [v |-> 0, auth |-> "password", tasks |-> <<>>]
-----------------------------------------------------------------------------

Init ==
  /\ name \in [Projects -> Names]
  /\ \E title \in Names :
       job = [i \in Ids |-> IF Legacy /\ i = 1
                            THEN [title |-> title, tag |-> NoTag, dir |-> NoProject, tasks |-> <<>>,
                                  sched |-> "off", as |-> "app"]
                            ELSE NoJob]
  /\ folder = [p \in Owners |-> <<>>]
  /\ pc = [t \in Threads |-> "idle"] /\ setup = [t \in Threads |-> NoSetup]
  /\ missed = {} /\ beside = {} /\ setups = 0 /\ renames = 0

GoTo(t, label) == pc' = [pc EXCEPT ![t] = label]
SetId(t, i) == setup' = [setup EXCEPT ![t].id = i]
Over(t) == GoTo(t, "idle") /\ setup' = [setup EXCEPT ![t] = NoSetup]
world == <<job, folder, name, missed, beside, setups, renames>>

\* The set-ups of a project that are under way.
SetupsOf(p) == {t \in Threads : pc[t] # "idle" /\ setup[t].owner = p}

\* setup_async(): run_now, create only, or a schedule.
Begin(t, p, r) ==
  /\ pc[t] = "idle" /\ setups < MaxSetups
  /\ setups' = setups + 1
  /\ setup' = [setup EXCEPT ![t] = [v |-> setups + 1, owner |-> p, auth |-> r.auth, mode |-> r.mode,
                                    tasks |-> RunTaskKeys(r), files |-> Generate(r), left |-> Generate(r),
                                    title |-> BaseName, id |-> 0]]
  /\ beside' = IF SetupsOf(p) = {} THEN beside \ {t} ELSE beside \cup SetupsOf(p) \cup {t}
  /\ GoTo(t, "upload")
  /\ UNCHANGED <<job, folder, name, missed, renames>>

Put(f, key, value) == [k \in DOMAIN f \cup {key} |-> IF k = key THEN value ELSE f[k]]

\* One notebook: what is there is deleted, then the new one is uploaded.  A
\* failure ends the set-up with the notebook gone, or not.
Upload(t) ==
  LET s == setup[t]  d == FolderOf(s.owner)  nb == Head(s.left) IN
  /\ pc[t] = "upload"
  /\ \/ /\ folder' = [folder EXCEPT ![d] = Put(@, nb, Notebook(s))]
        /\ setup' = [setup EXCEPT ![t].left = Tail(s.left)]
        /\ GoTo(t, IF Len(s.left) = 1 THEN "name" ELSE "upload")
     \/ /\ folder' \in {folder, [folder EXCEPT ![d] = Put(@, nb, Empty)]}
        /\ Over(t)
  /\ UNCHANGED <<job, name, missed, beside, setups, renames>>

Jobs == {i \in Ids : job[i] # NoJob}
Named(title) == {i \in Jobs : job[i].title = title}
Tagged(p) == {i \in Jobs : job[i].tag = p}

\* Mutant: any job of that title is taken.
AnyNamed(p, title) == Named(title)

\* _find_job() by title: a job with the project's tag, or else one without a tag.
Ours(p, title) ==
  IF p # NoProject /\ Named(title) \cap Tagged(p) # {} THEN Named(title) \cap Tagged(p)
  ELSE Named(title) \cap Tagged(NoTag)

FindByName(t) ==
  LET p == setup[t].owner  title == Title(p)  found == Ours(p, title) IN
  /\ pc[t] = "name"
  /\ \/ \E i \in found : /\ setup' = [setup EXCEPT ![t].title = title, ![t].id = i]
                         /\ GoTo(t, "ensure")
     \/ /\ found = {} /\ setup' = [setup EXCEPT ![t].title = title]
        /\ GoTo(t, IF p = NoProject THEN "ensure" ELSE "tags")
     \/ Over(t)
  /\ UNCHANGED world

\* Mutant: the jobs are searched by title only.
NoTagged(p) == {}

\* _find_job() by tag, for a project that was renamed.
ByTag(p) == Tagged(p)

\* Set-ups of the project that have found no job and are about to create one.
Creating(p) == {t \in SetupsOf(p) : pc[t] = "ensure" /\ setup[t].id = 0}

\* A search that fails, or that stops at _TAG_SCAN_LIMIT, finds nothing; nor does one that
\* ends while another set-up of the project is about to create the job.
FindByTag(t) ==
  LET p == setup[t].owner IN
  /\ pc[t] = "tags" /\ GoTo(t, "ensure")
  /\ \/ \E i \in ByTag(p) : SetId(t, i) /\ UNCHANGED missed
     \/ ByTag(p) = {} /\ Creating(p) = {} /\ UNCHANGED <<setup, missed>>
     \/ missed' = missed \cup {p} /\ UNCHANGED setup
  /\ UNCHANGED <<job, folder, name, beside, setups, renames>>

Settings(t) ==
  LET s == setup[t] IN
  [title |-> s.title, tag |-> TagOf(s.owner), dir |-> FolderOf(s.owner),
   tasks |-> s.files,
   sched |-> IF s.mode = "schedule" THEN "on" ELSE "off", as |-> "app"]

\* _ensure_job(): reset() replaces the settings of the job, so it runs as its
\* owner again.
EnsureJob(t) ==
  LET i == setup[t].id IN
  /\ pc[t] = "ensure"
  /\ \/ /\ i # 0 /\ UNCHANGED setup
        /\ job' = [job EXCEPT ![i] = Settings(t)]
        /\ GoTo(t, "runas")
     \/ /\ i = 0
        /\ \E new \in Ids \ Jobs :
             /\ \A k \in Ids \ Jobs : new <= k
             /\ job' = [job EXCEPT ![new] = Settings(t)] /\ SetId(t, new)
        /\ GoTo(t, "runas")
     \/ Over(t) /\ UNCHANGED job
  /\ UNCHANGED <<folder, name, missed, beside, setups, renames>>

\* Mutant: the run is triggered whoever it would run as.
ProvisionedAnyway(mode, pending) == IF mode = "run" THEN "trigger" ELSE "record"

\* A run is triggered unless it would not run as the user.
Provisioned(mode, pending) == IF mode = "run" /\ ~pending THEN "trigger" ELSE "record"

\* _run_as_pending(): nothing to do for passwords; otherwise the app switches the
\* job to the user, if it may.
RunAs(t) ==
  LET i == setup[t].id  mode == setup[t].mode IN
  /\ pc[t] = "runas"
  /\ \/ setup[t].auth = "password" /\ GoTo(t, Provisioned(mode, FALSE)) /\ UNCHANGED job
     \/ /\ setup[t].auth = "databricks"
        /\ job' = [job EXCEPT ![i].as = "user"] /\ GoTo(t, Provisioned(mode, FALSE))
     \/ /\ setup[t].auth = "databricks" /\ UNCHANGED job
        /\ GoTo(t, IF mode = "schedule" THEN "pause" ELSE Provisioned(mode, TRUE))
  /\ UNCHANGED <<folder, name, setup, missed, beside, setups, renames>>

\* ... or else lets the user do it (which is left out), and pauses the schedule;
\* failures are swallowed.
Pause(t) ==
  LET i == setup[t].id IN
  /\ pc[t] = "pause"
  /\ job' \in {job, [job EXCEPT ![i].sched = "paused"]}
  /\ GoTo(t, "record")
  /\ UNCHANGED <<folder, name, setup, missed, beside, setups, renames>>

\* run_now(); when it fails so does the set-up, and nothing is recorded.
Trigger(t) ==
  /\ pc[t] = "trigger"
  /\ \/ GoTo(t, "record") /\ UNCHANGED setup
     \/ Over(t)
  /\ UNCHANGED world

\* _recorded(): the grant on the run store and the record of the run do not fail
\* the set-up.
Recorded(t) == pc[t] = "record" /\ Over(t) /\ UNCHANGED world

Rename(p, new) ==
  /\ renames < MaxRenames /\ renames' = renames + 1
  /\ name' = [name EXCEPT ![p] = new]
  /\ UNCHANGED <<job, folder, pc, setup, missed, beside, setups>>

Step(t) ==
  \/ \E p \in Owners, r \in Requests : Begin(t, p, r)
  \/ Upload(t) \/ FindByName(t) \/ FindByTag(t) \/ EnsureJob(t)
  \/ RunAs(t) \/ Pause(t) \/ Trigger(t) \/ Recorded(t)
Next ==
  \/ \E t \in Threads : Step(t)
  \/ \E p \in Projects, new \in Names : Rename(p, new)

Spec == Init /\ [][Next]_vars

\* However often a project is renamed and set up, also by several requests at once,
\* and whatever the others are called, it has one job; unless a search by tag failed, or
\* two set-ups had both searched in vain before either created the job.
OneJobPerProject ==
  \A p \in Projects : Cardinality(Tagged(p)) <= 1 \/ p \in missed

\* What a run of job i executes: the notebooks its tasks name, where they are, one
\* after the other.
Runs(i) == [k \in DOMAIN job[i].tasks |->
  LET t == job[i].tasks[k] IN IF t \in DOMAIN folder[job[i].dir] THEN folder[job[i].dir][t] ELSE Empty]
Content(i) == ToSet(Runs(i))
\* _report_run_state() with "success" in the k-th task: the run is reported as over.
SaysOver(i, k) == LET tasks == Runs(i)[k].tasks IN tasks # <<>> /\ TaskKey(job[i].tasks[k]) = Last(tasks)
Triggers(t) == pc[t] = "trigger"

\* A run that a set-up is about to start executes what that set-up has uploaded:
\* no other project repoints its job or overwrites its notebooks meanwhile.  And its
\* last task, and no other, reports the run as over, whichever tasks there are.
\* Two set-ups of one project do overwrite each other's notebooks.
RunsItsOwn ==
  \A t \in Threads \ beside : Triggers(t) =>
    LET i == setup[t].id IN
    /\ \A c \in Content(i) : c.v = setup[t].v
    /\ \A k \in DOMAIN job[i].tasks : SaysOver(i, k) <=> k = Len(job[i].tasks)

\* The app starts no run of notebooks that connect as the user while the job
\* would run as somebody else; unless another set-up of the project, which connects
\* differently, runs beside this one.
NeverAsTheApp ==
  \A t \in Threads \ beside :
    Triggers(t) /\ (\E c \in Content(setup[t].id) : c.auth = "databricks")
      => job[setup[t].id].as = "user"

\* job_offload.py: "a schedule waits paused rather than firing as the wrong
\* identity".  A job whose schedule is on may fire at any moment.
ScheduleWaits ==
  \A i \in Jobs : job[i].sched = "on" /\ (\A c \in Content(i) : c.auth = "databricks")
                 => job[i].as = "user"
-----------------------------------------------------------------------------
(***************************************************************************)
(* The inductive invariant behind the three, in a workspace without jobs   *)
(* from before the tags.                                                   *)
(***************************************************************************)

Labels == {"idle", "upload", "name", "tags", "ensure", "runas", "pause", "trigger", "record"}

\* A set-up that is under way.
SetupRec ==
  [v : Nat, owner : Owners, auth : Auths, mode : Modes, tasks : Seq(TaskNames), files : Seq(Files),
   left : Seq(Files), title : Names \cup {BaseName}, id : Ids \cup {0}]

JobTypeOK ==
  /\ job \in [Ids -> JobSettings \cup {NoJob}]
  /\ name \in [Projects -> Names]
  /\ DOMAIN folder = Owners
  /\ pc \in [Threads -> Labels]
  /\ DOMAIN setup = Threads
  /\ \A t \in Threads : pc[t] # "idle" => setup[t] \in SetupRec
  /\ setups \in Nat

\* Of two set-ups of one project neither is taken for the only one.
BesideInv ==
  \A t, u \in Threads : t # u /\ pc[t] # "idle" /\ pc[u] # "idle" /\ setup[t].owner = setup[u].owner
                       => t \in beside

\* The notebooks of a set-up are its tasks, each once, numbered.
Chained(s) ==
  /\ s.tasks # <<>> /\ DOMAIN s.files = DOMAIN s.tasks
  /\ \A k \in DOMAIN s.tasks : s.files[k] = <<k, s.tasks[k]>>
  /\ \A k, l \in DOMAIN s.tasks : s.tasks[k] = s.tasks[l] => k = l

\* What the only set-up of a project has uploaded is in its folder until it is over.
Uploaded(s, file) == file \in DOMAIN folder[s.owner] /\ folder[s.owner][file] = Notebook(s)
FilesInv ==
  \A t \in Threads : pc[t] # "idle" =>
    /\ Chained(setup[t])
    /\ pc[t] = "upload" => setup[t].left # <<>>
    /\ t \notin beside =>
         \A file \in ToSet(setup[t].files) :
           Uploaded(setup[t], file) \/ (pc[t] = "upload" /\ file \in ToSet(setup[t].left))

\* A job carries the tag of the project in whose folder its notebooks are, and only
\* a job of no project carries none.
TagInv == \A i \in Jobs : job[i].tag = TagOf(job[i].dir) /\ (job[i].tag = NoTag => job[i].title = BaseName)

\* A set-up deals with a job of its project, and the only one of a project points it
\* at its own notebooks.
IdInv ==
  \A t \in Threads : LET s == setup[t] IN
    /\ pc[t] \in {"upload", "name", "tags"} => s.id = 0
    /\ pc[t] = "tags" => s.owner # NoProject
    /\ pc[t] \in {"tags", "ensure"} => (s.owner = NoProject <=> s.title = BaseName)
    /\ pc[t] = "ensure" /\ s.id # 0 => s.id \in Tagged(TagOf(s.owner))
    /\ pc[t] \in {"runas", "pause", "trigger", "record"} =>
         s.id \in Tagged(TagOf(s.owner)) /\ (t \notin beside => job[s.id].tasks = s.files)

\* What is triggered runs as the user, unless it connects with a password.
AsInv ==
  \A t \in Threads \ beside : pc[t] = "trigger" =>
    setup[t].auth = "password" \/ job[setup[t].id].as = "user"

\* While every search has seen all jobs, a project has one at most, and if a set-up is
\* about to create one there is none and it is the only such set-up.
OneInv ==
  \A p \in Projects \ missed :
    /\ \A i, j \in Tagged(p) : i = j
    /\ \A t \in Creating(p) : Tagged(p) = {} /\ \A u \in Creating(p) : u = t

JobInv == JobTypeOK /\ BesideInv /\ FilesInv /\ TagInv /\ IdInv /\ AsInv /\ OneInv
=============================================================================
