----------------------------- MODULE RunRegistry -----------------------------
(***************************************************************************)
(* backend/run_registry.py: run state in process memory, written through   *)
(* to the run store.                                                       *)
(*                                                                         *)
(* Several threads share a registry: the request thread that creates a     *)
(* run, the run's own thread and its heartbeat thread that update it.  An  *)
(* update mutates the state under the registry lock, and when a write is   *)
(* due takes a snapshot and a version there; the write itself happens      *)
(* after the lock is released, under a second lock, so writes of one run   *)
(* can arrive in any order.  A store failure is logged and swallowed.  A   *)
(* restart of the process empties the memory; the rows stay.               *)
(*                                                                         *)
(* hist[r] lists every value self._runs[r] has had (its status stands for  *)
(* the whole value), so the current value is the last entry and a snapshot *)
(* is an index.  The index is what the code's deep copies are compared by. *)
(***************************************************************************)
EXTENDS Naturals, Sequences

CONSTANTS
  Runs,            \* run ids
  Threads,         \* threads that call into the registry
  NoThread,        \* owner of a free write lock
  FLUSH_SECONDS,   \* _FLUSH_SECONDS: progress is written at most this often
  MaxHist,         \* bound: mutations of one run
  MaxTime          \* bound: seconds on the monotonic clock

ASSUME FlushAssumption == FLUSH_SECONDS \in Nat
ASSUME NoThreadAssumption == NoThread \notin Threads

VARIABLES
  now,         \* time.monotonic()
  hist,        \* values of self._runs[r], by status, oldest first
  mem,         \* keys of self._runs in the running process
  published,   \* runs whose create() has returned: their id is known to callers
  flushed,     \* self._flushed: time of the last due update
  version,     \* self._version: number of due updates
  written,     \* self._written: newest version handed to the store
  writeLock,   \* self._write_lock
  pc,          \* where each thread is in create() or update()
  task,        \* the write each thread is making
  store,       \* the row of each run, as an index in hist; 0 when there is none
  failed,      \* the last save of the run raised (and was swallowed)
  audited      \* run.finished events in the audit trail

callerVars == <<now, hist, mem, published, flushed, version>>
vars == <<now, hist, mem, published, flushed, version, written, writeLock,
          pc, task, store, failed, audited>>

TERMINAL == {"success", "failed", "partial"}
FINISHED == TERMINAL \cup {"gave_up"}
Status == {"running"} \cup FINISHED

\* No caller reopens a finished run.
Successors(s) == IF s \in FINISHED THEN {s} ELSE Status

Task == [run : Runs, version : Nat, snap : Nat, kind : {"create", "update", "finish"}]

Current(r) == hist[r][Len(hist[r])]

\* The status the store shows; "none" when there is no row.
RowStatus(r) == IF store[r] = 0 THEN "none" ELSE hist[r][store[r]]

\* Mutant: a change of status waits like any progress.
DueThrottled(r, after) == now >= flushed[r] + FLUSH_SECONDS

\* A write is due on a change of status, on any update of a terminal run, and
\* otherwise once FLUSH_SECONDS have passed since the last one.
Due(r, after) ==
  \/ after # Current(r)
  \/ after \in TERMINAL
  \/ now >= flushed[r] + FLUSH_SECONDS

Init ==
  /\ now = 0
  /\ hist = [r \in Runs |-> <<>>]
  /\ mem = {}
  /\ published = {}
  /\ flushed = [r \in Runs |-> 0]
  /\ version = [r \in Runs |-> 0]
  /\ written = [r \in Runs |-> 0]
  /\ writeLock = NoThread
  /\ pc = [t \in Threads |-> "idle"]
  /\ task \in [Threads -> [run : Runs, version : {0}, snap : {0},
                           kind : {"update"}]]
  /\ store = [r \in Runs |-> 0]
  /\ failed = [r \in Runs |-> FALSE]
  /\ audited = [r \in Runs |-> 0]

\* create(), up to the release of the registry lock.
Create(t, r) ==
  /\ pc[t] = "idle"
  /\ hist[r] = <<>>
  /\ hist' = [hist EXCEPT ![r] = <<"running">>]
  /\ mem' = mem \cup {r}
  /\ flushed' = [flushed EXCEPT ![r] = now]
  /\ version' = [version EXCEPT ![r] = version[r] + 1]
  /\ task' = [task EXCEPT ![t] = [run |-> r, version |-> version[r] + 1, snap |-> 0,
                                  kind |-> "create"]]
  /\ pc' = [pc EXCEPT ![t] = "copy"]
  /\ UNCHANGED <<now, published, written, writeLock, store, failed, audited>>

\* create() copies the state it was given after releasing the lock.
Copy(t) ==
  /\ pc[t] = "copy"
  /\ task' = [task EXCEPT ![t].snap = Len(hist[task[t].run])]
  /\ pc' = [pc EXCEPT ![t] = "persist"]
  /\ UNCHANGED <<callerVars, written, writeLock, store, failed, audited>>

Mutate(t, r, after) ==
  /\ pc[t] = "idle"
  /\ r \in mem \cap published
  /\ Len(hist[r]) < MaxHist
  /\ after \in Successors(Current(r))
  /\ hist' = [hist EXCEPT ![r] = Append(hist[r], after)]
  /\ UNCHANGED <<now, mem, published, written, writeLock, store, failed, audited>>

\* update() of a run whose write is not due yet: only the memory changes.
UpdateThrottled(t, r, after) ==
  /\ Mutate(t, r, after)
  /\ ~Due(r, after)
  /\ UNCHANGED <<flushed, version, pc, task>>

\* Mutant: every update of a finished run is audited.
UpdateDueAudited(t, r, after) ==
  /\ Mutate(t, r, after)
  /\ Due(r, after)
  /\ flushed' = [flushed EXCEPT ![r] = now]
  /\ version' = [version EXCEPT ![r] = version[r] + 1]
  /\ task' = [task EXCEPT ![t] =
                [run |-> r, version |-> version[r] + 1, snap |-> Len(hist[r]) + 1,
                 kind |-> IF after \in FINISHED THEN "finish" ELSE "update"]]
  /\ pc' = [pc EXCEPT ![t] = "persist"]

\* update() that must be written, up to the release of the registry lock.
UpdateDue(t, r, after) ==
  /\ Mutate(t, r, after)
  /\ Due(r, after)
  /\ flushed' = [flushed EXCEPT ![r] = now]
  /\ version' = [version EXCEPT ![r] = version[r] + 1]
  /\ task' = [task EXCEPT ![t] =
                [run |-> r, version |-> version[r] + 1, snap |-> Len(hist[r]) + 1,
                 kind |-> IF after # Current(r) /\ after \in FINISHED
                          THEN "finish" ELSE "update"]]
  /\ pc' = [pc EXCEPT ![t] = "persist"]

\* _persist() finds a newer version already written and leaves the row alone.
PersistSkip(t) ==
  /\ pc[t] = "persist"
  /\ writeLock = NoThread
  /\ written[task[t].run] >= task[t].version
  /\ pc' = [pc EXCEPT ![t] = "return"]
  /\ UNCHANGED <<callerVars, written, writeLock, task, store, failed, audited>>

\* Mutant: a newer version already written is overwritten.
PersistClaimAny(t) ==
  /\ pc[t] = "persist"
  /\ writeLock = NoThread
  /\ written' = [written EXCEPT ![task[t].run] = task[t].version]
  /\ writeLock' = t
  /\ pc' = [pc EXCEPT ![t] = "save"]
  /\ UNCHANGED <<callerVars, task, store, failed, audited>>

\* _persist() claims its version, and keeps the write lock while it saves.
PersistClaim(t) ==
  /\ pc[t] = "persist"
  /\ writeLock = NoThread
  /\ written[task[t].run] < task[t].version
  /\ written' = [written EXCEPT ![task[t].run] = task[t].version]
  /\ writeLock' = t
  /\ pc' = [pc EXCEPT ![t] = "save"]
  /\ UNCHANGED <<callerVars, task, store, failed, audited>>

\* _save(): the upsert of the row, or an exception that is swallowed.
Save(t, ok) ==
  /\ pc[t] = "save"
  /\ store' = IF ok THEN [store EXCEPT ![task[t].run] = task[t].snap] ELSE store
  /\ failed' = [failed EXCEPT ![task[t].run] = ~ok]
  /\ writeLock' = NoThread
  /\ pc' = [pc EXCEPT ![t] = "return"]
  /\ UNCHANGED <<callerVars, written, task, audited>>

\* The end of create() or update(): the audit event, then back to the caller.
Return(t) ==
  /\ pc[t] = "return"
  /\ published' = IF task[t].kind = "create" THEN published \cup {task[t].run} ELSE published
  /\ audited' = IF task[t].kind = "finish"
                THEN [audited EXCEPT ![task[t].run] = audited[task[t].run] + 1]
                ELSE audited
  /\ pc' = [pc EXCEPT ![t] = "idle"]
  /\ UNCHANGED <<now, hist, mem, flushed, version, written, writeLock, task, store, failed>>

Tick ==
  /\ now < MaxTime
  /\ now' = now + 1
  /\ UNCHANGED <<hist, mem, published, flushed, version, written, writeLock,
                 pc, task, store, failed, audited>>

\* The process is lost and comes back with an empty registry.  Nobody updates
\* the runs of the old process any more; their rows can still be read.
Restart ==
  /\ mem' = {}
  /\ flushed' = [r \in Runs |-> 0]
  /\ version' = [r \in Runs |-> 0]
  /\ written' = [r \in Runs |-> 0]
  /\ writeLock' = NoThread
  /\ pc' = [t \in Threads |-> "idle"]
  /\ UNCHANGED <<now, hist, published, task, store, failed, audited>>

ThreadStep(t) ==
  \/ Copy(t)
  \/ PersistSkip(t)
  \/ PersistClaim(t)
  \/ \E ok \in BOOLEAN : Save(t, ok)
  \/ Return(t)

Next ==
  \/ \E t \in Threads :
       \/ ThreadStep(t)
       \/ \E r \in Runs :
            \/ Create(t, r)
            \/ \E s \in Status : UpdateThrottled(t, r, s) \/ UpdateDue(t, r, s)
  \/ Tick
  \/ Restart

Spec == Init /\ [][Next]_vars

\* A thread inside the registry keeps running: nothing in it waits for an event,
\* and the holder of the write lock always releases it.
FairSpec == Spec /\ \A t \in Threads : WF_vars(ThreadStep(t))

-----------------------------------------------------------------------------
(***************************************************************************)
(* Properties.                                                             *)
(***************************************************************************)

\* Type invariant of the registry's fields and of the threads inside it.
TypeOK ==
  /\ now \in Nat
  /\ hist \in [Runs -> Seq(Status)]
  /\ mem \subseteq Runs
  /\ published \subseteq Runs
  /\ flushed \in [Runs -> Nat]
  /\ version \in [Runs -> Nat]
  /\ written \in [Runs -> Nat]
  /\ writeLock \in Threads \cup {NoThread}
  /\ pc \in [Threads -> {"idle", "copy", "persist", "save", "return"}]
  /\ task \in [Threads -> Task]
  /\ store \in [Runs -> Nat]
  /\ failed \in [Runs -> BOOLEAN]
  /\ audited \in [Runs -> Nat]

\* Snapshots are written outside the registry lock, yet a late older one never
\* replaces a newer row ("must not overwrite a finished run with a stale running").
RowNeverGoesBack == [][\A r \in Runs : store'[r] >= store[r]]_store

Writing(r) == \E t \in Threads : pc[t] \in {"copy", "persist", "save"} /\ task[t].run = r

\* Throttling delays progress but never a status: once no write of a run is
\* under way, its row has the status the memory has, unless the last save failed.
QuiescentRowHasStatus ==
  \A r \in mem : ~Writing(r) /\ ~failed[r] => RowStatus(r) = Current(r)

\* The audit trail tells one end per run, although heartbeats go on updating a
\* finished run, and it tells it only after the row was given the final status.
AuditAgreesWithRow ==
  \A r \in Runs :
    /\ audited[r] <= 1
    /\ audited[r] = 1 /\ ~failed[r] => RowStatus(r) \in FINISHED

\* A run that finishes in memory gets a finished row, unless that save fails or
\* the process is lost first.
FinishedIsStored ==
  \A r \in Runs :
    (r \in mem /\ Current(r) \in FINISHED)
      ~> (RowStatus(r) \in FINISHED \/ failed[r] \/ r \notin mem)

\* The locks, versions and threads implement the abstract row of a run.
Abstract == INSTANCE DurableRun WITH row <- store
ImplementsDurableRun == Abstract!Spec
-----------------------------------------------------------------------------
(***************************************************************************)
(* The inductive invariant behind RowNeverGoesBack, QuiescentRowHasStatus, *)
(* AuditAgreesWithRow and ImplementsDurableRun, proved in                  *)
(* RunRegistryProofs.                                                      *)
(***************************************************************************)

\* Thread t has taken a version of a run's state that is not dealt with yet.
Active(t) == pc[t] \in {"copy", "persist", "save"}
Pending(t) == pc[t] \in {"persist", "save"}

\* Exactly the thread that saves holds the write lock, and its version is the
\* newest one handed to the store.
LockInv ==
  \A t \in Threads :
    /\ pc[t] = "save" <=> writeLock = t
    /\ pc[t] = "save" => written[task[t].run] = task[t].version

\* Versions are handed out once each.
VersionInv ==
  /\ \A r \in Runs : written[r] <= version[r]
  /\ \A t \in Threads : Active(t) =>
       /\ task[t].run \in mem
       /\ task[t].version \in 1 .. version[task[t].run]
  /\ \A t, u \in Threads :
       Active(t) /\ Active(u) /\ t # u /\ task[t].run = task[u].run
         => task[t].version # task[u].version

\* Until create() returns, its thread is the only one that works on the run.
CreateInv ==
  /\ \A r \in Runs : hist[r] = <<>> => r \notin mem /\ r \notin published /\ store[r] = 0
  /\ \A t \in Threads : pc[t] # "idle" =>
       /\ hist[task[t].run] # <<>>
       /\ task[t].kind = "create" <=> task[t].run \notin published
       /\ pc[t] = "copy" => task[t].kind = "create" /\ store[task[t].run] = 0
  /\ \A t, u \in Threads :
       pc[t] # "idle" /\ pc[u] # "idle" /\ t # u /\ task[t].run = task[u].run
         => task[t].kind # "create"

\* Newer versions carry newer snapshots, and no write that may still reach the
\* store is older than the row.
SnapInv ==
  /\ \A r \in Runs : store[r] <= Len(hist[r])
  /\ \A t \in Threads : Pending(t) =>
       /\ task[t].snap \in 1 .. Len(hist[task[t].run])
       /\ pc[t] = "save" \/ task[t].version > written[task[t].run]
            => store[task[t].run] <= task[t].snap
  /\ \A t, u \in Threads :
       Pending(t) /\ Pending(u) /\ task[t].run = task[u].run
         => (task[t].version < task[u].version => task[t].snap <= task[u].snap)

\* The newest version of a run carries the current status ...
NewestIsCurrent ==
  \A r \in mem, t \in Threads :
    Pending(t) /\ task[t].run = r /\ task[t].version = version[r]
      => hist[r][task[t].snap] = Current(r)

\* ... it is still on its way, or it was handed to the store ...
NewestOnItsWay ==
  \A r \in mem :
    \/ written[r] = version[r]
    \/ \E t \in Threads : Active(t) /\ task[t].run = r /\ task[t].version = version[r]

\* ... and once the store has taken it the row has the current status.
RowIsCurrent ==
  \A r \in mem :
    written[r] = version[r] /\ ~failed[r] /\ (\A t \in Threads : pc[t] = "save" => task[t].run # r)
      => store[r] > 0 /\ hist[r][store[r]] = Current(r)

StatusInv == NewestIsCurrent /\ NewestOnItsWay /\ RowIsCurrent

\* A finished history stays finished.
FinalStays ==
  \A r \in Runs : \A i, j \in 1 .. Len(hist[r]) :
    i <= j /\ hist[r][i] \in FINISHED => hist[r][j] \in FINISHED

\* A write that will be skipped is one the row is already ahead of.
SkipInv ==
  \A t \in Threads :
    /\ pc[t] = "copy" => written[task[t].run] < task[t].version
    /\ /\ pc[t] = "persist"
       /\ written[task[t].run] >= task[t].version
       /\ ~failed[task[t].run]
       /\ \A u \in Threads : pc[u] = "save" => task[u].run # task[t].run
       => store[task[t].run] >= task[t].snap

\* Thread t is in the update() that ended run r.
Ending(t, r) == pc[t] # "idle" /\ task[t].kind = "finish" /\ task[t].run = r

\* One thread ends a run, and it audits the end once.
EndInv ==
  /\ \A t \in Threads, r \in Runs : Ending(t, r) =>
       /\ audited[r] = 0
       /\ task[t].snap \in 1 .. Len(hist[r])
       /\ hist[r][task[t].snap] \in FINISHED
  /\ \A t, u \in Threads, r \in Runs : Ending(t, r) /\ Ending(u, r) => t = u
  /\ \A r \in Runs :
       /\ audited[r] <= 1
       /\ audited[r] = 1 => hist[r] # <<>> /\ Current(r) \in FINISHED

\* A write of thread u may still reach the row.
Reaches(u) ==
  \/ pc[u] = "save"
  \/ pc[u] = "persist" /\ task[u].version > written[task[u].run]

\* The row has a finished state unless the last save failed, and every write that may
\* still reach it has one too.
RowEnded(r) ==
  /\ ~failed[r] => store[r] > 0 /\ hist[r][store[r]] \in FINISHED
  /\ \A u \in Threads :
       task[u].run = r /\ Reaches(u) => hist[r][task[u].snap] \in FINISHED

\* That is so once the end is audited, and from the moment the auditing thread has
\* dealt with its write.
AuditInv ==
  \A r \in Runs :
    audited[r] = 1 \/ (\E t \in Threads : Ending(t, r) /\ pc[t] = "return") => RowEnded(r)

IInv ==
  /\ LockInv /\ VersionInv /\ CreateInv /\ SnapInv /\ StatusInv
  /\ FinalStays /\ SkipInv /\ EndInv /\ AuditInv
=============================================================================
