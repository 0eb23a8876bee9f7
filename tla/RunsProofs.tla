----------------------------- MODULE RunsProofs -----------------------------
(***************************************************************************)
(* What is proved of the runs the app keeps: of the run registry, for any  *)
(* number of runs, threads, updates and restarts, and of a validation and  *)
(* a run of query pairs, for any migration and whatever happens to its     *)
(* target.                                                                 *)
(***************************************************************************)
EXTENDS RunRegistry, Validation, FiniteSetTheorems, WellFoundedInduction, TLAPS

\* What appending one entry does to a history: the facts about sequences that
\* every step of the proofs below rests on.
LEMMA AppendFacts ==
  ASSUME NEW S, NEW h \in Seq(S), NEW e \in S
  PROVE  /\ Append(h, e) \in Seq(S)
         /\ Append(h, e) # <<>>
         /\ Len(Append(h, e)) = Len(h) + 1
         /\ Append(h, e)[Len(h) + 1] = e
         /\ \A i \in 1 .. Len(h) : Append(h, e)[i] = h[i]
  OBVIOUS

\* The history a run starts with.
LEMMA SingletonFacts ==
  ASSUME NEW S, NEW e \in S
  PROVE  <<e>> \in Seq(S) /\ Len(<<e>>) = 1 /\ <<e>> # <<>> /\ <<e>>[1] = e
  OBVIOUS

\* The registry's fields keep their types.
THEOREM TypeCorrect == Spec => []TypeOK
<1>1. Init => TypeOK
  BY DEF Init, TypeOK, Task, Status
<1>2. TypeOK /\ [Next]_vars => TypeOK'
  <2> SUFFICES ASSUME TypeOK, [Next]_vars PROVE TypeOK'
    OBVIOUS
  <2> USE DEF TypeOK, callerVars
  <2>1. ASSUME NEW t \in Threads, NEW r \in Runs, Create(t, r) PROVE TypeOK'
    <3>1. <<"running">> \in Seq(Status)
      <4>1. "running" \in Status
        BY DEF Status
      <4>2. QED BY <4>1, SingletonFacts
    <3>2. [run |-> r, version |-> version[r] + 1, snap |-> 0, kind |-> "create"] \in Task
      <4>1. version[r] + 1 \in Nat
        OBVIOUS
      <4>2. QED BY ONLY <4>1, r \in Runs DEF Task
    <3>3. hist' \in [Runs -> Seq(Status)] /\ task' \in [Threads -> Task]
      BY <2>1, <3>1, <3>2 DEF Create
    <3>4. QED BY <2>1, <3>3 DEF Create
  <2>2. ASSUME NEW t \in Threads, Copy(t) PROVE TypeOK'
    <3>1. [task[t] EXCEPT !.snap = Len(hist[task[t].run])] \in Task
      <4>1. task[t].run \in Runs
        BY DEF Task
      <4>2. Len(hist[task[t].run]) \in Nat
        BY <4>1
      <4>3. QED BY <4>2 DEF Task
    <3>2. QED BY <2>2, <3>1 DEF Copy
  <2>3. ASSUME NEW t \in Threads, NEW r \in Runs, NEW s \in Status, Mutate(t, r, s)
        PROVE /\ hist' \in [Runs -> Seq(Status)]
              /\ now' \in Nat /\ mem' \subseteq Runs /\ published' \subseteq Runs
              /\ written' \in [Runs -> Nat] /\ writeLock' \in Threads \cup {NoThread}
              /\ store' \in [Runs -> Nat] /\ failed' \in [Runs -> BOOLEAN]
              /\ audited' \in [Runs -> Nat]
    <3>1. Append(hist[r], s) \in Seq(Status)
      BY AppendFacts
    <3>2. QED BY <2>3, <3>1 DEF Mutate
  <2>4. ASSUME NEW t \in Threads, NEW r \in Runs, NEW s \in Status, UpdateThrottled(t, r, s)
        PROVE TypeOK'
    BY <2>3, <2>4 DEF UpdateThrottled
  <2>5. ASSUME NEW t \in Threads, NEW r \in Runs, NEW s \in Status, UpdateDue(t, r, s)
        PROVE TypeOK'
    <3>1. Len(hist[r]) + 1 \in Nat
      OBVIOUS
    <3>2. /\ version[r] + 1 \in Nat
          /\ (IF s # Current(r) /\ s \in FINISHED THEN "finish" ELSE "update")
               \in {"create", "update", "finish"}
      OBVIOUS
    <3>3. [run |-> r, version |-> version[r] + 1, snap |-> Len(hist[r]) + 1,
           kind |-> IF s # Current(r) /\ s \in FINISHED THEN "finish" ELSE "update"] \in Task
      BY <3>1, <3>2 DEF Task
    <3>4. QED BY <2>3, <2>5, <3>3 DEF UpdateDue
  <2>6. ASSUME NEW t \in Threads, PersistSkip(t) PROVE TypeOK'
    BY <2>6 DEF PersistSkip
  <2>7. ASSUME NEW t \in Threads, PersistClaim(t) PROVE TypeOK'
    BY <2>7 DEF PersistClaim, Task
  <2>8. ASSUME NEW t \in Threads, NEW ok \in BOOLEAN, Save(t, ok) PROVE TypeOK'
    BY <2>8 DEF Save, Task
  <2>9. ASSUME NEW t \in Threads, Return(t) PROVE TypeOK'
    <3>1. task[t].run \in Runs /\ audited[task[t].run] + 1 \in Nat
      BY DEF Task
    <3>2. QED BY <2>9, <3>1 DEF Return
  <2>10. CASE Tick
    BY <2>10 DEF Tick
  <2>11. CASE Restart
    BY <2>11 DEF Restart
  <2>12. CASE UNCHANGED vars
    BY <2>12 DEF vars
  <2>13. QED
    BY <2>1, <2>2, <2>4, <2>5, <2>6, <2>7, <2>8, <2>9, <2>10, <2>11, <2>12 DEF Next, ThreadStep
<1>3. QED
  BY <1>1, <1>2, PTL DEF Spec

-----------------------------------------------------------------------------
(***************************************************************************)
(* What each action does, entry by entry.  The invariance proofs below use *)
(* these facts instead of the EXCEPTs and the sequences of the actions.    *)
(***************************************************************************)

\* The types of the fields the proofs look into.
LEMMA Types ==
  ASSUME TypeOK
  PROVE  /\ \A u \in Threads : /\ task[u].run \in Runs
                               /\ task[u].version \in Nat
                               /\ task[u].snap \in Nat
                               /\ task[u].kind \in {"create", "update", "finish"}
         /\ \A r \in Runs : /\ version[r] \in Nat /\ written[r] \in Nat /\ store[r] \in Nat
                            /\ Len(hist[r]) \in Nat
                            /\ hist[r] = <<>> <=> Len(hist[r]) = 0
         /\ mem \subseteq Runs
  BY DEF TypeOK, Task

\* create() starts a history, takes a version and changes no other run or thread.
LEMMA CreateEffect ==
  ASSUME TypeOK, NEW t \in Threads, NEW r \in Runs, Create(t, r)
  PROVE  /\ pc[t] = "idle" /\ hist[r] = <<>>
         /\ hist'[r] # <<>> /\ Len(hist'[r]) = 1 /\ hist'[r][1] = "running"
         /\ \A q \in Runs : q # r => hist'[q] = hist[q]
         /\ mem' = mem \cup {r}
         /\ version'[r] = version[r] + 1
         /\ \A q \in Runs : q # r => version'[q] = version[q]
         /\ task'[t].run = r /\ task'[t].version = version[r] + 1 /\ task'[t].kind = "create"
         /\ pc'[t] = "copy"
         /\ \A u \in Threads : u # t => task'[u] = task[u] /\ pc'[u] = pc[u]
         /\ UNCHANGED <<published, written, writeLock, store, failed, audited>>
<1>1. hist'[r] = <<"running">>
  BY DEF Create, TypeOK
<1>2. hist'[r] # <<>> /\ Len(hist'[r]) = 1 /\ hist'[r][1] = "running"
  BY <1>1, SingletonFacts
<1>3. \A u \in Threads : u # t => task'[u] = task[u] /\ pc'[u] = pc[u]
  BY DEF Create, TypeOK
<1>4. QED
  BY <1>2, <1>3 DEF Create, TypeOK

\* create() copies the newest entry of the run's history.
LEMMA CopyEffect ==
  ASSUME TypeOK, NEW t \in Threads, Copy(t)
  PROVE  /\ pc[t] = "copy" /\ pc'[t] = "persist"
         /\ task'[t].run = task[t].run /\ task'[t].version = task[t].version
         /\ task'[t].kind = task[t].kind
         /\ task'[t].snap = Len(hist[task[t].run])
         /\ \A u \in Threads : u # t => task'[u] = task[u] /\ pc'[u] = pc[u]
         /\ UNCHANGED <<hist, mem, published, version, written, writeLock, store, failed, audited>>
  BY DEF Copy, TypeOK, Task, callerVars

\* update() adds one entry to the history of one published run.
LEMMA MutateEffect ==
  ASSUME TypeOK, NEW t \in Threads, NEW r \in Runs, NEW s \in Status, Mutate(t, r, s)
  PROVE  /\ pc[t] = "idle" /\ r \in mem /\ r \in published /\ s \in Successors(Current(r))
         /\ hist'[r] # <<>> /\ Len(hist'[r]) = Len(hist[r]) + 1
         /\ hist'[r][Len(hist[r]) + 1] = s
         /\ \A i \in 1 .. Len(hist[r]) : hist'[r][i] = hist[r][i]
         /\ \A q \in Runs : q # r => hist'[q] = hist[q]
         /\ UNCHANGED <<mem, published, written, writeLock, store, failed, audited>>
<1>1. hist'[r] = Append(hist[r], s) /\ hist[r] \in Seq(Status)
  BY DEF Mutate, TypeOK
<1>2. \A q \in Runs : q # r => hist'[q] = hist[q]
  BY DEF Mutate, TypeOK
<1>3. QED
  BY <1>1, <1>2, AppendFacts DEF Mutate

\* A due update() takes the next version and a snapshot of its own entry.
LEMMA DueEffect ==
  ASSUME TypeOK, NEW t \in Threads, NEW r \in Runs, NEW s \in Status, UpdateDue(t, r, s)
  PROVE  /\ version'[r] = version[r] + 1
         /\ \A q \in Runs : q # r => version'[q] = version[q]
         /\ task'[t].run = r /\ task'[t].version = version[r] + 1
         /\ task'[t].snap = Len(hist[r]) + 1 /\ task'[t].kind # "create"
         /\ task'[t].kind = "finish" => s # Current(r) /\ s \in FINISHED
         /\ pc'[t] = "persist"
         /\ \A u \in Threads : u # t => task'[u] = task[u] /\ pc'[u] = pc[u]
<1>1. \A u \in Threads : u # t => task'[u] = task[u] /\ pc'[u] = pc[u]
  BY DEF UpdateDue, TypeOK
<1>2. QED
  BY <1>1 DEF UpdateDue, TypeOK

\* The write lock goes to a version newer than any written.
LEMMA ClaimEffect ==
  ASSUME TypeOK, NEW t \in Threads, PersistClaim(t)
  PROVE  /\ pc[t] = "persist" /\ pc'[t] = "save" /\ writeLock = NoThread /\ writeLock' = t
         /\ written[task[t].run] < task[t].version
         /\ written'[task[t].run] = task[t].version
         /\ \A q \in Runs : q # task[t].run => written'[q] = written[q]
         /\ \A u \in Threads : u # t => pc'[u] = pc[u]
         /\ UNCHANGED <<hist, mem, published, version, task, store, failed, audited>>
  BY Types DEF PersistClaim, TypeOK, callerVars

\* A version older than one written is dropped and nothing else changes.
LEMMA SkipEffect ==
  ASSUME TypeOK, NEW t \in Threads, PersistSkip(t)
  PROVE  /\ pc[t] = "persist" /\ pc'[t] = "return"
         /\ written[task[t].run] >= task[t].version
         /\ \A u \in Threads : u # t => pc'[u] = pc[u]
         /\ writeLock = NoThread
         /\ UNCHANGED <<hist, mem, published, version, written, writeLock, task, store, failed,
                        audited>>
  BY DEF PersistSkip, TypeOK, callerVars

\* A save moves the row to the thread's snapshot or fails, and frees the lock.
LEMMA SaveEffect ==
  ASSUME TypeOK, NEW t \in Threads, NEW ok \in BOOLEAN, Save(t, ok)
  PROVE  /\ pc[t] = "save" /\ pc'[t] = "return" /\ writeLock' = NoThread
         /\ \/ store' = store /\ failed'[task[t].run]
            \/ store'[task[t].run] = task[t].snap /\ ~failed'[task[t].run]
         /\ \A q \in Runs : q # task[t].run => store'[q] = store[q] /\ failed'[q] = failed[q]
         /\ \A u \in Threads : u # t => pc'[u] = pc[u]
         /\ UNCHANGED <<hist, mem, published, version, written, task, audited>>
<1>1. task[t].run \in Runs
  BY Types
<1>2. CASE ok
  BY <1>1, <1>2 DEF Save, TypeOK, callerVars
<1>3. CASE ~ok
  BY <1>1, <1>3 DEF Save, TypeOK, callerVars
<1>4. QED
  BY <1>2, <1>3

\* The end of create() publishes the run; that of an update() that ended the run audits it.
LEMMA ReturnEffect ==
  ASSUME TypeOK, NEW t \in Threads, Return(t)
  PROVE  /\ pc[t] = "return" /\ pc'[t] = "idle"
         /\ published' = published \/ published' = published \cup {task[t].run}
         /\ task[t].kind = "create" => task[t].run \in published'
         /\ task[t].kind # "create" => published' = published
         /\ task[t].kind = "finish" => audited'[task[t].run] = audited[task[t].run] + 1
         /\ task[t].kind # "finish" => audited' = audited
         /\ \A q \in Runs : q # task[t].run => audited'[q] = audited[q]
         /\ \A u \in Threads : u # t => pc'[u] = pc[u]
         /\ UNCHANGED <<hist, mem, version, written, writeLock, task, store, failed>>
<1>1. task[t].run \in Runs
  BY Types
<1>2. QED BY <1>1 DEF Return, TypeOK

\* A restart empties the memory and leaves the rows.
LEMMA RestartEffect ==
  ASSUME Restart
  PROVE  /\ mem' = {} /\ writeLock' = NoThread
         /\ \A r \in Runs : version'[r] = 0 /\ written'[r] = 0
         /\ \A u \in Threads : pc'[u] = "idle"
         /\ UNCHANGED <<hist, published, task, store, failed, audited>>
  BY DEF Restart

-----------------------------------------------------------------------------
(***************************************************************************)
(* Each part of IInv is preserved by every step.                           *)
(***************************************************************************)

\* A step keeps the write lock with the one thread that saves.
LEMMA LockStep ==
  ASSUME TypeOK, LockInv, [Next]_vars
  PROVE  LockInv'
<1> USE NoThreadAssumption, Types DEF LockInv
<1>1. ASSUME NEW t \in Threads, NEW r \in Runs, Create(t, r) PROVE LockInv'
  BY <1>1, CreateEffect
<1>2. ASSUME NEW t \in Threads, Copy(t) PROVE LockInv'
  BY <1>2, CopyEffect
<1>3. ASSUME NEW t \in Threads, NEW r \in Runs, NEW s \in Status, UpdateThrottled(t, r, s)
      PROVE LockInv'
  BY <1>3, MutateEffect DEF UpdateThrottled
<1>4. ASSUME NEW t \in Threads, NEW r \in Runs, NEW s \in Status, UpdateDue(t, r, s)
      PROVE LockInv'
  <2>1. Mutate(t, r, s)
    BY <1>4 DEF UpdateDue
  <2>2. QED BY <1>4, <2>1, MutateEffect, DueEffect
<1>5. ASSUME NEW t \in Threads, PersistSkip(t) PROVE LockInv'
  BY <1>5, SkipEffect
<1>6. ASSUME NEW t \in Threads, PersistClaim(t) PROVE LockInv'
  BY <1>6, ClaimEffect
<1>7. ASSUME NEW t \in Threads, NEW ok \in BOOLEAN, Save(t, ok) PROVE LockInv'
  BY <1>7, SaveEffect
<1>8. ASSUME NEW t \in Threads, Return(t) PROVE LockInv'
  BY <1>8, ReturnEffect
<1>9. CASE Tick
  BY <1>9 DEF Tick
<1>10. CASE Restart
  BY <1>10, RestartEffect
<1>11. CASE UNCHANGED vars
  BY <1>11 DEF vars
<1>12. QED
  BY <1>1, <1>2, <1>3, <1>4, <1>5, <1>6, <1>7, <1>8, <1>9, <1>10, <1>11 DEF Next, ThreadStep

\* A step hands out a version only once.
LEMMA VersionStep ==
  ASSUME TypeOK, LockInv, VersionInv, CreateInv, [Next]_vars
  PROVE  VersionInv'
<1> USE Types DEF LockInv, VersionInv, CreateInv, Active
<1>1. ASSUME NEW t \in Threads, NEW r \in Runs, Create(t, r) PROVE VersionInv'
  <2>1. \A u \in Threads : Active(u) => task[u].run # r
    BY <1>1, CreateEffect
  <2>2. \A u \in Threads : u # t => task'[u] = task[u] /\ (Active(u)' <=> Active(u))
    BY <1>1, CreateEffect
  <2>3. /\ task'[t].run = r /\ task'[t].version = version'[r] /\ version'[r] = version[r] + 1
        /\ mem' = mem \cup {r} /\ written' = written
        /\ \A q \in Runs : q # r => version'[q] = version[q]
    BY <1>1, CreateEffect
  <2>4. \A q \in Runs : written'[q] <= version'[q]
    BY <2>3
  <2>5. ASSUME NEW u \in Threads, Active(u)'
        PROVE  task'[u].run \in mem' /\ task'[u].version \in 1 .. version'[task'[u].run]
    BY <2>1, <2>2, <2>3, <2>5
  <2>6. ASSUME NEW u \in Threads, NEW v \in Threads, Active(u)', Active(v)', u # v,
               task'[u].run = task'[v].run
        PROVE  task'[u].version # task'[v].version
    BY <2>1, <2>2, <2>3, <2>6
  <2>7. QED BY <2>4, <2>5, <2>6
<1>2. ASSUME NEW t \in Threads, Copy(t) PROVE VersionInv'
  <2>1. \A u \in Threads : Active(u)' =>
           Active(u) /\ task'[u].run = task[u].run /\ task'[u].version = task[u].version
    BY <1>2, CopyEffect
  <2>2. UNCHANGED <<mem, version, written>>
    BY <1>2, CopyEffect
  <2>3. QED BY <2>1, <2>2
<1>3. ASSUME NEW t \in Threads, NEW r \in Runs, NEW s \in Status, UpdateThrottled(t, r, s)
      PROVE VersionInv'
  BY <1>3, MutateEffect DEF UpdateThrottled
<1>4. ASSUME NEW t \in Threads, NEW r \in Runs, NEW s \in Status, UpdateDue(t, r, s)
      PROVE VersionInv'
  <2>1. Mutate(t, r, s)
    BY <1>4 DEF UpdateDue
  <2>2. ~Active(t) /\ \A u \in Threads : u # t => task'[u] = task[u] /\ (Active(u)' <=> Active(u))
    BY <1>4, <2>1, MutateEffect, DueEffect
  <2>3. /\ task'[t].run = r /\ task'[t].version = version'[r] /\ version'[r] = version[r] + 1
        /\ \A q \in Runs : q # r => version'[q] = version[q]
        /\ r \in mem /\ UNCHANGED <<mem, written>>
    BY <1>4, <2>1, MutateEffect, DueEffect
  <2>4. \A q \in Runs : written'[q] <= version'[q]
    BY <2>3
  <2>5. ASSUME NEW u \in Threads, Active(u)'
        PROVE  task'[u].run \in mem' /\ task'[u].version \in 1 .. version'[task'[u].run]
    BY <2>2, <2>3, <2>5
  <2>6. ASSUME NEW u \in Threads, NEW v \in Threads, Active(u)', Active(v)', u # v,
               task'[u].run = task'[v].run
        PROVE  task'[u].version # task'[v].version
    BY <2>2, <2>3, <2>6
  <2>7. QED BY <2>4, <2>5, <2>6
<1>5. ASSUME NEW t \in Threads, PersistSkip(t) PROVE VersionInv'
  BY <1>5, SkipEffect
<1>6. ASSUME NEW t \in Threads, PersistClaim(t) PROVE VersionInv'
  <2>1. \A u \in Threads : Active(u)' <=> Active(u)
    BY <1>6, ClaimEffect
  <2>2. UNCHANGED <<mem, version, task>>
    BY <1>6, ClaimEffect
  <2>3. \A q \in Runs : written'[q] <= version'[q]
    BY <1>6, ClaimEffect
  <2>4. QED BY <2>1, <2>2, <2>3
<1>7. ASSUME NEW t \in Threads, NEW ok \in BOOLEAN, Save(t, ok) PROVE VersionInv'
  BY <1>7, SaveEffect
<1>8. ASSUME NEW t \in Threads, Return(t) PROVE VersionInv'
  BY <1>8, ReturnEffect
<1>9. CASE Tick
  BY <1>9 DEF Tick
<1>10. CASE Restart
  BY <1>10, RestartEffect
<1>11. CASE UNCHANGED vars
  BY <1>11 DEF vars
<1>12. QED
  BY <1>1, <1>2, <1>3, <1>4, <1>5, <1>6, <1>7, <1>8, <1>9, <1>10, <1>11 DEF Next, ThreadStep

\* A step keeps a run private to its creator until create() returns.
LEMMA CreateStep ==
  ASSUME TypeOK, VersionInv, CreateInv, [Next]_vars
  PROVE  CreateInv'
<1> USE Types DEF VersionInv, CreateInv, Active
<1>1. ASSUME NEW t \in Threads, NEW r \in Runs, Create(t, r) PROVE CreateInv'
  <2>1. \A u \in Threads : pc[u] # "idle" => task[u].run # r
    BY <1>1, CreateEffect
  <2>2. /\ \A u \in Threads : u # t => task'[u] = task[u] /\ pc'[u] = pc[u]
        /\ task'[t].run = r /\ task'[t].kind = "create"
        /\ hist[r] = <<>> /\ hist'[r] # <<>> /\ \A q \in Runs : q # r => hist'[q] = hist[q]
        /\ mem' = mem \cup {r} /\ UNCHANGED <<published, store>>
    BY <1>1, CreateEffect
  <2>3. r \notin published /\ store[r] = 0
    BY <2>2
  <2>4. \A q \in Runs : hist'[q] = <<>> => q \notin mem' /\ q \notin published' /\ store'[q] = 0
    BY <2>2
  <2>5. ASSUME NEW u \in Threads, pc'[u] # "idle"
        PROVE  /\ hist'[task'[u].run] # <<>>
               /\ task'[u].kind = "create" <=> task'[u].run \notin published'
               /\ pc'[u] = "copy" => task'[u].kind = "create" /\ store'[task'[u].run] = 0
    BY <2>1, <2>2, <2>3, <2>5
  <2>6. ASSUME NEW u \in Threads, NEW v \in Threads, pc'[u] # "idle", pc'[v] # "idle", u # v,
               task'[u].run = task'[v].run
        PROVE  task'[u].kind # "create"
    BY <2>1, <2>2, <2>6
  <2>7. QED BY <2>4, <2>5, <2>6
<1>2. ASSUME NEW t \in Threads, Copy(t) PROVE CreateInv'
  <2>1. \A u \in Threads : /\ pc'[u] = "idle" <=> pc[u] = "idle"
                           /\ pc'[u] = "copy" => pc[u] = "copy"
                           /\ task'[u].run = task[u].run /\ task'[u].kind = task[u].kind
    BY <1>2, CopyEffect
  <2>2. UNCHANGED <<hist, mem, published, store>>
    BY <1>2, CopyEffect
  <2>3. QED BY <2>1, <2>2
<1>3. ASSUME NEW t \in Threads, NEW r \in Runs, NEW s \in Status, UpdateThrottled(t, r, s)
      PROVE CreateInv'
  BY <1>3, MutateEffect DEF UpdateThrottled
<1>4. ASSUME NEW t \in Threads, NEW r \in Runs, NEW s \in Status, UpdateDue(t, r, s)
      PROVE CreateInv'
  <2>1. Mutate(t, r, s)
    BY <1>4 DEF UpdateDue
  <2>2. pc[t] = "idle" /\ \A u \in Threads : u # t => task'[u] = task[u] /\ pc'[u] = pc[u]
    BY <1>4, <2>1, MutateEffect, DueEffect
  <2>3. /\ task'[t].run = r /\ task'[t].kind # "create" /\ pc'[t] = "persist"
        /\ hist'[r] # <<>> /\ \A q \in Runs : q # r => hist'[q] = hist[q]
        /\ r \in published /\ UNCHANGED <<mem, published, store>>
    BY <1>4, <2>1, MutateEffect, DueEffect
  <2>4. \A q \in Runs : hist'[q] = <<>> => q \notin mem' /\ q \notin published' /\ store'[q] = 0
    BY <2>3
  <2>5. ASSUME NEW u \in Threads, pc'[u] # "idle"
        PROVE  /\ hist'[task'[u].run] # <<>>
               /\ task'[u].kind = "create" <=> task'[u].run \notin published'
               /\ pc'[u] = "copy" => task'[u].kind = "create" /\ store'[task'[u].run] = 0
    BY <2>2, <2>3, <2>5
  <2>6. ASSUME NEW u \in Threads, NEW v \in Threads, pc'[u] # "idle", pc'[v] # "idle", u # v,
               task'[u].run = task'[v].run
        PROVE  task'[u].kind # "create"
    BY <2>2, <2>3, <2>6
  <2>7. QED BY <2>4, <2>5, <2>6
<1>5. ASSUME NEW t \in Threads, PersistSkip(t) PROVE CreateInv'
  BY <1>5, SkipEffect
<1>6. ASSUME NEW t \in Threads, PersistClaim(t) PROVE CreateInv'
  BY <1>6, ClaimEffect
<1>7. ASSUME NEW t \in Threads, NEW ok \in BOOLEAN, Save(t, ok) PROVE CreateInv'
  <2>1. /\ task[t].run \in Runs /\ task[t].snap \in Nat
        /\ pc[t] = "save" /\ pc'[t] = "return" /\ UNCHANGED <<hist, mem, published, task>>
        /\ \A u \in Threads : u # t => pc'[u] = pc[u]
        /\ \A q \in Runs : q # task[t].run => store'[q] = store[q]
    BY <1>7, SaveEffect
  <2>2. hist[task[t].run] # <<>>
    BY <2>1
  <2>3. \A q \in Runs : hist'[q] = <<>> => q \notin mem' /\ q \notin published' /\ store'[q] = 0
    BY <2>1, <2>2
  <2>4. ASSUME NEW u \in Threads, pc'[u] # "idle"
        PROVE  /\ hist'[task'[u].run] # <<>>
               /\ task'[u].kind = "create" <=> task'[u].run \notin published'
    BY <2>1, <2>4
  <2>5. ASSUME NEW u \in Threads, pc'[u] = "copy"
        PROVE  task'[u].kind = "create" /\ store'[task'[u].run] = 0
    <3>1. u # t /\ pc[u] = "copy" /\ task[u].kind = "create"
      BY <2>1, <2>5
    <3>2. task[u].run # task[t].run
      BY <2>1, <3>1
    <3>3. QED BY <2>1, <2>5, <3>1, <3>2
  <2>6. ASSUME NEW u \in Threads, NEW v \in Threads, pc'[u] # "idle", pc'[v] # "idle", u # v,
               task'[u].run = task'[v].run
        PROVE  task'[u].kind # "create"
    BY <2>1, <2>6
  <2>7. QED BY <2>3, <2>4, <2>5, <2>6
<1>8. ASSUME NEW t \in Threads, Return(t) PROVE CreateInv'
  BY <1>8, ReturnEffect
<1>9. CASE Tick
  BY <1>9 DEF Tick
<1>10. CASE Restart
  BY <1>10, RestartEffect
<1>11. CASE UNCHANGED vars
  BY <1>11 DEF vars
<1>12. QED
  BY <1>1, <1>2, <1>3, <1>4, <1>5, <1>6, <1>7, <1>8, <1>9, <1>10, <1>11 DEF Next, ThreadStep

\* A step keeps the snapshots in the order of their versions, and the row behind them.
LEMMA SnapStep ==
  ASSUME TypeOK, LockInv, VersionInv, CreateInv, SnapInv, [Next]_vars
  PROVE  SnapInv'
<1> USE Types DEF LockInv, VersionInv, CreateInv, SnapInv, Active, Pending
<1>1. ASSUME NEW t \in Threads, NEW r \in Runs, Create(t, r) PROVE SnapInv'
  <2>1. \A u \in Threads : Pending(u)' => Pending(u) /\ task'[u] = task[u] /\ task[u].run # r
    BY <1>1, CreateEffect
  <2>2. /\ store[r] = 0 /\ Len(hist'[r]) = 1 /\ \A q \in Runs : q # r => hist'[q] = hist[q]
        /\ \A u \in Threads : pc'[u] = "save" => pc[u] = "save"
        /\ UNCHANGED <<store, written>>
    BY <1>1, CreateEffect
  <2>10. \A q \in Runs : store'[q] <= Len(hist'[q])
    BY <2>2
  <2>11. ASSUME NEW u \in Threads, Pending(u)'
        PROVE  /\ task'[u].snap \in 1 .. Len(hist'[task'[u].run])
               /\ pc'[u] = "save" \/ task'[u].version > written'[task'[u].run]
                    => store'[task'[u].run] <= task'[u].snap
    BY <2>1, <2>2, <2>11
  <2>12. ASSUME NEW u \in Threads, NEW v \in Threads, Pending(u)', Pending(v)',
               task'[u].run = task'[v].run, task'[u].version < task'[v].version
        PROVE  task'[u].snap <= task'[v].snap
    BY <2>1, <2>2, <2>12
  <2>13. QED BY <2>10, <2>11, <2>12
<1>2. ASSUME NEW t \in Threads, Copy(t) PROVE SnapInv'
  <2>1. \A u \in Threads : Pending(u)' =>
           u = t \/ (Pending(u) /\ task'[u] = task[u] /\ task[u].run # task[t].run)
    BY <1>2, CopyEffect
  <2>2. /\ store[task[t].run] = 0 /\ hist[task[t].run] # <<>>
        /\ task'[t].run = task[t].run /\ task'[t].snap = Len(hist[task[t].run])
        /\ \A u \in Threads : pc'[u] = "save" => pc[u] = "save"
        /\ UNCHANGED <<hist, store, written>>
    BY <1>2, CopyEffect
  <2>10. \A q \in Runs : store'[q] <= Len(hist'[q])
    BY <2>2
  <2>11. ASSUME NEW u \in Threads, Pending(u)'
        PROVE  /\ task'[u].snap \in 1 .. Len(hist'[task'[u].run])
               /\ pc'[u] = "save" \/ task'[u].version > written'[task'[u].run]
                    => store'[task'[u].run] <= task'[u].snap
    BY <2>1, <2>2, <2>11
  <2>12. ASSUME NEW u \in Threads, NEW v \in Threads, Pending(u)', Pending(v)',
               task'[u].run = task'[v].run, task'[u].version < task'[v].version
        PROVE  task'[u].snap <= task'[v].snap
    BY <2>1, <2>2, <2>12
  <2>13. QED BY <2>10, <2>11, <2>12
<1>3. ASSUME NEW t \in Threads, NEW r \in Runs, NEW s \in Status, UpdateThrottled(t, r, s)
      PROVE SnapInv'
  <2>1. /\ Len(hist'[r]) = Len(hist[r]) + 1 /\ \A q \in Runs : q # r => hist'[q] = hist[q]
        /\ UNCHANGED <<store, written, task, pc>>
    BY <1>3, MutateEffect DEF UpdateThrottled
  <2>2. QED BY <2>1
<1>4. ASSUME NEW t \in Threads, NEW r \in Runs, NEW s \in Status, UpdateDue(t, r, s)
      PROVE SnapInv'
  <2>1. Mutate(t, r, s)
    BY <1>4 DEF UpdateDue
  <2>2. \A u \in Threads : Pending(u)' =>
           u = t \/ (Pending(u) /\ task'[u] = task[u] /\ (pc'[u] = "save" => pc[u] = "save"))
    BY <1>4, DueEffect
  <2>3. /\ task'[t].run = r /\ task'[t].version = version[r] + 1
        /\ task'[t].snap = Len(hist[r]) + 1 /\ pc'[t] = "persist"
    BY <1>4, DueEffect
  <2>31. /\ Len(hist'[r]) = Len(hist[r]) + 1 /\ \A q \in Runs : q # r => hist'[q] = hist[q]
         /\ UNCHANGED <<store, written>>
    BY <2>1, MutateEffect
  <2>4. \A u \in Threads : Pending(u) /\ task[u].run = r =>
           task[u].version <= version[r] /\ task[u].snap <= Len(hist[r])
    OBVIOUS
  <2>5. \A q \in Runs : store'[q] <= Len(hist'[q])
    BY <2>31
  <2>6. ASSUME NEW u \in Threads, Pending(u)'
        PROVE  /\ task'[u].snap \in 1 .. Len(hist'[task'[u].run])
               /\ pc'[u] = "save" \/ task'[u].version > written'[task'[u].run]
                    => store'[task'[u].run] <= task'[u].snap
    <3>1. CASE u = t
      BY <2>3, <2>31, <3>1
    <3>2. CASE u # t
      <4>1. Pending(u) /\ task'[u] = task[u] /\ (pc'[u] = "save" => pc[u] = "save")
        BY <2>2, <2>6, <3>2
      <4>2. task[u].snap \in 1 .. Len(hist'[task[u].run])
        BY <2>31, <4>1
      <4>3. QED BY <2>31, <2>6, <4>1, <4>2
    <3>3. QED BY <3>1, <3>2
  <2>7. ASSUME NEW u \in Threads, NEW v \in Threads, Pending(u)', Pending(v)',
               task'[u].run = task'[v].run, task'[u].version < task'[v].version
        PROVE  task'[u].snap <= task'[v].snap
    <3>1. CASE u = t
      <4>1. task'[v].version > version[r] + 1 /\ task'[v].run = r
        BY <2>3, <2>7, <3>1
      <4>2. v # t
        BY <2>3, <4>1
      <4>3. Pending(v) /\ task'[v] = task[v]
        BY <2>2, <2>7, <4>2
      <4>4. QED BY <2>4, <4>1, <4>3
    <3>2. CASE u # t /\ v = t
      <4>1. Pending(u) /\ task'[u] = task[u] /\ task[u].run = r
        BY <2>2, <2>3, <2>7, <3>2
      <4>2. task[u].snap <= Len(hist[r])
        BY <2>4, <4>1
      <4>3. QED BY <2>3, <3>2, <4>1, <4>2
    <3>3. CASE u # t /\ v # t
      BY <2>2, <2>7, <3>3
    <3>4. QED BY <3>1, <3>2, <3>3
  <2>8. QED BY <2>5, <2>6, <2>7
<1>5. ASSUME NEW t \in Threads, PersistSkip(t) PROVE SnapInv'
  BY <1>5, SkipEffect
<1>6. ASSUME NEW t \in Threads, PersistClaim(t) PROVE SnapInv'
  <2>1. /\ \A u \in Threads : Pending(u)' <=> Pending(u)
        /\ UNCHANGED <<hist, store, task>>
    BY <1>6, ClaimEffect
  <2>2. \A u \in Threads : pc'[u] = "save" => u = t
    BY <1>6, ClaimEffect, NoThreadAssumption
  <2>3. /\ written[task[t].run] < task[t].version /\ written'[task[t].run] = task[t].version
        /\ \A q \in Runs : q # task[t].run => written'[q] = written[q]
        /\ Pending(t)
    BY <1>6, ClaimEffect
  <2>4. QED BY <2>1, <2>2, <2>3
<1>7. ASSUME NEW t \in Threads, NEW ok \in BOOLEAN, Save(t, ok) PROVE SnapInv'
  <2>1. /\ \A u \in Threads : Pending(u)' => Pending(u) /\ u # t /\ pc[u] # "save" /\ pc'[u] # "save"
        /\ Pending(t) /\ written[task[t].run] = task[t].version
        /\ UNCHANGED <<hist, written, task>>
    BY <1>7, SaveEffect
  <2>2. /\ store'[task[t].run] \in {store[task[t].run], task[t].snap}
        /\ \A q \in Runs : q # task[t].run => store'[q] = store[q]
    BY <1>7, SaveEffect
  <2>3. \A q \in Runs : store'[q] <= Len(hist'[q])
    BY <2>1, <2>2
  <2>4. ASSUME NEW u \in Threads, Pending(u)', task'[u].version > written'[task'[u].run]
        PROVE  store'[task'[u].run] <= task'[u].snap
    BY <2>1, <2>2, <2>4
  <2>5. QED BY <2>1, <2>3, <2>4
<1>8. ASSUME NEW t \in Threads, Return(t) PROVE SnapInv'
  BY <1>8, ReturnEffect
<1>9. CASE Tick
  BY <1>9 DEF Tick
<1>10. CASE Restart
  BY <1>10, RestartEffect
<1>11. CASE UNCHANGED vars
  BY <1>11 DEF vars
<1>12. QED
  BY <1>1, <1>2, <1>3, <1>4, <1>5, <1>6, <1>7, <1>8, <1>9, <1>10, <1>11 DEF Next, ThreadStep

\* A step keeps the newest version at the current status, on its way to the row.
LEMMA StatusStep ==
  ASSUME TypeOK, LockInv, VersionInv, CreateInv, SnapInv, StatusInv, [Next]_vars
  PROVE  StatusInv'
<1> USE Types DEF LockInv, VersionInv, CreateInv, SnapInv, StatusInv, NewestIsCurrent,
                  NewestOnItsWay, RowIsCurrent, Active, Pending, Current
<1>1. ASSUME NEW t \in Threads, NEW r \in Runs, Create(t, r) PROVE StatusInv'
  <2>1. \A u \in Threads : Active(u) => task[u].run # r
    BY <1>1, CreateEffect
  <2>2. \A u \in Threads : u # t => task'[u] = task[u] /\ pc'[u] = pc[u]
    BY <1>1, CreateEffect
  <2>3. /\ pc[t] = "idle" /\ pc'[t] = "copy" /\ task'[t].run = r /\ task'[t].version = version'[r]
        /\ version'[r] = version[r] + 1 /\ \A q \in Runs : q # r => version'[q] = version[q]
        /\ \A q \in Runs : q # r => hist'[q] = hist[q]
        /\ mem' = mem \cup {r} /\ UNCHANGED <<written, store, failed>>
    BY <1>1, CreateEffect
  <2>4. NewestIsCurrent'
    BY <2>1, <2>2, <2>3
  <2>5. NewestOnItsWay'
    <3>1. ASSUME NEW q \in mem', q # r PROVE q \in mem
      BY ONLY <2>3, <3>1
    <3>2. QED BY <2>2, <2>3, <3>1
  <2>6. RowIsCurrent'
    <3>1. written'[r] # version'[r]
      BY <2>3
    <3>2. \A u \in Threads : pc'[u] = "save" <=> pc[u] = "save"
      BY <2>2, <2>3
    <3>3. QED BY <2>2, <2>3, <3>1, <3>2
  <2>7. QED BY <2>4, <2>5, <2>6
<1>2. ASSUME NEW t \in Threads, Copy(t) PROVE StatusInv'
  <2>1. /\ pc[t] = "copy" /\ pc'[t] = "persist" /\ task'[t].run = task[t].run
        /\ task'[t].version = task[t].version /\ task'[t].snap = Len(hist[task[t].run])
        /\ \A u \in Threads : u # t => task'[u] = task[u] /\ pc'[u] = pc[u]
        /\ UNCHANGED <<hist, mem, version, written, store, failed>>
    BY <1>2, CopyEffect
  <2>2. NewestIsCurrent'
    BY <2>1
  <2>3. NewestOnItsWay'
    BY <2>1
  <2>4. RowIsCurrent'
    BY <2>1
  <2>5. QED BY <2>2, <2>3, <2>4
<1>3. ASSUME NEW t \in Threads, NEW r \in Runs, NEW s \in Status, UpdateThrottled(t, r, s)
      PROVE StatusInv'
  <2>1. /\ Mutate(t, r, s) /\ s = Current(r) /\ UNCHANGED <<version, pc, task>>
    BY <1>3 DEF UpdateThrottled, Due
  <2>2. /\ r \in mem /\ \A i \in 1 .. Len(hist[r]) : hist'[r][i] = hist[r][i]
        /\ hist'[r][Len(hist'[r])] = s /\ \A q \in Runs : q # r => hist'[q] = hist[q]
        /\ UNCHANGED <<mem, written, store, failed>>
    BY <2>1, MutateEffect
  <2>3. \A q \in mem : Current(q)' = Current(q)
    BY <2>1, <2>2
  <2>4. \A q \in Runs, i \in Nat : i \in 1 .. Len(hist[q]) => hist'[q][i] = hist[q][i]
    BY <2>2
  <2>5. NewestIsCurrent'
    BY <2>1, <2>2, <2>3, <2>4
  <2>6. NewestOnItsWay'
    BY <2>1, <2>2
  <2>7. RowIsCurrent'
    BY <2>1, <2>2, <2>3, <2>4
  <2>8. QED BY <2>5, <2>6, <2>7
<1>4. ASSUME NEW t \in Threads, NEW r \in Runs, NEW s \in Status, UpdateDue(t, r, s)
      PROVE StatusInv'
  <2>1. Mutate(t, r, s)
    BY <1>4 DEF UpdateDue
  <2>2. /\ r \in mem /\ Len(hist'[r]) = Len(hist[r]) + 1
        /\ hist'[r][Len(hist[r]) + 1] = s /\ \A q \in Runs : q # r => hist'[q] = hist[q]
        /\ pc[t] = "idle" /\ UNCHANGED <<mem, written, store, failed>>
    BY <2>1, MutateEffect
  <2>3. /\ version'[r] = version[r] + 1 /\ \A q \in Runs : q # r => version'[q] = version[q]
        /\ task'[t].run = r /\ task'[t].version = version[r] + 1 /\ task'[t].snap = Len(hist[r]) + 1
        /\ pc'[t] = "persist" /\ \A u \in Threads : u # t => task'[u] = task[u] /\ pc'[u] = pc[u]
    BY <1>4, DueEffect
  <2>4. \A u \in Threads : Active(u) /\ task[u].run = r => task[u].version <= version[r]
    OBVIOUS
  <2>5. NewestIsCurrent'
    <3>1. ASSUME NEW q \in mem, q # r, NEW u \in Threads,
                 Pending(u)', task'[u].run = q, task'[u].version = version'[q]
          PROVE  hist'[q][task'[u].snap] = Current(q)'
      <4>1. u # t /\ Pending(u) /\ task'[u] = task[u] /\ q \in Runs
        BY <2>3, <3>1
      <4>2. version'[q] = version[q] /\ hist'[q] = hist[q]
        BY <2>2, <2>3, <3>1, <4>1
      <4>3. QED BY <3>1, <4>1, <4>2
    <3>2. ASSUME NEW u \in Threads,
                 Pending(u)', task'[u].run = r, task'[u].version = version'[r]
          PROVE  hist'[r][task'[u].snap] = Current(r)'
      <4>1. u = t
        BY <2>2, <2>3, <2>4, <3>2
      <4>2. QED BY <2>2, <2>3, <4>1
    <3>3. QED BY <2>2, <3>1, <3>2
  <2>6. NewestOnItsWay'
    <3>1. ASSUME NEW q \in mem, q # r, written[q] # version[q]
          PROVE  \E u \in Threads : Active(u)' /\ task'[u].run = q /\ task'[u].version = version'[q]
      <4>1. PICK u \in Threads : Active(u) /\ task[u].run = q /\ task[u].version = version[q]
        BY <3>1
      <4>2. u # t /\ q \in Runs
        BY <2>2, <4>1
      <4>3. QED BY <2>3, <3>1, <4>1, <4>2
    <3>2. Active(t)' /\ task'[t].run = r /\ task'[t].version = version'[r]
      BY <2>3
    <3>3. \A q \in mem : q # r => version'[q] = version[q]
      BY <2>3
    <3>4. QED BY <2>2, <3>1, <3>2, <3>3
  <2>7. RowIsCurrent'
    <3>1. written'[r] # version'[r]
      BY <2>2, <2>3
    <3>2. \A u \in Threads : pc'[u] = "save" => pc[u] = "save" /\ u # t
      BY <2>2, <2>3
    <3>3. \A u \in Threads : pc[u] = "save" => pc'[u] = "save" /\ task'[u] = task[u]
      BY <2>2, <2>3
    <3>4. ASSUME NEW q \in mem, written'[q] = version'[q], ~failed'[q],
                 \A u \in Threads : pc'[u] = "save" => task'[u].run # q
          PROVE  store'[q] > 0 /\ hist'[q][store'[q]] = Current(q)'
      <4>1. q # r /\ q \in Runs
        BY <3>1, <3>4
      <4>2. \A u \in Threads : pc[u] = "save" => task[u].run # q
        BY <3>3, <3>4
      <4>3. hist'[q] = hist[q] /\ version'[q] = version[q]
        BY <2>2, <2>3, <4>1
      <4>4. store[q] > 0 /\ hist[q][store[q]] = Current(q)
        BY <2>2, <3>4, <4>2, <4>3
      <4>5. QED BY <2>2, <4>3, <4>4
    <3>5. QED BY <2>2, <3>4
  <2>8. QED BY <2>5, <2>6, <2>7
<1>5. ASSUME NEW t \in Threads, PersistSkip(t) PROVE StatusInv'
  <2>1. /\ written[task[t].run] >= task[t].version /\ pc[t] = "persist" /\ pc'[t] = "return"
        /\ \A u \in Threads : u # t => pc'[u] = pc[u]
        /\ UNCHANGED <<hist, mem, version, written, task, store, failed>>
    BY <1>5, SkipEffect
  <2>2. NewestIsCurrent'
    BY <2>1
  <2>3. NewestOnItsWay'
    BY <2>1
  <2>4. RowIsCurrent'
    BY <2>1
  <2>5. QED BY <2>2, <2>3, <2>4
<1>6. ASSUME NEW t \in Threads, PersistClaim(t) PROVE StatusInv'
  <2>1. /\ pc[t] = "persist" /\ pc'[t] = "save" /\ \A u \in Threads : u # t => pc'[u] = pc[u]
        /\ written[task[t].run] < task[t].version /\ written'[task[t].run] = task[t].version
        /\ \A q \in Runs : q # task[t].run => written'[q] = written[q]
        /\ UNCHANGED <<hist, mem, version, task, store, failed>>
    BY <1>6, ClaimEffect
  <2>2. \A u \in Threads : /\ Active(u)' <=> Active(u)
                           /\ Pending(u)' <=> Pending(u)
    BY <2>1
  <2>3. NewestIsCurrent'
    BY <2>1, <2>2
  <2>4. NewestOnItsWay'
    BY <2>1, <2>2
  <2>5. RowIsCurrent'
    BY <2>1, <2>2
  <2>6. QED BY <2>3, <2>4, <2>5
<1>7. ASSUME NEW t \in Threads, NEW ok \in BOOLEAN, Save(t, ok) PROVE StatusInv'
  <2>1. /\ pc[t] = "save" /\ pc'[t] = "return" /\ \A u \in Threads : u # t => pc'[u] = pc[u]
        /\ UNCHANGED <<hist, mem, version, written, task>>
    BY <1>7, SaveEffect
  <2>2. /\ failed'[task[t].run] \/ store'[task[t].run] = task[t].snap
        /\ \A q \in Runs : q # task[t].run => store'[q] = store[q] /\ failed'[q] = failed[q]
    BY <1>7, SaveEffect
  <2>3. \A u \in Threads : pc[u] = "save" => u = t
    BY <2>1
  <2>4. NewestIsCurrent'
    BY <2>1
  <2>5. NewestOnItsWay'
    BY <2>1
  <2>6. RowIsCurrent'
    BY <2>1, <2>2, <2>3
  <2>7. QED BY <2>4, <2>5, <2>6
<1>8. ASSUME NEW t \in Threads, Return(t) PROVE StatusInv'
  <2>1. /\ pc[t] = "return" /\ pc'[t] = "idle" /\ \A u \in Threads : u # t => pc'[u] = pc[u]
        /\ UNCHANGED <<hist, mem, version, written, task, store, failed>>
    BY <1>8, ReturnEffect
  <2>2. NewestIsCurrent'
    BY <2>1
  <2>3. NewestOnItsWay'
    BY <2>1
  <2>4. RowIsCurrent'
    BY <2>1
  <2>5. QED BY <2>2, <2>3, <2>4
<1>9. CASE Tick
  BY <1>9 DEF Tick
<1>10. CASE Restart
  BY <1>10, RestartEffect
<1>11. CASE UNCHANGED vars
  BY <1>11 DEF vars
<1>12. QED
  BY <1>1, <1>2, <1>3, <1>4, <1>5, <1>6, <1>7, <1>8, <1>9, <1>10, <1>11 DEF Next, ThreadStep

\* A step ends no run's history twice.
LEMMA FinalStep ==
  ASSUME TypeOK, CreateInv, FinalStays, [Next]_vars
  PROVE  FinalStays'
<1> USE Types
<1>1. ASSUME hist' = hist PROVE FinalStays'
  BY <1>1 DEF FinalStays
<1>2. ASSUME NEW t \in Threads, NEW r \in Runs, Create(t, r) PROVE FinalStays'
  <2>1. /\ Len(hist'[r]) = 1 /\ hist'[r][1] = "running"
        /\ \A q \in Runs : q # r => hist'[q] = hist[q]
    BY <1>2, CreateEffect
  <2>2. \A i, j \in 1 .. Len(hist'[r]) : i = 1 /\ j = 1
    BY <2>1
  <2>3. QED BY <2>1, <2>2 DEF FinalStays
<1>3. ASSUME NEW t \in Threads, NEW r \in Runs, NEW s \in Status, Mutate(t, r, s)
      PROVE  FinalStays'
  <2>1. /\ Len(hist'[r]) = Len(hist[r]) + 1
        /\ hist'[r][Len(hist[r]) + 1] = s
        /\ \A i \in 1 .. Len(hist[r]) : hist'[r][i] = hist[r][i]
        /\ \A q \in Runs : q # r => hist'[q] = hist[q]
        /\ r \in mem /\ s \in Successors(Current(r))
    BY <1>3, MutateEffect
  <2>2. Len(hist[r]) \in Nat \ {0}
    BY <2>1 DEF CreateInv
  <2>3. Current(r) \in FINISHED => s \in FINISHED
    BY <2>1 DEF Successors
  <2>4. ASSUME NEW i \in 1 .. Len(hist'[r]), NEW j \in 1 .. Len(hist'[r]), i <= j,
               hist'[r][i] \in FINISHED
        PROVE  hist'[r][j] \in FINISHED
    <3>1. CASE j <= Len(hist[r])
      <4>1. i \in 1 .. Len(hist[r]) /\ j \in 1 .. Len(hist[r])
        BY <2>2, <2>4, <3>1
      <4>2. QED BY <2>1, <2>4, <4>1 DEF FinalStays
    <3>2. CASE j = Len(hist[r]) + 1 /\ i <= Len(hist[r])
      <4>1. i \in 1 .. Len(hist[r]) /\ Len(hist[r]) \in 1 .. Len(hist[r])
        BY <2>2, <2>4, <3>2
      <4>2. hist[r][i] \in FINISHED
        BY <2>1, <2>4, <4>1
      <4>3. Current(r) \in FINISHED
        BY <4>1, <4>2 DEF FinalStays, Current
      <4>4. QED BY <2>1, <2>3, <3>2, <4>3
    <3>3. CASE i = Len(hist[r]) + 1
      BY <2>1, <2>2, <2>4, <3>3
    <3>4. QED BY <2>1, <2>2, <2>4, <3>1, <3>2, <3>3
  <2>5. QED BY <2>1, <2>4 DEF FinalStays
<1>4. QED
  BY <1>1, <1>2, <1>3 DEF Next, ThreadStep, Copy, UpdateThrottled, UpdateDue, PersistSkip,
        PersistClaim, Save, Return, Tick, Restart, vars, callerVars

\* A thread that takes a version newer than any written leaves the others alone.
LEMMA NewestIsNotSkipped ==
  ASSUME SkipInv, NEW t \in Threads, pc[t] # "save", pc'[t] # "save",
         written'[task'[t].run] < task'[t].version,
         task'[t].version \in Nat, written'[task'[t].run] \in Nat,
         \A u \in Threads : u # t => task'[u] = task[u] /\ pc'[u] = pc[u],
         UNCHANGED <<written, store, failed>>
  PROVE  SkipInv'
<1>1. \A u \in Threads : pc'[u] = "save" <=> pc[u] = "save"
  OBVIOUS
<1>2. \A u \in Threads : pc[u] = "save" => task'[u] = task[u]
  OBVIOUS
<1>3. ASSUME NEW u \in Threads, pc'[u] = "persist", ~failed'[task'[u].run],
             written'[task'[u].run] >= task'[u].version,
             \A v \in Threads : pc'[v] = "save" => task'[v].run # task'[u].run
      PROVE  store'[task'[u].run] >= task'[u].snap
  <2>1. u # t
    BY <1>3
  <2>2. \A v \in Threads : pc[v] = "save" => task[v].run # task[u].run
    BY <1>1, <1>2, <1>3, <2>1
  <2>3. QED BY <1>3, <2>1, <2>2 DEF SkipInv
<1>4. \A u \in Threads : pc'[u] = "copy" => written'[task'[u].run] < task'[u].version
  BY DEF SkipInv
<1>5. QED BY <1>3, <1>4 DEF SkipInv

\* A step leaves no write behind that will be skipped although the row needs it.
LEMMA SkipStep ==
  ASSUME TypeOK, LockInv, VersionInv, CreateInv, SnapInv, SkipInv, [Next]_vars
  PROVE  SkipInv'
<1> USE Types
<1>1. ASSUME NEW t \in Threads, NEW r \in Runs, Create(t, r) PROVE SkipInv'
  <2>1. /\ \A u \in Threads : u # t => task'[u] = task[u] /\ pc'[u] = pc[u]
        /\ pc[t] = "idle" /\ pc'[t] = "copy" /\ task'[t].run = r
        /\ task'[t].version = version[r] + 1 /\ UNCHANGED <<written, store, failed>>
    BY <1>1, CreateEffect
  <2>2. written[r] < version[r] + 1
    BY DEF VersionInv
  <2>3. QED BY <2>1, <2>2, NewestIsNotSkipped
<1>2. ASSUME NEW t \in Threads, Copy(t) PROVE SkipInv'
  <2>1. /\ \A u \in Threads : u # t => task'[u] = task[u] /\ pc'[u] = pc[u]
        /\ pc[t] = "copy" /\ pc'[t] = "persist" /\ task'[t].run = task[t].run
        /\ task'[t].version = task[t].version /\ UNCHANGED <<written, store, failed>>
    BY <1>2, CopyEffect
  <2>2. written[task[t].run] < task[t].version
    BY <2>1 DEF SkipInv
  <2>3. QED BY <2>1, <2>2, NewestIsNotSkipped
<1>3. ASSUME NEW t \in Threads, NEW r \in Runs, NEW s \in Status, UpdateThrottled(t, r, s)
      PROVE SkipInv'
  BY <1>3, MutateEffect DEF UpdateThrottled, SkipInv
<1>4. ASSUME NEW t \in Threads, NEW r \in Runs, NEW s \in Status, UpdateDue(t, r, s)
      PROVE SkipInv'
  <2>1. Mutate(t, r, s)
    BY <1>4 DEF UpdateDue
  <2>2. /\ \A u \in Threads : u # t => task'[u] = task[u] /\ pc'[u] = pc[u]
        /\ pc'[t] = "persist" /\ task'[t].run = r /\ task'[t].version = version[r] + 1
    BY <1>4, DueEffect
  <2>3. pc[t] = "idle" /\ UNCHANGED <<written, store, failed>>
    BY <2>1, MutateEffect
  <2>4. written[r] < version[r] + 1
    BY DEF VersionInv
  <2>5. QED BY <2>2, <2>3, <2>4, NewestIsNotSkipped
<1>5. ASSUME NEW t \in Threads, PersistSkip(t) PROVE SkipInv'
  BY <1>5, SkipEffect DEF SkipInv
<1>6. ASSUME NEW t \in Threads, PersistClaim(t) PROVE SkipInv'
  <2>1. /\ pc[t] = "persist" /\ pc'[t] = "save" /\ \A u \in Threads : u # t => pc'[u] = pc[u]
        /\ \A q \in Runs : q # task[t].run => written'[q] = written[q]
        /\ UNCHANGED <<task, store, failed>>
    BY <1>6, ClaimEffect
  <2>2. \A u \in Threads : pc[u] = "copy" => task[u].run # task[t].run
    BY <2>1 DEF CreateInv
  <2>3. \A u \in Threads : pc'[u] = "copy" => pc[u] = "copy"
    BY <2>1
  <2>4. \A u \in Threads : pc'[u] = "copy" => written'[task'[u].run] < task'[u].version
    BY <2>1, <2>2, <2>3 DEF SkipInv
  <2>5. \A u \in Threads : task[u].run # task[t].run =>
           ((\A v \in Threads : pc[v] = "save" => task[v].run # task[u].run)
              <=> (\A v \in Threads : pc'[v] = "save" => task'[v].run # task'[u].run))
    BY <2>1
  <2>6. ASSUME NEW u \in Threads, pc'[u] = "persist", ~failed'[task'[u].run],
               written'[task'[u].run] >= task'[u].version,
               \A v \in Threads : pc'[v] = "save" => task'[v].run # task'[u].run
        PROVE  store'[task'[u].run] >= task'[u].snap
    <3>1. task[u].run # task[t].run /\ pc[u] = "persist"
      BY <2>1, <2>6
    <3>2. QED BY <2>1, <2>5, <2>6, <3>1 DEF SkipInv
  <2>7. QED BY <2>4, <2>6 DEF SkipInv
<1>7. ASSUME NEW t \in Threads, NEW ok \in BOOLEAN, Save(t, ok) PROVE SkipInv'
  <2>1. /\ pc[t] = "save" /\ pc'[t] = "return" /\ \A u \in Threads : u # t => pc'[u] = pc[u]
        /\ \/ failed'[task[t].run]
           \/ store'[task[t].run] = task[t].snap
        /\ \A q \in Runs : q # task[t].run => store'[q] = store[q] /\ failed'[q] = failed[q]
        /\ UNCHANGED <<written, task>>
    BY <1>7, SaveEffect
  <2>2. written[task[t].run] = task[t].version
    BY <2>1 DEF LockInv
  <2>3. \A u \in Threads : pc'[u] = "copy" => written'[task'[u].run] < task'[u].version
    BY <2>1 DEF SkipInv
  <2>4. ASSUME NEW u \in Threads, pc'[u] = "persist", ~failed'[task'[u].run],
               written'[task'[u].run] >= task'[u].version,
               \A v \in Threads : pc'[v] = "save" => task'[v].run # task'[u].run
        PROVE  store'[task'[u].run] >= task'[u].snap
    <3>1. u # t /\ pc[u] = "persist"
      BY <2>1, <2>4
    <3>2. CASE task[u].run = task[t].run
      <4>1. task[u].version < task[t].version
        BY <2>1, <2>2, <2>4, <3>1, <3>2 DEF VersionInv, Active
      <4>2. task[u].snap <= task[t].snap
        BY <2>1, <3>1, <3>2, <4>1 DEF SnapInv, Pending
      <4>3. QED BY <2>1, <2>4, <3>2, <4>2
    <3>3. CASE task[u].run # task[t].run
      <4>1. \A v \in Threads : pc[v] = "save" => task[v].run # task[u].run
        BY <2>1, <2>4, <3>3
      <4>2. QED BY <2>1, <2>4, <3>1, <3>3, <4>1 DEF SkipInv
    <3>4. QED BY <3>2, <3>3
  <2>5. QED BY <2>3, <2>4 DEF SkipInv
<1>8. ASSUME NEW t \in Threads, Return(t) PROVE SkipInv'
  BY <1>8, ReturnEffect DEF SkipInv
<1>9. CASE Tick
  BY <1>9 DEF Tick, SkipInv
<1>10. CASE Restart
  BY <1>10, RestartEffect DEF SkipInv
<1>11. CASE UNCHANGED vars
  BY <1>11 DEF vars, SkipInv
<1>12. QED
  BY <1>1, <1>2, <1>3, <1>4, <1>5, <1>6, <1>7, <1>8, <1>9, <1>10, <1>11 DEF Next, ThreadStep

\* A step that ends a run is the only one that does, and it is audited once.
LEMMA EndStep ==
  ASSUME TypeOK, CreateInv, FinalStays, EndInv, [Next]_vars
  PROVE  EndInv'
<1> USE Types
<1>1. ASSUME NEW t \in Threads, NEW r \in Runs, Create(t, r) PROVE EndInv'
  <2>1. /\ \A u \in Threads : u # t => task'[u] = task[u] /\ pc'[u] = pc[u]
        /\ task'[t].kind = "create" /\ hist[r] = <<>>
        /\ \A q \in Runs : q # r => hist'[q] = hist[q]
        /\ audited' = audited
    BY <1>1, CreateEffect
  <2>2. audited[r] = 0
    BY <2>1 DEF EndInv, TypeOK
  <2>3. ASSUME NEW u \in Threads, NEW q \in Runs, Ending(u, q)'
        PROVE  u # t /\ Ending(u, q) /\ q # r
    BY <2>1, <2>3 DEF Ending, EndInv
  <2>4. \A q \in Runs : audited[q] = 1 => q # r
    BY <2>2
  <2>5. QED BY <2>1, <2>3, <2>4 DEF EndInv, Current
<1>2. ASSUME NEW t \in Threads, Copy(t) PROVE EndInv'
  <2>1. /\ \A u \in Threads : u # t => task'[u] = task[u] /\ pc'[u] = pc[u]
        /\ pc[t] = "copy" /\ task'[t].kind = task[t].kind /\ UNCHANGED <<hist, audited>>
    BY <1>2, CopyEffect
  <2>2. task'[t].kind = "create"
    BY <2>1 DEF CreateInv
  <2>3. \A u \in Threads, q \in Runs : Ending(u, q)' => u # t /\ Ending(u, q)
    BY <2>1, <2>2 DEF Ending
  <2>4. QED BY <2>1, <2>3 DEF EndInv, Current
<1>3. ASSUME NEW t \in Threads, NEW r \in Runs, NEW s \in Status, Mutate(t, r, s),
             \A u \in Threads : u # t => task'[u] = task[u] /\ pc'[u] = pc[u],
             \/ UNCHANGED <<pc, task>>
             \/ /\ task'[t].run = r /\ task'[t].snap = Len(hist[r]) + 1
                /\ task'[t].kind = "finish" => s # Current(r) /\ s \in FINISHED
      PROVE EndInv'
  <2>1. /\ Len(hist'[r]) = Len(hist[r]) + 1 /\ hist'[r] # <<>>
        /\ hist'[r][Len(hist[r]) + 1] = s
        /\ \A i \in 1 .. Len(hist[r]) : hist'[r][i] = hist[r][i]
        /\ \A q \in Runs : q # r => hist'[q] = hist[q]
        /\ pc[t] = "idle" /\ s \in Successors(Current(r)) /\ audited' = audited
    BY <1>3, MutateEffect
  <2>2. Current(r) \in FINISHED => s = Current(r)
    BY <2>1 DEF Successors
  <2>3. \A u \in Threads : Ending(u, r) => Current(r) \in FINISHED
    <3> SUFFICES ASSUME NEW u \in Threads, Ending(u, r) PROVE Current(r) \in FINISHED
      OBVIOUS
    <3>1. task[u].snap \in 1 .. Len(hist[r]) /\ hist[r][task[u].snap] \in FINISHED
      BY DEF EndInv
    <3>2. Len(hist[r]) \in 1 .. Len(hist[r])
      BY <3>1
    <3>3. QED BY <3>1, <3>2 DEF FinalStays, Current
  <2>4. ASSUME NEW u \in Threads, NEW q \in Runs, Ending(u, q)', u # t PROVE Ending(u, q)
    BY <1>3, <2>4 DEF Ending
  <2>5. ASSUME NEW q \in Runs, Ending(t, q)'
        PROVE  /\ q = r /\ task'[t].snap = Len(hist[r]) + 1 /\ s # Current(r) /\ s \in FINISHED
    BY <1>3, <2>1, <2>5 DEF Ending
  <2>6. ASSUME NEW q \in Runs, Ending(t, q)'
        PROVE  audited[r] = 0 /\ \A u \in Threads : ~Ending(u, r)
    <3>1. Current(r) \notin FINISHED
      BY <2>2, <2>5, <2>6
    <3>2. audited[r] \in Nat /\ audited[r] <= 1 /\ audited[r] # 1
      BY <3>1 DEF EndInv, TypeOK
    <3>3. QED BY <2>3, <3>1, <3>2
  <2>7. ASSUME NEW u \in Threads, NEW q \in Runs, Ending(u, q)'
        PROVE  /\ audited'[q] = 0
               /\ task'[u].snap \in 1 .. Len(hist'[q])
               /\ hist'[q][task'[u].snap] \in FINISHED
    <3>1. CASE u = t
      BY <2>1, <2>5, <2>6, <2>7, <3>1
    <3>2. CASE u # t
      <4>1. /\ Ending(u, q) /\ task'[u] = task[u]
            /\ audited[q] = 0 /\ task[u].snap \in 1 .. Len(hist[q])
            /\ hist[q][task[u].snap] \in FINISHED
        BY <1>3, <2>4, <2>7, <3>2 DEF EndInv
      <4>2. CASE q = r
        BY <2>1, <4>1, <4>2
      <4>3. CASE q # r
        BY <2>1, <4>1, <4>3
      <4>4. QED BY <4>2, <4>3
    <3>3. QED BY <3>1, <3>2
  <2>8. ASSUME NEW u \in Threads, NEW v \in Threads, NEW q \in Runs, Ending(u, q)', Ending(v, q)'
        PROVE  u = v
    <3>1. CASE u # t /\ v # t
      BY <2>4, <2>8, <3>1 DEF EndInv
    <3>2. CASE u = t
      BY <2>4, <2>5, <2>6, <2>8, <3>2
    <3>3. CASE v = t
      BY <2>4, <2>5, <2>6, <2>8, <3>3
    <3>4. QED BY <3>1, <3>2, <3>3
  <2>9. ASSUME NEW q \in Runs, audited'[q] = 1
        PROVE  hist'[q] # <<>> /\ Current(q)' \in FINISHED
    <3>1. Current(q) \in FINISHED /\ hist[q] # <<>>
      BY <2>1, <2>9 DEF EndInv
    <3>2. CASE q = r
      BY <2>1, <2>2, <3>1, <3>2 DEF Current
    <3>3. CASE q # r
      BY <2>1, <3>1, <3>3 DEF Current
    <3>4. QED BY <3>2, <3>3
  <2>10. QED BY <2>1, <2>7, <2>8, <2>9 DEF EndInv
<1>4. ASSUME NEW t \in Threads, NEW r \in Runs, NEW s \in Status, UpdateThrottled(t, r, s)
      PROVE EndInv'
  BY <1>3, <1>4 DEF UpdateThrottled
<1>5. ASSUME NEW t \in Threads, NEW r \in Runs, NEW s \in Status, UpdateDue(t, r, s)
      PROVE EndInv'
  <2>1. Mutate(t, r, s)
    BY <1>5 DEF UpdateDue
  <2>2. QED BY <1>3, <1>5, <2>1, DueEffect
<1>6. ASSUME UNCHANGED <<hist, task, audited>>,
             \A u \in Threads : pc'[u] # "idle" => pc[u] # "idle"
      PROVE  EndInv'
  <2>1. \A u \in Threads, q \in Runs : Ending(u, q)' => Ending(u, q)
    BY <1>6 DEF Ending
  <2>2. QED BY <1>6, <2>1 DEF EndInv, Current
<1>7. ASSUME NEW t \in Threads, PersistSkip(t) PROVE EndInv'
  BY <1>6, <1>7, SkipEffect
<1>8. ASSUME NEW t \in Threads, PersistClaim(t) PROVE EndInv'
  BY <1>6, <1>8, ClaimEffect
<1>9. ASSUME NEW t \in Threads, NEW ok \in BOOLEAN, Save(t, ok) PROVE EndInv'
  BY <1>6, <1>9, SaveEffect
<1>10. ASSUME NEW t \in Threads, Return(t) PROVE EndInv'
  <2> DEFINE r == task[t].run
  <2>1. /\ pc[t] = "return" /\ pc'[t] = "idle" /\ \A u \in Threads : u # t => pc'[u] = pc[u]
        /\ task[t].kind = "finish" => audited'[r] = audited[r] + 1
        /\ task[t].kind # "finish" => audited' = audited
        /\ \A q \in Runs : q # r => audited'[q] = audited[q]
        /\ UNCHANGED <<hist, task>>
    BY <1>10, ReturnEffect
  <2>2. CASE task[t].kind # "finish"
    BY <1>6, <2>1, <2>2
  <2>3. CASE task[t].kind = "finish"
    <3>1. Ending(t, r) /\ r \in Runs
      BY <2>1, <2>3 DEF Ending
    <3>2. audited'[r] = 1
      BY <2>1, <2>3, <3>1 DEF EndInv
    <3>3. hist[r] # <<>> /\ Current(r) \in FINISHED
      <4>1. task[t].snap \in 1 .. Len(hist[r]) /\ hist[r][task[t].snap] \in FINISHED
        BY <3>1 DEF EndInv
      <4>2. Len(hist[r]) \in 1 .. Len(hist[r])
        BY <3>1, <4>1
      <4>3. QED BY <3>1, <4>1, <4>2 DEF FinalStays, Current
    <3>4. \A u \in Threads, q \in Runs : Ending(u, q)' => u # t /\ Ending(u, q)
      BY <2>1 DEF Ending
    <3>5. ASSUME NEW u \in Threads, NEW q \in Runs, Ending(u, q)' PROVE q # r
      <4>1. u # t /\ Ending(u, q)
        BY <3>4, <3>5
      <4>2. QED BY <3>1, <4>1 DEF EndInv
    <3>6. QED BY <2>1, <3>1, <3>2, <3>3, <3>4, <3>5 DEF EndInv, Current
  <2>4. QED BY <2>2, <2>3
<1>11. CASE Tick
  BY <1>6, <1>11 DEF Tick
<1>12. CASE Restart
  BY <1>6, <1>12, RestartEffect
<1>13. CASE UNCHANGED vars
  BY <1>6, <1>13 DEF vars
<1>14. QED
  BY <1>1, <1>2, <1>4, <1>5, <1>7, <1>8, <1>9, <1>10, <1>11, <1>12, <1>13 DEF Next, ThreadStep

\* A snapshot taken after the run ended is finished: newer versions end the row as well.
LEMMA NewerIsFinished ==
  ASSUME TypeOK, VersionInv, SnapInv, FinalStays, NEW t \in Threads, NEW u \in Threads,
         task[t].run = task[u].run, hist[task[t].run][task[t].snap] \in FINISHED,
         Pending(t), Pending(u), task[t].version < task[u].version
  PROVE  hist[task[u].run][task[u].snap] \in FINISHED
<1>1. /\ task[t].snap <= task[u].snap /\ task[u].run \in Runs
      /\ task[t].snap \in 1 .. Len(hist[task[u].run])
      /\ task[u].snap \in 1 .. Len(hist[task[u].run])
  BY Types DEF SnapInv
<1>2. QED BY <1>1 DEF FinalStays

\* A step never takes an audited end back from the row.
LEMMA AuditStep ==
  ASSUME TypeOK, LockInv, VersionInv, CreateInv, SnapInv, FinalStays, SkipInv, EndInv, AuditInv,
         [Next]_vars
  PROVE  AuditInv'
<1> USE Types
<1> DEFINE Told(q) == audited[q] = 1 \/ (\E t \in Threads : Ending(t, q) /\ pc[t] = "return")
<1>0. \A q \in Runs : Told(q) => RowEnded(q) /\ hist[q] # <<>> /\ Current(q) \in FINISHED
  <2> SUFFICES ASSUME NEW q \in Runs, Told(q)
               PROVE  RowEnded(q) /\ hist[q] # <<>> /\ Current(q) \in FINISHED
    OBVIOUS
  <2>1. CASE audited[q] = 1
    BY <2>1 DEF AuditInv, EndInv
  <2>2. CASE \E t \in Threads : Ending(t, q) /\ pc[t] = "return"
    <3>1. PICK t \in Threads : Ending(t, q) /\ pc[t] = "return"
      BY <2>2
    <3>2. task[t].snap \in 1 .. Len(hist[q]) /\ hist[q][task[t].snap] \in FINISHED
      BY <3>1 DEF EndInv
    <3>3. Len(hist[q]) \in 1 .. Len(hist[q])
      BY <3>2
    <3>4. QED BY <2>2, <3>2, <3>3 DEF AuditInv, FinalStays, Current
  <2>3. QED BY <2>1, <2>2
<1>1. ASSUME NEW t \in Threads, NEW r \in Runs, Create(t, r) PROVE AuditInv'
  <2>1. /\ \A u \in Threads : u # t => task'[u] = task[u] /\ pc'[u] = pc[u]
        /\ pc'[t] = "copy" /\ hist[r] = <<>> /\ \A q \in Runs : q # r => hist'[q] = hist[q]
        /\ UNCHANGED <<written, store, failed, audited>>
    BY <1>1, CreateEffect
  <2>2. ASSUME NEW q \in Runs, Told(q)' PROVE Told(q)
    BY <2>1, <2>2 DEF Ending
  <2>3. \A q \in Runs : Told(q) => q # r
    BY <1>0, <2>1
  <2>4. ASSUME NEW q \in Runs, Told(q)' PROVE RowEnded(q)'
    <3>1. q # r /\ RowEnded(q)
      BY <1>0, <2>2, <2>3, <2>4
    <3>2. \A u \in Threads : Reaches(u)' => u # t /\ Reaches(u)
      BY <2>1 DEF Reaches
    <3>3. QED BY <2>1, <3>1, <3>2 DEF RowEnded
  <2>5. QED BY <2>4 DEF AuditInv
<1>2. ASSUME NEW t \in Threads, Copy(t) PROVE AuditInv'
  <2>1. /\ \A u \in Threads : u # t => task'[u] = task[u] /\ pc'[u] = pc[u]
        /\ pc[t] = "copy" /\ pc'[t] = "persist" /\ task'[t].run = task[t].run
        /\ task'[t].snap = Len(hist[task[t].run])
        /\ UNCHANGED <<hist, written, store, failed, audited>>
    BY <1>2, CopyEffect
  <2>2. ASSUME NEW q \in Runs, Told(q)' PROVE Told(q)
    BY <2>1, <2>2 DEF Ending
  <2>3. ASSUME NEW q \in Runs, Told(q)' PROVE RowEnded(q)'
    <3>1. RowEnded(q) /\ Current(q) \in FINISHED
      BY <1>0, <2>2, <2>3
    <3>2. \A u \in Threads : u # t /\ Reaches(u)' => Reaches(u)
      BY <2>1 DEF Reaches
    <3>3. task[t].run = q => hist'[q][task'[t].snap] \in FINISHED
      BY <2>1, <3>1 DEF Current
    <3>4. QED BY <2>1, <3>1, <3>2, <3>3 DEF RowEnded
  <2>4. QED BY <2>3 DEF AuditInv
<1>3. ASSUME NEW t \in Threads, NEW r \in Runs, NEW s \in Status, Mutate(t, r, s),
             \A u \in Threads : u # t => task'[u] = task[u] /\ pc'[u] = pc[u],
             \/ UNCHANGED <<pc, task>>
             \/ /\ task'[t].run = r /\ task'[t].snap = Len(hist[r]) + 1
                /\ pc'[t] = "persist"
      PROVE AuditInv'
  <2>1. /\ hist'[r][Len(hist[r]) + 1] = s
        /\ \A i \in 1 .. Len(hist[r]) : hist'[r][i] = hist[r][i]
        /\ \A q \in Runs : q # r => hist'[q] = hist[q]
        /\ pc[t] = "idle" /\ s \in Successors(Current(r))
        /\ UNCHANGED <<written, store, failed, audited>>
    BY <1>3, MutateEffect
  <2>2. ASSUME NEW q \in Runs, Told(q)' PROVE Told(q)
    BY <1>3, <2>1, <2>2 DEF Ending
  <2>3. ASSUME NEW q \in Runs, NEW i \in 1 .. Len(hist[q]) PROVE hist'[q][i] = hist[q][i]
    BY <2>1, <2>3
  <2>4. ASSUME NEW q \in Runs, Told(q)' PROVE RowEnded(q)'
    <3>1. RowEnded(q) /\ Current(q) \in FINISHED
      BY <1>0, <2>2, <2>4
    <3>2. ~failed[q] => store[q] \in 1 .. Len(hist[q]) /\ hist[q][store[q]] \in FINISHED
      BY <3>1 DEF RowEnded, SnapInv
    <3>3. ~failed'[q] => store'[q] > 0 /\ hist'[q][store'[q]] \in FINISHED
      BY <2>1, <2>3, <3>2
    <3>4. ASSUME NEW u \in Threads, u # t, task'[u].run = q, Reaches(u)'
          PROVE  hist'[q][task'[u].snap] \in FINISHED
      <4>1. task'[u] = task[u] /\ pc'[u] = pc[u] /\ Reaches(u) /\ Pending(u)
        BY <1>3, <2>1, <3>4 DEF Reaches, Pending
      <4>2. task[u].snap \in 1 .. Len(hist[q]) /\ hist[q][task[u].snap] \in FINISHED
        BY <3>1, <3>4, <4>1 DEF RowEnded, SnapInv
      <4>3. QED BY <2>3, <4>1, <4>2
    <3>5. ASSUME task'[t].run = q, Reaches(t)'
          PROVE  hist'[q][task'[t].snap] \in FINISHED
      <4>1. pc'[t] = "persist" /\ q = r /\ task'[t].snap = Len(hist[r]) + 1
        BY <1>3, <2>1, <3>5 DEF Reaches
      <4>2. s \in FINISHED
        BY <2>1, <3>1, <4>1 DEF Successors
      <4>3. QED BY <2>1, <4>1, <4>2
    <3>6. QED BY <3>3, <3>4, <3>5 DEF RowEnded
  <2>5. QED BY <2>4 DEF AuditInv
<1>4. ASSUME NEW t \in Threads, NEW r \in Runs, NEW s \in Status, UpdateThrottled(t, r, s)
      PROVE AuditInv'
  BY <1>3, <1>4 DEF UpdateThrottled
<1>5. ASSUME NEW t \in Threads, NEW r \in Runs, NEW s \in Status, UpdateDue(t, r, s)
      PROVE AuditInv'
  <2>1. Mutate(t, r, s)
    BY <1>5 DEF UpdateDue
  <2>2. QED BY <1>3, <1>5, <2>1, DueEffect
<1>6. ASSUME NEW t \in Threads, PersistSkip(t) PROVE AuditInv'
  <2> DEFINE r == task[t].run
  <2>1. /\ pc[t] = "persist" /\ pc'[t] = "return" /\ written[r] >= task[t].version
        /\ \A u \in Threads : u # t => pc'[u] = pc[u] /\ pc[u] # "save"
        /\ UNCHANGED <<hist, written, task, store, failed, audited>>
    BY <1>6, SkipEffect, NoThreadAssumption DEF LockInv
  <2>2. \A u \in Threads : Reaches(u)' => u # t /\ Reaches(u)
    BY <2>1 DEF Reaches
  <2>3. ASSUME NEW q \in Runs, Told(q)', ~Told(q)
        PROVE  RowEnded(q)
    <3>1. Ending(t, q) /\ q = r
      BY <2>1, <2>3 DEF Ending
    <3>2. task[t].snap \in 1 .. Len(hist[q]) /\ hist[q][task[t].snap] \in FINISHED
      BY <3>1 DEF EndInv
    <3>3. ~failed[q] => store[q] >= task[t].snap
      BY <2>1, <3>1 DEF SkipInv
    <3>4. ~failed[q] => store[q] > 0 /\ hist[q][store[q]] \in FINISHED
      BY <3>2, <3>3 DEF FinalStays, SnapInv
    <3>5. ASSUME NEW u \in Threads, task[u].run = q, Reaches(u)
          PROVE  hist[q][task[u].snap] \in FINISHED
      <4>1. pc[u] = "persist" /\ task[u].version > written[q]
        BY <2>1, <3>5 DEF Reaches
      <4>2. Pending(u) /\ Pending(t) /\ task[t].version < task[u].version
        BY <2>1, <3>1, <4>1 DEF Pending
      <4>3. QED BY <3>1, <3>2, <3>5, <4>2, NewerIsFinished
    <3>6. QED BY <3>4, <3>5 DEF RowEnded
  <2>4. ASSUME NEW q \in Runs, Told(q)' PROVE RowEnded(q)'
    <3>1. RowEnded(q)
      BY <1>0, <2>3, <2>4
    <3>2. QED BY <2>1, <2>2, <3>1 DEF RowEnded
  <2>5. QED BY <2>4 DEF AuditInv
<1>7. ASSUME NEW t \in Threads, PersistClaim(t) PROVE AuditInv'
  <2>1. /\ pc[t] = "persist" /\ pc'[t] = "save" /\ \A u \in Threads : u # t => pc'[u] = pc[u]
        /\ written[task[t].run] < task[t].version /\ written'[task[t].run] = task[t].version
        /\ \A q \in Runs : q # task[t].run => written'[q] = written[q]
        /\ UNCHANGED <<hist, task, store, failed, audited>>
    BY <1>7, ClaimEffect
  <2>2. \A u \in Threads : Reaches(u)' => Reaches(u)
    BY <2>1 DEF Reaches
  <2>3. ASSUME NEW q \in Runs, Told(q)' PROVE Told(q)
    BY <2>1, <2>3 DEF Ending
  <2>4. ASSUME NEW q \in Runs, Told(q)' PROVE RowEnded(q)'
    <3>1. RowEnded(q)
      BY <1>0, <2>3, <2>4
    <3>2. QED BY <2>1, <2>2, <3>1 DEF RowEnded
  <2>5. QED BY <2>4 DEF AuditInv
<1>8. ASSUME NEW t \in Threads, NEW ok \in BOOLEAN, Save(t, ok) PROVE AuditInv'
  <2> DEFINE r == task[t].run
  <2>1. /\ pc[t] = "save" /\ pc'[t] = "return" /\ \A u \in Threads : u # t => pc'[u] = pc[u]
        /\ \/ store' = store /\ failed'[r]
           \/ store'[r] = task[t].snap /\ ~failed'[r]
        /\ \A q \in Runs : q # r => store'[q] = store[q] /\ failed'[q] = failed[q]
        /\ UNCHANGED <<hist, written, task, audited>>
    BY <1>8, SaveEffect
  <2>2. \A u \in Threads : Reaches(u)' => u # t /\ Reaches(u)
    BY <2>1 DEF Reaches
  <2>3. written[r] = task[t].version /\ \A u \in Threads : pc[u] = "save" => u = t
    BY <2>1, NoThreadAssumption DEF LockInv
  <2>4. task[t].snap > 0
    BY <2>1 DEF SnapInv, Pending
  <2>5. ASSUME NEW q \in Runs, Told(q)'
        PROVE  /\ q = r => hist[q][task[t].snap] \in FINISHED
               /\ \A u \in Threads : task[u].run = q /\ Reaches(u)' => hist[q][task[u].snap] \in FINISHED
               /\ q # r => RowEnded(q)
    <3>1. CASE Told(q)
      BY <1>0, <2>1, <2>2, <3>1 DEF RowEnded, Reaches
    <3>2. CASE ~Told(q)
      <4>1. Ending(t, q) /\ q = r
        BY <2>1, <2>5, <3>2 DEF Ending
      <4>2. hist[q][task[t].snap] \in FINISHED
        BY <4>1 DEF EndInv
      <4>3. ASSUME NEW u \in Threads, task[u].run = q, Reaches(u)'
            PROVE  hist[q][task[u].snap] \in FINISHED
        <5>1. pc[u] = "persist" /\ task[u].version > written[q]
          BY <2>2, <2>3, <4>3 DEF Reaches
        <5>2. Pending(u) /\ Pending(t) /\ task[t].version < task[u].version
          BY <2>1, <2>3, <4>1, <5>1 DEF Pending
        <5>3. QED BY <4>1, <4>2, <4>3, <5>2, NewerIsFinished
      <4>4. QED BY <4>1, <4>2, <4>3
    <3>3. QED BY <3>1, <3>2
  <2>6. ASSUME NEW q \in Runs, Told(q)' PROVE RowEnded(q)'
    <3>1. CASE q = r
      BY <2>1, <2>4, <2>5, <2>6, <3>1 DEF RowEnded
    <3>2. CASE q # r
      BY <2>1, <2>5, <2>6, <3>2 DEF RowEnded
    <3>3. QED BY <3>1, <3>2
  <2>7. QED BY <2>6 DEF AuditInv
<1>9. ASSUME NEW t \in Threads, Return(t) PROVE AuditInv'
  <2>1. /\ pc[t] = "return" /\ pc'[t] = "idle" /\ \A u \in Threads : u # t => pc'[u] = pc[u]
        /\ task[t].kind # "finish" => audited' = audited
        /\ \A q \in Runs : q # task[t].run => audited'[q] = audited[q]
        /\ UNCHANGED <<hist, written, task, store, failed>>
    BY <1>9, ReturnEffect
  <2>2. \A u \in Threads : Reaches(u)' => Reaches(u)
    BY <2>1 DEF Reaches
  <2>3. ASSUME NEW q \in Runs, Told(q)' PROVE Told(q)
    BY <2>1, <2>3 DEF Ending
  <2>4. ASSUME NEW q \in Runs, Told(q)' PROVE RowEnded(q)'
    <3>1. RowEnded(q)
      BY <1>0, <2>3, <2>4
    <3>2. QED BY <2>1, <2>2, <3>1 DEF RowEnded
  <2>5. QED BY <2>4 DEF AuditInv
<1>10. CASE Tick
  BY <1>10 DEF Tick, AuditInv, RowEnded, Reaches, Ending
<1>11. CASE Restart
  <2>1. /\ \A u \in Threads : pc'[u] = "idle"
        /\ UNCHANGED <<hist, task, store, failed, audited>>
    BY <1>11, RestartEffect
  <2>2. ASSUME NEW q \in Runs, Told(q)' PROVE RowEnded(q)'
    <3>1. RowEnded(q)
      BY <1>0, <2>1, <2>2
    <3>2. QED BY <2>1, <3>1 DEF RowEnded, Reaches
  <2>3. QED BY <2>2 DEF AuditInv
<1>12. CASE UNCHANGED vars
  BY <1>12 DEF vars, AuditInv, RowEnded, Reaches, Ending
<1>13. QED
  BY <1>1, <1>2, <1>4, <1>5, <1>6, <1>7, <1>8, <1>9, <1>10, <1>11, <1>12 DEF Next, ThreadStep

-----------------------------------------------------------------------------
(***************************************************************************)
(* The theorems.                                                           *)
(***************************************************************************)

\* The registry starts in the invariant.
LEMMA InitInv == Init => IInv
<1>1. Len(<<>>) = 0
  OBVIOUS
<1>2. QED
  BY <1>1, NoThreadAssumption
     DEF Init, IInv, LockInv, VersionInv, CreateInv, SnapInv, StatusInv, NewestIsCurrent,
         NewestOnItsWay, RowIsCurrent, Active, Pending, FinalStays, SkipInv, EndInv, Ending,
         AuditInv

\* IInv holds in every reachable state.
THEOREM Invariance == Spec => []IInv
<1>1. TypeOK /\ IInv /\ [Next]_vars => IInv'
  BY LockStep, VersionStep, CreateStep, SnapStep, StatusStep, FinalStep, SkipStep, EndStep,
     AuditStep DEF IInv
<1>2. QED
  BY <1>1, InitInv, TypeCorrect, PTL DEF Spec

\* A row never shows an older state after a newer one, however the writes of a
\* run's threads interleave and whichever of them fail.
THEOREM RowMonotone == Spec => RowNeverGoesBack
<1>1. TypeOK /\ IInv /\ [Next]_vars => [\A r \in Runs : store'[r] >= store[r]]_store
  <2> SUFFICES ASSUME TypeOK, IInv, [Next]_vars, store' # store
               PROVE  \A r \in Runs : store'[r] >= store[r]
    OBVIOUS
  <2>1. PICK t \in Threads, ok \in BOOLEAN : Save(t, ok)
    BY DEF Next, ThreadStep, Create, Copy, UpdateThrottled, UpdateDue, Mutate, PersistSkip,
           PersistClaim, Return, Tick, Restart, vars
  <2>2. pc[t] = "save" => store[task[t].run] <= task[t].snap
    BY DEF IInv, SnapInv, Pending
  <2>3. QED
    BY <2>1, <2>2, SaveEffect, Types
<1>2. QED
  BY <1>1, Invariance, TypeCorrect, PTL DEF Spec, RowNeverGoesBack

\* Between writes the row of a run has the status of the run, unless the last
\* save failed: throttling never withholds a status.
THEOREM QuiescentStatus == Spec => []QuiescentRowHasStatus
<1>1. TypeOK /\ IInv => QuiescentRowHasStatus
  <2> SUFFICES ASSUME TypeOK, IInv, NEW r \in mem, ~Writing(r), ~failed[r]
               PROVE  RowStatus(r) = Current(r)
    BY DEF QuiescentRowHasStatus
  <2>1. \A t \in Threads : Active(t) => task[t].run # r
    BY DEF Writing, Active
  <2>2. written[r] = version[r]
    BY <2>1 DEF IInv, StatusInv, NewestOnItsWay
  <2>3. \A t \in Threads : pc[t] = "save" => task[t].run # r
    BY <2>1 DEF Active
  <2>4. store[r] > 0 /\ hist[r][store[r]] = Current(r)
    BY <2>2, <2>3 DEF IInv, StatusInv, RowIsCurrent
  <2>5. QED BY <2>4, Types DEF RowStatus
<1>2. QED
  BY <1>1, Invariance, TypeCorrect, PTL

\* The end of a run is audited once, and a row that took its last save shows it: no write
\* still on its way can take an audited end back (run_registry.update, _persist).
THEOREM AuditAgreement == Spec => []AuditAgreesWithRow
<1>1. TypeOK /\ IInv => AuditAgreesWithRow
  <2> SUFFICES ASSUME TypeOK, IInv, NEW r \in Runs
               PROVE  audited[r] <= 1 /\ (audited[r] = 1 /\ ~failed[r] => RowStatus(r) \in FINISHED)
    BY DEF AuditAgreesWithRow
  <2>1. audited[r] = 1 => RowEnded(r)
    BY DEF IInv, AuditInv
  <2>2. QED BY <2>1, Types DEF IInv, EndInv, RowEnded, RowStatus
<1>2. QED
  BY <1>1, Invariance, TypeCorrect, PTL

\* The registry implements the abstract row of a run: locks, versions, threads,
\* throttling and lost writes add nothing an observer of the rows could notice.
THEOREM Implementation == Spec => ImplementsDurableRun
<1>1. Init => Abstract!Init
  BY DEF Init, Abstract!Init
<1>2. TypeOK /\ IInv /\ [Next]_vars => [Abstract!Next]_(Abstract!vars)
  <2> SUFFICES ASSUME TypeOK, IInv, [Next]_vars
               PROVE  Abstract!Next \/ UNCHANGED <<hist, store>>
    BY DEF Abstract!vars
  <2>1. ASSUME NEW t \in Threads, NEW r \in Runs, Create(t, r)
        PROVE  Abstract!Next
    BY <2>1 DEF Create, Abstract!Next, Abstract!Start
  <2>2. ASSUME NEW t \in Threads, NEW r \in Runs, NEW s \in Status, Mutate(t, r, s)
        PROVE  Abstract!Next
    <3>1. s \in Abstract!Status /\ hist[r] # <<>>
      BY <2>2 DEF Mutate, IInv, CreateInv, Status, FINISHED, TERMINAL,
                  Abstract!Status, Abstract!FINISHED, Abstract!TERMINAL
    <3>2. Abstract!Advance(r, s)
      BY <2>2, <3>1 DEF Mutate, Current, Successors, Status, FINISHED, TERMINAL, Abstract!Advance,
                        Abstract!Successors, Abstract!Status, Abstract!FINISHED, Abstract!TERMINAL
    <3>3. QED BY <3>1, <3>2 DEF Abstract!Next
  <2>3. ASSUME NEW t \in Threads, NEW ok \in BOOLEAN, Save(t, ok)
        PROVE  Abstract!Next \/ UNCHANGED <<hist, store>>
    <3> DEFINE R == task[t].run
               I == task[t].snap
    <3>1. R \in Runs /\ I \in 1 .. Len(hist[R]) /\ store[R] <= I /\ store[R] \in Nat
      BY <2>3, Types DEF Save, IInv, SnapInv, Pending
    <3>2. hist' = hist
      BY <2>3 DEF Save, callerVars
    <3>3. CASE ok
      <4>1. I \in store[R] .. Len(hist[R])
        BY <3>1
      <4>2. store' = [store EXCEPT ![R] = I]
        BY <2>3, <3>3 DEF Save
      <4>3. Abstract!Record(R, I)
        BY <3>2, <4>1, <4>2 DEF Abstract!Record
      <4>4. QED BY <3>1, <4>3 DEF Abstract!Next
    <3>4. CASE ~ok
      BY <2>3, <3>2, <3>4 DEF Save
    <3>5. QED BY <3>3, <3>4
  <2>4. QED
    BY <2>1, <2>2, <2>3 DEF Next, ThreadStep, Copy, UpdateThrottled, UpdateDue, PersistSkip,
          PersistClaim, Return, Tick, Restart, vars, callerVars
<1>3. QED
  BY <1>1, <1>2, Invariance, TypeCorrect, PTL DEF Spec, ImplementsDurableRun, Abstract!Spec
-----------------------------------------------------------------------------
(* Validation: the row counts of a report. *)

\* Only the items of the tables themselves go by the name of a table.
LEMMA OtherItems ==
  ASSUME NEW i, NEW at, i.id = <<"table", at>>, NEW src, NEW objects, NEW plan, NEW policy
  PROVE  /\ \A s : i # SchemaItem(s, objects)
         /\ \A t : i \notin PostDataItems(t, src, objects, policy)
         /\ \A o : o.kind \in Programmable => i # RoutineItem(o, objects, plan, policy)
         /\ \A code : i \notin TriggerFunctionItems(code, objects, policy)
         /\ \A routines, scope : i \notin Extras(src, objects, routines, scope, plan, policy)
         /\ \A t, count : i = TableItem(t, src, objects, count, policy) => t.at = at
<1>0. ASSUME NEW kind, NEW a, NEW status, NEW found, NEW diffs, NEW fix,
             i = Item(kind, a, status, found, diffs, fix)
      PROVE  kind = "table" /\ a = at
  BY <1>0 DEF Item
<1>1. \A s : i # SchemaItem(s, objects)
  BY <1>0 DEF SchemaItem
<1>2. ASSUME NEW t PROVE i \notin PostDataItems(t, src, objects, policy)
  <2>1. ASSUME NEW group, group # "table", NEW kinds PROVE i \notin Rollup(group, kinds, t, src, objects, policy)
    BY <1>0, <2>1 DEF Rollup
  <2>2. QED BY <2>1 DEF PostDataItems
<1>3. \A o : o.kind \in Programmable => i # RoutineItem(o, objects, plan, policy)
  BY <1>0 DEF RoutineItem, Programmable, Routines
<1>4. \A code : i \notin TriggerFunctionItems(code, objects, policy)
  BY <1>0 DEF TriggerFunctionItems
<1>5. ASSUME NEW routines, NEW scope PROVE i \notin Extras(src, objects, routines, scope, plan, policy)
  <2>1. ASSUME NEW kind, NEW a, NEW claimed, NEW owned PROVE i # Extra(kind, a, claimed, owned, plan)
    BY <1>0 DEF Extra
  <2> DEFINE kinds == Programmable \cup (IF scope = "objects" THEN {} ELSE {"table"})
             claimed == [k \in Programmable \cup {"table"} |->
                           IF k = "table" THEN {MapPlace(t.at, policy) : t \in Tables(src)}
                           ELSE Claimed(k, {o \in src : o.kind \in Programmable}, routines, policy)]
             owned == UNION {claimed[k] : k \in Programmable}
  <2>2. Extras(src, objects, routines, scope, plan, policy)
          = UNION {{Extra(kind, a, claimed, owned, plan) : a \in Places(objects, kind) \ claimed[kind]} : kind \in kinds}
    BY DEF Extras
  <2> HIDE DEF kinds, claimed, owned
  <2>3. QED BY <2>1, <2>2
<1>6. ASSUME NEW t, NEW count, i = TableItem(t, src, objects, count, policy) PROVE t.at = at
  BY <1>0, <1>6 DEF TableItem
<1>7. QED BY <1>1, <1>2, <1>3, <1>4, <1>5, <1>6

\* A full comparison has one for each table of the source; a rescan of the objects has none.
LEMMA FullItems ==
  ASSUME NEW src, NEW catalog, NEW counts, NEW plan, NEW policy, NEW at,
         NEW i \in Compare(src, catalog, counts, "full", plan, policy), i.id = <<"table", at>>
  PROVE  \E t \in Tables(src) : t.at = at /\ i = TableItem(t, src, Inventory(catalog), counts[t], policy)
<1> DEFINE objects == Inventory(catalog)
           code == {o \in src : o.kind \in Programmable}
           routines == {RoutineItem(o, objects, plan, policy) : o \in code}
           there == {t \in Tables(src) : MapPlace(t.at, policy) \in Places(objects, "table")}
           schemaItems == {SchemaItem(s, objects) : s \in {MapSchema(o.at[1], policy) : o \in src}}
           tableItems == {TableItem(t, src, objects, counts[t], policy) : t \in Tables(src)}
           rollups == UNION {PostDataItems(t, src, objects, policy) : t \in there}
           triggers == TriggerFunctionItems(code, objects, policy)
           extras == Extras(src, objects, routines, "full", plan, policy)
<1>1. Compare(src, catalog, counts, "full", plan, policy)
        = schemaItems \cup tableItems \cup rollups \cup routines \cup triggers \cup extras
  BY DEF Compare
<1>2. i \notin schemaItems
  BY OtherItems
<1>3. i \notin rollups
  BY OtherItems
<1>4. i \notin routines
  BY OtherItems
<1>5. i \notin triggers
  BY OtherItems
<1>6. i \notin extras
  BY OtherItems
<1>7. i \in tableItems
  <2> HIDE DEF schemaItems, tableItems, rollups, routines, triggers, extras
  <2>1. QED BY <1>1, <1>2, <1>3, <1>4, <1>5, <1>6
<1>8. PICK t \in Tables(src) : i = TableItem(t, src, objects, counts[t], policy)
  BY <1>7
<1>9. t.at = at
  BY <1>8, OtherItems
<1>10. QED BY <1>8, <1>9

LEMMA RescanItems ==
  ASSUME NEW src, NEW catalog, NEW counts, NEW plan, NEW policy, NEW at,
         NEW i \in Compare(src, catalog, counts, "objects", plan, policy), i.id = <<"table", at>>
  PROVE  FALSE
<1> DEFINE objects == Inventory(catalog)
           code == {o \in src : o.kind \in Programmable}
           routines == {RoutineItem(o, objects, plan, policy) : o \in code}
           there == {t \in Tables(src) : MapPlace(t.at, policy) \in Places(objects, "table")}
           schemaItems == {SchemaItem(s, objects) : s \in {MapSchema(o.at[1], policy) : o \in src}}
           rollups == UNION {PostDataItems(t, src, objects, policy) : t \in there}
           triggers == TriggerFunctionItems(code, objects, policy)
           extras == Extras(src, objects, routines, "objects", plan, policy)
<1>1. Compare(src, catalog, counts, "objects", plan, policy)
        = schemaItems \cup rollups \cup routines \cup triggers \cup extras
  BY DEF Compare
<1>2. i \notin schemaItems
  BY OtherItems
<1>3. i \notin rollups
  BY OtherItems
<1>4. i \notin routines
  BY OtherItems
<1>5. i \notin triggers
  BY OtherItems
<1>6. i \notin extras
  BY OtherItems
<1> HIDE DEF schemaItems, rollups, routines, triggers, extras
<1>7. QED BY <1>1, <1>2, <1>3, <1>4, <1>5, <1>6

\* A table is matched only when its rows are.
LEMMA MatchedRows ==
  ASSUME NEW t, NEW src, NEW objects, NEW count, NEW policy,
         TableItem(t, src, objects, count, policy).status = "matched"
  PROVE  RowsVerdict(count) = "matched"
<1> DEFINE at == MapPlace(t.at, policy)
           cols == {Diff(o, ColumnVerdict(o, policy, objects)) : o \in Columns(src, t.at)}
           extra == {Diff(o, "extra") : o \in {o \in Columns(objects, at) :
                       \A c \in Columns(src, t.at) : c.cols # o.cols}}
           diffs == cols \cup extra \cup {Diff(t, RowsVerdict(count))}
<1>1. TableItem(t, src, objects, count, policy).status =
        IF at \notin Places(objects, "table") THEN "missing"
        ELSE IF \A d \in diffs : d.verdict = "matched" THEN "matched" ELSE "mismatch"
  BY DEF TableItem, Item
<1>2. Diff(t, RowsVerdict(count)) \in diffs
  OBVIOUS
<1> HIDE DEF at, diffs
<1>3. Diff(t, RowsVerdict(count)).verdict = "matched"
  BY <1>1, <1>2
<1>4. QED BY <1>3 DEF Diff

\* Two counts that were taken and agree are the same.
LEMMA ExactCounts ==
  ASSUME NEW c, c.source \in Nat, c.target \in Nat \cup {Unknown}, ~c.approx, c.counted,
         RowsVerdict(c) = "matched"
  PROVE  c.target = c.source
  BY DEF RowsVerdict, RowsDiffer, Unknown

LEMMA SrcTypes ==
  ASSUME job \in DOMAIN Jobs
  PROVE  /\ J.rows \in [SrcTables -> Nat]
         /\ \A t, u \in SrcTables : t.at = u.at => t = u
  BY JobsAssumption DEF J, SrcTables

LEMMA RowsTypes ==
  ASSUME RowsInv
  PROVE  /\ J.rows \in [SrcTables -> Nat]
         /\ \A p \in DOMAIN rows : rows[p] \in Nat
         /\ \A t \in SrcTables : PlaceOf(t) \in DOMAIN rows
<1>1. J.rows \in [SrcTables -> Nat]
  BY SrcTypes DEF RowsInv
<1>2. QED BY <1>1 DEF RowsInv

LEMMA RowsInvNext ==
  ASSUME RowsInv, [ValidationNext]_validationVars
  PROVE  RowsInv' /\ job' = job
<1>1. job' = job
  BY DEF ValidationNext, Apply, Load, Drift, Validate, Rescan, RunFix, StartParity, RunPair, EndParity, validationVars
<1>2. J' = J /\ SrcTables' = SrcTables /\ \A t : PlaceOf(t)' = PlaceOf(t)
  BY <1>1 DEF J, SrcTables, PlaceOf
<1>3. DOMAIN parity' = DOMAIN NoParity
  BY DEF RowsInv, ValidationNext, Apply, Load, Drift, Validate, Rescan, RunFix, StartParity, RunPair, EndParity,
         validationVars, NoParity
<1>4. SUFFICES DOMAIN rows' = DOMAIN rows /\ \A p \in DOMAIN rows : rows'[p] \in Nat
  BY <1>1, <1>2, <1>3 DEF RowsInv
<1>5. CASE Load
  <2>1. PICK bad \in SUBSET SrcTables :
          rows' = [p \in DOMAIN rows |->
            LET here == {t \in SrcTables \ bad : PlaceOf(t) = p /\ p \in Places(cat, "table")}
            IN  IF here = {} THEN 0 ELSE J.rows[CHOOSE t \in here : TRUE]]
    BY <1>5 DEF Load
  <2>2. ASSUME NEW p \in DOMAIN rows PROVE rows'[p] \in Nat
    <3> DEFINE here == {t \in SrcTables \ bad : PlaceOf(t) = p /\ p \in Places(cat, "table")}
    <3>1. rows'[p] = IF here = {} THEN 0 ELSE J.rows[CHOOSE t \in here : TRUE]
      BY <2>1
    <3>2. here # {} => (CHOOSE t \in here : TRUE) \in here
      OBVIOUS
    <3>3. here \subseteq SrcTables
      OBVIOUS
    <3>4. J.rows \in [SrcTables -> Nat]
      BY RowsTypes
    <3> HIDE DEF here
    <3>5. QED BY <3>1, <3>2, <3>3, <3>4
  <2>3. QED BY <2>1, <2>2
<1>6. CASE RunPair
  <2>1. rows' = rows \/ \E p : rows' = [rows EXCEPT ![p] = 0]
    BY <1>6 DEF RunPair
  <2>2. \A p \in DOMAIN rows : rows[p] \in Nat
    BY RowsTypes
  <2>3. QED BY <2>1, <2>2
<1>7. CASE Drift
  <2>1. rows' = rows \/ \E p \in DOMAIN rows : \E n \in 0 .. rows[p] - 1 : rows' = [rows EXCEPT ![p] = n]
    BY <1>7 DEF Drift
  <2>2. ASSUME NEW p \in DOMAIN rows, NEW n \in 0 .. rows[p] - 1, rows' = [rows EXCEPT ![p] = n]
        PROVE  DOMAIN rows' = DOMAIN rows /\ \A x \in DOMAIN rows : rows'[x] \in Nat
    <3>1. n \in Nat
      BY <2>2, RowsTypes
    <3>2. QED BY <2>2, <3>1, RowsTypes
  <2>3. CASE rows' = rows
    BY <2>3, RowsTypes
  <2>4. QED BY <2>1, <2>2, <2>3
<1>8. CASE UNCHANGED rows
  BY <1>8 DEF RowsInv
<1>9. QED
  BY <1>5, <1>6, <1>7, <1>8
  DEF ValidationNext, Apply, Validate, Rescan, RunFix, StartParity, EndParity, validationVars

LEMMA ScanInvNext ==
  ASSUME RowsInv, ScanInv, [ValidationNext]_validationVars
  PROVE  ScanInv'
<1>1. job' = job /\ J' = J /\ SrcTables' = SrcTables /\ \A t : PlaceOf(t)' = PlaceOf(t)
  BY RowsInvNext DEF J, SrcTables, PlaceOf
<1>2. CASE UNCHANGED <<report, scanned>>
  BY <1>1, <1>2 DEF ScanInv, MatchedRowsAgree
<1>3. CASE Validate
  <2>1. PICK estimates \in BOOLEAN, analyzed \in Analyzed, noSource \in SUBSET SrcTables, noTarget \in SUBSET SrcTables :
          /\ ~estimates => analyzed = "never"
          /\ Cardinality(noSource) + Cardinality(noTarget) <= J.mishaps
          /\ LET counts == [t \in SrcTables |-> Count(t, estimates, analyzed, noSource, noTarget)]
             IN  /\ report' = Compare(J.src, cat, counts, "full", Plan, J.policy)
                 /\ scanned' = [full |-> TRUE, cat |-> cat, tables |-> cat, rows |-> rows, fixed |-> fixed,
                                whole |-> noSource = {} /\ \A t \in SrcTables : counts[t].target # Unknown,
                                exact |-> {t \in SrcTables \ noSource : ~counts[t].approx}]
    BY <1>3, Zenon DEF Validate
  <2>a. PICK counts : counts = [t \in SrcTables |-> Count(t, estimates, analyzed, noSource, noTarget)]
    OBVIOUS
  <2>b. /\ report' = Compare(J.src, cat, counts, "full", Plan, J.policy)
        /\ scanned' = [full |-> TRUE, cat |-> cat, tables |-> cat, rows |-> rows, fixed |-> fixed,
                       whole |-> noSource = {} /\ \A t \in SrcTables : counts[t].target # Unknown,
                       exact |-> {t \in SrcTables \ noSource : ~counts[t].approx}]
    BY <2>1, <2>a, Zenon
  <2>2. ASSUME NEW t \in SrcTables \ noSource, ~counts[t].approx, NEW i \in report',
               i.id = <<"table", t.at>>, i.status = "matched"
        PROVE  rows[PlaceOf(t)] = J.rows[t]
    <3>1. PICK u \in SrcTables : u.at = t.at /\ i = TableItem(u, J.src, Inventory(cat), counts[u], J.policy)
      <4>1. i \in Compare(J.src, cat, counts, "full", Plan, J.policy)
        BY <2>2, <2>b, Zenon
      <4>2. \E u \in Tables(J.src) : u.at = t.at /\ i = TableItem(u, J.src, Inventory(cat), counts[u], J.policy)
        <5>1. i.id = <<"table", t.at>>
          BY <2>2
        <5>2. \A x : x \in Compare(J.src, cat, counts, "full", Plan, J.policy) /\ x.id = <<"table", t.at>> =>
                \E u \in Tables(J.src) : u.at = t.at /\ x = TableItem(u, J.src, Inventory(cat), counts[u], J.policy)
          BY FullItems
        <5>3. QED BY <4>1, <5>1, <5>2
      <4>3. QED BY <4>2 DEF SrcTables
    <3>2. u = t
      BY <3>1, SrcTypes DEF RowsInv
    <3>3. RowsVerdict(counts[t]) = "matched"
      BY <2>2, <3>1, <3>2, MatchedRows
    <3>4. /\ counts[t].source = J.rows[t] /\ ~counts[t].approx /\ counts[t].counted
          /\ counts[t].target = IF t \in noTarget THEN Unknown ELSE rows[PlaceOf(t)]
      BY <2>2, <2>a DEF Count
    <3>5. J.rows[t] \in Nat /\ rows[PlaceOf(t)] \in Nat
      BY RowsTypes
    <3>6. counts[t].target = counts[t].source
      BY <3>3, <3>4, <3>5, ExactCounts
    <3>7. QED BY <3>4, <3>5, <3>6 DEF Unknown
  <2>4. MatchedRowsAgree'
    BY <1>1, <2>2, <2>b DEF MatchedRowsAgree
  <2>5. scanned'.full => scanned' = [full |-> TRUE, cat |-> scanned'.cat, tables |-> scanned'.tables, rows |-> scanned'.rows,
                            fixed |-> scanned'.fixed, whole |-> scanned'.whole, exact |-> scanned'.exact]
    BY <2>b
  <2>6. QED BY <2>4, <2>5 DEF ScanInv
<1>4. CASE Rescan
  <2>1. /\ scanned.full
        /\ report' = Merge(report, Compare(J.src, cat, <<>>, "objects", Plan, J.policy))
        /\ scanned' = [scanned EXCEPT !.cat = cat, !.fixed = fixed]
    BY <1>4 DEF Rescan
  <2>2. scanned = [full |-> TRUE, cat |-> scanned.cat, tables |-> scanned.tables, rows |-> scanned.rows,
                   fixed |-> scanned.fixed, whole |-> scanned.whole, exact |-> scanned.exact]
    BY <2>1 DEF ScanInv
  <2>3. scanned' = [full |-> TRUE, cat |-> cat, tables |-> scanned.tables, rows |-> scanned.rows,
                    fixed |-> fixed, whole |-> scanned.whole, exact |-> scanned.exact]
    BY <2>1, <2>2
  <2>4. ASSUME NEW at, NEW i \in report', i.id = <<"table", at>> PROVE i \in report
    <3>1. i \notin Compare(J.src, cat, <<>>, "objects", Plan, J.policy)
      BY <2>4, RescanItems
    <3>2. QED BY <2>1, <2>4, <3>1 DEF Merge
  <2>5. MatchedRowsAgree'
    BY <1>1, <2>1, <2>3, <2>4 DEF MatchedRowsAgree, ScanInv
  <2>6. QED BY <2>3, <2>5 DEF ScanInv
<1>5. QED
  BY <1>2, <1>3, <1>4
  DEF ValidationNext, Apply, Load, Drift, RunFix, StartParity, RunPair, EndParity, validationVars

\* Whatever is counted, estimated or not to be counted, and whichever scans follow one
\* another, a table is reported as matched only with the rows of the source, if the
\* source was counted and the target not estimated (compare, _validate, merge_object_rescan).
THEOREM MatchedTablesAgree == ValidationSpec => []MatchedRowsAgree
<1>1. ValidationInit => RowsInv /\ ScanInv
  BY DEF ValidationInit, RowsInv, SrcTables, J, ScanInv, MatchedRowsAgree, NoScan
<1>2. RowsInv /\ ScanInv /\ [ValidationNext]_validationVars => (RowsInv /\ ScanInv)'
  BY RowsInvNext, ScanInvNext
<1>3. ScanInv => MatchedRowsAgree
  BY DEF ScanInv
<1>4. QED BY <1>1, <1>2, <1>3, PTL DEF ValidationSpec
-----------------------------------------------------------------------------
(* Validation: the verdicts on pairs of queries. *)

LEMMA FunctionLen ==
  ASSUME NEW n \in Nat, NEW S, NEW f \in [1 .. n -> S]
  PROVE  Len(f) = n
OBVIOUS

LEMMA ReturnedIs ==
  ASSUME NEW pair, NEW n \in Nat
  PROVE  /\ Returned(pair, n) \in Nat
         /\ Returned(pair, n) = n \/ (pair.asks = "top" /\ TOP < n /\ Returned(pair, n) = TOP)
BY TopAssumption DEF Returned

\* What is answered to a pair for the rows themselves, and to one for their number.
LEMMA AnswerRows ==
  ASSUME NEW pair, NEW n \in Nat, NEW reads, NEW sum, NEW a, a = Answer(pair, n, reads, sum),
         pair.asks \notin {"count", "other"}
  PROVE  /\ a.ok /\ a.names = pair.cols
         /\ Len(a.rows) = Returned(pair, n)
         /\ \A i \in 1 .. Returned(pair, n) :
              /\ DOMAIN a.rows[i] = DOMAIN pair.cols
              /\ \A j \in DOMAIN pair.cols : a.rows[i][j] = Cell(<<i, reads[j].kept>>, reads[j].form)
<1> DEFINE k == Returned(pair, n)
           f == [i \in 1 .. k |-> [j \in DOMAIN pair.cols |-> Cell(<<i, reads[j].kept>>, reads[j].form)]]
<1>1. Answer(pair, n, reads, sum) = [ok |-> TRUE, names |-> pair.cols, rows |-> f]
  BY DEF Answer
<1>2. k \in Nat
  BY ReturnedIs
<1>3. Len(f) = k
  <2> HIDE DEF k
  <2>1. f \in [1 .. k -> {f[i] : i \in 1 .. k}]
    OBVIOUS
  <2> HIDE DEF f
  <2>2. QED BY <1>2, <2>1, FunctionLen
<1>4. \A i \in 1 .. k : /\ DOMAIN f[i] = DOMAIN pair.cols
                        /\ \A j \in DOMAIN pair.cols : f[i][j] = Cell(<<i, reads[j].kept>>, reads[j].form)
  <2> HIDE DEF k
  <2>1. QED OBVIOUS
<1> HIDE DEF f
<1>5. QED BY <1>1, <1>3, <1>4

LEMMA AnswerCount ==
  ASSUME NEW pair, NEW n, NEW reads, NEW sum, pair.asks = "count"
  PROVE  Answer(pair, n, reads, sum).rows = << <<Cell(n, "number")>> >>
BY DEF Answer

\* A side that has an answer has the one the database gave.
LEMMA NoSide ==
  ASSUME NEW s
  PROVE  ~SideResult(s, NoAnswer).ok
BY DEF SideResult, NoAnswer

LEMMA SideIs ==
  ASSUME NEW s, NEW pair, NEW n, NEW reads, NEW sum, SideResult(s, Answer(pair, n, reads, sum)).ok
  PROVE  LET a == Answer(pair, n, reads, sum)
         IN  /\ SideResult(s, a).rows = a.rows
             /\ SideResult(s, a).names = IF Len(a.rows) = 0 THEN <<>> ELSE pair.cols
<1>1. PICK found : Answer(pair, n, reads, sum) = [ok |-> TRUE, names |-> pair.cols, rows |-> found]
  BY DEF Answer
<1>2. QED BY <1>1 DEF SideResult, NoAnswer

LEMMA BothAnswer ==
  ASSUME NEW pair, NEW source, NEW target, CompareAnswers(pair, source, target).status # "error"
  PROVE  source.ok /\ target.ok
BY DEF CompareAnswers, Comparison

\* The sample is no larger than the answers, and has a row if they have one.
LEMMA SampleIs ==
  ASSUME NEW n \in Nat
  PROVE  /\ Min({n, n, VALUE_SAMPLE}) \in Nat
         /\ Min({n, n, VALUE_SAMPLE}) <= n
         /\ n > 0 => Min({n, n, VALUE_SAMPLE}) >= 1
<1> DEFINE S == {n, VALUE_SAMPLE}
<1>1. VALUE_SAMPLE \in Nat /\ VALUE_SAMPLE >= 1
  BY SampleAssumption
<1>2. \E x \in S : \A y \in S : x =< y
  BY <1>1
<1>3. Min(S) \in S /\ \A y \in S : Min(S) =< y
  BY <1>2 DEF Min
<1>4. {n, n, VALUE_SAMPLE} = S
  OBVIOUS
<1>5. QED BY <1>1, <1>3, <1>4

\* A match is of two answers with as many rows, and the first rows read alike.
LEMMA MatchTells ==
  ASSUME NEW pair, NEW source, NEW target,
         Len(source.rows) \in Nat,
         CompareAnswers(pair, source, target).status = "match"
  PROVE  /\ Len(source.rows) = Len(target.rows)
         /\ Len(source.rows) > 0 =>
              \A j \in DOMAIN source.rows[1] : Normalize(source.rows[1][j]) = Normalize(target.rows[1][j])
<1>1. /\ Len(source.rows) = Len(target.rows)
      /\ MismatchColumns(source, target) = {}
  BY DEF CompareAnswers, Comparison
<1>2. ASSUME Len(source.rows) > 0, NEW j \in DOMAIN source.rows[1]
      PROVE  Normalize(source.rows[1][j]) = Normalize(target.rows[1][j])
  <2> DEFINE overlap == Min({Len(source.rows), Len(target.rows), VALUE_SAMPLE})
  <2>1. overlap \in Nat /\ overlap >= 1
    BY <1>1, <1>2, SampleIs
  <2>2. MismatchColumns(source, target) = UNION {Differing(source, target, i) : i \in 1 .. overlap}
    BY DEF MismatchColumns
  <2>3. 1 \in 1 .. overlap
    BY <2>1
  <2> HIDE DEF overlap
  <2>4. Differing(source, target, 1) = {}
    BY <1>1, <2>2, <2>3
  <2>5. QED BY <1>2, <2>4 DEF Differing
<1>3. QED BY <1>1, <1>2

\* Two answers with the same columns, as many rows and cells that read alike match.
LEMMA AlikeMatch ==
  ASSUME NEW pair, NEW source, NEW target, source.ok, target.ok,
         source.names = target.names,
         Len(source.rows) \in Nat, Len(source.rows) = Len(target.rows),
         \A i \in 1 .. Len(source.rows) : \A j \in DOMAIN source.rows[i] :
           Normalize(source.rows[i][j]) = Normalize(target.rows[i][j])
  PROVE  CompareAnswers(pair, source, target).status = "match"
<1> DEFINE overlap == Min({Len(source.rows), Len(target.rows), VALUE_SAMPLE})
<1>1. overlap \in Nat /\ overlap <= Len(source.rows)
  BY SampleIs
<1>2. MismatchColumns(source, target) = UNION {Differing(source, target, i) : i \in 1 .. overlap}
  BY DEF MismatchColumns
<1> HIDE DEF overlap
<1>3. \A i \in 1 .. overlap : Differing(source, target, i) = {}
  BY <1>1 DEF Differing
<1>4. MismatchColumns(source, target) = {}
  BY <1>2, <1>3
<1>5. QED BY <1>4 DEF CompareAnswers, Comparison

\* A pair that ran on both sides found some rows on either, and what it returned is of them.
LEMMA PairRan ==
  ASSUME RowsInv, RunPair, NEW c \in parity'.done \ parity.done, NEW t \in SrcTables,
         c.status # "error", t.at = c.pair.at
  PROVE  \E found \in Passing(c.pair, J.rows[t]) : \E sum, sum2, S, T :
         \E n \in TargetFinds(c.pair, J.rows[t], found), r \in TargetReadings(c.pair) :
           /\ S = SideResult(c.pair.source, Answer(c.pair, found, SourceReading(c.pair), sum)) /\ S.ok
           /\ T = SideResult(c.pair.target, Answer(c.pair, n, r, sum2)) /\ T.ok
           /\ c = CompareAnswers(c.pair, S, T)
<1> DEFINE q == Head(parity.left)
           count == J.rows[CHOOSE u \in SrcTables : u.at = q.at]
<1>1. PICK found \in Passing(q, count) :
        \E source \in SourceAnswers(q, found) \cup {NoAnswer},
           target \in TargetAnswers(q, count, found) \cup {NoAnswer} :
          parity' = [parity EXCEPT !.left = Tail(@),
                       !.done = @ \cup {CompareAnswers(q, SideResult(q.source, source), SideResult(q.target, target))}]
  BY Zenon DEF RunPair
<1>2. PICK source \in SourceAnswers(q, found) \cup {NoAnswer},
           target \in TargetAnswers(q, count, found) \cup {NoAnswer} :
          parity' = [parity EXCEPT !.left = Tail(@),
                       !.done = @ \cup {CompareAnswers(q, SideResult(q.source, source), SideResult(q.target, target))}]
  BY <1>1, Zenon
<1> HIDE DEF q, count
<1>3. c = CompareAnswers(q, SideResult(q.source, source), SideResult(q.target, target))
  BY <1>2 DEF RowsInv, NoParity
<1>4. c.pair = q
  BY <1>3 DEF CompareAnswers, Comparison
<1>5. count = J.rows[t]
  BY <1>4, SrcTypes DEF RowsInv, count
<1>6. SideResult(q.source, source).ok /\ SideResult(q.target, target).ok
  BY <1>3, BothAnswer
<1>7. source \in SourceAnswers(q, found) /\ target \in TargetAnswers(q, count, found)
  BY <1>6, NoSide
<1>8. PICK sum \in Sums : source = Answer(q, found, SourceReading(q), sum)
  BY <1>7 DEF SourceAnswers
<1>9. PICK n \in TargetFinds(q, count, found), r \in TargetReadings(q), sum2 \in Sums :
        target = Answer(q, n, r, sum2)
  BY <1>7 DEF TargetAnswers
<1>10. /\ found \in Passing(c.pair, J.rows[t])
       /\ n \in TargetFinds(c.pair, J.rows[t], found) /\ r \in TargetReadings(c.pair)
       /\ SideResult(c.pair.source, Answer(c.pair, found, SourceReading(c.pair), sum)).ok
       /\ SideResult(c.pair.target, Answer(c.pair, n, r, sum2)).ok
       /\ c = CompareAnswers(c.pair, SideResult(c.pair.source, Answer(c.pair, found, SourceReading(c.pair), sum)),
                             SideResult(c.pair.target, Answer(c.pair, n, r, sum2)))
  BY <1>3, <1>4, <1>5, <1>6, <1>8, <1>9
<1>11. QED BY <1>10, Zenon

\* It is said to match only if the target had the rows, or both had enough.
LEMMA MatchedPair ==
  ASSUME NEW q, q.asks # "other", NEW found \in Nat, NEW n \in Nat, NEW reads, NEW r, NEW sum, NEW sum2,
         NEW S, S = SideResult(q.source, Answer(q, found, reads, sum)), S.ok,
         NEW T, T = SideResult(q.target, Answer(q, n, r, sum2)), T.ok,
         CompareAnswers(q, S, T).status = "match"
  PROVE  found = n \/ (q.asks = "top" /\ found >= TOP /\ n >= TOP)
<1>1. S.rows = Answer(q, found, reads, sum).rows /\ T.rows = Answer(q, n, r, sum2).rows
  BY SideIs
<1>2. CASE q.asks = "count"
  <2>1. S.rows = << <<Cell(found, "number")>> >> /\ T.rows = << <<Cell(n, "number")>> >>
    BY <1>1, <1>2, AnswerCount
  <2>2. Normalize(S.rows[1][1]) = Normalize(T.rows[1][1])
    <3>1. Len(S.rows) = 1 /\ 1 \in DOMAIN S.rows[1]
      BY <2>1
    <3>2. QED BY <3>1, MatchTells
  <2>3. Normalize(Cell(found, "number")) = Normalize(Cell(n, "number"))
    BY <2>1, <2>2
  <2>4. QED BY <2>3 DEF Normalize, Cell, Plain
<1>3. CASE q.asks # "count"
  <2>1. Len(S.rows) = Returned(q, found) /\ Len(T.rows) = Returned(q, n) /\ Returned(q, found) \in Nat
    BY <1>1, <1>3, AnswerRows, ReturnedIs
  <2>2. Returned(q, found) = Returned(q, n)
    BY <2>1, MatchTells
  <2>3. QED BY <2>2, ReturnedIs, TopAssumption
<1>4. QED BY <1>2, <1>3

\* And it is, if as many rows were found and every column reads as in the source.
LEMMA PairMatches ==
  ASSUME NEW q, q.asks # "other", NEW n \in Nat, NEW sum, NEW sum2,
         NEW r, \A j \in DOMAIN q.cols : r[j].kept = TRUE /\ r[j].form \in Plain,
         NEW S, S = SideResult(q.source, Answer(q, n, SourceReading(q), sum)), S.ok,
         NEW T, T = SideResult(q.target, Answer(q, n, r, sum2)), T.ok
  PROVE  CompareAnswers(q, S, T).status = "match"
<1> DEFINE a == Answer(q, n, SourceReading(q), sum)
           b == Answer(q, n, r, sum2)
<1>1. /\ S.rows = a.rows /\ S.names = IF Len(a.rows) = 0 THEN <<>> ELSE q.cols
      /\ T.rows = b.rows /\ T.names = IF Len(b.rows) = 0 THEN <<>> ELSE q.cols
  BY SideIs
<1>2. CASE q.asks = "count"
  <2>1. a.rows = << <<Cell(n, "number")>> >> /\ b.rows = << <<Cell(n, "number")>> >>
    BY <1>2, AnswerCount
  <2> HIDE DEF a, b
  <2>2. S.rows = T.rows /\ S.names = T.names /\ Len(S.rows) = 1
    BY <1>1, <2>1
  <2>3. QED BY <2>2, AlikeMatch
<1>3. CASE q.asks # "count"
  <2> DEFINE k == Returned(q, n)
  <2>1. k \in Nat /\ Len(a.rows) = k /\ Len(b.rows) = k
    BY <1>3, AnswerRows, ReturnedIs
  <2>2. ASSUME NEW i \in 1 .. k
        PROVE  /\ DOMAIN a.rows[i] = DOMAIN q.cols
               /\ \A j \in DOMAIN q.cols : /\ a.rows[i][j] = Cell(<<i, TRUE>>, "number")
                                           /\ b.rows[i][j] = Cell(<<i, r[j].kept>>, r[j].form)
    <3>1. /\ DOMAIN a.rows[i] = DOMAIN q.cols
          /\ \A j \in DOMAIN q.cols : a.rows[i][j] = Cell(<<i, SourceReading(q)[j].kept>>, SourceReading(q)[j].form)
      BY <1>3, AnswerRows
    <3>2. \A j \in DOMAIN q.cols : b.rows[i][j] = Cell(<<i, r[j].kept>>, r[j].form)
      <4>1. /\ DOMAIN b.rows[i] = DOMAIN q.cols
            /\ \A j \in DOMAIN q.cols : b.rows[i][j] = Cell(<<i, r[j].kept>>, r[j].form)
        BY <1>3, AnswerRows, SMTT(30)
      <4>2. QED BY <4>1
    <3>3. \A j \in DOMAIN q.cols : SourceReading(q)[j].kept = TRUE /\ SourceReading(q)[j].form = "number"
      BY DEF SourceReading
    <3> HIDE DEF a, b, k
    <3>4. QED BY <3>1, <3>2, <3>3
  <2> HIDE DEF a, b, k
  <2>3. ASSUME NEW i \in 1 .. k, NEW j \in DOMAIN a.rows[i]
        PROVE  Normalize(a.rows[i][j]) = Normalize(b.rows[i][j])
    <3>1. j \in DOMAIN q.cols
      BY <2>2, <2>3
    <3>2. a.rows[i][j] = Cell(<<i, TRUE>>, "number") /\ b.rows[i][j] = Cell(<<i, TRUE>>, r[j].form)
      BY <2>2, <3>1
    <3>3. r[j].kept = TRUE /\ r[j].form \in Plain
      BY <3>1
    <3>4. \A form \in Plain : Normalize(Cell(<<i, TRUE>>, form)) = Cell(<<i, TRUE>>, "text")
      BY DEF Normalize, Cell
    <3>5. "number" \in Plain
      BY DEF Plain
    <3>6. b.rows[i][j] = Cell(<<i, TRUE>>, r[j].form)
      BY <3>2, <3>3
    <3>7. QED BY <3>2, <3>3, <3>4, <3>5, <3>6
  <2>4. S.names = T.names
    BY <1>1, <2>1
  <2>5. Len(S.rows) = k /\ Len(T.rows) = k
    BY <1>1, <2>1
  <2>6. \A i \in 1 .. Len(S.rows) : \A j \in DOMAIN S.rows[i] :
          Normalize(S.rows[i][j]) = Normalize(T.rows[i][j])
    BY <1>1, <2>3, <2>5
  <2>7. QED BY <2>1, <2>4, <2>5, <2>6, AlikeMatch
<1>4. QED BY <1>2, <1>3

LEMMA PairTells ==
  ASSUME RowsInv, RunPair, NEW c \in parity'.done \ parity.done, NEW t \in SrcTables,
         c.status # "error", t.at = c.pair.at, c.pair.asks # "other"
  PROVE  LET q == c.pair
             enough == q.asks = "top" /\ J.rows[t] >= TOP /\ rows[PlaceOf(t)] >= TOP
             same == rows[PlaceOf(t)] = J.rows[t]
         IN  /\ c.status = "match" /\ q.where = {} => same \/ enough
             /\ same /\ Alike(q) /\ (\A name \in ToSet(q.cols) : SameType(q, name)) => c.status = "match"
<1> DEFINE q == c.pair
           there == rows[PlaceOf(t)]
           count == J.rows[t]
<1>0. PICK found \in Passing(q, count) : \E sum, sum2, S, T :
        \E n \in TargetFinds(q, count, found), r \in TargetReadings(q) :
          /\ S = SideResult(q.source, Answer(q, found, SourceReading(q), sum)) /\ S.ok
          /\ T = SideResult(q.target, Answer(q, n, r, sum2)) /\ T.ok
          /\ c = CompareAnswers(q, S, T)
  BY PairRan, Zenon
<1>1. PICK sum, sum2, S, T :
        \E n \in TargetFinds(q, count, found), r \in TargetReadings(q) :
          /\ S = SideResult(q.source, Answer(q, found, SourceReading(q), sum)) /\ S.ok
          /\ T = SideResult(q.target, Answer(q, n, r, sum2)) /\ T.ok
          /\ c = CompareAnswers(q, S, T)
  BY <1>0
<1>2. count \in Nat /\ there \in Nat
  BY RowsTypes
<1>a. there = rows[MapPlace(q.at, J.policy)]
  BY DEF PlaceOf
<1> HIDE DEF q, there, count
<1>b. PICK n \in TargetFinds(q, count, found), r \in TargetReadings(q) :
        /\ S = SideResult(q.source, Answer(q, found, SourceReading(q), sum)) /\ S.ok
        /\ T = SideResult(q.target, Answer(q, n, r, sum2)) /\ T.ok
        /\ c = CompareAnswers(q, S, T)
  BY <1>1, Zenon
<1>c. TargetFinds(q, count, found) =
        IF q.where # {} /\ Alike(q) /\ there = count THEN {found} ELSE Passing(q, there)
  BY <1>a DEF TargetFinds
<1>3. found \in Nat /\ n \in Nat
  <2>1. \A k \in Nat : Passing(q, k) \subseteq Nat
    BY DEF Passing
  <2>2. found \in Nat
    BY <1>2, <2>1
  <2>3. QED BY <1>2, <1>c, <2>1, <2>2
<1>4. q.asks # "other"
  BY DEF q
<1>5. ASSUME c.status = "match", q.where = {}
      PROVE  there = count \/ (q.asks = "top" /\ count >= TOP /\ there >= TOP)
  <2>1. found = count /\ n = there
    BY <1>5, <1>c DEF Passing
  <2>2. CompareAnswers(q, S, T).status = "match"
    BY <1>b, <1>5
  <2>3. found = n \/ (q.asks = "top" /\ found >= TOP /\ n >= TOP)
    BY <1>b, <1>3, <1>4, <2>2, MatchedPair
  <2>4. QED BY <2>1, <2>3
<1>6. ASSUME there = count, Alike(q), \A name \in ToSet(q.cols) : SameType(q, name)
      PROVE  c.status = "match"
  <2>1. n = found
    BY <1>2, <1>6, <1>c DEF Passing
  <2>2. \A j \in DOMAIN q.cols : r[j].kept = TRUE /\ r[j].form \in Plain
    <3>1. ASSUME NEW j \in DOMAIN q.cols PROVE r[j].kept = TRUE /\ r[j].form \in Plain
      <4>1. SameType(q, q.cols[j])
        BY <1>6 DEF ToSet
      <4>2. r[j] \in Readings /\ r[j].kept /\ r[j].form \in Plain
        BY <4>1 DEF TargetReadings
      <4>3. r[j].kept \in BOOLEAN
        BY <4>2 DEF Readings
      <4>4. QED BY <4>2, <4>3
    <3>2. QED BY <3>1
  <2>a. S = SideResult(q.source, Answer(q, n, SourceReading(q), sum)) /\ S.ok
    BY <1>b, <2>1
  <2>b. T = SideResult(q.target, Answer(q, n, r, sum2)) /\ T.ok
    BY <1>b
  <2>c. n \in Nat /\ q.asks # "other"
    BY <1>3, <1>4
  <2>3. CompareAnswers(q, S, T).status = "match"
    BY <2>2, <2>a, <2>b, <2>c, PairMatches, ZenonT(30)
  <2>4. QED BY <1>b, <2>3
<1>7. QED BY <1>5, <1>6 DEF q, there, count

\* Whatever the queries of a pair ask and however their values read, one for the rows of a
\* table or their number is only said to match if the target has as many, or both have at
\* least its limit; and it is, if the target has as many and columns and filters are as the
\* source's (_execute, compare, is_read_only).
THEOREM ParityVerdicts == ValidationSpec => ParityTells
<1>1. ValidationInit => RowsInv
  BY DEF ValidationInit, RowsInv, SrcTables, J
<1>2. RowsInv /\ [ValidationNext]_validationVars => RowsInv'
  BY RowsInvNext
<1>3. ASSUME RowsInv, [ValidationNext]_validationVars
      PROVE  \A c \in parity'.done \ parity.done, t \in SrcTables :
               c.status # "error" /\ t.at = c.pair.at /\ c.pair.asks # "other" =>
                 LET q == c.pair
                     enough == q.asks = "top" /\ J.rows[t] >= TOP /\ rows[PlaceOf(t)] >= TOP
                     same == rows[PlaceOf(t)] = J.rows[t]
                 IN  /\ c.status = "match" /\ q.where = {} => same \/ enough
                     /\ same /\ Alike(q) /\ (\A name \in ToSet(q.cols) : SameType(q, name)) => c.status = "match"
  <2>1. CASE RunPair
    BY <1>3, <2>1, PairTells
  <2>2. CASE StartParity \/ EndParity
    <3>1. parity'.done = {} \/ parity'.done = parity.done
      <4>1. DOMAIN parity = DOMAIN NoParity /\ NoParity.done = {}
        BY <1>3 DEF RowsInv, NoParity
      <4>2. CASE StartParity
        BY <4>1, <4>2 DEF StartParity, NoParity
      <4>3. CASE EndParity
        BY <4>1, <4>3 DEF EndParity, NoParity
      <4>4. QED BY <2>2, <4>2, <4>3
    <3>2. QED BY <3>1
  <2>3. CASE UNCHANGED parity
    BY <2>3
  <2>4. QED
    BY <1>3, <2>1, <2>2, <2>3
    DEF ValidationNext, Apply, Load, Drift, Validate, Rescan, RunFix, validationVars
<1>4. QED BY <1>1, <1>2, <1>3, PTL DEF ValidationSpec, ParityTells
-----------------------------------------------------------------------------
(* The scores of the two reports. *)

\* A share in per cent, rounded down.
LEMMA Share ==
  ASSUME NEW n \in Nat \ {0}, NEW k \in 0 .. n
  PROVE  /\ (100 * k) \div n \in 0 .. 100
         /\ (100 * k) \div n = 100 <=> k = n
<1> DEFINE q == (100 * k) \div n
<1>1. q \in Int /\ n * q <= 100 * k /\ 100 * k < n * q + n
  BY SMTT(30)
<1> HIDE DEF q
<1>2. q >= 0
  <2>1. q <= -1 => n * q + n <= 0
    BY <1>1, SMTT(30)
  <2>2. QED BY <1>1, <2>1
<1>3. q <= 100
  <2>1. q >= 101 => n * q >= 101 * n
    BY <1>1, SMTT(30)
  <2>2. QED BY <1>1, <2>1
<1>4. k < n => q < 100
  <2>1. q >= 100 => n * q >= 100 * n
    BY <1>1, SMTT(30)
  <2>2. QED BY <1>1, <2>1
<1>5. k = n => q >= 100
  <2>1. q <= 99 => n * q <= 99 * n
    BY <1>1, SMTT(30)
  <2>2. QED BY <1>1, <2>1
<1>6. QED BY <1>1, <1>2, <1>3, <1>4, <1>5 DEF q

LEMMA MatchedShare ==
  ASSUME NEW items, IsFiniteSet(items), items # {}
  PROVE  LET matched == {i \in items : i.status = "matched"} IN
         /\ Cardinality(items) \in Nat \ {0}
         /\ Cardinality(matched) \in 0 .. Cardinality(items)
         /\ Cardinality(matched) = Cardinality(items) <=> matched = items
<1> DEFINE matched == {i \in items : i.status = "matched"}
<1>1. matched \subseteq items
  OBVIOUS
<1> HIDE DEF matched
<1>2. IsFiniteSet(matched) /\ Cardinality(matched) <= Cardinality(items)
      /\ (Cardinality(matched) = Cardinality(items) => matched = items)
  BY <1>1, FS_Subset
<1>3. Cardinality(items) \in Nat /\ Cardinality(matched) \in Nat /\ Cardinality(items) # 0
  BY <1>2, FS_CardinalityType, FS_EmptySet
<1>4. QED BY <1>2, <1>3 DEF matched

\* "100 is only reachable when every object matches": one item of however many that does
\* not match is enough for less (_rollup).
THEOREM ScoreIsFull ==
  ASSUME NEW items, IsFiniteSet(items)
  PROVE  /\ MatchScore(items) \in 0 .. 100
         /\ MatchScore(items) = 100 <=> \A i \in items : i.status = "matched"
<1>1. CASE items = {}
  BY <1>1 DEF MatchScore
<1>2. CASE items # {}
  <2> DEFINE n == Cardinality(items)
             k == Cardinality({i \in items : i.status = "matched"})
  <2>1. /\ n \in Nat \ {0} /\ k \in 0 .. n
        /\ k = n <=> \A i \in items : i.status = "matched"
    BY <1>2, MatchedShare
  <2>2. MatchScore(items) = (100 * k) \div n
    BY <1>2 DEF MatchScore
  <2> HIDE DEF n, k
  <2>3. QED BY <2>1, <2>2, Share
<1>3. QED BY <1>1, <1>2
-----------------------------------------------------------------------------
(* An object that the target lacks is in the report: where its name tells. *)

\* What is assumed of the objects of a source.
LEMMA SrcObjects ==
  ASSUME job \in DOMAIN Jobs
  PROVE  /\ IsFiniteSet(J.src)
         /\ \A o \in J.src : /\ IsObject(o)
                             /\ o.kind \in {"table", "column"} \cup PostDataKinds \cup Programmable
                             /\ o.kind \in {"column"} \cup PostDataKinds => \E t \in SrcTables : t.at = o.at
                             /\ o.kind = "table" => o.tag # "helper"
                             /\ o.kind \in Routines => o \in DOMAIN J.shape /\ IsShape(J.shape[o])
         /\ \A o, p \in J.src : o.kind = "default" /\ p.kind = "identity" => o.at # p.at \/ o.cols # p.cols
  BY JobsAssumption DEF J, SrcTables, Tables

\* The fields of what an object is to become.
LEMMA TargetFields ==
  ASSUME NEW o, IsObject(o), NEW policy, NEW t, t = Target(o, policy)
  PROVE  /\ t.kind = o.kind /\ t.at = MapPlace(o.at, policy) /\ t.cols = o.cols
         /\ o.kind = "column" => /\ t.tag = Expected(o.tag)
                                 /\ \A c \in ColumnCollation(o) : t.name = c.name
         /\ o.kind # "column" => t.tag = o.tag
<1>1. /\ t.kind = o.kind /\ t.at = MapPlace(o.at, policy) /\ t.cols = o.cols
      /\ t.tag = IF o.kind = "column" THEN DataType(MapType(o.tag)) ELSE o.tag
  BY DEF Target, IsObject, Obj
<1>2. DataType(MapType(o.tag)) = Expected(o.tag)
  BY DEF DataType, Expected, CatalogNames, PG_TYPE_ALIASES
<1>3. ASSUME o.kind = "column", NEW c \in ColumnCollation(o) PROVE t.name = c.name
  <2>1. t.name = IF ColumnCollation(o) = {} THEN <<>> ELSE (CHOOSE d \in ColumnCollation(o) : TRUE).name
    BY <1>3 DEF Target, IsObject, Obj
  <2>2. ColumnCollation(o) = {c}
    BY <1>3 DEF ColumnCollation
  <2>3. QED BY <2>1, <2>2
<1>4. QED BY <1>1, <1>2, <1>3

\* The strength a collation is given is the way its source compares strings.
LEMMA StrengthTells ==
  ASSUME NEW flags, NEW x \in Letters, NEW y \in Letters
  PROVE  EqualIn(IF "BIN" \in flags THEN "bytes" ELSE Strength(flags), x, y) <=> EqualInSource(flags, x, y)
  BY DEF EqualIn, EqualInSource, Strength, Letters

\* A column whose collation has that strength compares as the source does.
LEMMA CollationTells ==
  ASSUME NEW o, NEW p, NEW objs, NEW c \in ColumnCollation(o), StrengthOf(p, objs) = c.tag
  PROVE  Compares(o, p, objs)
<1>1. c = TargetCollation(o.name)
  BY DEF ColumnCollation
<1>2. c.tag = IF "BIN" \in Flags[o.name].flags THEN "bytes" ELSE Strength(Flags[o.name].flags)
  BY <1>1 DEF TargetCollation, PgCollation, Obj, SourceCollation
<1>3. QED BY <1>2, StrengthTells DEF Compares

\* A column that is said to match has the type and the comparison of the source.
LEMMA ColumnTells ==
  ASSUME NEW o, IsObject(o), o.kind = "column", NEW objs, NameTells(o, objs),
         ColumnVerdict(o, J.policy, Inventory(objs)) = "matched"
  PROVE  Served(o, objs)
<1> DEFINE t == Target(o, J.policy)
           there == {c \in Columns(Inventory(objs), t.at) : c.cols = t.cols}
<1>1. /\ t.at = MapPlace(o.at, J.policy) /\ t.tag = Expected(o.tag)
      /\ \A c \in ColumnCollation(o) : t.name = c.name
  BY TargetFields
<1>2. /\ there # {}
      /\ \E c \in there : c.tag = Expected(o.tag)
      /\ ColumnCollation(o) = {} \/ \E c \in there : c.name = t.name
  BY DEF ColumnVerdict, CollationDrifts
<1>3. \A p \in there : p \in At(objs, t.at) /\ p \in Columns(objs, t.at) /\ p.kind = "column" /\ p.cols = t.cols
  BY DEF Inventory, Columns, At
<1>4. /\ \A p, q \in {p \in Columns(objs, t.at) : p.cols = t.cols} : p = q
      /\ \A p \in {p \in Columns(objs, t.at) : p.cols = t.cols}, c \in ColumnCollation(o) :
           p.name = c.name => StrengthOf(p, objs) = c.tag
  BY DEF NameTells, PostDataKinds
<1> HIDE DEF t, there
<1>5. PICK p \in there : p.tag = t.tag
  BY <1>1, <1>2
<1>6. ASSUME ColumnCollation(o) # {} PROVE Compares(o, p, objs)
  <2>1. PICK c \in ColumnCollation(o) : TRUE
    BY <1>6
  <2>2. p.name = c.name
    BY <1>1, <1>2, <1>3, <1>4, <1>5, <2>1
  <2>3. StrengthOf(p, objs) = c.tag
    BY <1>3, <1>4, <1>5, <2>2
  <2>4. QED BY <2>3, CollationTells
<1>7. \E q \in At(objs, t.at) : q.kind = "column" /\ q.cols = t.cols
        /\ q.tag = t.tag /\ (ColumnCollation(o) # {} => Compares(o, q, objs))
  BY <1>3, <1>5, <1>6
<1>8. QED BY <1>7 DEF Served, t, Routines

\* What a rollup looks an object up among, as in Rollup.
PresentFor(group, o, objs) ==
  {p \in At(Inventory(objs), MapPlace(o.at, J.policy)) :
     p.kind \in group /\ (p.kind = "identity" => \E e \in J.src : e.at = o.at /\ e.kind = "identity" /\ e.cols = p.cols)}

\* The kinds an object is laid side by side with.
LEMMA GroupTells ==
  ASSUME NEW o, o.kind \in PostDataKinds
  PROVE  /\ o.kind \in Group(o.kind)
         /\ \A p : p.kind \in Group(o.kind) => (o.kind \in {"index", "fk"} => p.kind = o.kind)
  BY DEF Group, PostDataKinds

\* A key, an index, a constraint, a default or an identity that is said to match is there.
LEMMA VerdictTells ==
  ASSUME job \in DOMAIN Jobs, NEW o \in J.src, o.kind \in PostDataKinds, NEW objs, NameTells(o, objs),
         Verdict(o, PresentFor(Group(o.kind), o, objs), J.policy) = "matched"
  PROVE  Served(o, objs)
<1> DEFINE t == Target(o, J.policy)
           found == {p \in PresentFor(Group(o.kind), o, objs) : Key(p) = Key(t)}
<1>1. /\ t.kind = o.kind /\ t.at = MapPlace(o.at, J.policy) /\ t.cols = o.cols /\ t.tag = o.tag
  BY SrcObjects, TargetFields DEF PostDataKinds
<1>2. /\ found # {}
      /\ o.kind \in {"pk", "index", "fk"} /\ Latest(found).kind \notin {"default", "identity"}
           => Latest(found).cols = t.cols
  BY DEF Verdict
<1>3. \A p \in At(objs, t.at) : p.kind \in Group(o.kind) /\ Key(p) = Key(t) => StandsFor(p, o)
  <2>1. o.kind # "column"
    BY DEF PostDataKinds
  <2>2. QED BY <2>1 DEF NameTells
<1>4. ASSUME NEW p \in found
      PROVE  /\ p \in At(objs, t.at) /\ Key(p) = Key(t) /\ StandsFor(p, o)
             /\ p.kind = "identity" => \E e \in J.src : e.at = o.at /\ e.kind = "identity" /\ e.cols = p.cols
  <2>1. p \in At(objs, t.at) /\ p.kind \in Group(o.kind) /\ Key(p) = Key(t)
    BY <1>1, <1>4 DEF PresentFor, Inventory, At
  <2>2. QED BY <1>3, <1>4, <2>1 DEF PresentFor
<1> HIDE DEF t, found
<1>5. PICK q \in found : TRUE
  BY <1>2
<1>6. CASE o.kind \in {"pk", "index", "fk"}
  <2>1. \A p \in found : p.kind = o.kind
    BY <1>4, <1>6 DEF StandsFor
  <2>2. \A r \in found : Order(q.kind) >= Order(r.kind)
    BY <1>6, <2>1 DEF Order
  <2>3. Latest(found) \in found
    BY <1>5, <2>2 DEF Latest
  <2>4. Latest(found).cols = t.cols /\ Latest(found).kind = o.kind /\ Latest(found) \in At(objs, t.at)
    BY <1>2, <1>4, <1>6, <2>1, <2>3
  <2>5. \E p \in At(objs, t.at) : p.kind = o.kind /\ p.cols = t.cols
    BY <2>4
  <2>6. QED BY <1>6, <2>5 DEF Served, t, Routines
<1>7. CASE o.kind = "default"
  <2>1. q.kind \in {"default", "identity"} /\ q.cols = t.cols /\ q \in At(objs, t.at)
    BY <1>1, <1>4, <1>5, <1>7 DEF StandsFor, Key
  <2>2. q.kind # "identity"
    BY <1>1, <1>4, <1>5, <1>7, <2>1, SrcObjects
  <2>3. \E p \in At(objs, t.at) : p.kind = o.kind /\ p.cols = t.cols
    BY <1>7, <2>1, <2>2
  <2>4. QED BY <1>7, <2>3 DEF Served, t, Routines
<1>8. CASE o.kind = "identity"
  <2>1. \E p \in At(objs, t.at) : p.kind \in {"identity", "default"} /\ p.cols = t.cols
    BY <1>1, <1>4, <1>5, <1>8 DEF StandsFor, Key
  <2>2. QED BY <1>8, <2>1 DEF Served, t, Routines
<1>9. CASE o.kind = "check"
  <2>1. \E p \in At(objs, t.at) : p.kind = "check" /\ p.tag = t.tag
    BY <1>1, <1>4, <1>5, <1>9 DEF StandsFor
  <2>2. QED BY <1>9, <2>1 DEF Served, t, Routines
<1>10. QED BY <1>6, <1>7, <1>8, <1>9 DEF PostDataKinds

\* A rollup tells of an object of its kinds whether it was found.
LEMMA RollupTells ==
  ASSUME NEW t, NEW objs, NEW group, NEW kinds, NEW o \in J.src, o.at = t.at, o.kind \in kinds
  PROVE  \E i \in Rollup(group, kinds, t, J.src, Inventory(objs), J.policy) :
           /\ i.id = <<group, t.at>>
           /\ LET verdict == Verdict(o, PresentFor(kinds, o, objs), J.policy)
              IN  Diff(o, verdict) \in i.diffs /\ (verdict # "matched" => i.status = "mismatch")
<1> DEFINE at == MapPlace(t.at, J.policy)
           expected == {e \in At(J.src, t.at) : e.kind \in kinds}
           present == {p \in At(Inventory(objs), at) : p.kind \in kinds
                   /\ (p.kind = "identity" => \E e \in expected : e.kind = "identity" /\ e.cols = p.cols)}
           diffs == {Diff(e, Verdict(e, present, J.policy)) : e \in expected}
           keys == {Key(Target(e, J.policy)) : e \in expected}
           extra == {Diff(p, "extra") : p \in {p \in present : Key(p) \notin keys}}
           missing == {d.obj : d \in {d \in diffs : d.verdict = "missing"}}
           same(e) == {p \in expected : Key(Target(p, J.policy)) = Key(Target(e, J.policy))}
           status == IF \A d \in diffs \cup extra : d.verdict = "matched" THEN "matched" ELSE "mismatch"
           fix == {Make(Latest(same(e))) : e \in missing}
           item == Item(group, t.at, status, group, diffs \cup extra, fix)
<1>1. o \in expected
  BY DEF At
<1>2. present = PresentFor(kinds, o, objs)
  BY DEF PresentFor, At
<1>3. item \in Rollup(group, kinds, t, J.src, Inventory(objs), J.policy)
  BY <1>1 DEF Rollup
<1>4. /\ item.id = <<group, t.at>> /\ item.diffs = diffs \cup extra /\ item.status = status
  BY DEF Item
<1>5. Diff(o, Verdict(o, present, J.policy)) \in diffs
  BY <1>1
<1> DEFINE v == Verdict(o, present, J.policy)
<1>6. Diff(o, v).verdict = v
  BY DEF Diff
<1> HIDE DEF item, diffs, extra, present, v
<1>7. v # "matched" => status = "mismatch"
  BY <1>5, <1>6 DEF v
<1>8. QED BY <1>2, <1>3, <1>4, <1>5, <1>7 DEF v

\* A routine, a view or a trigger that is said to match can be called.
LEMMA RoutineTells ==
  ASSUME job \in DOMAIN Jobs, NEW o \in J.src, o.kind \in Programmable, NEW objs,
         NEW i, i = RoutineItem(o, Inventory(objs), Plan, J.policy)
  PROVE  /\ i.id = <<o.kind, o.at>>
         /\ i.status = "matched" => Served(o, objs)
<1> DEFINE t == Target(o, J.policy)
           kind == ExpectedKind(o, Plan)
           cat0 == Inventory(objs)
           cursor == \E p \in Kind(cat0, "procedure") : p.at = t.at /\ p.tag = "cursor"
<1>1. t.at = MapPlace(o.at, J.policy)
  BY SrcObjects, TargetFields
<1>2. /\ i.id = <<o.kind, o.at>>
      /\ i.status = "matched" =>
           t.at \in Places(cat0, kind) \/ (kind # o.kind /\ cursor)
  BY <1>1 DEF RoutineItem, Item
<1>3. /\ kind \in {o.kind, "function"}
      /\ kind # o.kind => GivesRows(o)
      /\ GivesRows(o) /\ o.kind \in Routines => kind = "function"
  <2>1. CASE o.kind = "procedure"
    <3>1. o \in DOMAIN J.shape /\ IsShape(J.shape[o])
      BY <2>1, SrcObjects DEF Routines
    <3>2. Plan.shape[o] = IF J.stored THEN J.shape[o] ELSE [J.shape[o] EXCEPT !.tag = "none"]
      BY <3>1 DEF Plan
    <3>3. Plan.shape[o].tag = IF J.stored THEN J.shape[o].tag ELSE "none"
      BY <3>1, <3>2 DEF IsShape
    <3>4. ReturnsSet(Plan.shape[o]) <=> J.stored /\ J.shape[o].tag = "set"
      BY <3>3 DEF ReturnsSet
    <3>5. QED BY <2>1, <3>4 DEF ExpectedKind, GivesRows, ReturnsResultSet
  <2>2. CASE o.kind # "procedure"
    BY <2>2 DEF ExpectedKind, GivesRows, Routines
  <2>3. QED BY <2>1, <2>2
<1>4. \A k : t.at \in Places(cat0, k) => \E p \in At(objs, t.at) : p.kind = k
  BY DEF Places, Kind, Inventory, At
<1>5. cursor => \E p \in At(objs, t.at) : p.kind = "procedure" /\ p.tag = "cursor"
  BY DEF Kind, Inventory, At
<1> HIDE DEF t, kind, cat0, cursor
<1>6. ASSUME i.status = "matched" PROVE Served(o, objs)
  <2>1. CASE o.kind \in Routines /\ GivesRows(o)
    <3>1. \E p \in At(objs, t.at) : p.kind = "function" \/ (p.kind = "procedure" /\ p.tag = "cursor")
      BY <1>2, <1>3, <1>4, <1>5, <1>6, <2>1
    <3>2. QED BY <2>1, <3>1 DEF Served, t, Routines
  <2>2. CASE ~(o.kind \in Routines /\ GivesRows(o))
    <3>1. kind = o.kind
      <4>1. o.kind \notin Routines => kind = o.kind
        BY DEF kind, ExpectedKind, Routines
      <4>2. QED BY <1>3, <2>2, <4>1
    <3>2. \E p \in At(objs, t.at) : p.kind = o.kind
      BY <1>2, <1>4, <1>6, <3>1
    <3>3. QED BY <2>2, <3>2 DEF Served, t, Routines, Programmable
  <2>3. QED BY <2>1, <2>2
<1>7. QED BY <1>2, <1>6

\* The items of rollups and of routines are not those of tables.
LEMMA ItemKinds ==
  ASSUME NEW src, NEW objects, NEW plan, NEW policy
  PROVE  /\ \A s : SchemaItem(s, objects).kind = "schema"
         /\ \A t, count : TableItem(t, src, objects, count, policy).kind = "table"
         /\ \A t : \A i \in PostDataItems(t, src, objects, policy) : i.kind \in {"constraint", "index", "foreign_key"}
         /\ \A o : RoutineItem(o, objects, plan, policy).kind = o.kind
         /\ \A code : \A i \in TriggerFunctionItems(code, objects, policy) : i.kind = "trigger-fn"
         /\ \A routines, scope : \A i \in Extras(src, objects, routines, scope, plan, policy) : i.kind = "extra"
<1>0. ASSUME NEW kind, NEW at, NEW status, NEW found, NEW diffs, NEW fix
      PROVE  Item(kind, at, status, found, diffs, fix).kind = kind
  BY DEF Item
<1>1. \A s : SchemaItem(s, objects).kind = "schema"
  BY DEF SchemaItem, Item
<1>2. \A t, count : TableItem(t, src, objects, count, policy).kind = "table"
  BY DEF TableItem, Item
<1>3. ASSUME NEW t, NEW i \in PostDataItems(t, src, objects, policy) PROVE i.kind \in {"constraint", "index", "foreign_key"}
  <2>1. ASSUME NEW group, NEW kinds, i \in Rollup(group, kinds, t, src, objects, policy) PROVE i.kind = group
    BY <2>1 DEF Rollup, Item
  <2>2. QED BY <1>3, <2>1 DEF PostDataItems
<1>4. \A o : RoutineItem(o, objects, plan, policy).kind = o.kind
  BY DEF RoutineItem, Item
<1>5. ASSUME NEW code, NEW i \in TriggerFunctionItems(code, objects, policy) PROVE i.kind = "trigger-fn"
  <2>1. \E o : i = Item("trigger-fn", o.at, "matched", "function", {}, {})
    BY <1>5 DEF TriggerFunctionItems
  <2>2. QED BY <2>1, <1>0
<1>6. ASSUME NEW routines, NEW scope, NEW i \in Extras(src, objects, routines, scope, plan, policy) PROVE i.kind = "extra"
  <2>1. ASSUME NEW kind, NEW a, NEW claimed, NEW owned PROVE Extra(kind, a, claimed, owned, plan).kind = "extra"
    BY DEF Extra, Item
  <2> DEFINE kinds == Programmable \cup (IF scope = "objects" THEN {} ELSE {"table"})
             claimed == [k \in Programmable \cup {"table"} |->
                           IF k = "table" THEN {MapPlace(t.at, policy) : t \in Tables(src)}
                           ELSE Claimed(k, {o \in src : o.kind \in Programmable}, routines, policy)]
             owned == UNION {claimed[k] : k \in Programmable}
  <2>2. Extras(src, objects, routines, scope, plan, policy)
          = UNION {{Extra(kind, a, claimed, owned, plan) : a \in Places(objects, kind) \ claimed[kind]} : kind \in kinds}
    BY DEF Extras
  <2> HIDE DEF kinds, claimed, owned
  <2>3. QED BY <1>6, <2>1, <2>2
<1>7. QED BY <1>1, <1>2, <1>3, <1>4, <1>5, <1>6

\* The rollups of the tables that are there, as in Compare.
Rollups(src, objects, policy) ==
  UNION {PostDataItems(t, src, objects, policy) : t \in {t \in Tables(src) : MapPlace(t.at, policy) \in Places(objects, "table")}}

\* What a comparison is made of.
LEMMA CompareParts ==
  ASSUME NEW src, NEW catalog, NEW counts, NEW scope, NEW plan, NEW policy,
         NEW objects, objects = Inventory(catalog), NEW items, items = Compare(src, catalog, counts, scope, plan, policy)
  PROVE  /\ scope # "objects" => \A t \in Tables(src) : TableItem(t, src, objects, counts[t], policy) \in items
         /\ Rollups(src, objects, policy) \subseteq items
         /\ \A o \in src : o.kind \in Programmable => RoutineItem(o, objects, plan, policy) \in items
         /\ \A i \in items : i.kind \in {"constraint", "index", "foreign_key"} => i \in Rollups(src, objects, policy)
<1> DEFINE code == {o \in src : o.kind \in Programmable}
           routines == {RoutineItem(o, objects, plan, policy) : o \in code}
           schemaItems == {SchemaItem(s, objects) : s \in {MapSchema(o.at[1], policy) : o \in src}}
           tableItems == IF scope = "objects" THEN {} ELSE {TableItem(t, src, objects, counts[t], policy) : t \in Tables(src)}
           triggers == TriggerFunctionItems(code, objects, policy)
           extras == Extras(src, objects, routines, scope, plan, policy)
           rollups == Rollups(src, objects, policy)
<1>1. items = schemaItems \cup tableItems \cup rollups \cup routines \cup triggers \cup extras
  BY DEF Compare, Rollups
<1>2. /\ \A i \in schemaItems : i.kind = "schema"
      /\ \A i \in tableItems : i.kind = "table"
      /\ \A i \in routines : i.kind \in Programmable
      /\ \A i \in triggers : i.kind = "trigger-fn"
      /\ \A i \in extras : i.kind = "extra"
  <2>1. \A i \in schemaItems : i.kind = "schema"
    BY ItemKinds
  <2>2. \A i \in tableItems : i.kind = "table"
    BY ItemKinds
  <2>3. \A i \in routines : i.kind \in Programmable
    BY ItemKinds
  <2>4. \A i \in triggers : i.kind = "trigger-fn"
    BY ItemKinds
  <2>5. \A i \in extras : i.kind = "extra"
    BY ItemKinds
  <2> HIDE DEF schemaItems, tableItems, routines, triggers, extras
  <2>6. QED BY <2>1, <2>2, <2>3, <2>4, <2>5
<1>3. scope # "objects" => \A t \in Tables(src) : TableItem(t, src, objects, counts[t], policy) \in tableItems
  OBVIOUS
<1>4. \A o \in src : o.kind \in Programmable => RoutineItem(o, objects, plan, policy) \in routines
  OBVIOUS
<1> HIDE DEF schemaItems, tableItems, routines, triggers, extras, rollups
<1>5. scope # "objects" => \A t \in Tables(src) : TableItem(t, src, objects, counts[t], policy) \in items
  BY <1>1, <1>3
<1>6. \A o \in src : o.kind \in Programmable => RoutineItem(o, objects, plan, policy) \in items
  BY <1>1, <1>4
<1>7. \A i \in items : i.kind \in {"constraint", "index", "foreign_key"} => i \in rollups
  BY <1>1, <1>2 DEF Programmable, Routines
<1>8. rollups \subseteq items
  BY <1>1
<1>9. QED BY <1>5, <1>6, <1>7, <1>8 DEF rollups

\* A table that is there tells of its columns; one that is not is missing.
LEMMA TableTells ==
  ASSUME NEW t, NEW src, NEW objects, NEW count, NEW policy, NEW i, i = TableItem(t, src, objects, count, policy)
  PROVE  /\ i.kind = "table" /\ i.id = <<"table", t.at>>
         /\ MapPlace(t.at, policy) \notin Places(objects, "table") => i.status = "missing"
         /\ MapPlace(t.at, policy) \in Places(objects, "table") =>
              \A o \in Columns(src, t.at) :
                ColumnVerdict(o, policy, objects) # "matched" =>
                  i.status = "mismatch" /\ Diff(o, ColumnVerdict(o, policy, objects)) \in i.diffs
<1> DEFINE at == MapPlace(t.at, policy)
           cols == {Diff(o, ColumnVerdict(o, policy, objects)) : o \in Columns(src, t.at)}
           extra == {Diff(o, "extra") : o \in {o \in Columns(objects, at) :
                       \A c \in Columns(src, t.at) : c.cols # o.cols}}
           diffs == cols \cup extra \cup {Diff(t, RowsVerdict(count))}
           status == IF \A d \in diffs : d.verdict = "matched" THEN "matched" ELSE "mismatch"
<1>1. i.kind = "table" /\ i.id = <<"table", t.at>>
  BY DEF TableItem, Item
<1>2. at \notin Places(objects, "table") => i.status = "missing"
  BY DEF TableItem, Item
<1>3. at \in Places(objects, "table") => i.status = status /\ i.diffs = diffs
  BY DEF TableItem, Item
<1>4. ASSUME at \in Places(objects, "table"), NEW o \in Columns(src, t.at), ColumnVerdict(o, policy, objects) # "matched"
      PROVE  i.status = "mismatch" /\ Diff(o, ColumnVerdict(o, policy, objects)) \in i.diffs
  <2>1. Diff(o, ColumnVerdict(o, policy, objects)) \in diffs
    OBVIOUS
  <2>2. Diff(o, ColumnVerdict(o, policy, objects)).verdict # "matched"
    BY <1>4 DEF Diff
  <2> HIDE DEF diffs, at
  <2>3. QED BY <1>3, <1>4, <2>1, <2>2
<1>5. QED BY <1>1, <1>2, <1>4

\* What depends on the migration alone stays.
LEMMA JobStays ==
  ASSUME job' = job
  PROVE  /\ J' = J /\ SrcTables' = SrcTables /\ Plan' = Plan
         /\ \A t : PlaceOf(t)' = PlaceOf(t)
         /\ \A i : Made(i)' = Made(i)
<1>1. J' = J
  BY DEF J
<1>2. \A i : Made(i)' = Made(i)
  BY <1>1 DEF Made
<1>3. QED BY <1>1, <1>2 DEF SrcTables, Plan, PlaceOf, Made

\* Scans and rescans replace what they looked at, and nothing else touches the report.
LEMMA ReportInvNext ==
  ASSUME RowsInv, ScanInv, ReportInv, [ValidationNext]_validationVars
  PROVE  ReportInv'
<1>1. job' = job
  BY RowsInvNext
<1>2. J' = J /\ SrcTables' = SrcTables /\ Plan' = Plan /\ \A t : PlaceOf(t)' = PlaceOf(t)
  BY <1>1, JobStays
<1>3. CASE UNCHANGED <<report, scanned>>
  BY <1>2, <1>3 DEF ReportInv, RollupsScanned
<1>4. ASSUME NEW counts, NEW scope, NEW items, items = Compare(J.src, cat, counts, scope, Plan, J.policy),
             scanned'.cat = cat, items \subseteq report' \/ {i \in items : ~IsTableItem(i)} \subseteq report',
             \A i \in report' : i \in items \/ i.kind \in {"table", "extra", "schema"}
      PROVE  /\ \A i \in report' : i.kind \in {"constraint", "index", "foreign_key"} => i \in RollupsScanned'
             /\ RollupsScanned' \subseteq report'
             /\ \A o \in J.src : o.kind \in Programmable => RoutineItem(o, Inventory(cat), Plan, J.policy) \in report'
  <2> DEFINE objects == Inventory(cat)
  <2>1. RollupsScanned' = Rollups(J.src, objects, J.policy)
    BY <1>2, <1>4 DEF RollupsScanned, Rollups, SrcTables, PlaceOf
  <2>2. /\ Rollups(J.src, objects, J.policy) \subseteq items
        /\ \A o \in J.src : o.kind \in Programmable => RoutineItem(o, objects, Plan, J.policy) \in items
        /\ \A i \in items : i.kind \in {"constraint", "index", "foreign_key"} => i \in Rollups(J.src, objects, J.policy)
    BY <1>4, CompareParts
  <2>3. \A i \in Rollups(J.src, objects, J.policy) : ~IsTableItem(i)
    <3>1. \A i \in Rollups(J.src, objects, J.policy) : i.kind \in {"constraint", "index", "foreign_key"}
      BY ItemKinds DEF Rollups
    <3>2. QED BY <3>1 DEF IsTableItem
  <2>4. \A o \in J.src : o.kind \in Programmable => ~IsTableItem(RoutineItem(o, objects, Plan, J.policy))
    <3>1. \A o : RoutineItem(o, objects, Plan, J.policy).kind = o.kind
      BY ItemKinds
    <3>2. QED BY <3>1 DEF IsTableItem, Programmable, Routines
  <2> HIDE DEF objects
  <2>5. Rollups(J.src, objects, J.policy) \subseteq report'
    BY <1>4, <2>2, <2>3
  <2>6. \A o \in J.src : o.kind \in Programmable => RoutineItem(o, objects, Plan, J.policy) \in report'
    BY <1>4, <2>2, <2>4
  <2>7. QED BY <1>4, <2>1, <2>2, <2>5, <2>6 DEF objects
<1>5. CASE Validate
  <2>1. PICK counts : /\ report' = Compare(J.src, cat, counts, "full", Plan, J.policy)
                      /\ scanned'.cat = cat /\ scanned'.tables = cat
    BY <1>5 DEF Validate
  <2>2. /\ \A i \in report' : i.kind \in {"constraint", "index", "foreign_key"} => i \in RollupsScanned'
        /\ RollupsScanned' \subseteq report'
        /\ \A o \in J.src : o.kind \in Programmable => RoutineItem(o, Inventory(cat), Plan, J.policy) \in report'
    BY <1>4, <2>1
  <2>3. \A t \in Tables(J.src) : TableItem(t, J.src, Inventory(cat), counts[t], J.policy) \in report'
    <3>1. "full" # "objects"
      OBVIOUS
    <3>2. QED BY <2>1, <3>1, CompareParts
  <2>4. ASSUME NEW t \in SrcTables
        PROVE  \E i \in report' :
                 /\ i.kind = "table" /\ i.id = <<"table", t.at>>
                 /\ PlaceOf(t) \notin Places(cat, "table") => i.status = "missing"
                 /\ PlaceOf(t) \in Places(cat, "table") =>
                      \A o \in Columns(J.src, t.at) :
                        LET verdict == ColumnVerdict(o, J.policy, Inventory(cat))
                        IN  verdict # "matched" => i.status = "mismatch" /\ Diff(o, verdict) \in i.diffs
    <3>1. PICK i \in report' : i = TableItem(t, J.src, Inventory(cat), counts[t], J.policy)
      BY <2>3 DEF SrcTables
    <3>2. Places(Inventory(cat), "table") = Places(cat, "table")
      BY DEF Places, Kind, Inventory, Routines
    <3>3. QED BY <3>1, <3>2, TableTells DEF PlaceOf
  <2>5. QED BY <1>2, <2>1, <2>2, <2>4 DEF ReportInv
<1>6. CASE Rescan
  <2> DEFINE items == Compare(J.src, cat, <<>>, "objects", Plan, J.policy)
  <2>1. scanned.full /\ report' = Merge(report, items) /\ scanned' = [scanned EXCEPT !.cat = cat, !.fixed = fixed]
    BY <1>6 DEF Rescan
  <2>2. scanned'.cat = cat /\ scanned'.tables = scanned.tables
    BY <2>1 DEF ScanInv
  <2>3. /\ {i \in items : ~IsTableItem(i)} \subseteq report'
        /\ \A i \in report' : i \in items \/ i.kind \in {"table", "extra", "schema"}
        /\ \A i \in report : IsTableItem(i) => i \in report'
    BY <2>1 DEF Merge, IsTableItem
  <2>4. /\ \A i \in report' : i.kind \in {"constraint", "index", "foreign_key"} => i \in RollupsScanned'
        /\ RollupsScanned' \subseteq report'
        /\ \A o \in J.src : o.kind \in Programmable => RoutineItem(o, Inventory(cat), Plan, J.policy) \in report'
    BY <1>4, <2>2, <2>3
  <2>5. \A i \in report : i.kind = "table" => i \in report'
    BY <2>3 DEF IsTableItem
  <2>6. QED BY <1>2, <2>1, <2>2, <2>3, <2>4, <2>5 DEF ReportInv
<1>7. QED
  BY <1>3, <1>5, <1>6
  DEF ValidationNext, Apply, Load, Drift, RunFix, StartParity, RunPair, EndParity, validationVars

\* Where the name of an object tells, its absence does.
LEMMA AbsentTells ==
  ASSUME job \in DOMAIN Jobs, ReportInv, scanned.full, NEW o \in J.src, NameTells(o, ScannedFor(o))
  PROVE  ReportedIfAbsent(o)
<1> SUFFICES ASSUME ~Served(o, ScannedFor(o))
             PROVE  Reported(o) \/ \E t \in SrcTables : t.at = o.at /\ (Reported(t)
                                    \/ PlaceOf(t) \notin Places(scanned.cat, "table"))
  BY DEF ReportedIfAbsent
<1>1. /\ IsObject(o) /\ o.kind \in {"table", "column"} \cup PostDataKinds \cup Programmable
      /\ o.kind \in {"column"} \cup PostDataKinds => \E t \in SrcTables : t.at = o.at
  BY SrcObjects
<1>2. ASSUME NEW i \in report, i.id = <<o.kind, o.at>>, i.status # "matched", o.kind # "extra" PROVE Reported(o)
  BY <1>2 DEF Reported
<1>3. ASSUME NEW i \in report, NEW kind, NEW at, i.id = <<kind, at>>, kind # "extra", i.status # "matched",
             NEW verdict, verdict # "matched", Diff(o, verdict) \in i.diffs
      PROVE  Reported(o)
  <2>1. Diff(o, verdict).obj = o /\ Diff(o, verdict).verdict # "matched"
    BY <1>3 DEF Diff
  <2>2. QED BY <1>3, <2>1 DEF Reported
<1>4. ASSUME NEW t \in SrcTables, PlaceOf(t) \notin Places(scanned.tables, "table") PROVE Reported(t)
  <2>1. PICK i \in report : i.id = <<"table", t.at>> /\ i.status = "missing"
    BY <1>4 DEF ReportInv
  <2>2. t.kind = "table"
    BY DEF SrcTables, Tables
  <2>3. QED BY <2>1, <2>2 DEF Reported
<1>5. CASE o.kind = "table"
  <2>1. o \in SrcTables
    BY <1>5 DEF SrcTables, Tables
  <2>2. PlaceOf(o) \notin Places(scanned.tables, "table")
    <3>1. ~ \E p \in At(scanned.tables, Target(o, J.policy).at) : p.kind = "table"
      BY <1>5 DEF Served, ScannedFor, PostDataKinds, Routines
    <3>2. Target(o, J.policy).at = PlaceOf(o)
      BY <1>1, TargetFields DEF PlaceOf
    <3>3. QED BY <3>1, <3>2 DEF Places, Kind, At
  <2>3. QED BY <1>4, <2>1, <2>2
<1>6. CASE o.kind = "column"
  <2>1. PICK t \in SrcTables : t.at = o.at
    BY <1>1, <1>6
  <2>2. CASE PlaceOf(t) \in Places(scanned.tables, "table")
    <3> DEFINE verdict == ColumnVerdict(o, J.policy, Inventory(scanned.tables))
    <3>1. verdict # "matched"
      BY <1>1, <1>6, ColumnTells DEF ScannedFor
    <3>2. o \in Columns(J.src, t.at)
      BY <1>6, <2>1 DEF Columns
    <3>3. PICK i \in report : i.id = <<"table", t.at>> /\ i.status = "mismatch" /\ Diff(o, verdict) \in i.diffs
      BY <2>2, <3>1, <3>2 DEF ReportInv
    <3> HIDE DEF verdict
    <3>4. QED BY <1>3, <3>1, <3>3
  <2>3. QED BY <1>4, <2>1, <2>2
<1>7. CASE o.kind \in PostDataKinds
  <2>1. PICK t \in SrcTables : t.at = o.at
    BY <1>1, <1>7
  <2>2. CASE PlaceOf(t) \in Places(scanned.cat, "table")
    <3> DEFINE verdict == Verdict(o, PresentFor(Group(o.kind), o, scanned.cat), J.policy)
    <3>0. ScannedFor(o) = scanned.cat
      BY <1>7 DEF ScannedFor, PostDataKinds
    <3>1. verdict # "matched"
      BY <1>7, <3>0, VerdictTells
    <3>2. Places(Inventory(scanned.cat), "table") = Places(scanned.cat, "table")
      BY DEF Places, Kind, Inventory, Routines
    <3>3. PostDataItems(t, J.src, Inventory(scanned.cat), J.policy) \subseteq report
      BY <2>2, <3>2 DEF ReportInv, RollupsScanned
    <3>4. PICK group \in {"constraint", "index", "foreign_key"} :
            Rollup(group, Group(o.kind), t, J.src, Inventory(scanned.cat), J.policy) \subseteq report
      <4>1. CASE o.kind = "index"
        BY <3>3, <4>1 DEF PostDataItems, Group
      <4>2. CASE o.kind = "fk"
        BY <3>3, <4>2 DEF PostDataItems, Group
      <4>3. CASE o.kind \notin {"index", "fk"}
        BY <3>3, <4>3 DEF PostDataItems, Group
      <4>4. QED BY <4>1, <4>2, <4>3
    <3>5. o.kind \in Group(o.kind)
      BY <1>7, GroupTells
    <3>6. PICK i \in Rollup(group, Group(o.kind), t, J.src, Inventory(scanned.cat), J.policy) :
            i.id = <<group, t.at>> /\ Diff(o, verdict) \in i.diffs /\ (verdict # "matched" => i.status = "mismatch")
      BY <2>1, <3>5, RollupTells
    <3> HIDE DEF verdict
    <3>7. QED BY <1>3, <3>1, <3>4, <3>6
  <2>3. QED BY <2>1, <2>2
<1>8. CASE o.kind \in Programmable
  <2>1. ScannedFor(o) = scanned.cat
    BY <1>8 DEF ScannedFor, Programmable, Routines
  <2>2. PICK i \in report : i = RoutineItem(o, Inventory(scanned.cat), Plan, J.policy)
    BY <1>8 DEF ReportInv
  <2>3. i.id = <<o.kind, o.at>> /\ i.status # "matched"
    BY <1>8, <2>1, <2>2, RoutineTells
  <2>4. QED BY <1>2, <1>8, <2>2, <2>3 DEF Programmable, Routines
<1>9. QED BY <1>1, <1>5, <1>6, <1>7, <1>8

\* The report is that of what was scanned, whatever was done to the target before and after.
LEMMA ReportIsOfTheScan == ValidationSpec => [](RowsInv /\ ScanInv /\ ReportInv)
<1>1. ValidationInit => RowsInv /\ ScanInv /\ ReportInv
  BY DEF ValidationInit, RowsInv, SrcTables, J, ScanInv, MatchedRowsAgree, NoScan, ReportInv
<1>2. RowsInv /\ ScanInv /\ ReportInv /\ [ValidationNext]_validationVars => (RowsInv /\ ScanInv /\ ReportInv)'
  BY RowsInvNext, ScanInvNext, ReportInvNext
<1>3. QED BY <1>1, <1>2, PTL DEF ValidationSpec

\* A source object that the target lacked when it was scanned is in the report, with no
\* assumption about a table, a routine, a view or a trigger; about a column or a constraint
\* only that what answers to its name is what it became.
THEOREM AbsentObjectsTell ==
  ValidationSpec => [](\A o \in IF scanned.full THEN J.src ELSE {} : NameTells(o, ScannedFor(o)) => ReportedIfAbsent(o))
<1>1. RowsInv /\ ScanInv /\ ReportInv
        => \A o \in IF scanned.full THEN J.src ELSE {} : NameTells(o, ScannedFor(o)) => ReportedIfAbsent(o)
  BY AbsentTells DEF RowsInv
<1>2. QED BY <1>1, ReportIsOfTheScan, PTL

-----------------------------------------------------------------------------
(* The catalogs that can be reached: what the statements of a migration leave. *)

\* What may be in the target, by the items of the migration.
LEMMA UniverseIs ==
  Universe(J) = J.left \cup Strays \cup UNION {Made(i) : i \in Items}
  BY DEF Universe, Made, Items

\* The fields of an object.
LEMMA ObjFields ==
  ASSUME NEW kind, NEW at, NEW name, NEW cols, NEW ref, NEW tag, NEW o, o = Obj(kind, at, name, cols, ref, tag)
  PROVE  /\ IsObject(o)
         /\ o.kind = kind /\ o.at = at /\ o.name = name /\ o.cols = cols /\ o.ref = ref /\ o.tag = tag
  BY DEF Obj, IsObject

\* What a plan is made of.
LEMMA ItemIs ==
  ASSUME job \in DOMAIN Jobs, NEW i \in Items
  PROVE  \/ \E e \in {"postgis", "ltree"} : i = ExtensionItem(e)
         \/ \E s : i = Schema(s)
         \/ i.kind = "collation" /\ IsObject(i)
         \/ i \in J.src /\ IsObject(i) /\ i.kind \in {"table", "column"} \cup PostDataKinds \cup Programmable
<1> DEFINE default == MapSchema(Dbo, J.policy)
           collations == NeedsCreate(AllColumns(J.src), default)
           schemas == {MapSchema(o.at[1], J.policy) : o \in J.src} \cup (IF collations = {} THEN {} ELSE {default})
<1>1. \/ i \in {ExtensionItem(e) : e \in UNION {Extension(c.tag) : c \in AllColumns(J.src)}}
      \/ i \in {Schema(s) : s \in schemas}
      \/ i \in collations
      \/ i \in J.src
  BY DEF Items, PlanItems, AllColumns
<1>2. CASE i \in {ExtensionItem(e) : e \in UNION {Extension(c.tag) : c \in AllColumns(J.src)}}
  BY <1>2 DEF Extension
<1>3. CASE i \in {Schema(s) : s \in schemas}
  BY <1>3
<1>4. CASE i \in collations
  <2>1. PICK c \in UNION {ColumnCollation(col) : col \in AllColumns(J.src)} : i = [c EXCEPT !.at = <<default, c.name>>, !.name = <<>>]
    BY <1>4 DEF NeedsCreate
  <2>2. PICK col \in AllColumns(J.src) : c = TargetCollation(col.name)
    BY <2>1 DEF ColumnCollation
  <2>3. PICK name, strength : c = PgCollation(name, strength)
    BY <2>2 DEF TargetCollation
  <2>4. i = Obj("collation", <<default, name>>, <<>>, <<>>, NoPlace, strength)
    BY <2>1, <2>3 DEF PgCollation, Obj
  <2>5. QED BY <2>4, ObjFields
<1>5. CASE i \in J.src
  BY <1>5, SrcObjects
<1>6. QED BY <1>1, <1>2, <1>3, <1>4, <1>5

\* An object with other fields is an object.
LEMMA OtherKind ==
  ASSUME NEW o, IsObject(o), NEW x, NEW n, n = [o EXCEPT !.kind = x]
  PROVE  IsObject(n) /\ n.kind = x /\ n.at = o.at /\ n.cols = o.cols /\ n.name = o.name /\ n.tag = o.tag
<1>1. n = Obj(x, o.at, o.name, o.cols, o.ref, o.tag)
  BY DEF IsObject, Obj
<1>2. QED BY <1>1, ObjFields

LEMMA OtherPlace ==
  ASSUME NEW o, IsObject(o), NEW x, NEW n, n = [o EXCEPT !.at = x]
  PROVE  IsObject(n) /\ n.kind = o.kind /\ n.at = x /\ n.cols = o.cols
<1>1. n = Obj(o.kind, x, o.name, o.cols, o.ref, o.tag)
  BY DEF IsObject, Obj
<1>2. QED BY <1>1, ObjFields

LEMMA OtherTag ==
  ASSUME NEW o, IsObject(o), NEW x, NEW n, n = [o EXCEPT !.tag = x]
  PROVE  IsObject(n) /\ n.kind = o.kind /\ n.at = o.at /\ n.cols = o.cols /\ n.name = o.name
<1>1. n = Obj(o.kind, o.at, o.name, o.cols, o.ref, x)
  BY DEF IsObject, Obj
<1>2. QED BY <1>1, ObjFields

LEMMA OtherName ==
  ASSUME NEW o, IsObject(o), NEW x, NEW n, n = [o EXCEPT !.name = x]
  PROVE  IsObject(n) /\ n.kind = o.kind /\ n.at = o.at /\ n.cols = o.cols /\ n.name = x
<1>1. n = Obj(o.kind, o.at, x, o.cols, o.ref, o.tag)
  BY DEF IsObject, Obj
<1>2. QED BY <1>1, ObjFields

\* What an object is to become is an object.
LEMMA TargetIsObject ==
  ASSUME NEW o, IsObject(o), NEW policy
  PROVE  IsObject(Target(o, policy))
<1>1. PICK kind, at, name, cols, ref, tag : o = Obj(kind, at, name, cols, ref, tag)
  BY DEF IsObject
<1> DEFINE t == Target(o, policy)
<1>2. PICK at1, ref1, tag1, name1 : t = [o EXCEPT !.at = at1, !.ref = ref1, !.tag = tag1, !.name = name1]
  BY DEF Target
<1>3. t = Obj(kind, at1, name1, cols, ref1, tag1)
  BY <1>1, <1>2 DEF Obj
<1>4. QED BY <1>3, ObjFields

\* What the statements of an item create: at most one of them a column, unless it is a table.
LEMMA MadeIs ==
  ASSUME job \in DOMAIN Jobs, NEW i \in Items, NEW p \in Made(i)
  PROVE  /\ IsObject(p)
         /\ p.kind = "column" =>
              \/ i.kind = "table" /\ i \in J.src /\ \E c \in Columns(J.src, i.at) : p = Target(c, J.policy)
              \/ i.kind = "column" /\ i \in J.src /\ p = Target(i, J.policy)
         /\ i.kind \in {"table", "column"} => p.kind \in {"table", "column"}
<1> DEFINE t == Target(i, J.policy)
<1>1. CASE \E e \in {"postgis", "ltree"} : i = ExtensionItem(e)
  <2>1. PICK e \in {"postgis", "ltree"} : i = ExtensionItem(e)
    BY <1>1
  <2>2. IsObject(i) /\ i.kind = "extension" /\ i.at = <<<<e>>, <<>>>>
    BY <2>1, ObjFields DEF ExtensionItem
  <2>3. Made(i) = {i} \cup {[o EXCEPT !.at = <<Public, o.at[2]>>] : o \in Provides[e]}
    BY <2>2 DEF Made, Created, Shared, Routines
  <2>4. CASE p = i
    BY <2>2, <2>4
  <2>5. CASE p # i
    <3>1. PICK o \in Provides[e] : p = [o EXCEPT !.at = <<Public, o.at[2]>>]
      BY <2>3, <2>5
    <3>2. IsObject(o) /\ o.kind \in {"table", "function", "view"} /\ o.tag = "extension"
      <4>1. o = Obj(o.kind, o.at, o.name, o.cols, o.ref, "extension") /\ o.kind \in {"table", "function", "view"}
        BY ProvidesAssumption
      <4>2. QED BY <4>1, ObjFields
    <3>3. IsObject(p) /\ p.kind = o.kind
      BY <3>1, <3>2, OtherPlace
    <3>4. QED BY <2>2, <3>2, <3>3
  <2>6. QED BY <2>4, <2>5
<1>2. ASSUME (\E s : i = Schema(s)) \/ (i.kind = "collation" /\ IsObject(i))
      PROVE  IsObject(p) /\ p.kind \in {"schema", "collation"} /\ i.kind \in {"schema", "collation"}
  <2>1. IsObject(i) /\ i.kind \in {"schema", "collation"}
    <3>1. CASE \E s : i = Schema(s)
      BY <3>1, ObjFields DEF Schema
    <3>2. QED BY <1>2, <3>1
  <2>2. Made(i) = {i}
    BY <2>1 DEF Made, Created, Shared, Routines
  <2>3. QED BY <2>1, <2>2
<1>3. CASE i \in J.src /\ IsObject(i) /\ i.kind \in {"table", "column"} \cup PostDataKinds \cup Programmable
  <2>0. /\ IsObject(t) /\ t.kind = i.kind
        /\ i.kind \notin Shared
    BY <1>3, TargetIsObject, TargetFields DEF Shared, PostDataKinds, Programmable, Routines
  <2>1. CASE i.kind = "identity"
    <3>1. PICK kind \in {"identity", "default"} : p = [t EXCEPT !.kind = kind]
      BY <2>0, <2>1 DEF Made, Created, Shared, Routines
    <3>2. IsObject(p) /\ p.kind = kind
      BY <2>0, <3>1, OtherKind
    <3>3. QED BY <2>1, <3>2
  <2>2. CASE i.kind = "table"
    <3>1. Made(i) = {t} \cup {Target(c, J.policy) : c \in Columns(J.src, i.at)}
      BY <2>0, <2>2 DEF Made, Created, Shared, Routines
    <3>2. ASSUME NEW c \in Columns(J.src, i.at), p = Target(c, J.policy) PROVE IsObject(p) /\ p.kind = "column"
      <4>1. c \in J.src /\ c.kind = "column"
        BY DEF Columns
      <4>2. IsObject(c)
        BY <4>1, SrcObjects
      <4>3. QED BY <3>2, <4>1, <4>2, TargetIsObject, TargetFields
    <3>3. QED BY <1>3, <2>0, <2>2, <3>1, <3>2
  <2>3. CASE i.kind \in Routines
    <3>1. i \in DOMAIN J.shape /\ IsShape(J.shape[i])
      BY <1>3, <2>3, SrcObjects
    <3>2. \/ p = [t EXCEPT !.kind = J.shape[i].kind, !.tag = J.shape[i].tag]
          \/ \E h : p = Obj("table", <<t.at[1], t.at[2] \o h>>, <<>>, <<>>, NoPlace, "helper")
      BY <2>0, <2>3 DEF Made, Created, Shared, Routines
    <3>3. IsObject(p) /\ p.kind \in Routines \cup {"table"}
      <4>1. CASE p = [t EXCEPT !.kind = J.shape[i].kind, !.tag = J.shape[i].tag]
        <5>1. PICK x, y : p = [t EXCEPT !.kind = x, !.tag = y] /\ x = J.shape[i].kind
          BY <4>1
        <5>2. IsObject(t)
          BY <2>0
        <5> HIDE DEF t
        <5>3. p = Obj(x, t.at, t.name, t.cols, t.ref, y)
          BY <5>1, <5>2 DEF IsObject, Obj
        <5>4. IsObject(p) /\ p.kind = x
          BY <5>3, ObjFields
        <5>5. QED BY <3>1, <5>1, <5>4 DEF IsShape
      <4>2. CASE \E h : p = Obj("table", <<t.at[1], t.at[2] \o h>>, <<>>, <<>>, NoPlace, "helper")
        BY <4>2, ObjFields
      <4>3. QED BY <3>2, <4>1, <4>2
    <3>4. QED BY <2>3, <3>3 DEF Routines
  <2>4. CASE i.kind = "trigger"
    <3>1. \/ p = t
          \/ \E at : p = Obj("function", at, <<>>, <<>>, NoPlace, "none")
      BY <2>0, <2>4 DEF Made, Created, Shared, Routines
    <3>2. IsObject(p) /\ p.kind \in {"function", "trigger"}
      BY <2>0, <2>4, <3>1, ObjFields
    <3>3. QED BY <2>4, <3>2
  <2>5. CASE i.kind \notin Routines \cup {"identity", "table", "trigger"}
    <3>1. Made(i) = {t}
      BY <2>0, <2>5 DEF Made, Created, Shared, Routines
    <3>2. QED BY <1>3, <2>0, <3>1, <2>5
  <2>6. QED BY <2>1, <2>2, <2>3, <2>4, <2>5
<1>4. QED BY <1>1, <1>2, <1>3, ItemIs

\* What an item makes belongs to the migration.
LEMMA MadeReachable ==
  ASSUME job \in DOMAIN Jobs, NEW i \in Items, NEW p \in Made(i)
  PROVE  IsObject(p) /\ p \in Universe(J)
  BY MadeIs, UniverseIs

\* What a guard is met by, is one object.
LEMMA ThereIs ==
  ASSUME NEW t, NEW objs, There(t, objs)
  PROVE  \E p \in objs : There(t, {p})
  BY DEF There, Relations, Shared, Constraints

\* And no column.
LEMMA ThereIsNoColumn ==
  ASSUME NEW t, NEW p, There(t, {p})
  PROVE  p.kind # "column"
  BY DEF There, Relations, Shared, Constraints

\* The columns of a table are told apart by what they become.
LEMMA TableColumns ==
  ASSUME job \in DOMAIN Jobs, NEW i \in J.src, i.kind = "table",
         NEW c \in Columns(J.src, i.at), NEW d \in Columns(J.src, i.at),
         Target(c, J.policy).cols = Target(d, J.policy).cols
  PROVE  c = d
<1>1. c \in AllColumns(J.src) /\ d \in AllColumns(J.src) /\ c.at = d.at
  BY DEF Columns, AllColumns
<1>2. IsObject(c) /\ IsObject(d)
  BY <1>1, SrcObjects DEF AllColumns
<1>3. c.cols = d.cols
  BY <1>2, TargetFields
<1>4. QED BY <1>1, <1>3, JobsAssumption DEF J

\* A column is made with its table, or alone.
LEMMA MadeColumns ==
  ASSUME job \in DOMAIN Jobs, NEW i \in Items, NEW p \in Made(i), p.kind = "column"
  PROVE  /\ i.kind \in {"table", "column"}
         /\ \A q \in Made(i) : q.kind = "column" /\ q.cols = p.cols => q = p
         /\ \/ Made(i) = {p}
            \/ \E t \in Made(i) : t.kind = "table" /\ t.at = p.at /\ t.tag # "helper"
<1> DEFINE t == Target(i, J.policy)
<1>1. \/ i.kind = "table" /\ i \in J.src /\ \E c \in Columns(J.src, i.at) : p = Target(c, J.policy)
      \/ i.kind = "column" /\ i \in J.src /\ p = Target(i, J.policy)
  BY MadeIs
<1>2. CASE i.kind = "column" /\ i \in J.src /\ p = Target(i, J.policy)
  <2>1. Made(i) = {p}
    BY <1>2 DEF Made, Created, Shared, Routines
  <2>2. QED BY <1>2, <2>1
<1>3. CASE i.kind = "table" /\ i \in J.src /\ \E c \in Columns(J.src, i.at) : p = Target(c, J.policy)
  <2>1. Made(i) = {t} \cup {Target(c, J.policy) : c \in Columns(J.src, i.at)}
    BY <1>3 DEF Made, Created, Shared, Routines
  <2>2. IsObject(i) /\ i.tag # "helper"
    BY <1>3, SrcObjects
  <2>3. t.kind = "table" /\ t.at = MapPlace(i.at, J.policy) /\ t.tag # "helper"
    BY <1>3, <2>2, TargetFields
  <2>4. PICK c \in Columns(J.src, i.at) : p = Target(c, J.policy)
    BY <1>3
  <2>5. IsObject(c) /\ c.at = i.at
    BY SrcObjects DEF Columns
  <2>6. p.at = MapPlace(i.at, J.policy)
    BY <2>4, <2>5, TargetFields
  <2>7. ASSUME NEW q \in Made(i), q.kind = "column", q.cols = p.cols PROVE q = p
    <3>1. PICK d \in Columns(J.src, i.at) : q = Target(d, J.policy)
      BY <2>1, <2>3, <2>7
    <3>2. c = d
      BY <1>3, <2>4, <2>7, <3>1, TableColumns
    <3>3. QED BY <2>4, <3>1, <3>2
  <2> HIDE DEF t
  <2>8. QED BY <1>3, <2>1, <2>3, <2>6, <2>7
<1>4. QED BY <1>1, <1>2, <1>3

\* A statement that is accepted leaves a catalog that can be reached.
LEMMA AfterReachable ==
  ASSUME job \in DOMAIN Jobs, NEW i \in Items, NEW c, Reachable(c), Accepted(i, Made(i), c)
  PROVE  Reachable(After(i, Made(i), c))
<1> DEFINE made == Made(i)
           guarded == \E t \in made : There(t, c) /\ t.tag # "helper"
           rest == c \ Stale(i, made, c)
           replaced == UNION {Replaced(t, rest) : t \in made}
           new == (rest \ replaced) \cup made
<1>1. CASE guarded
  BY <1>1 DEF After
<1>2. CASE ~guarded
  <2>1. After(i, made, c) = new
    BY <1>2 DEF After
  <2>2. \A t \in made : Possible(t, IF t.kind = "column" THEN rest \cup made ELSE rest)
    BY <1>2 DEF Accepted
  <2>3. \A p \in c : p.kind \notin Routines => p \in rest
    BY DEF Stale
  <2>4. \A p \in rest : p.kind \in {"table", "collation"} => p \in new
    BY DEF Replaced, Programmable, Routines
  <2>5. rest \subseteq c /\ new \subseteq c \cup made /\ made \subseteq new
    OBVIOUS
  <2>6. ASSUME NEW p \in made, p.kind = "column"
        PROVE  \/ \A q \in new : q \notin made => ~(q.kind = "column" /\ q.at = p.at /\ q.cols = p.cols)
    <3>1. CASE made = {p}
      <4>1. \A q \in rest : q.kind = "column" /\ q.at = p.at /\ q.cols = p.cols => q \in replaced
        BY <2>6, <3>1 DEF Replaced, Programmable, Routines
      <4>2. QED BY <4>1
    <3>2. CASE \E t \in made : t.kind = "table" /\ t.at = p.at /\ t.tag # "helper"
      <4>1. p.at \notin Places(c, "table")
        <5>1. PICK t \in made : t.kind = "table" /\ t.at = p.at /\ t.tag # "helper"
          BY <3>2
        <5>2. ~There(t, c)
          BY <1>2, <5>1
        <5>3. t.at \notin Relations(c)
          BY <5>1, <5>2 DEF There, Shared
        <5>4. QED BY <5>1, <5>3 DEF Relations, Places, Kind
      <4>2. QED BY <2>5, <4>1 DEF Reachable, WellFormed, AllColumns
    <3>3. QED BY <2>6, <3>1, <3>2, MadeColumns
  <2>7. ASSUME NEW p \in made, p.kind = "column" PROVE p.at \in Places(new, "table")
    <3>1. CASE made = {p}
      <4>1. Possible(p, rest \cup made)
        BY <2>2, <2>7
      <4>2. PICK o \in Tables(rest \cup made) : o.at = p.at
        BY <2>7, <4>1 DEF Possible
      <4>3. o \in new /\ o.kind = "table"
        BY <2>4, <2>5, <4>2 DEF Tables
      <4>4. QED BY <4>2, <4>3 DEF Places, Kind
    <3>2. CASE \E t \in made : t.kind = "table" /\ t.at = p.at /\ t.tag # "helper"
      BY <2>5, <3>2 DEF Places, Kind
    <3>3. QED BY <2>7, <3>1, <3>2, MadeColumns
  <2>8. ASSUME NEW p \in made, p.kind = "column"
        PROVE  p.name \in {<<>>, BINARY_COLLATION} \cup {k.at[2] : k \in Kind(new, "collation")}
    <3>1. Possible(p, rest \cup made)
      BY <2>2, <2>8
    <3>2. CASE p.name \notin {<<>>, BINARY_COLLATION}
      <4>1. PICK k \in rest \cup made : k.kind = "collation" /\ k.at[2] = p.name
        BY <2>8, <3>1, <3>2 DEF Possible
      <4>2. i.kind \in {"table", "column"}
        BY <2>8, MadeColumns
      <4>3. k \notin made
        BY <4>1, <4>2, MadeIs
      <4>4. k \in new
        BY <2>4, <4>1, <4>3
      <4>5. QED BY <4>1, <4>4 DEF Kind
    <3>3. QED BY <3>2
  <2>9. ASSUME NEW p \in new, p \notin made, p.kind = "column"
        PROVE  /\ \A q \in new : q \notin made /\ q.kind = "column" /\ p.at = q.at /\ p.cols = q.cols => p = q
               /\ p.at \in Places(new, "table")
               /\ p.name \in {<<>>, BINARY_COLLATION} \cup {k.at[2] : k \in Kind(new, "collation")}
    <3>1. p \in AllColumns(c)
      BY <2>5, <2>9 DEF AllColumns
    <3>2. \A q \in new : q \notin made /\ q.kind = "column" /\ p.at = q.at /\ p.cols = q.cols => p = q
      BY <2>5, <3>1 DEF Reachable, WellFormed, AllColumns
    <3>3. p.at \in Places(c, "table")
      BY <3>1 DEF Reachable, WellFormed
    <3>4. \A k \in c : k.kind \in {"table", "collation"} => k \in new
      BY <2>3, <2>4 DEF Routines
    <3>5. p.name \in {<<>>, BINARY_COLLATION} \cup {k.at[2] : k \in Kind(c, "collation")}
      BY <3>1 DEF Reachable, WellFormed
    <3> HIDE DEF new, made, rest
    <3>6. p.at \in Places(new, "table")
      BY <3>3, <3>4 DEF Places, Kind
    <3>7. p.name \in {<<>>, BINARY_COLLATION} \cup {k.at[2] : k \in Kind(new, "collation")}
      BY <3>4, <3>5 DEF Kind
    <3>8. QED BY <3>2, <3>6, <3>7
  <2>10. \A p \in new : IsObject(p) /\ (p.kind # "column" => p \in Universe(J))
    BY <2>5, MadeReachable DEF Reachable
  <2>11. \A p, q \in made : p.kind = "column" /\ q.kind = "column" /\ p.cols = q.cols => p = q
    BY MadeColumns
  <2> HIDE DEF new, made, rest, replaced
  <2>12. \A p, q \in new : p.kind = "column" /\ q.kind = "column" /\ p.at = q.at /\ p.cols = q.cols => p = q
    BY <2>6, <2>9, <2>11
  <2>13. WellFormed(new)
    BY <2>7, <2>8, <2>9, <2>12 DEF WellFormed, AllColumns
  <2>14. QED BY <2>1, <2>10, <2>13 DEF Reachable, made
<1>3. QED BY <1>1, <1>2

-----------------------------------------------------------------------------
(* The catalogs that can be reached: drops, changes by hand, and what their names tell. *)

\* A part of a catalog that can be reached can be too, if the collations stay and no column
\* loses its table.
LEMMA PartReachable ==
  ASSUME NEW c, Reachable(c), NEW new \in SUBSET c,
         \A k \in c : k.kind = "collation" => k \in new,
         \A p \in new, t \in c : p.kind = "column" /\ t.kind = "table" /\ t.at = p.at => t \in new
  PROVE  Reachable(new)
<1>1. ASSUME NEW p \in AllColumns(new)
      PROVE  /\ \A q \in AllColumns(new) : p.at = q.at /\ p.cols = q.cols => p = q
             /\ p.at \in Places(new, "table")
             /\ p.name \in {<<>>, BINARY_COLLATION} \cup {k.at[2] : k \in Kind(new, "collation")}
  <2>1. p \in AllColumns(c) /\ p.kind = "column" /\ p \in new
    BY DEF AllColumns
  <2>2. /\ \A q \in AllColumns(c) : p.at = q.at /\ p.cols = q.cols => p = q
        /\ p.at \in Places(c, "table")
        /\ p.name \in {<<>>, BINARY_COLLATION} \cup {k.at[2] : k \in Kind(c, "collation")}
    BY <2>1 DEF Reachable, WellFormed
  <2>3. \A q \in AllColumns(new) : q \in AllColumns(c)
    BY DEF AllColumns
  <2>4. p.at \in Places(new, "table")
    BY <2>1, <2>2 DEF Places, Kind
  <2>5. p.name \in {<<>>, BINARY_COLLATION} \cup {k.at[2] : k \in Kind(new, "collation")}
    BY <2>2 DEF Kind
  <2>6. QED BY <2>2, <2>3, <2>4, <2>5
<1>2. QED BY <1>1 DEF Reachable, WellFormed

\* What falls with an object leaves a catalog that can be reached.
LEMMA FallsReachable ==
  ASSUME NEW c, Reachable(c), NEW D \in SUBSET c, \A o \in D : o.kind \notin Shared,
         NEW new, new = c \ UNION {Falls(o, c) : o \in D}
  PROVE  Reachable(new)
<1>1. \A k \in c : k.kind = "collation" => k \in new
  BY DEF Falls, Shared, PostDataKinds
<1>2. ASSUME NEW p \in new, p.kind = "column", NEW t \in c, t.kind = "table", t.at = p.at
      PROVE  t \in new
  <2>1. SUFFICES ASSUME NEW o \in D, t \in Falls(o, c) PROVE FALSE
    OBVIOUS
  <2>2. p \notin Falls(o, c)
    OBVIOUS
  <2>3. CASE o.kind = "table"
    BY <1>2, <2>1, <2>2, <2>3 DEF Falls, PostDataKinds
  <2>4. CASE o.kind = "column"
    BY <1>2, <2>1, <2>4 DEF Falls, PostDataKinds, At
  <2>5. CASE o.kind \notin {"table", "column"}
    <3>1. t = o
      BY <2>1, <2>5 DEF Falls
    <3>2. QED BY <1>2, <2>5, <3>1
  <2>6. QED BY <2>3, <2>4, <2>5
<1>3. new \subseteq c
  OBVIOUS
<1>4. QED BY <1>1, <1>2, <1>3, PartReachable

\* So does a change of a column by hand.
LEMMA AlteredReachable ==
  ASSUME NEW c, Reachable(c), NEW o \in Kind(c, "column"),
         NEW n, IsObject(n), n.kind = "column", n.at = o.at, n.cols = o.cols, n.name \in {o.name, <<>>},
         NEW new, new = (c \ {o}) \cup {n}
  PROVE  Reachable(new)
<1>1. o \in AllColumns(c) /\ o.kind = "column"
  BY DEF Kind, AllColumns
<1>2. \A q \in AllColumns(new) : q = n \/ (q \in AllColumns(c) /\ q # o)
  BY DEF AllColumns
<1>3. \A q \in AllColumns(c) : \A r \in AllColumns(c) : q.at = r.at /\ q.cols = r.cols => q = r
  BY DEF Reachable, WellFormed
<1>4. \A k \in c : k.kind # "column" => k \in new
  BY <1>1
<1>5. \A q \in AllColumns(new) : \E r \in AllColumns(c) : r.at = q.at /\ q.name \in {r.name, <<>>}
  BY <1>1, <1>2
<1>6. \A q \in AllColumns(c) : /\ q.at \in Places(c, "table")
                               /\ q.name \in {<<>>, BINARY_COLLATION} \cup {k.at[2] : k \in Kind(c, "collation")}
  BY DEF Reachable, WellFormed
<1>7. \A a : a \in Places(c, "table") => a \in Places(new, "table")
  BY <1>4 DEF Places, Kind
<1>8. \A k \in Kind(c, "collation") : k \in Kind(new, "collation")
  BY <1>4 DEF Kind
<1>9. \A q, r \in AllColumns(new) : q.at = r.at /\ q.cols = r.cols => q = r
  BY <1>1, <1>2, <1>3
<1>10. \A q \in AllColumns(new) : q.at \in Places(new, "table")
  BY <1>5, <1>6, <1>7
<1>11. \A q \in AllColumns(new) : q.name \in {<<>>, BINARY_COLLATION} \cup {k.at[2] : k \in Kind(new, "collation")}
  <2>1. SUFFICES ASSUME NEW q \in AllColumns(new), q.name # <<>>
                 PROVE  q.name \in {<<>>, BINARY_COLLATION} \cup {k.at[2] : k \in Kind(new, "collation")}
    OBVIOUS
  <2>2. PICK r \in AllColumns(c) : r.name = q.name
    BY <1>5, <2>1
  <2>3. q.name \in {<<>>, BINARY_COLLATION} \cup {k.at[2] : k \in Kind(c, "collation")}
    BY <1>6, <2>2
  <2>4. QED BY <1>8, <2>3
<1>12. \A q \in new : IsObject(q) /\ (q.kind # "column" => q \in Universe(J))
  BY DEF Reachable
<1>13. QED BY <1>9, <1>10, <1>11, <1>12 DEF Reachable, WellFormed

\* And an object of another kind that someone adds.
LEMMA StrayReachable ==
  ASSUME NamesApart(J), NEW c, Reachable(c), NEW o \in Strays, NEW new, new = c \cup {o}
  PROVE  Reachable(new)
<1>1. IsObject(o) /\ o.kind # "column" /\ o \in Universe(J)
  BY StraysAssumption DEF NamesApart, Kind, Universe
<1>2. AllColumns(new) = AllColumns(c)
  BY <1>1 DEF AllColumns
<1>3. \A a : a \in Places(c, "table") => a \in Places(new, "table")
  BY DEF Places, Kind
<1>4. \A k \in Kind(c, "collation") : k \in Kind(new, "collation")
  BY DEF Kind
<1>5. WellFormed(new)
  BY <1>2, <1>3, <1>4 DEF Reachable, WellFormed
<1>6. QED BY <1>1, <1>5 DEF Reachable

\* The names of a migration that tell its objects apart do so in every catalog.
LEMMA NamesTellReachable ==
  ASSUME job \in DOMAIN Jobs, NamesApart(J), NEW c, Reachable(c), NEW o \in J.src
  PROVE  NameTells(o, c)
<1> DEFINE t == Target(o, J.policy)
           columns == {p \in Columns(c, t.at) : p.cols = t.cols}
<1>1. CASE o.kind = "column"
  <2>1. \A p \in columns : p \in AllColumns(c) /\ p.at = t.at /\ p.cols = t.cols
    BY DEF Columns, AllColumns
  <2>2. \A p, q \in columns : p = q
    BY <2>1 DEF Reachable, WellFormed
  <2>3. ASSUME NEW p \in columns, NEW k \in ColumnCollation(o), p.name = k.name
        PROVE  StrengthOf(p, c) = k.tag
    <3>1. o \in AllColumns(J.src)
      BY <1>1 DEF AllColumns
    <3>2. /\ k.name \in {<<>>, BINARY_COLLATION} => k.tag = "bytes"
          /\ \A q \in Kind(Universe(J), "collation") : q.at[2] = k.name => q.tag = k.tag
      BY <3>1 DEF NamesApart
    <3>3. CASE p.name \in {<<>>, BINARY_COLLATION}
      BY <2>3, <3>2, <3>3 DEF StrengthOf
    <3>4. CASE p.name \notin {<<>>, BINARY_COLLATION}
      <4>1. \E q \in Kind(c, "collation") : q.at[2] = p.name
        BY <2>1, <3>4 DEF Reachable, WellFormed
      <4>2. \A q \in Kind(c, "collation") : q.at[2] = p.name => q.tag = k.tag
        BY <2>3, <3>2 DEF Reachable, Kind
      <4>3. StrengthOf(p, c) = (CHOOSE q \in Kind(c, "collation") : q.at[2] = p.name).tag
        BY <3>4 DEF StrengthOf
      <4>4. QED BY <4>1, <4>2, <4>3
    <3>5. QED BY <3>3, <3>4
  <2>4. \A p \in columns, k \in ColumnCollation(o) : p.name = k.name => StrengthOf(p, c) = k.tag
    BY <2>3
  <2>5. QED BY <1>1, <2>2, <2>4 DEF NameTells, PostDataKinds
<1>2. CASE o.kind \in PostDataKinds
  <2>1. ASSUME NEW p \in At(c, t.at), p.kind \in Group(o.kind), Key(p) = Key(t)
        PROVE  StandsFor(p, o)
    <3>1. p.kind # "column"
      BY <1>2, <2>1 DEF Group, PostDataKinds
    <3>2. p \in Universe(J) /\ p.at = t.at
      BY <3>1 DEF Reachable, At
    <3>3. QED BY <1>2, <2>1, <3>2 DEF NamesApart
  <2>2. QED BY <1>2, <2>1 DEF NameTells, PostDataKinds
<1>3. CASE o.kind \notin {"column"} \cup PostDataKinds
  BY <1>3 DEF NameTells
<1>4. QED BY <1>1, <1>2, <1>3

-----------------------------------------------------------------------------
(* One statement of a fix, and the objects that were made by one. *)

\* Every set of naturals that is not empty has a least element.
LEMMA LeastNat == ASSUME NEW S \in SUBSET Nat, S # {} PROVE \E n \in S : \A m \in S : n <= m
<1>1. PICK R : R = OpToRel(<, Nat)
  BY Zenon
<1>2. IsWellFoundedOn(R, Nat)
  BY <1>1, NatLessThanWellFounded, Zenon
<1>3. \A x, y \in Nat : x < y => <<x, y>> \in R
  BY <1>1, Zenon DEF OpToRel
<1>4. \E n \in S : \A m \in S : ~(<<m, n>> \in R)
  BY <1>2, WFMin
<1>5. PICK n \in S : \A m \in S : ~(<<m, n>> \in R)
  BY <1>4
<1>6. \A m \in S : ~(m < n)
  BY <1>3, <1>5, Zenon
<1>7. QED BY <1>6

\* What o has become, and what stands for it, is of the kinds it is laid side by side with.
LEMMA MadeForKept ==
  ASSUME job \in DOMAIN Jobs, NEW o \in J.src, o.kind \in PostDataKinds
  PROVE  /\ \A p \in Made(o) : /\ p.at = Target(o, J.policy).at /\ p.kind \in Group(o.kind)
                               /\ Key(p) = Key(Target(o, J.policy)) /\ (p.kind = "identity" => o.kind = "identity")
         /\ Made(o) # {}
         /\ o.kind # "identity" => Made(o) = {Target(o, J.policy)}
         /\ o.kind = "identity" => \A p \in Made(o) : p.kind \in {"identity", "default"}
<1> DEFINE t == Target(o, J.policy)
<1>1. IsObject(t) /\ t.kind = o.kind
  BY SrcObjects, TargetIsObject, TargetFields
<1>2. CASE o.kind = "identity"
  <2>1. PICK kind \in {"identity", "default"} : Made(o) = {[t EXCEPT !.kind = kind]}
    BY <1>2 DEF Made, Created, Shared, Routines
  <2>2. PICK p : p = [t EXCEPT !.kind = kind] /\ Made(o) = {p}
    BY <2>1
  <2> HIDE DEF t
  <2>3. p.kind = kind /\ p.at = t.at /\ p.cols = t.cols
    BY <1>1, <2>2, OtherKind
  <2>4. Key(p) = Key(t) /\ p.kind \in Group(o.kind)
    BY <1>1, <1>2, <2>3 DEF Key, Group
  <2>5. QED BY <1>1, <1>2, <2>2, <2>3, <2>4 DEF t
<1>3. CASE o.kind # "identity"
  <2>1. Made(o) = {t}
    BY <1>3 DEF Made, Created, Shared, Routines, PostDataKinds
  <2>2. QED BY <1>1, <1>3, <2>1, GroupTells
<1>4. QED BY <1>2, <1>3

\* An object that is kept survives what is done to the catalog afterwards.
LEMMA AfterKept ==
  ASSUME NEW o, o.kind \in PostDataKinds, NEW c, Kept(o, c), NEW i, NEW new, new = After(i, Made(i), c)
  PROVE  Kept(o, new)
<1> DEFINE t == Target(o, J.policy)
           rest == c \ Stale(i, Made(i), c)
           kept(p) == p.at = t.at /\ p.kind \in Group(o.kind) /\ Key(p) = Key(t) /\ (p.kind = "identity" => o.kind = "identity")
<1>1. PICK p \in c : kept(p)
  BY DEF Kept
<1>2. new = c \/ new = (rest \ UNION {Replaced(r, rest) : r \in Made(i)}) \cup Made(i)
  BY DEF After
<1>3. p.kind \in PostDataKinds
  BY <1>1 DEF Group, PostDataKinds
<1>4. CASE p \in new
  BY <1>1, <1>4 DEF Kept
<1>5. CASE p \notin new
  <2>1. p \in rest
    BY <1>3 DEF Stale, Routines, PostDataKinds
  <2>2. PICK r \in Made(i) : p \in Replaced(r, rest)
    BY <1>2, <1>5, <2>1
  <2>3. p.kind \in {"default", "identity"} /\ p.kind = r.kind /\ p.at = r.at /\ p.cols = r.cols
    BY <1>3, <2>2 DEF Replaced, Programmable, Routines, PostDataKinds
  <2>4. Key(r) = Key(p)
    BY <2>3 DEF Key
  <2>5. r \in new
    BY <1>2, <1>5
  <2>6. kept(r)
    BY <1>1, <2>3, <2>4
  <2>7. QED BY <2>5, <2>6 DEF Kept
<1>6. QED BY <1>4, <1>5

\* An object whose statement is run is kept: the guard of it is met by nothing else.
LEMMA AfterMakes ==
  ASSUME job \in DOMAIN Jobs, NamesApart(J), NEW o \in J.src, o.kind \in PostDataKinds, NEW c, Reachable(c),
         NEW new, new = After(o, Made(o), c)
  PROVE  Kept(o, new)
<1> DEFINE t == Target(o, J.policy)
           kept(p) == p.at = t.at /\ p.kind \in Group(o.kind) /\ Key(p) = Key(t) /\ (p.kind = "identity" => o.kind = "identity")
<1>1. CASE \E r \in Made(o) : There(r, c)
  <2>1. PICK r \in Made(o) : There(r, c)
    BY <1>1
  <2>2. o.kind \notin {"identity", "default"}
    <3>1. o.kind = "identity" => r.kind \in {"identity", "default"}
      BY MadeForKept
    <3>2. o.kind = "default" => r.kind = "default"
      <4>1. Target(o, J.policy).kind = o.kind
        BY SrcObjects, TargetFields
      <4>2. QED BY <4>1, MadeForKept
    <3>3. r.kind \notin {"identity", "default"}
      BY <2>1 DEF There, Shared, Constraints
    <3>4. QED BY <3>1, <3>2, <3>3
  <2>3. r = t
    BY <2>2, MadeForKept
  <2>4. PICK p \in c : There(r, {p})
    BY <2>1, ThereIs
  <2>5. p \in Universe(J) /\ There(t, {p})
    BY <2>3, <2>4, ThereIsNoColumn DEF Reachable
  <2>6. p.at = t.at /\ p.kind \in Group(o.kind) /\ Key(p) = Key(t) /\ StandsFor(p, o)
    BY <2>5 DEF NamesApart
  <2>7. kept(p)
    BY <2>2, <2>6 DEF StandsFor
  <2>8. Kept(o, c)
    BY <2>7 DEF Kept
  <2>9. QED BY <2>8, AfterKept
<1>2. CASE ~ \E r \in Made(o) : There(r, c)
  <2>1. Made(o) \subseteq new
    BY <1>2 DEF After
  <2>2. PICK r \in Made(o) : kept(r)
    BY MadeForKept
  <2>3. QED BY <2>1, <2>2 DEF Kept
<1>3. QED BY <1>1, <1>2

\* A drop takes none of them along.
LEMMA DropKept ==
  ASSUME job \in DOMAIN Jobs, NEW o \in J.src, o.kind \in PostDataKinds, NEW c, Kept(o, c),
         NEW s, Runnable(s), s.op = "drop",
         NEW D, D = Kind(At(c, s.obj.at), s.obj.kind), \A d \in D : Droppable(d, c),
         NEW new, new = c \ UNION {Falls(d, c) : d \in D}
  PROVE  Kept(o, new)
<1> DEFINE t == Target(o, J.policy)
           kept(p) == p.at = t.at /\ p.kind \in Group(o.kind) /\ Key(p) = Key(t) /\ (p.kind = "identity" => o.kind = "identity")
<1>1. PICK p \in c : kept(p)
  BY DEF Kept
<1>2. p.kind \in PostDataKinds
  BY <1>1 DEF Group, PostDataKinds
<1>3. PICK u \in SrcTables : p.at = PlaceOf(u)
  <2>1. PICK u \in SrcTables : u.at = o.at
    BY SrcObjects
  <2>2. t.at = MapPlace(o.at, J.policy)
    BY SrcObjects, TargetFields
  <2>3. QED BY <1>1, <2>1, <2>2 DEF PlaceOf
<1>4. ASSUME NEW d \in D PROVE p \notin Falls(d, c)
  <2>1. d \in c /\ d.at = s.obj.at /\ d.kind = s.obj.kind
    BY DEF Kind, At
  <2>2. CASE d.kind = "table"
    <3>1. p.at # d.at
      BY <1>3, <2>1, <2>2 DEF Runnable, Programmable, Routines
    <3>2. p.kind = "fk" => p.ref # d.at
      BY <1>4, <2>2 DEF Droppable, Kind
    <3>3. QED BY <1>2, <2>2, <3>1, <3>2 DEF Falls, PostDataKinds
  <2>3. CASE d.kind # "table"
    <3>1. d.kind \in Programmable
      BY <2>1, <2>3 DEF Runnable
    <3>2. Falls(d, c) = {d} /\ p # d
      BY <1>2, <3>1 DEF Falls, Programmable, Routines, PostDataKinds
    <3>3. QED BY <3>2
  <2>4. QED BY <2>2, <2>3
<1>5. p \in new
  BY <1>4
<1>6. QED BY <1>1, <1>5 DEF Kept

\* The statements are ranked.
LEMMA RankIs ==
  /\ \A kind \in Shared \cup {"table", "column"} \cup PostDataKinds \cup Programmable : Rank(kind) \in 0..13
  /\ job \in DOMAIN Jobs => \A i \in Items : Rank(i.kind) \in 0..13
  /\ job \in DOMAIN Jobs => \A s : Runnable(s) => Rank(s.obj.kind) \in 0..13
<1>1. \A kind \in Shared \cup {"table", "column"} \cup PostDataKinds \cup Programmable : Rank(kind) \in 0..13
  BY DEF Rank, Shared, PostDataKinds, Programmable, Routines
<1>2. ASSUME job \in DOMAIN Jobs, NEW i \in Items PROVE i.kind \in Shared \cup {"table", "column"} \cup PostDataKinds \cup Programmable
  <2>1. (\E e \in {"postgis", "ltree"} : i = ExtensionItem(e)) => i.kind = "extension"
    BY ObjFields DEF ExtensionItem
  <2>2. (\E s : i = Schema(s)) => i.kind = "schema"
    BY ObjFields DEF Schema
  <2>3. QED BY <1>2, <2>1, <2>2, ItemIs DEF Shared
<1>3. QED BY <1>1, <1>2 DEF Runnable

\* A fix has a last statement, and what is left of a plan a next one.
LEMMA LastOfIs ==
  ASSUME job \in DOMAIN Jobs, NEW fix, fix # {}, \A s \in fix : Runnable(s)
  PROVE  LastOf(fix) \in fix
<1> DEFINE left == {13 - Rank(s.obj.kind) : s \in fix}
<1>1. \A s \in fix : Rank(s.obj.kind) \in 0..13
  BY RankIs
<1>2. left \in SUBSET Nat /\ left # {}
  BY <1>1
<1>3. PICK n \in left : \A m \in left : n <= m
  BY <1>2, LeastNat
<1>4. PICK s \in fix : n = 13 - Rank(s.obj.kind)
  OBVIOUS
<1>5. \A r \in fix : Rank(r.obj.kind) <= Rank(s.obj.kind)
  <2>1. SUFFICES ASSUME NEW r \in fix PROVE Rank(r.obj.kind) <= Rank(s.obj.kind)
    OBVIOUS
  <2>2. n <= 13 - Rank(r.obj.kind)
    BY <1>3
  <2>3. Rank(r.obj.kind) \in 0..13 /\ Rank(s.obj.kind) \in 0..13
    BY <1>1
  <2>4. QED BY <1>4, <2>2, <2>3
<1>6. QED BY <1>5 DEF LastOf

LEMMA NextItemIs ==
  ASSUME job \in DOMAIN Jobs, todo \subseteq Items, todo # {}
  PROVE  NextItem \in todo /\ \A j \in todo : Rank(NextItem.kind) <= Rank(j.kind)
<1> DEFINE ranks == {Rank(i.kind) : i \in todo}
<1>1. \A i \in todo : Rank(i.kind) \in 0..13
  BY RankIs
<1>2. ranks \in SUBSET Nat /\ ranks # {}
  BY <1>1
<1>3. PICK n \in ranks : \A m \in ranks : n <= m
  BY <1>2, LeastNat
<1>4. PICK i \in todo : \A j \in todo : Rank(i.kind) <= Rank(j.kind)
  BY <1>3
<1>5. QED BY <1>4 DEF NextItem

\* One statement of a fix: the catalog can still be reached, what is kept stays, and what
\* is made is kept.
LEMMA StepKept ==
  ASSUME job \in DOMAIN Jobs, NamesApart(J), NEW s, Runnable(s), NEW state, Reachable(state.cat) \/ ~state.ok,
         NEW after, after = Step(s, state), after.ok
  PROVE  /\ state.ok /\ Reachable(after.cat)
         /\ \A o \in J.src : o.kind \in PostDataKinds /\ Kept(o, state.cat) => Kept(o, after.cat)
         /\ s.op = "make" /\ s.obj \in J.src /\ s.obj.kind \in PostDataKinds => Kept(s.obj, after.cat)
<1> DEFINE D == Kind(At(state.cat, s.obj.at), s.obj.kind)
           dropped == state.cat \ UNION {Falls(o, state.cat) : o \in D}
           made == After(s.obj, Made(s.obj), state.cat)
<1>1. state.ok
  BY DEF Step
<1>2. Reachable(state.cat)
  BY <1>1
<1>3. CASE s.op = "drop"
  <2>1. after.cat = dropped /\ \A o \in D : Droppable(o, state.cat)
    BY <1>1, <1>3 DEF Step
  <2>2. D \in SUBSET state.cat /\ \A o \in D : o.kind \notin Shared
    BY <1>3 DEF Kind, At, Runnable, Shared, Programmable, Routines
  <2>3. Reachable(dropped)
    <3> HIDE DEF D
    <3>1. QED BY <1>2, <2>2, FallsReachable
  <2>4. ASSUME NEW o \in J.src, o.kind \in PostDataKinds, Kept(o, state.cat) PROVE Kept(o, dropped)
    BY <1>3, <2>1, <2>4, DropKept
  <2>5. QED BY <1>1, <1>3, <2>1, <2>3, <2>4
<1>4. CASE s.op # "drop"
  <2>1. s.obj \in Items
    BY <1>4 DEF Runnable
  <2>2. after.cat = made /\ Accepted(s.obj, Made(s.obj), state.cat)
    BY <1>1, <1>4 DEF Step, Statement
  <2>3. Reachable(made)
    BY <1>2, <2>1, <2>2, AfterReachable
  <2>4. ASSUME NEW o \in J.src, o.kind \in PostDataKinds, Kept(o, state.cat) PROVE Kept(o, made)
    BY <2>4, AfterKept
  <2>5. ASSUME s.obj \in J.src, s.obj.kind \in PostDataKinds PROVE Kept(s.obj, made)
    BY <1>2, <2>5, AfterMakes
  <2>6. QED BY <1>1, <2>2, <2>3, <2>4, <2>5
<1>5. QED BY <1>3, <1>4

-----------------------------------------------------------------------------
(* The statements of a fix, by induction on their number. *)

\* The recursion behind the outcome of a fix.
AfterLast(done, after) ==
  IF done = {} THEN [ok |-> TRUE, cat |-> cat] ELSE Step(LastOf(done), after[done \ {LastOf(done)}])

\* A solution of it.
IsRun(after, fix) == after = [done \in SUBSET fix |-> AfterLast(done, after)]

\* Without its last statement a fix is smaller.
LEMMA WithoutLast ==
  ASSUME job \in DOMAIN Jobs, NEW fix, IsFiniteSet(fix), \A s \in fix : Runnable(s),
         NEW done \in SUBSET fix, done # {}
  PROVE  /\ LastOf(done) \in done /\ done \ {LastOf(done)} \in SUBSET fix
         /\ Cardinality(done \ {LastOf(done)}) = Cardinality(done) - 1
         /\ Cardinality(done) \in Nat \ {0}
<1>1. LastOf(done) \in done
  BY LastOfIs
<1>2. IsFiniteSet(done)
  BY FS_Subset
<1>3. Cardinality(done \ {LastOf(done)}) = Cardinality(done) - 1 /\ Cardinality(done) \in Nat
  BY <1>1, <1>2, FS_RemoveElement, FS_CardinalityType
<1>4. Cardinality(done) # 0
  BY <1>2, FS_EmptySet
<1>5. QED BY <1>1, <1>3, <1>4

\* It has a solution, by induction on the number of statements.
LEMMA RunExists ==
  ASSUME job \in DOMAIN Jobs, NEW fix, IsFiniteSet(fix), \A s \in fix : Runnable(s)
  PROVE  \E after : IsRun(after, fix)
<1> DEFINE Small(n) == {done \in SUBSET fix : Cardinality(done) <= n}
           Solved(n) == \E after : after = [done \in Small(n) |-> AfterLast(done, after)]
           unsolved == {n \in Nat : ~Solved(n)}
<1>1. ASSUME NEW done \in SUBSET fix PROVE Cardinality(done) \in Nat /\ Cardinality(done) <= Cardinality(fix)
  BY FS_Subset, FS_CardinalityType
<1>2. Solved(0)
  <2> DEFINE after == [done \in Small(0) |-> [ok |-> TRUE, cat |-> cat]]
  <2>1. \A done \in Small(0) : done = {}
    <3>1. SUFFICES ASSUME NEW done \in Small(0), done # {} PROVE FALSE
      OBVIOUS
    <3>2. Cardinality(done) \in Nat \ {0}
      BY <3>1, WithoutLast
    <3>3. QED BY <3>2
  <2>2. \A done \in Small(0) : AfterLast(done, after) = [ok |-> TRUE, cat |-> cat]
    BY <2>1 DEF AfterLast
  <2> HIDE DEF Small
  <2>3. after = [done \in Small(0) |-> AfterLast(done, after)]
    BY <2>2
  <2>4. QED BY <2>3
<1>3. ASSUME NEW n \in Nat, n # 0, Solved(n - 1) PROVE Solved(n)
  <2>1. PICK before : before = [done \in Small(n - 1) |-> AfterLast(done, before)]
    BY <1>3
  <2> DEFINE after == [done \in Small(n) |-> AfterLast(done, before)]
  <2>2. ASSUME NEW done \in Small(n) PROVE AfterLast(done, after) = AfterLast(done, before)
    <3>1. CASE done = {}
      BY <3>1 DEF AfterLast
    <3>2. CASE done # {}
      <4> DEFINE rest == done \ {LastOf(done)}
      <4>1. rest \in SUBSET fix /\ Cardinality(rest) = Cardinality(done) - 1 /\ Cardinality(done) \in Nat
        BY <3>2, WithoutLast
      <4>2. rest \in Small(n - 1) /\ rest \in Small(n)
        BY <1>3, <4>1
      <4> HIDE DEF rest, Small
      <4>3. after[rest] = AfterLast(rest, before)
        BY <4>2
      <4>4. before[rest] = AfterLast(rest, before)
        BY <2>1, <4>2
      <4>5. after[rest] = before[rest]
        BY <4>3, <4>4
      <4> HIDE DEF after
      <4>6. QED BY <3>2, <4>5 DEF AfterLast, rest
    <3>3. QED BY <3>1, <3>2
  <2> HIDE DEF Small
  <2>3. after = [done \in Small(n) |-> AfterLast(done, after)]
    BY <2>2
  <2>4. QED BY <2>3
<1>4. unsolved = {}
  <2>1. SUFFICES ASSUME unsolved # {} PROVE FALSE
    OBVIOUS
  <2>2. unsolved \in SUBSET Nat
    OBVIOUS
  <2>3. PICK n \in unsolved : \A m \in unsolved : n <= m
    <3> HIDE DEF unsolved
    <3>1. QED BY <2>1, <2>2, LeastNat
  <2> HIDE DEF Solved
  <2>4. n \in Nat /\ ~Solved(n)
    BY <2>3
  <2>5. n # 0
    BY <1>2, <2>4
  <2>6. Solved(n - 1)
    BY <2>3, <2>4, <2>5
  <2>7. QED BY <1>3, <2>4, <2>5, <2>6
<1>5. Solved(Cardinality(fix))
  <2> HIDE DEF Solved
  <2>1. Cardinality(fix) \in Nat
    BY FS_CardinalityType
  <2>2. QED BY <1>4, <2>1
<1>6. Small(Cardinality(fix)) = SUBSET fix
  BY <1>1
<1>7. QED BY <1>5, <1>6 DEF IsRun

\* The outcome of a fix is that of its solution.
LEMMA OutcomeIs ==
  ASSUME job \in DOMAIN Jobs, NEW fix, IsFiniteSet(fix), \A s \in fix : Runnable(s)
  PROVE  \E after : IsRun(after, fix) /\ Outcome(fix) = after[fix]
<1> DEFINE run == CHOOSE after : IsRun(after, fix)
<1>1. IsRun(run, fix)
  BY RunExists
<1>2. Outcome(fix) = run[fix]
  BY DEF Outcome, IsRun, AfterLast
<1>3. QED BY <1>1, <1>2

\* The statements of a fix, one after the other.
LEMMA OutcomeKept ==
  ASSUME job \in DOMAIN Jobs, NamesApart(J), Reachable(cat),
         NEW fix, IsFiniteSet(fix), \A s \in fix : Runnable(s), Outcome(fix).ok
  PROVE  /\ Reachable(Outcome(fix).cat)
         /\ \A o \in J.src : o.kind \in PostDataKinds /\ (Kept(o, cat) \/ \E s \in fix : s.op = "make" /\ s.obj = o)
              => Kept(o, Outcome(fix).cat)
<1>1. PICK after : IsRun(after, fix) /\ Outcome(fix) = after[fix]
  BY OutcomeIs
<1> DEFINE Holds(done) ==
             after[done].ok =>
               /\ Reachable(after[done].cat)
               /\ \A o \in J.src : o.kind \in PostDataKinds /\ (Kept(o, cat) \/ \E s \in done : s.op = "make" /\ s.obj = o)
                    => Kept(o, after[done].cat)
           failing == {done \in SUBSET fix : ~Holds(done)}
           sizes == {Cardinality(done) : done \in failing}
<1>2. \A done \in SUBSET fix : after[done] = AfterLast(done, after)
  BY <1>1 DEF IsRun
<1>3. Holds({})
  <2>1. after[{}] = [ok |-> TRUE, cat |-> cat]
    BY <1>2 DEF AfterLast
  <2>2. QED BY <2>1
<1>4. ASSUME NEW done \in SUBSET fix, done # {}, Holds(done \ {LastOf(done)}) PROVE Holds(done)
  <2> DEFINE last == LastOf(done)
             rest == done \ {last}
  <2>1. last \in done /\ rest \in SUBSET fix
    BY <1>4, WithoutLast
  <2>2. after[done] = Step(last, after[rest])
    BY <1>2, <1>4 DEF AfterLast
  <2>3. SUFFICES ASSUME after[done].ok
                 PROVE  /\ Reachable(after[done].cat)
                        /\ \A o \in J.src : o.kind \in PostDataKinds /\ (Kept(o, cat) \/ \E s \in done : s.op = "make" /\ s.obj = o)
                             => Kept(o, after[done].cat)
    OBVIOUS
  <2>4. Runnable(last)
    BY <2>1
  <2> HIDE DEF last
  <2>5. Reachable(after[rest].cat) \/ ~after[rest].ok
    BY <1>4 DEF last
  <2>6. /\ after[rest].ok /\ Reachable(after[done].cat)
        /\ \A o \in J.src : o.kind \in PostDataKinds /\ Kept(o, after[rest].cat) => Kept(o, after[done].cat)
        /\ last.op = "make" /\ last.obj \in J.src /\ last.obj.kind \in PostDataKinds => Kept(last.obj, after[done].cat)
    BY <2>2, <2>3, <2>4, <2>5, StepKept
  <2>7. \A o \in J.src : o.kind \in PostDataKinds /\ (Kept(o, cat) \/ \E s \in rest : s.op = "make" /\ s.obj = o)
          => Kept(o, after[rest].cat)
    BY <1>4, <2>6 DEF last
  <2>8. QED BY <2>6, <2>7
<1> HIDE DEF Holds
<1>5. failing = {}
  <2>1. SUFFICES ASSUME failing # {} PROVE FALSE
    OBVIOUS
  <2>2. \A done \in SUBSET fix : Cardinality(done) \in Nat
    BY FS_Subset, FS_CardinalityType
  <2>3. sizes \in SUBSET Nat /\ sizes # {}
    BY <2>1, <2>2
  <2>4. PICK n \in sizes : \A m \in sizes : n <= m
    <3> HIDE DEF sizes
    <3>1. QED BY <2>3, LeastNat
  <2>5. PICK done \in SUBSET fix : ~Holds(done) /\ Cardinality(done) = n
    OBVIOUS
  <2>6. done # {}
    BY <1>3, <2>5
  <2> DEFINE rest == done \ {LastOf(done)}
  <2>7. rest \in SUBSET fix /\ Cardinality(rest) = Cardinality(done) - 1
    BY <2>6, WithoutLast
  <2>8. Holds(rest)
    <3>1. SUFFICES ASSUME ~Holds(rest) PROVE FALSE
      OBVIOUS
    <3>2. Cardinality(rest) \in sizes
      BY <2>7, <3>1
    <3> HIDE DEF rest, sizes
    <3>3. n <= Cardinality(rest)
      BY <2>4, <3>2
    <3>4. n \in Nat
      BY <2>3
    <3>5. QED BY <2>5, <2>7, <3>3, <3>4
  <2>9. QED BY <1>4, <2>5, <2>6, <2>8
<1>6. fix \in SUBSET fix
  OBVIOUS
<1>7. Holds(fix)
  BY <1>5, <1>6
<1>8. QED BY <1>1, <1>7 DEF Holds

-----------------------------------------------------------------------------
(* The statements that a report offers. *)

\* The image of a finite set.
LEMMA ImageFinite ==
  ASSUME NEW S, IsFiniteSet(S), NEW f, DOMAIN f = S, NEW T, \A x \in T : \E s \in S : x = f[s]
  PROVE  IsFiniteSet(T)
<1> DEFINE R == {s \in S : f[s] \in T}
           g == [s \in R |-> f[s]]
<1>1. IsFiniteSet(R)
  BY FS_Subset
<1>2. g \in Surjection(R, T)
  BY DEF Surjection
<1>3. QED BY <1>1, <1>2, FS_Surjection

\* The fix of an item of a comparison.
FixIsRunnable(i) == IsFiniteSet(i.fix) /\ \A s \in i.fix : Runnable(s)

LEMMA ItemFix ==
  ASSUME NEW kind, NEW at, NEW status, NEW found, NEW diffs, NEW fix, NEW i, i = Item(kind, at, status, found, diffs, fix)
  PROVE  i.fix = fix
  BY DEF Item

LEMMA EmptyFix ==
  ASSUME NEW i, i.fix = {} PROVE FixIsRunnable(i)
  BY FS_EmptySet DEF FixIsRunnable

LEMMA SingleFix ==
  ASSUME NEW i, NEW s, i.fix = {s}, Runnable(s) PROVE FixIsRunnable(i)
  BY FS_Singleton DEF FixIsRunnable

LEMMA MakeRuns ==
  ASSUME NEW o \in Items PROVE Runnable(Make(o))
  BY DEF Runnable, Make

\* The fix of each sort of item.
LEMMA SchemaFix ==
  ASSUME job \in DOMAIN Jobs, NEW o \in J.src, NEW cat0, NEW i, i = SchemaItem(MapSchema(o.at[1], J.policy), cat0)
  PROVE  FixIsRunnable(i)
<1> DEFINE s == MapSchema(o.at[1], J.policy)
<1>1. Schema(s) \in Items
  BY DEF Items, PlanItems
<1>2. i.fix = {} \/ i.fix = {Make(Schema(s))}
  BY DEF SchemaItem, Item
<1> HIDE DEF s
<1>3. QED BY <1>1, <1>2, EmptyFix, SingleFix, MakeRuns

LEMMA TableFix ==
  ASSUME job \in DOMAIN Jobs, NEW t \in SrcTables, NEW cat0, NEW count, NEW i, i = TableItem(t, J.src, cat0, count, J.policy)
  PROVE  FixIsRunnable(i)
<1> DEFINE mend == {o \in Columns(J.src, t.at) :
                     ColumnVerdict(o, J.policy, cat0) = "missing" \/ CollationDrifts(o, J.policy, cat0)}
           default == MapSchema(Dbo, J.policy)
           created == NeedsCreate(mend, default)
<1>1. t \in Items
  BY DEF Items, PlanItems, SrcTables, Tables
<1>2. i.fix = {Make(t)} \/ i.fix = {Make(o) : o \in mend} \cup {Make(c) : c \in created}
  BY DEF TableItem, Item
<1>3. CASE i.fix = {Make(t)}
  BY <1>1, <1>3, SingleFix, MakeRuns
<1>4. CASE i.fix = {Make(o) : o \in mend} \cup {Make(c) : c \in created}
  <2>1. mend \subseteq AllColumns(J.src)
    BY DEF Columns, AllColumns
  <2>2. IsFiniteSet(mend)
    <3>1. IsFiniteSet(J.src)
      BY SrcObjects
    <3>2. mend \in SUBSET J.src
      BY <2>1 DEF AllColumns
    <3> HIDE DEF mend
    <3>3. QED BY <3>1, <3>2, FS_Subset
  <2> DEFINE moved(k) == [k EXCEPT !.at = <<default, k.name>>, !.name = <<>>]
             f == [col \in mend |-> moved(TargetCollation(col.name))]
  <2>3. \A c \in created : \E col \in mend : c = f[col]
    <3>1. SUFFICES ASSUME NEW c \in created PROVE \E col \in mend : c = moved(TargetCollation(col.name))
      OBVIOUS
    <3>2. PICK k \in UNION {ColumnCollation(col) : col \in mend} : c = moved(k)
      BY <3>1 DEF NeedsCreate
    <3>3. PICK col \in mend : k \in ColumnCollation(col)
      BY <3>2
    <3>4. k = TargetCollation(col.name)
      BY <3>3 DEF ColumnCollation
    <3>5. QED BY <3>2, <3>3, <3>4
  <2>4. created \subseteq Items
    <3>1. created \subseteq NeedsCreate(AllColumns(J.src), default)
      BY <2>1 DEF NeedsCreate
    <3>2. NeedsCreate(AllColumns(J.src), default) \subseteq Items
      BY DEF Items, PlanItems
    <3>3. QED BY <3>1, <3>2
  <2>5. mend \subseteq Items
    BY <2>1 DEF Items
  <2>6. DOMAIN f = mend
    OBVIOUS
  <2> HIDE DEF f, mend, created
  <2>7. IsFiniteSet(created)
    BY <2>2, <2>3, <2>6, ImageFinite
  <2>8. IsFiniteSet({Make(o) : o \in mend \cup created})
    <3> DEFINE g == [o \in mend \cup created |-> Make(o)]
               statements == {Make(o) : o \in mend \cup created}
    <3>1. IsFiniteSet(mend \cup created)
      BY <2>2, <2>7, FS_Union
    <3>2. DOMAIN g = mend \cup created /\ \A x \in statements : \E o \in mend \cup created : x = g[o]
      OBVIOUS
    <3> HIDE DEF g, statements
    <3>3. IsFiniteSet(statements)
      BY <3>1, <3>2, ImageFinite
    <3>4. QED BY <3>3 DEF statements
  <2>9. i.fix = {Make(o) : o \in mend \cup created}
    BY <1>4
  <2>10. \A s \in i.fix : Runnable(s)
    BY <2>4, <2>5, <2>9, MakeRuns
  <2>11. QED BY <2>8, <2>9, <2>10 DEF FixIsRunnable
<1>5. QED BY <1>2, <1>3, <1>4

\* A statement of a rollup makes an object of the source.
LEMMA LatestIs ==
  ASSUME NEW objs, objs # {}
  PROVE  Latest(objs) \in objs
<1>1. \A o \in objs : Order(o.kind) \in {1, 2, 3}
  BY DEF Order
<1>2. \E o \in objs : \A p \in objs : Order(o.kind) >= Order(p.kind)
  <2>1. CASE \E o \in objs : Order(o.kind) = 3
    BY <1>1, <2>1
  <2>2. CASE (\A o \in objs : Order(o.kind) # 3) /\ \E o \in objs : Order(o.kind) = 2
    BY <1>1, <2>2
  <2>3. CASE \A o \in objs : Order(o.kind) = 1
    BY <2>3
  <2>4. QED BY <1>1, <2>1, <2>2, <2>3
<1>3. QED BY <1>2 DEF Latest

LEMMA RollupFix ==
  ASSUME job \in DOMAIN Jobs, NEW group, NEW kinds, kinds \subseteq PostDataKinds, NEW t, NEW cat0,
         NEW i \in Rollup(group, kinds, t, J.src, cat0, J.policy)
  PROVE  FixIsRunnable(i)
<1> DEFINE at == MapPlace(t.at, J.policy)
           expected == {e \in At(J.src, t.at) : e.kind \in kinds}
           present == {p \in At(cat0, at) : p.kind \in kinds
                   /\ (p.kind = "identity" => \E e \in expected : e.kind = "identity" /\ e.cols = p.cols)}
           diffs == {Diff(e, Verdict(e, present, J.policy)) : e \in expected}
           missing == {d.obj : d \in {d \in diffs : d.verdict = "missing"}}
           same(e) == {p \in expected : Key(Target(p, J.policy)) = Key(Target(e, J.policy))}
           f == [o \in missing |-> Make(Latest(same(o)))]
<1>1. i.fix = {Make(Latest(same(o))) : o \in missing}
  <2>1. \E status, all : i = Item(group, t.at, status, group, all, {Make(Latest(same(o))) : o \in missing})
    BY DEF Rollup
  <2> HIDE DEF missing, same
  <2>2. QED BY <2>1, ItemFix
<1>2. missing \subseteq expected
  <2>1. SUFFICES ASSUME NEW x \in missing PROVE x \in expected
    OBVIOUS
  <2>2. PICK d \in diffs : x = d.obj
    OBVIOUS
  <2>3. PICK o \in expected : d = Diff(o, Verdict(o, present, J.policy))
    BY <2>2
  <2>4. x = o
    BY <2>2, <2>3 DEF Diff
  <2>5. QED BY <2>4
<1>3. expected \in SUBSET J.src /\ expected \subseteq Items
  BY DEF At, Items, PlanItems, PostDataKinds
<1>4. \A o \in missing : o \in same(o)
  BY <1>2
<1>5. ASSUME NEW o \in missing PROVE Latest(same(o)) \in Items
  <2>1. Latest(same(o)) \in same(o)
    BY <1>4, LatestIs
  <2>2. QED BY <1>3, <2>1
<1>6. IsFiniteSet(missing)
  <2>1. IsFiniteSet(J.src)
    BY SrcObjects
  <2>2. missing \in SUBSET J.src
    BY <1>2, <1>3
  <2> HIDE DEF missing
  <2>3. QED BY <2>1, <2>2, FS_Subset
<1>7. DOMAIN f = missing /\ \A s \in i.fix : \E o \in missing : s = f[o]
  BY <1>1
<1>8. \A s \in i.fix : Runnable(s)
  <2>1. SUFFICES ASSUME NEW s \in i.fix PROVE Runnable(s)
    OBVIOUS
  <2>2. PICK o \in missing : s = Make(Latest(same(o)))
    BY <1>1
  <2> HIDE DEF missing, same
  <2>3. QED BY <1>5, <2>2, MakeRuns
<1> HIDE DEF f, missing
<1>9. IsFiniteSet(i.fix)
  BY <1>6, <1>7, ImageFinite
<1>10. QED BY <1>8, <1>9 DEF FixIsRunnable

LEMMA RoutineFix ==
  ASSUME NEW o, NEW cat0, NEW plan, NEW policy, NEW i, i = RoutineItem(o, cat0, plan, policy)
  PROVE  FixIsRunnable(i)
<1>1. i.fix = {}
  BY DEF RoutineItem, Item
<1>2. QED BY <1>1, EmptyFix

LEMMA TriggerFix ==
  ASSUME NEW objs, NEW cat0, NEW policy, NEW i \in TriggerFunctionItems(objs, cat0, policy)
  PROVE  FixIsRunnable(i)
<1>1. PICK at : i = Item("trigger-fn", at, "matched", "function", {}, {})
  BY DEF TriggerFunctionItems
<1>2. QED BY <1>1, ItemFix, EmptyFix

LEMMA ExtraFix ==
  ASSUME NEW kind, kind \in Programmable \cup {"table"}, NEW at, NEW claimed, NEW owned, NEW plan,
         kind = "table" => \A t \in SrcTables : at # PlaceOf(t),
         NEW i, i = Extra(kind, at, claimed, owned, plan)
  PROVE  FixIsRunnable(i)
<1>1. \/ i.fix = {}
      \/ kind \in Routines /\ i.fix = {Drop(Opposite(kind), at)}
      \/ i.fix = {Drop(kind, at)}
  BY DEF Extra, Item
<1>2. ASSUME NEW k PROVE Drop(k, at).op = "drop" /\ Drop(k, at).obj.kind = k /\ Drop(k, at).obj.at = at
  BY DEF Drop, Obj
<1>3. Runnable(Drop(kind, at))
  BY <1>2 DEF Runnable
<1>4. kind \in Routines => Runnable(Drop(Opposite(kind), at))
  BY <1>2 DEF Runnable, Opposite, Routines, Programmable
<1>5. QED BY <1>1, <1>3, <1>4, EmptyFix, SingleFix

\* Every statement of a comparison can be run.
LEMMA CompareFixes ==
  ASSUME job \in DOMAIN Jobs, NEW catalog, NEW counts, NEW scope,
         NEW items, items = Compare(J.src, catalog, counts, scope, Plan, J.policy), NEW i \in items
  PROVE  FixIsRunnable(i)
<1> DEFINE cat0 == Inventory(catalog)
           code == {o \in J.src : o.kind \in Programmable}
           routines == {RoutineItem(o, cat0, Plan, J.policy) : o \in code}
           there == {t \in Tables(J.src) : MapPlace(t.at, J.policy) \in Places(cat0, "table")}
           schemaItems == {SchemaItem(s, cat0) : s \in {MapSchema(o.at[1], J.policy) : o \in J.src}}
           tableItems == IF scope = "objects" THEN {} ELSE {TableItem(t, J.src, cat0, counts[t], J.policy) : t \in Tables(J.src)}
           rollups == UNION {PostDataItems(t, J.src, cat0, J.policy) : t \in there}
           triggers == TriggerFunctionItems(code, cat0, J.policy)
           extras == Extras(J.src, cat0, routines, scope, Plan, J.policy)
<1>1. items = schemaItems \cup tableItems \cup rollups \cup routines \cup triggers \cup extras
  BY DEF Compare
<1>2. CASE i \in schemaItems
  BY <1>2, SchemaFix
<1>3. CASE i \in tableItems
  BY <1>3, TableFix DEF SrcTables
<1>4. CASE i \in rollups
  <2>1. PICK t \in there : i \in PostDataItems(t, J.src, cat0, J.policy)
    BY <1>4
  <2>2. /\ {"pk", "check", "default", "identity"} \subseteq PostDataKinds
        /\ {"index"} \subseteq PostDataKinds /\ {"fk"} \subseteq PostDataKinds
    BY DEF PostDataKinds
  <2>3. CASE i \in Rollup("constraint", {"pk", "check", "default", "identity"}, t, J.src, cat0, J.policy)
    BY <2>2, <2>3, RollupFix
  <2>4. CASE i \in Rollup("index", {"index"}, t, J.src, cat0, J.policy)
    BY <2>2, <2>4, RollupFix
  <2>5. CASE i \in Rollup("foreign_key", {"fk"}, t, J.src, cat0, J.policy)
    BY <2>2, <2>5, RollupFix
  <2>6. QED BY <2>1, <2>3, <2>4, <2>5 DEF PostDataItems
<1>5. CASE i \in routines
  BY <1>5, RoutineFix
<1>6. CASE i \in triggers
  BY <1>6, TriggerFix
<1>7. CASE i \in extras
  <2> DEFINE kinds == Programmable \cup (IF scope = "objects" THEN {} ELSE {"table"})
             claimed == [k \in Programmable \cup {"table"} |->
                           IF k = "table" THEN {MapPlace(t.at, J.policy) : t \in Tables(J.src)}
                           ELSE Claimed(k, {o \in J.src : o.kind \in Programmable}, routines, J.policy)]
             owned == UNION {claimed[k] : k \in Programmable}
  <2>1. extras = UNION {{Extra(k, a, claimed, owned, Plan) : a \in Places(cat0, k) \ claimed[k]} : k \in kinds}
    BY DEF Extras
  <2>2. claimed["table"] = {MapPlace(t.at, J.policy) : t \in Tables(J.src)}
    OBVIOUS
  <2> HIDE DEF claimed, owned
  <2>3. PICK k \in kinds : \E a \in Places(cat0, k) \ claimed[k] : i = Extra(k, a, claimed, owned, Plan)
    BY <1>7, <2>1
  <2>4. PICK a \in Places(cat0, k) \ claimed[k] : i = Extra(k, a, claimed, owned, Plan)
    BY <2>3
  <2>5. k = "table" => \A t \in SrcTables : a # PlaceOf(t)
    BY <2>2, <2>4 DEF SrcTables, PlaceOf
  <2>6. k \in Programmable \cup {"table"}
    OBVIOUS
  <2>7. QED BY <2>4, <2>5, <2>6, ExtraFix
<1> HIDE DEF schemaItems, tableItems, rollups, routines, triggers, extras
<1>8. QED BY <1>1, <1>2, <1>3, <1>4, <1>5, <1>6, <1>7

-----------------------------------------------------------------------------
(* A migration whose names tell its objects apart. *)

\* The invariant of a migration whose names tell its objects apart.
ApartInv == NamesApart(J) => CatInv /\ KeptInv

\* It holds in the beginning.
LEMMA ApartInit ==
  ASSUME ValidationInit PROVE ApartInv
<1>1. SUFFICES ASSUME NamesApart(J) PROVE CatInv /\ KeptInv
  BY DEF ApartInv
<1>2. job \in DOMAIN Jobs /\ cat = J.left /\ todo \subseteq Items /\ report = {} /\ ~scanned.full /\ fixed = {}
  BY DEF ValidationInit, NoScan, Items
<1>3. \A o \in J.left : IsObject(o) /\ o \in Universe(J)
  BY <1>2, JobsAssumption DEF J, Universe
<1>4. Reachable(cat)
  BY <1>1, <1>2, <1>3 DEF Reachable, NamesApart
<1>5. QED BY <1>2, <1>4 DEF CatInv, KeptInv

\* Every step keeps it.
LEMMA ApartNext ==
  ASSUME RowsInv, ScanInv, ApartInv, [ValidationNext]_validationVars
  PROVE  ApartInv'
<1>1. job' = job /\ job \in DOMAIN Jobs
  BY RowsInvNext DEF RowsInv
<1>2. J' = J /\ SrcTables' = SrcTables /\ \A t : PlaceOf(t)' = PlaceOf(t)
  BY <1>1, JobStays
<1>3. Items' = Items
  BY <1>2 DEF Items
<1>4. SUFFICES ASSUME NamesApart(J) PROVE (CatInv /\ KeptInv)'
  BY <1>2 DEF ApartInv
<1>5. /\ todo \subseteq Items /\ \A i \in report : FixIsRunnable(i)
      /\ Reachable(cat) /\ (scanned.full => Reachable(scanned.cat) /\ Reachable(scanned.tables))
      /\ \A o \in fixed : o.kind \in PostDataKinds => o \in J.src /\ Kept(o, cat)
      /\ \A o \in IF scanned.full THEN scanned.fixed ELSE {} :
           o.kind \in PostDataKinds => o \in J.src /\ Kept(o, scanned.cat)
  BY <1>4 DEF ApartInv, CatInv, KeptInv, FixIsRunnable
\* What is to be shown, of what the variables become.
<1>6. ASSUME todo' \subseteq Items, \A i \in report' : FixIsRunnable(i), NEW c, c = cat', Reachable(c),
             \A o \in fixed' : o.kind \in PostDataKinds => o \in J.src /\ Kept(o, c),
             NEW s, s = scanned', s.full => Reachable(s.cat) /\ Reachable(s.tables),
             \A o \in IF s.full THEN s.fixed ELSE {} : o.kind \in PostDataKinds => o \in J.src /\ Kept(o, s.cat)
      PROVE  (CatInv /\ KeptInv)'
  <2>1. Reachable(cat)' /\ (scanned.full => Reachable(scanned.cat) /\ Reachable(scanned.tables))'
    BY <1>2, <1>6 DEF Reachable
  <2>2. \A i \in report' : IsFiniteSet(i.fix) /\ \A r \in i.fix : Runnable(r)'
    BY <1>2, <1>3, <1>6 DEF FixIsRunnable, Runnable
  <2>3. CatInv'
    BY <1>3, <1>6, <2>1, <2>2 DEF CatInv
  <2>4. KeptInv'
    BY <1>2, <1>6 DEF KeptInv, Kept
  <2>5. QED BY <2>3, <2>4
<1>7. CASE UNCHANGED <<todo, report, cat, fixed, scanned>>
  BY <1>5, <1>6, <1>7
<1>8. CASE Apply
  <2>1. UNCHANGED <<report, fixed, scanned>> /\ todo # {} /\ todo' \subseteq todo
    BY <1>8 DEF Apply
  <2>2. NextItem \in Items
    BY <1>1, <1>5, <2>1, NextItemIs
  <2>3. \/ cat' = cat
        \/ Accepted(NextItem, Made(NextItem), cat) /\ cat' = After(NextItem, Made(NextItem), cat)
    BY <1>8 DEF Apply
  <2>4. CASE cat' = cat
    BY <1>5, <1>6, <2>1, <2>4
  <2>5. CASE Accepted(NextItem, Made(NextItem), cat) /\ cat' = After(NextItem, Made(NextItem), cat)
    <3>1. PICK c : c = After(NextItem, Made(NextItem), cat)
      OBVIOUS
    <3>2. Reachable(c)
      BY <1>1, <1>5, <2>2, <2>5, <3>1, AfterReachable
    <3>3. \A o \in fixed : o.kind \in PostDataKinds => Kept(o, c)
      BY <1>5, <3>1, AfterKept
    <3>4. QED BY <1>5, <1>6, <2>1, <2>5, <3>1, <3>2, <3>3
  <2>6. QED BY <2>3, <2>4, <2>5
<1>9. CASE Drift
  <2>1. UNCHANGED <<todo, report, scanned>> /\ fixed' = {}
    BY <1>9 DEF Drift
  <2>2. ASSUME NEW c, c = cat', Reachable(c) PROVE (CatInv /\ KeptInv)'
    BY <1>5, <1>6, <2>1, <2>2
  <2>3. \/ \E o \in cat : o.kind \notin Shared /\ cat' = cat \ Falls(o, cat)
        \/ \E o \in Strays : cat' = cat \cup {o}
        \/ \E o \in Kind(cat, "column") :
             \E new \in {[o EXCEPT !.tag = "other"], [o EXCEPT !.name = <<>>]} : cat' = (cat \ {o}) \cup {new}
        \/ UNCHANGED cat
    BY <1>9 DEF Drift, Drifted
  <2>4. CASE \E o \in cat : o.kind \notin Shared /\ cat' = cat \ Falls(o, cat)
    <3>1. PICK o \in cat : o.kind \notin Shared /\ cat' = cat \ Falls(o, cat)
      BY <2>4
    <3>2. PICK c : c = cat \ UNION {Falls(p, cat) : p \in {o}}
      OBVIOUS
    <3>3. Reachable(c)
      BY <1>5, <3>1, <3>2, FallsReachable
    <3>4. c = cat'
      BY <3>1, <3>2
    <3>5. QED BY <2>2, <3>3, <3>4
  <2>5. CASE \E o \in Strays : cat' = cat \cup {o}
    <3>1. PICK o \in Strays : cat' = cat \cup {o}
      BY <2>5
    <3>2. PICK c : c = cat \cup {o}
      OBVIOUS
    <3>3. Reachable(c)
      BY <1>4, <1>5, <3>2, StrayReachable
    <3>4. QED BY <2>2, <3>1, <3>2, <3>3
  <2>6. CASE \E o \in Kind(cat, "column") :
               \E new \in {[o EXCEPT !.tag = "other"], [o EXCEPT !.name = <<>>]} : cat' = (cat \ {o}) \cup {new}
    <3>1. PICK o \in Kind(cat, "column") :
                 \E new \in {[o EXCEPT !.tag = "other"], [o EXCEPT !.name = <<>>]} : cat' = (cat \ {o}) \cup {new}
      BY <2>6
    <3>2. PICK new \in {[o EXCEPT !.tag = "other"], [o EXCEPT !.name = <<>>]} : cat' = (cat \ {o}) \cup {new}
      BY <3>1
    <3>3. IsObject(o) /\ o.kind = "column"
      BY <1>5 DEF Reachable, Kind
    <3>4. IsObject(new) /\ new.kind = "column" /\ new.at = o.at /\ new.cols = o.cols /\ new.name \in {o.name, <<>>}
      <4>1. CASE new = [o EXCEPT !.tag = "other"]
        BY <3>3, <4>1, OtherTag
      <4>2. CASE new = [o EXCEPT !.name = <<>>]
        BY <3>3, <4>2, OtherName
      <4>3. QED BY <3>2, <4>1, <4>2
    <3>5. PICK c : c = (cat \ {o}) \cup {new}
      OBVIOUS
    <3>6. Reachable(c)
      BY <1>5, <3>4, <3>5, AlteredReachable
    <3>7. QED BY <2>2, <3>2, <3>5, <3>6
  <2>7. CASE UNCHANGED cat
    BY <1>5, <2>2, <2>7
  <2>8. QED BY <2>3, <2>4, <2>5, <2>6, <2>7
<1>10. CASE Validate
  <2>1. PICK counts : /\ report' = Compare(J.src, cat, counts, "full", Plan, J.policy)
                      /\ scanned'.cat = cat /\ scanned'.tables = cat /\ scanned'.fixed = fixed
    BY <1>10 DEF Validate
  <2>2. UNCHANGED <<todo, cat>> /\ fixed' = {}
    BY <1>10 DEF Validate
  <2>3. \A i \in report' : FixIsRunnable(i)
    BY <1>1, <2>1, CompareFixes
  <2>4. PICK s : s = scanned'
    OBVIOUS
  <2>5. QED BY <1>5, <1>6, <2>1, <2>2, <2>3, <2>4
<1>11. CASE Rescan
  <2> DEFINE items == Compare(J.src, cat, <<>>, "objects", Plan, J.policy)
  <2>1. scanned.full /\ report' = Merge(report, items) /\ scanned' = [scanned EXCEPT !.cat = cat, !.fixed = fixed]
    BY <1>11 DEF Rescan
  <2>2. scanned'.cat = cat /\ scanned'.tables = scanned.tables /\ scanned'.fixed = fixed
    BY <2>1 DEF ScanInv
  <2>3. UNCHANGED <<todo, cat>> /\ fixed' = {}
    BY <1>11 DEF Rescan
  <2>4. \A i \in items : FixIsRunnable(i)
    BY <1>1, CompareFixes
  <2>5. \A i \in report' : i \in items \/ i \in report
    BY <2>1 DEF Merge
  <2>6. \A i \in report' : FixIsRunnable(i)
    <3> HIDE DEF items
    <3>1. QED BY <1>5, <2>4, <2>5
  <2>7. PICK s : s = scanned'
    OBVIOUS
  <2>8. QED BY <1>5, <1>6, <2>1, <2>2, <2>3, <2>6, <2>7
<1>12. CASE RunFix
  <2>1. PICK i \in report : /\ Outcome(i.fix).ok /\ cat' = Outcome(i.fix).cat
                            /\ fixed' = fixed \cup {s.obj : s \in {s \in i.fix : s.op = "make"}}
    BY <1>12 DEF RunFix
  <2>2. UNCHANGED <<todo, report, scanned>>
    BY <1>12 DEF RunFix
  <2>3. IsFiniteSet(i.fix) /\ \A s \in i.fix : Runnable(s)
    BY <1>5 DEF FixIsRunnable
  <2>4. PICK c : c = Outcome(i.fix).cat
    OBVIOUS
  <2>5. /\ Reachable(c)
        /\ \A o \in J.src : o.kind \in PostDataKinds /\ (Kept(o, cat) \/ \E s \in i.fix : s.op = "make" /\ s.obj = o)
             => Kept(o, c)
    BY <1>1, <1>4, <1>5, <2>1, <2>3, <2>4, OutcomeKept
  <2>6. ASSUME NEW o \in fixed', o.kind \in PostDataKinds PROVE o \in J.src /\ Kept(o, c)
    <3>1. CASE o \in fixed
      BY <1>5, <2>5, <2>6, <3>1
    <3>2. CASE \E s \in i.fix : s.op = "make" /\ s.obj = o
      <4>1. o \in Items
        BY <2>3, <3>2 DEF Runnable
      <4>2. o \in J.src
        <5>1. (\E e \in {"postgis", "ltree"} : o = ExtensionItem(e)) => o.kind = "extension"
          BY ObjFields DEF ExtensionItem
        <5>2. (\E s : o = Schema(s)) => o.kind = "schema"
          BY ObjFields DEF Schema
        <5>3. QED BY <1>1, <2>6, <4>1, <5>1, <5>2, ItemIs DEF PostDataKinds
      <4>3. QED BY <2>5, <2>6, <3>2, <4>2
    <3>3. QED BY <2>1, <3>1, <3>2
  <2>7. QED BY <1>5, <1>6, <2>1, <2>2, <2>4, <2>5, <2>6
<1>13. QED
  BY <1>7, <1>8, <1>9, <1>10, <1>11, <1>12
  DEF ValidationNext, Load, StartParity, RunPair, EndParity, validationVars

\* The verdict on a statement that was run is not that the object is missing.
LEMMA KeptConverges ==
  ASSUME job \in DOMAIN Jobs, ReportInv, KeptInv
  PROVE  FixesConverge
<1>1. SUFFICES ASSUME NEW i \in report, scanned.full, NEW o \in scanned.fixed, o.kind \in PostDataKinds,
                      i.kind \in {"constraint", "index", "foreign_key"}, NEW d \in i.diffs, d.obj = o
               PROVE  d.verdict # "missing"
  BY DEF FixesConverge
<1> DEFINE cat0 == Inventory(scanned.cat)
<1>2. o \in J.src /\ Kept(o, scanned.cat)
  BY <1>1 DEF KeptInv
<1>3. PICK t \in SrcTables : i \in PostDataItems(t, J.src, cat0, J.policy)
  <2>1. i \in RollupsScanned
    BY <1>1 DEF ReportInv
  <2>2. QED BY <2>1 DEF RollupsScanned
<1>4. ASSUME NEW group, NEW kinds, kinds \in {{"pk", "check", "default", "identity"}, {"index"}, {"fk"}},
             i \in Rollup(group, kinds, t, J.src, cat0, J.policy)
      PROVE  d.verdict # "missing"
  <2> DEFINE at == MapPlace(t.at, J.policy)
             expected == {e \in At(J.src, t.at) : e.kind \in kinds}
             present == {p \in At(cat0, at) : p.kind \in kinds
                     /\ (p.kind = "identity" => \E e \in expected : e.kind = "identity" /\ e.cols = p.cols)}
             diffs == {Diff(e, Verdict(e, present, J.policy)) : e \in expected}
             keys == {Key(Target(e, J.policy)) : e \in expected}
             extra == {Diff(p, "extra") : p \in {p \in present : Key(p) \notin keys}}
  <2>1. i.diffs = diffs \cup extra
    <3>1. \E status, fix : i = Item(group, t.at, status, group, diffs \cup extra, fix)
      BY <1>4 DEF Rollup
    <3> HIDE DEF diffs, extra
    <3>2. QED BY <3>1 DEF Item
  <2>2. CASE d \in extra
    <3>1. PICK p : d = Diff(p, "extra")
      BY <2>2
    <3>2. QED BY <3>1 DEF Diff
  <2>3. CASE d \in diffs
    <3>1. PICK e \in expected : d = Diff(e, Verdict(e, present, J.policy))
      BY <2>3
    <3>2. e = o /\ d.verdict = Verdict(o, present, J.policy)
      BY <1>1, <3>1 DEF Diff
    <3>3. o \in expected /\ o.at = t.at /\ o.kind \in kinds
      BY <3>1, <3>2 DEF At
    <3>4. kinds = Group(o.kind)
      BY <1>4, <3>3 DEF Group
    <3>5. Target(o, J.policy).at = at
      BY <1>2, <3>3, SrcObjects, TargetFields
    <3>6. PICK p \in scanned.cat : /\ p.at = at /\ p.kind \in kinds /\ Key(p) = Key(Target(o, J.policy))
                                   /\ p.kind = "identity" => o.kind = "identity"
      BY <1>2, <3>4, <3>5 DEF Kept
    <3>7. p.kind = "identity" => o.cols = p.cols
      <4>1. Target(o, J.policy).kind = o.kind /\ Target(o, J.policy).cols = o.cols
        BY <1>2, SrcObjects, TargetFields
      <4>2. QED BY <3>6, <4>1 DEF Key
    <3>8. p \in present
      <4>1. p.kind \notin Routines
        BY <1>1, <3>4, <3>6 DEF Group, Routines, PostDataKinds
      <4>2. QED BY <3>3, <3>6, <3>7, <4>1 DEF At, Inventory
    <3> HIDE DEF present
    <3>9. QED BY <3>2, <3>6, <3>8 DEF Verdict
  <2>4. QED BY <1>1, <2>1, <2>2, <2>3
<1>5. QED BY <1>3, <1>4 DEF PostDataItems

\* The inductive invariant of the validation as a whole.
LEMMA ApartIsInvariant == ValidationSpec => [](RowsInv /\ ScanInv /\ ReportInv /\ ApartInv)
<1>1. ValidationInit => ApartInv
  BY ApartInit
<1>2. RowsInv /\ ScanInv /\ ApartInv /\ [ValidationNext]_validationVars => ApartInv'
  BY ApartNext
<1>3. QED BY <1>1, <1>2, ReportIsOfTheScan, PTL DEF ValidationSpec

\* Where the names of a migration tell its objects apart, every source object that the target
\* lacked when it was scanned is in the report, whatever failed, was changed by hand, fixed
\* or rescanned before and after.
THEOREM AbsentIsReportedApart == ValidationSpec => [](NamesApart(J) => AbsentIsReported)
<1>1. RowsInv /\ ReportInv /\ ApartInv => (NamesApart(J) => AbsentIsReported)
  <2>1. SUFFICES ASSUME RowsInv, ReportInv, ApartInv, NamesApart(J), scanned.full, NEW o \in J.src
                 PROVE  ReportedIfAbsent(o)
    BY DEF AbsentIsReported
  <2>2. job \in DOMAIN Jobs
    BY <2>1 DEF RowsInv
  <2>3. Reachable(scanned.cat) /\ Reachable(scanned.tables)
    BY <2>1 DEF ApartInv, CatInv
  <2>4. NameTells(o, ScannedFor(o))
    BY <2>1, <2>2, <2>3, NamesTellReachable DEF ScannedFor
  <2>5. QED BY <2>1, <2>2, <2>4, AbsentTells
<1>2. QED BY <1>1, ApartIsInvariant, PTL

\* Under the same condition a constraint, an index or a foreign key whose statement was run is
\* not missing in the next scan: no other fix takes it along, and no guard skips it.
THEOREM FixesConvergeApart == ValidationSpec => [](NamesApart(J) => FixesConverge)
<1>1. RowsInv /\ ReportInv /\ ApartInv => (NamesApart(J) => FixesConverge)
  BY KeptConverges DEF RowsInv, ApartInv
<1>2. QED BY <1>1, ApartIsInvariant, PTL

-----------------------------------------------------------------------------
(* What the plan makes and what the comparator looks for. *)

\* An item that reports nothing the target lacks.
Lacking == {"missing", "type drift", "collation drift"}
LacksNothing(i) == i.status # "missing" /\ \A d \in i.diffs : d.verdict \notin Lacking

\* What a table comes with, and what is made for it, is found.
LEMMA MadeColumnMatches ==
  ASSUME job \in DOMAIN Jobs, NEW o \in AllColumns(J.src), NEW c, Target(o, J.policy) \in c
  PROVE  ColumnVerdict(o, J.policy, Inventory(c)) = "matched"
<1> DEFINE t == Target(o, J.policy)
           there == {p \in Columns(Inventory(c), t.at) : p.cols = t.cols}
<1>1. o \in J.src /\ IsObject(o) /\ o.kind = "column"
  BY SrcObjects DEF AllColumns
<1>2. t.kind = "column" /\ t.tag = Expected(o.tag)
  BY <1>1, TargetFields
<1>3. t \in there
  BY <1>2 DEF Inventory, Columns, Routines
<1> HIDE DEF t
<1>4. QED BY <1>2, <1>3 DEF ColumnVerdict, CollationDrifts, t

LEMMA MadeTableIsFound ==
  ASSUME job \in DOMAIN Jobs, NEW t \in SrcTables, NEW c, Made(t) \subseteq c, NEW count,
         NEW i, i = TableItem(t, J.src, Inventory(c), count, J.policy)
  PROVE  LacksNothing(i)
<1> DEFINE at == MapPlace(t.at, J.policy)
           cat0 == Inventory(c)
           cols == {Diff(o, ColumnVerdict(o, J.policy, cat0)) : o \in Columns(J.src, t.at)}
           extra == {Diff(o, "extra") : o \in {o \in Columns(cat0, at) :
                       \A k \in Columns(J.src, t.at) : k.cols # o.cols}}
           diffs == cols \cup extra \cup {Diff(t, RowsVerdict(count))}
           status == IF \A d \in diffs : d.verdict = "matched" THEN "matched" ELSE "mismatch"
<1>1. t \in J.src /\ t.kind = "table" /\ IsObject(t)
  BY SrcObjects DEF SrcTables, Tables
<1>2. Made(t) = {Target(t, J.policy)} \cup {Target(o, J.policy) : o \in Columns(J.src, t.at)}
  BY <1>1 DEF Made, Created, Shared, Routines
<1>3. at \in Places(cat0, "table")
  <2>1. Target(t, J.policy).kind = "table" /\ Target(t, J.policy).at = at
    BY <1>1, TargetFields
  <2>2. Target(t, J.policy) \in cat0
    BY <1>2, <2>1 DEF Inventory, Routines
  <2>3. QED BY <2>1, <2>2 DEF Places, Kind
<1>4. \E fix : i = Item("table", t.at, status, "table", diffs, fix)
  BY <1>3 DEF TableItem
<1>5. \A d \in cols : d.verdict = "matched"
  <2>1. SUFFICES ASSUME NEW o \in Columns(J.src, t.at) PROVE ColumnVerdict(o, J.policy, cat0) = "matched"
    BY DEF Diff
  <2>2. o \in AllColumns(J.src) /\ Target(o, J.policy) \in c
    BY <1>2 DEF Columns, AllColumns
  <2>3. QED BY <2>2, MadeColumnMatches
<1>6. \A d \in extra : d.verdict = "extra"
  BY DEF Diff
<1>7. Diff(t, RowsVerdict(count)).verdict \in {"unverified", "rows differ", "matched"}
  BY DEF Diff, RowsVerdict
<1> HIDE DEF cols, extra
<1>8. \A d \in diffs : d.verdict \notin Lacking
  BY <1>5, <1>6, <1>7 DEF Lacking
<1>9. status # "missing"
  OBVIOUS
<1> HIDE DEF diffs, status
<1>10. QED BY <1>4, <1>8, <1>9 DEF Item, LacksNothing

LEMMA MadeRollupIsFound ==
  ASSUME job \in DOMAIN Jobs, NEW c, \A o \in J.src : o.kind \in PostDataKinds => Made(o) \subseteq c, NEW t, NEW group, NEW kinds,
         kinds \in {{"pk", "check", "default", "identity"}, {"index"}, {"fk"}},
         NEW i \in Rollup(group, kinds, t, J.src, Inventory(c), J.policy)
  PROVE  LacksNothing(i)
<1> DEFINE at == MapPlace(t.at, J.policy)
           cat0 == Inventory(c)
           expected == {e \in At(J.src, t.at) : e.kind \in kinds}
           present == {p \in At(cat0, at) : p.kind \in kinds
                   /\ (p.kind = "identity" => \E e \in expected : e.kind = "identity" /\ e.cols = p.cols)}
           diffs == {Diff(e, Verdict(e, present, J.policy)) : e \in expected}
           keys == {Key(Target(e, J.policy)) : e \in expected}
           extra == {Diff(p, "extra") : p \in {p \in present : Key(p) \notin keys}}
           status == IF \A d \in diffs \cup extra : d.verdict = "matched" THEN "matched" ELSE "mismatch"
<1>1. i.status \in {"matched", "mismatch"} /\ i.diffs = diffs \cup extra
  <2>1. PICK fix : i = Item(group, t.at, status, group, diffs \cup extra, fix)
    BY DEF Rollup
  <2>2. status \in {"matched", "mismatch"}
    OBVIOUS
  <2> HIDE DEF status, diffs, extra
  <2>3. QED BY <2>1, <2>2 DEF Item
<1>2. \A d \in extra : d.verdict = "extra"
  BY DEF Diff
<1>3. ASSUME NEW o \in expected PROVE Verdict(o, present, J.policy) \in {"matched", "mismatch"}
  <2>1. o \in J.src /\ o.kind \in PostDataKinds /\ o.at = t.at /\ kinds = Group(o.kind)
    BY DEF At, PostDataKinds, Group
  <2>2. PICK p \in c : p \in Made(o)
    BY <2>1, MadeForKept
  <2>3. /\ p.at = at /\ p.kind \in kinds /\ Key(p) = Key(Target(o, J.policy))
        /\ p.kind = "identity" => o.kind = "identity"
    <3>1. Target(o, J.policy).at = at
      BY <2>1, SrcObjects, TargetFields
    <3>2. QED BY <2>1, <2>2, <3>1, MadeForKept
  <2>4. p.kind = "identity" => o.cols = p.cols
    <3>1. Target(o, J.policy).kind = o.kind /\ Target(o, J.policy).cols = o.cols
      BY <2>1, SrcObjects, TargetFields
    <3>2. QED BY <2>3, <3>1 DEF Key
  <2>5. p \in present
    <3>1. p.kind \notin Routines
      BY <2>3 DEF Routines
    <3>2. QED BY <2>2, <2>3, <2>4, <3>1 DEF At, Inventory
  <2> HIDE DEF present
  <2>6. QED BY <2>3, <2>5 DEF Verdict
<1>4. \A d \in diffs : d.verdict \in {"matched", "mismatch"}
  <2>1. SUFFICES ASSUME NEW d \in diffs PROVE d.verdict \in {"matched", "mismatch"}
    OBVIOUS
  <2>2. PICK o \in expected : d = Diff(o, Verdict(o, present, J.policy))
    OBVIOUS
  <2> HIDE DEF present, expected
  <2>3. d.verdict = Verdict(o, present, J.policy)
    BY <2>2 DEF Diff
  <2>4. QED BY <1>3, <2>3
<1> HIDE DEF diffs, extra, status
<1>5. \A d \in diffs \cup extra : d.verdict \notin Lacking
  BY <1>2, <1>4 DEF Lacking
<1>6. QED BY <1>1, <1>5 DEF LacksNothing

\* So is a routine that has the kind its scan or its translation tells.
LEMMA MadeRoutineIsFound ==
  ASSUME job \in DOMAIN Jobs, NEW o \in J.src, o.kind \in Programmable, NEW c, Made(o) \subseteq c,
         o.kind \in Routines => J.shape[o].kind \in {o.kind, ExpectedKind(o, Plan)} /\ J.shape[o].tag # "extension",
         NEW i, i = RoutineItem(o, Inventory(c), Plan, J.policy)
  PROVE  LacksNothing(i)
<1> DEFINE t == Target(o, J.policy)
           at == MapPlace(o.at, J.policy)
           kind == ExpectedKind(o, Plan)
           cat0 == Inventory(c)
           cursor == \E p \in Kind(cat0, "procedure") : p.at = at /\ p.tag = "cursor"
<1>1. IsObject(t) /\ t.kind = o.kind /\ t.at = at
  BY SrcObjects, TargetIsObject, TargetFields
<1>2. kind # o.kind => o.kind = "procedure" /\ kind = "function"
  BY DEF ExpectedKind
<1>3. at \in Places(cat0, kind) \/ (kind # o.kind /\ at \in Places(cat0, "procedure"))
  <2>1. CASE o.kind \in Routines
    <3>1. PICK x, y : x = J.shape[o].kind /\ y = J.shape[o].tag
      OBVIOUS
    <3>2. PICK p : p = [t EXCEPT !.kind = x, !.tag = y]
      OBVIOUS
    <3>3. p \in Made(o)
      BY <2>1, <3>1, <3>2 DEF Made, Created, Shared, Routines
    <3>4. p = Obj(x, t.at, t.name, t.cols, t.ref, y)
      <4>1. IsObject(t)
        BY <1>1
      <4> HIDE DEF t
      <4>2. QED BY <3>2, <4>1 DEF IsObject, Obj
    <3>5. p.kind = x /\ p.at = at /\ p.tag # "extension"
      BY <1>1, <2>1, <3>1, <3>4, ObjFields
    <3>6. p \in cat0
      BY <3>3, <3>5 DEF Inventory
    <3>7. at \in Places(cat0, x)
      BY <3>5, <3>6 DEF Places, Kind
    <3>8. x = kind \/ (x = o.kind /\ x # kind)
      BY <2>1, <3>1
    <3> HIDE DEF kind
    <3>9. QED BY <1>2, <3>7, <3>8
  <2>2. CASE o.kind \notin Routines
    <3>1. t \in Made(o)
      BY <2>2 DEF Made, Created, Shared, Routines, Programmable
    <3>2. t \in cat0 /\ kind = o.kind
      BY <1>1, <1>2, <2>2, <3>1 DEF Inventory, Routines
    <3>3. QED BY <1>1, <3>2 DEF Places, Kind
  <2>3. QED BY <2>1, <2>2
<1>4. ASSUME NEW status, status \in {"matched", "mismatch"}, NEW found, NEW verdict, verdict \in {"matched", "wrong kind"},
             i = Item(o.kind, o.at, status, found, {Diff(o, verdict)}, {})
      PROVE  LacksNothing(i)
  <2>1. i.status = status /\ i.diffs = {Diff(o, verdict)} /\ Diff(o, verdict).verdict = verdict
    <3>1. PICK diffs : diffs = {Diff(o, verdict)}
      OBVIOUS
    <3>2. i = Item(o.kind, o.at, status, found, diffs, {})
      BY <1>4, <3>1
    <3>3. i.status = status /\ i.diffs = diffs
      BY <3>2 DEF Item
    <3>4. QED BY <3>1, <3>3 DEF Diff
  <2>2. verdict \notin Lacking /\ status # "missing"
    BY <1>4 DEF Lacking
  <2>3. QED BY <2>1, <2>2 DEF LacksNothing
<1>5. CASE at \in Places(cat0, kind)
  <2>1. i = Item(o.kind, o.at, "matched", kind, {Diff(o, "matched")}, {})
    BY <1>5 DEF RoutineItem
  <2>2. QED BY <1>4, <2>1
<1>6. CASE at \notin Places(cat0, kind)
  <2>1. i = Item(o.kind, o.at, IF cursor THEN "matched" ELSE "mismatch", "procedure",
                 {Diff(o, IF cursor THEN "matched" ELSE "wrong kind")}, {})
    BY <1>3, <1>6 DEF RoutineItem
  <2> HIDE DEF cursor
  <2>2. CASE cursor
    BY <1>4, <2>1, <2>2
  <2>3. CASE ~cursor
    BY <1>4, <2>1, <2>3
  <2>4. QED BY <2>2, <2>3
<1>7. QED BY <1>5, <1>6

\* The comparator looks for just what the statements of the plan make, under the names and
\* with the types they make it: of a target that has it all, no report says that a schema, a
\* table, a column, a constraint, an index or a routine is missing or drifted.
THEOREM MadeIsFound ==
  ASSUME job \in DOMAIN Jobs, NEW c, \A i \in PlanItems(J.src, J.policy) : Made(i) \subseteq c,
         \A o \in J.src : o.kind \in Routines =>
           J.shape[o].kind \in {o.kind, ExpectedKind(o, Plan)} /\ J.shape[o].tag # "extension",
         NEW counts, NEW scope
  PROVE  \A i \in Compare(J.src, c, counts, scope, Plan, J.policy) :
           i.status # "missing" /\ \A d \in i.diffs : d.verdict \notin {"missing", "type drift", "collation drift"}
<1> DEFINE cat0 == Inventory(c)
           items == Compare(J.src, c, counts, scope, Plan, J.policy)
           code == {o \in J.src : o.kind \in Programmable}
           routines == {RoutineItem(o, cat0, Plan, J.policy) : o \in code}
           there == {t \in Tables(J.src) : MapPlace(t.at, J.policy) \in Places(cat0, "table")}
           schemaItems == {SchemaItem(s, cat0) : s \in {MapSchema(o.at[1], J.policy) : o \in J.src}}
           tableItems == IF scope = "objects" THEN {} ELSE {TableItem(t, J.src, cat0, counts[t], J.policy) : t \in Tables(J.src)}
           rollups == UNION {PostDataItems(t, J.src, cat0, J.policy) : t \in there}
           triggers == TriggerFunctionItems(code, cat0, J.policy)
           extras == Extras(J.src, cat0, routines, scope, Plan, J.policy)
<1>1. items = schemaItems \cup tableItems \cup rollups \cup routines \cup triggers \cup extras
  BY DEF Compare
<1>2. \A o \in J.src : o.kind # "column" => Made(o) \subseteq c
  BY DEF PlanItems
<1>3. ASSUME NEW i \in schemaItems PROVE LacksNothing(i)
  <2>1. PICK s : i = SchemaItem(s, cat0) /\ s \in {MapSchema(o.at[1], J.policy) : o \in J.src}
    OBVIOUS
  <2>2. Schema(s) \in PlanItems(J.src, J.policy)
    BY <2>1 DEF PlanItems
  <2>3. Schema(s).kind = "schema"
    BY ObjFields DEF Schema
  <2>4. Schema(s) \in Made(Schema(s))
    BY <2>3 DEF Made, Created, Shared, Routines
  <2>5. Schema(s) \in cat0
    BY <2>2, <2>3, <2>4 DEF Inventory, Routines
  <2>6. i = Item("schema", <<s, <<>>>>, "matched", "schema", {}, {})
    BY <2>1, <2>5 DEF SchemaItem
  <2>7. QED BY <2>6 DEF Item, LacksNothing
<1>4. ASSUME NEW i \in tableItems PROVE LacksNothing(i)
  <2>1. PICK t \in SrcTables : i = TableItem(t, J.src, cat0, counts[t], J.policy)
    BY DEF SrcTables
  <2>2. Made(t) \subseteq c
    BY <1>2 DEF SrcTables, Tables
  <2>3. QED BY <2>1, <2>2, MadeTableIsFound
<1>5. ASSUME NEW i \in rollups PROVE LacksNothing(i)
  <2>1. PICK t \in there : i \in PostDataItems(t, J.src, cat0, J.policy)
    BY <1>5
  <2>2. \A o \in J.src : o.kind \in PostDataKinds => Made(o) \subseteq c
    BY <1>2 DEF PostDataKinds
  <2>3. QED BY <2>1, <2>2, MadeRollupIsFound DEF PostDataItems
<1>6. ASSUME NEW i \in routines PROVE LacksNothing(i)
  <2>1. PICK o \in code : i = RoutineItem(o, cat0, Plan, J.policy)
    BY <1>6
  <2>2. Made(o) \subseteq c
    BY <1>2 DEF Programmable, Routines
  <2>3. QED BY <2>1, <2>2, MadeRoutineIsFound
<1>7. ASSUME NEW i \in triggers PROVE LacksNothing(i)
  <2>1. PICK at : i = Item("trigger-fn", at, "matched", "function", {}, {})
    BY DEF TriggerFunctionItems
  <2>2. QED BY <2>1 DEF Item, LacksNothing
<1>8. ASSUME NEW i \in extras PROVE LacksNothing(i)
  <2>1. ASSUME NEW k, NEW a, NEW claimed, NEW owned, i = Extra(k, a, claimed, owned, Plan) PROVE LacksNothing(i)
    <3>1. PICK at, fix : i = Item("extra", at, "extra", k, {}, fix)
      BY <2>1 DEF Extra
    <3>2. QED BY <3>1 DEF Item, LacksNothing
  <2> DEFINE kinds == Programmable \cup (IF scope = "objects" THEN {} ELSE {"table"})
             claimed == [k \in Programmable \cup {"table"} |->
                           IF k = "table" THEN {MapPlace(t.at, J.policy) : t \in Tables(J.src)}
                           ELSE Claimed(k, {o \in J.src : o.kind \in Programmable}, routines, J.policy)]
             owned == UNION {claimed[k] : k \in Programmable}
  <2>2. extras = UNION {{Extra(k, a, claimed, owned, Plan) : a \in Places(cat0, k) \ claimed[k]} : k \in kinds}
    BY DEF Extras
  <2> HIDE DEF claimed, owned
  <2>3. QED BY <1>8, <2>1, <2>2
<1> HIDE DEF items, schemaItems, tableItems, rollups, routines, triggers, extras
<1>9. \A i \in items : LacksNothing(i)
  BY <1>1, <1>3, <1>4, <1>5, <1>6, <1>7, <1>8
<1>10. QED BY <1>9 DEF items, LacksNothing, Lacking
-----------------------------------------------------------------------------
(* A plan goes through: the next statement is accepted, and undoes no other. *)

\* What comes before and besides an item.
Before(i) == MadeBy({j \in ThePlan : Rank(j.kind) < Rank(i.kind)})
Others(i) == MadeBy(ThePlan \ {i})

\* The condition on a plan in these words.
LEMMA PlanGoesIs ==
  ASSUME PlanGoes(J), NEW i \in ThePlan
  PROVE  /\ i \in Items
         /\ \A t \in Made(i) :
              /\ Possible(t, IF t.kind = "column" THEN Before(i) \cup Made(i) ELSE Before(i))
              /\ ~There(t, Others(i))
              /\ t.kind \in {"pk", "view"} => NameFree(t, Others(i))
              /\ Replaced(t, Others(i)) \subseteq Made(i)
              /\ i.kind \in Routines => \A o \in Others(i) : o.kind \in Routines => o.at # t.at
  BY DEF PlanGoes, ThePlan, Before, Others, MadeBy, Made, Items

\* A guard that nothing in a catalog meets is met by nothing in a part of it, and a name that
\* is free stays so.
LEMMA ThereLess ==
  ASSUME NEW t, NEW objs, NEW c \in SUBSET objs, There(t, c)
  PROVE  There(t, objs)
  BY DEF There, Relations, Shared, Constraints

LEMMA NameFreeLess ==
  ASSUME NEW t, NEW objs, NEW c \in SUBSET objs, ~There(t, objs), NameFree(t, objs)
  PROVE  NameFree(t, c)
<1> DEFINE name == IF t.kind = "pk" THEN <<t.at[1], t.name>> ELSE t.at
<1>1. name \notin Relations({o \in objs : o.kind # t.kind})
  BY DEF NameFree
<1>2. Relations({o \in c : o.kind # t.kind}) \subseteq Relations({o \in objs : o.kind # t.kind})
  BY DEF Relations
<1> HIDE DEF name
<1>3. name \notin Relations({o \in c : o.kind # t.kind})
  BY <1>1, <1>2
<1>4. QED BY <1>3 DEF NameFree, name

\* What a statement asks for stays there as the catalog grows, but for the name.
LEMMA PossibleMore ==
  ASSUME NEW t, NEW objs, NEW c \in SUBSET objs, Possible(t, c), t.kind \in {"pk", "view"} => NameFree(t, objs)
  PROVE  Possible(t, objs)
<1>1. HasColumns(t, c) => HasColumns(t, objs)
  BY DEF HasColumns, Columns
<1>2. QED BY <1>1 DEF Possible, Tables

\* The next statement of a plan that goes through is accepted, and takes nothing away.
LEMMA NextGoes ==
  ASSUME job \in DOMAIN Jobs, PlanGoes(J), todo \subseteq ThePlan, todo # {}, cat = MadeBy(ThePlan \ todo)
  PROVE  /\ NextItem \in todo
         /\ Accepted(NextItem, Made(NextItem), cat)
         /\ After(NextItem, Made(NextItem), cat) = MadeBy(ThePlan \ (todo \ {NextItem}))
<1> DEFINE i == NextItem
           made == Made(i)
<1>1. todo \subseteq Items
  BY DEF ThePlan, Items
<1>2. i \in todo /\ \A j \in todo : Rank(i.kind) <= Rank(j.kind)
  BY <1>1, NextItemIs
<1> HIDE DEF i
<1>3. Before(i) \subseteq cat
  <2>1. \A j \in ThePlan : Rank(j.kind) < Rank(i.kind) => j \notin todo
    <3>1. \A j \in ThePlan : Rank(j.kind) \in 0..13
      BY RankIs DEF ThePlan, Items
    <3>2. QED BY <1>2, <3>1
  <2>2. QED BY <2>1 DEF Before, MadeBy
<1>4. cat \subseteq Others(i)
  BY <1>2 DEF Others, MadeBy
<1>5. i \in ThePlan
  BY <1>2
<1>6. Stale(i, made, cat) = {}
  <2>1. ASSUME i.kind \in Routines, NEW o \in cat, o.kind = i.kind, NEW t \in made PROVE o.at # t.at
    BY <1>4, <1>5, <2>1, PlanGoesIs
  <2>2. QED BY <2>1 DEF Stale
<1>7. cat \ Stale(i, made, cat) = cat
  BY <1>6
<1>8. ASSUME NEW t \in made
      PROVE  /\ Possible(t, IF t.kind = "column" THEN cat \cup made ELSE cat)
             /\ ~There(t, cat)
             /\ Replaced(t, cat) \subseteq made
  <2>1. /\ Possible(t, IF t.kind = "column" THEN Before(i) \cup made ELSE Before(i))
        /\ ~There(t, Others(i))
        /\ t.kind \in {"pk", "view"} => NameFree(t, Others(i))
        /\ Replaced(t, Others(i)) \subseteq made
    BY <1>5, PlanGoesIs
  <2>2. ~There(t, cat)
    BY <1>4, <2>1, ThereLess
  <2>3. t.kind \in {"pk", "view"} => NameFree(t, cat)
    BY <1>4, <2>1, NameFreeLess
  <2>4. CASE t.kind = "column"
    <3>1. Before(i) \cup made \subseteq cat \cup made
      BY <1>3
    <3>2. Possible(t, cat \cup made)
      BY <2>1, <2>4, <3>1, PossibleMore
    <3>3. Replaced(t, cat) \subseteq made
      BY <1>4, <2>1 DEF Replaced
    <3>4. QED BY <2>2, <2>4, <3>2, <3>3
  <2>5. CASE t.kind # "column"
    <3>1. Possible(t, cat)
      BY <1>3, <2>1, <2>3, <2>5, PossibleMore
    <3>2. Replaced(t, cat) \subseteq made
      BY <1>4, <2>1 DEF Replaced
    <3>3. QED BY <2>2, <2>5, <3>1, <3>2
  <2>6. QED BY <2>4, <2>5
<1>9. Accepted(i, made, cat)
  BY <1>7, <1>8 DEF Accepted
<1>10. After(i, made, cat) = (cat \ UNION {Replaced(t, cat) : t \in made}) \cup made
  <2>1. ~ \E t \in made : There(t, cat) /\ t.tag # "helper"
    BY <1>8
  <2> HIDE DEF made
  <2>2. QED BY <1>7, <2>1 DEF After
<1>11. After(i, made, cat) = cat \cup made
  BY <1>8, <1>10
<1>12. cat \cup made = MadeBy(ThePlan \ (todo \ {i}))
  BY <1>2, <1>5 DEF MadeBy
<1>13. QED BY <1>2, <1>9, <1>11, <1>12 DEF i
-----------------------------------------------------------------------------
(* What the statements of a plan make, and where. *)

\* What was made of a kind, and for what.
LEMMA MadeOf ==
  ASSUME job \in DOMAIN Jobs, NEW i \in Items, NEW p \in Made(i)
  PROVE  /\ p.kind \in PostDataKinds => i \in J.src /\ i.kind \in PostDataKinds
         /\ p.kind \in Routines =>
              \/ p.tag = "extension"
              \/ /\ i \in J.src /\ i.kind \in Routines /\ p.kind = J.shape[i].kind /\ p.tag = J.shape[i].tag
                 /\ p.at = MapPlace(i.at, J.policy)
              \/ /\ i \in J.src /\ i.kind = "trigger" /\ p.kind = "function"
                 /\ p.at = <<MapSchema(i.at[1], J.policy), TriggerFunction(i.at[2], J.policy)>>
<1> DEFINE t == Target(i, J.policy)
<1>1. CASE \E e \in {"postgis", "ltree"} : i = ExtensionItem(e)
  <2>1. PICK e \in {"postgis", "ltree"} : i = ExtensionItem(e)
    BY <1>1
  <2>2. IsObject(i) /\ i.kind = "extension" /\ i.at = <<<<e>>, <<>>>>
    BY <2>1, ObjFields DEF ExtensionItem
  <2>3. Made(i) = {i} \cup {[o EXCEPT !.at = <<Public, o.at[2]>>] : o \in Provides[e]}
    BY <2>2 DEF Made, Created, Shared, Routines
  <2>4. CASE p = i
    BY <2>2, <2>4 DEF PostDataKinds, Routines
  <2>5. CASE p # i
    <3>1. PICK o \in Provides[e] : p = [o EXCEPT !.at = <<Public, o.at[2]>>]
      BY <2>3, <2>5
    <3>2. o = Obj(o.kind, o.at, o.name, o.cols, o.ref, "extension") /\ o.kind \in {"table", "function", "view"}
      BY ProvidesAssumption
    <3>3. p = Obj(o.kind, <<Public, o.at[2]>>, o.name, o.cols, o.ref, "extension")
      BY <3>1, <3>2 DEF Obj
    <3>4. p.kind = o.kind /\ p.tag = "extension"
      BY <3>3, ObjFields
    <3>5. QED BY <3>2, <3>4 DEF PostDataKinds
  <2>6. QED BY <2>4, <2>5
<1>2. CASE (\E s : i = Schema(s)) \/ (i.kind = "collation" /\ IsObject(i))
  <2>1. i.kind \in {"schema", "collation"}
    <3>1. CASE \E s : i = Schema(s)
      BY <3>1, ObjFields DEF Schema
    <3>2. QED BY <1>2, <3>1
  <2>2. Made(i) = {i}
    BY <2>1 DEF Made, Created, Shared, Routines
  <2>3. QED BY <2>1, <2>2 DEF PostDataKinds, Routines
<1>3. CASE i \in J.src /\ IsObject(i) /\ i.kind \in {"table", "column"} \cup PostDataKinds \cup Programmable
  <2>0. /\ IsObject(t) /\ t.kind = i.kind /\ t.at = MapPlace(i.at, J.policy)
        /\ i.kind \notin Shared
    BY <1>3, TargetIsObject, TargetFields DEF Shared, PostDataKinds, Programmable, Routines
  <2>1. CASE i.kind \in PostDataKinds
    <3>1. p.kind \in PostDataKinds
      BY <1>3, <2>1, MadeForKept DEF Group, PostDataKinds
    <3>2. p.kind \notin Routines
      BY <3>1 DEF PostDataKinds, Routines
    <3>3. QED BY <1>3, <2>1, <3>2
  <2>2. CASE i.kind \in {"table", "column"}
    <3>1. p.kind \in {"table", "column"}
      BY <2>2, MadeIs
    <3>2. QED BY <3>1 DEF PostDataKinds, Routines
  <2>3. CASE i.kind \in Routines
    <3>1. \/ p = [t EXCEPT !.kind = J.shape[i].kind, !.tag = J.shape[i].tag]
          \/ \E h : p = Obj("table", <<t.at[1], t.at[2] \o h>>, <<>>, <<>>, NoPlace, "helper")
      BY <2>0, <2>3 DEF Made, Created, Shared, Routines
    <3>2. CASE p = [t EXCEPT !.kind = J.shape[i].kind, !.tag = J.shape[i].tag]
      <4>1. PICK x, y : p = [t EXCEPT !.kind = x, !.tag = y] /\ x = J.shape[i].kind /\ y = J.shape[i].tag
        BY <3>2
      <4>2. IsObject(t) /\ t.at = MapPlace(i.at, J.policy)
        BY <2>0
      <4> HIDE DEF t
      <4>3. p = Obj(x, t.at, t.name, t.cols, t.ref, y)
        BY <4>1, <4>2 DEF IsObject, Obj
      <4>4. p.kind = x /\ p.tag = y /\ p.at = MapPlace(i.at, J.policy)
        BY <4>2, <4>3, ObjFields
      <4>5. x \in Routines
        BY <1>3, <2>3, <4>1, SrcObjects DEF IsShape
      <4>6. QED BY <1>3, <2>3, <4>1, <4>4, <4>5 DEF PostDataKinds, Routines
    <3>3. CASE \E h : p = Obj("table", <<t.at[1], t.at[2] \o h>>, <<>>, <<>>, NoPlace, "helper")
      <4>1. p.kind = "table"
        BY <3>3, ObjFields
      <4>2. QED BY <4>1 DEF PostDataKinds, Routines
    <3>4. QED BY <3>1, <3>2, <3>3
  <2>4. CASE i.kind = "trigger"
    <3>1. \/ p = t
          \/ p = Obj("function", <<t.at[1], TriggerFunction(i.at[2], J.policy)>>, <<>>, <<>>, NoPlace, "none")
      BY <2>0, <2>4 DEF Made, Created, Shared, Routines
    <3>2. t.at[1] = MapSchema(i.at[1], J.policy)
      BY <2>0 DEF MapPlace
    <3>3. p.kind \in {"function", "trigger"}
          /\ (p.kind = "function" => p.at = <<MapSchema(i.at[1], J.policy), TriggerFunction(i.at[2], J.policy)>>)
      BY <2>0, <2>4, <3>1, <3>2, ObjFields
    <3>4. QED BY <1>3, <2>4, <3>3 DEF PostDataKinds, Routines
  <2>5. CASE i.kind = "view"
    <3>1. Made(i) = {t}
      BY <2>0, <2>5 DEF Made, Created, Shared, Routines
    <3>2. QED BY <2>0, <2>5, <3>1 DEF PostDataKinds, Routines
  <2>6. QED BY <1>3, <2>1, <2>2, <2>3, <2>4, <2>5 DEF Programmable
<1>4. QED BY <1>1, <1>2, <1>3, ItemIs

\* What the item of a routine makes: the routine, and tables.
LEMMA MadeRoutine ==
  ASSUME job \in DOMAIN Jobs, NEW o \in J.src, o.kind \in Routines
  PROVE  \E p \in Made(o) : /\ p.kind = J.shape[o].kind /\ p.tag = J.shape[o].tag /\ p.at = MapPlace(o.at, J.policy)
                            /\ \A q \in Made(o) : q.kind \in Routines => q = p
<1> DEFINE t == Target(o, J.policy)
<1>1. IsObject(t) /\ t.at = MapPlace(o.at, J.policy) /\ t.kind = o.kind
  BY SrcObjects, TargetIsObject, TargetFields
<1>2. PICK x, y : x = J.shape[o].kind /\ y = J.shape[o].tag
  OBVIOUS
<1>3. PICK p : p = [t EXCEPT !.kind = x, !.tag = y]
  OBVIOUS
<1>4. Made(o) = {p} \cup {Obj("table", <<t.at[1], t.at[2] \o h>>, <<>>, <<>>, NoPlace, "helper") : h \in J.shape[o].helpers}
  BY <1>2, <1>3 DEF Made, Created, Shared, Routines
<1> HIDE DEF t
<1>5. p = Obj(x, t.at, t.name, t.cols, t.ref, y)
  BY <1>1, <1>3 DEF IsObject, Obj
<1>6. p.kind = x /\ p.tag = y /\ p.at = t.at
  BY <1>5, ObjFields
<1>7. ASSUME NEW q \in Made(o), q # p PROVE q.kind = "table"
  <2>1. PICK h : q = Obj("table", <<t.at[1], t.at[2] \o h>>, <<>>, <<>>, NoPlace, "helper")
    BY <1>4, <1>7
  <2>2. QED BY <2>1, ObjFields
<1>8. QED BY <1>1, <1>2, <1>4, <1>6, <1>7 DEF Routines

\* No two tables of a plan that goes through become one.
LEMMA PlacesDiffer ==
  ASSUME job \in DOMAIN Jobs, PlanGoes(J), NEW t \in SrcTables, NEW u \in SrcTables, PlaceOf(t) = PlaceOf(u)
  PROVE  t = u
<1>1. SUFFICES ASSUME t # u PROVE FALSE
  OBVIOUS
<1>2. \A x \in SrcTables : x \in ThePlan /\ x.kind = "table" /\ IsObject(x)
  BY SrcObjects DEF SrcTables, Tables, ThePlan, PlanItems
<1>3. \A x \in SrcTables : Target(x, J.policy) \in Made(x)
  BY <1>2 DEF Made, Created, Shared, Routines
<1>4. \A x \in SrcTables : Target(x, J.policy).kind = "table" /\ Target(x, J.policy).at = PlaceOf(x)
  BY <1>2, TargetFields DEF PlaceOf
<1>5. Target(u, J.policy) \in Others(t)
  BY <1>1, <1>2, <1>3 DEF Others, MadeBy
<1>6. There(Target(t, J.policy), Others(t))
  BY <1>4, <1>5 DEF There, Relations, Shared
<1>7. QED BY <1>2, <1>3, <1>6, PlanGoesIs
-----------------------------------------------------------------------------
(* What a plan made is matched by the comparator, kind by kind. *)

\* A column is no item of a plan.
LEMMA NoColumnItems ==
  ASSUME NEW i \in ThePlan
  PROVE  i.kind # "column"
<1> DEFINE default == MapSchema(Dbo, J.policy)
<1>1. \A e : ExtensionItem(e).kind = "extension"
  BY ObjFields DEF ExtensionItem
<1>2. \A s : Schema(s).kind = "schema"
  BY ObjFields DEF Schema
<1>3. ASSUME NEW x \in NeedsCreate(AllColumns(J.src), default) PROVE x.kind = "collation"
  <2>1. PICK k \in UNION {ColumnCollation(col) : col \in AllColumns(J.src)} :
          x = [k EXCEPT !.at = <<default, k.name>>, !.name = <<>>]
    BY DEF NeedsCreate
  <2>2. PICK name, strength : k = PgCollation(name, strength)
    BY <2>1 DEF ColumnCollation, TargetCollation
  <2>3. x = Obj("collation", <<default, name>>, <<>>, <<>>, NoPlace, strength)
    BY <2>1, <2>2 DEF PgCollation, Obj
  <2>4. QED BY <2>3, ObjFields
<1>4. QED BY <1>1, <1>2, <1>3 DEF ThePlan, PlanItems

\* A table that was made by the plan, and has its rows, matches.
LEMMA CleanTable ==
  ASSUME job \in DOMAIN Jobs, PlanGoes(J), NEW t \in SrcTables, NEW count, RowsVerdict(count) = "matched",
         NEW i, i = TableItem(t, J.src, Inventory(MadeBy(ThePlan)), count, J.policy)
  PROVE  i.status = "matched"
<1> DEFINE c == MadeBy(ThePlan)
           cat0 == Inventory(c)
           at == MapPlace(t.at, J.policy)
           cols == {Diff(o, ColumnVerdict(o, J.policy, cat0)) : o \in Columns(J.src, t.at)}
           strange == {o \in Columns(cat0, at) : \A k \in Columns(J.src, t.at) : k.cols # o.cols}
           extra == {Diff(o, "extra") : o \in strange}
           diffs == cols \cup extra \cup {Diff(t, RowsVerdict(count))}
           status == IF \A d \in diffs : d.verdict = "matched" THEN "matched" ELSE "mismatch"
<1>1. t \in J.src /\ t.kind = "table" /\ IsObject(t) /\ t \in ThePlan
  BY SrcObjects DEF SrcTables, Tables, ThePlan, PlanItems
<1>2. Made(t) = {Target(t, J.policy)} \cup {Target(o, J.policy) : o \in Columns(J.src, t.at)}
  BY <1>1 DEF Made, Created, Shared, Routines
<1>3. Made(t) \subseteq c
  BY <1>1 DEF MadeBy
<1>4. at \in Places(cat0, "table")
  <2>1. Target(t, J.policy).kind = "table" /\ Target(t, J.policy).at = at
    BY <1>1, TargetFields
  <2>2. Target(t, J.policy) \in cat0
    BY <1>2, <1>3, <2>1 DEF Inventory, Routines
  <2>3. QED BY <2>1, <2>2 DEF Places, Kind
<1>5. \E fix : i = Item("table", t.at, status, "table", diffs, fix)
  BY <1>4 DEF TableItem
<1>6. \A d \in cols : d.verdict = "matched"
  <2>1. SUFFICES ASSUME NEW o \in Columns(J.src, t.at) PROVE ColumnVerdict(o, J.policy, cat0) = "matched"
    BY DEF Diff
  <2>2. o \in AllColumns(J.src) /\ Target(o, J.policy) \in c
    BY <1>2, <1>3 DEF Columns, AllColumns
  <2>3. QED BY <2>2, MadeColumnMatches
<1>7. strange = {}
  <2>1. SUFFICES ASSUME NEW p \in Columns(cat0, at) PROVE \E k \in Columns(J.src, t.at) : k.cols = p.cols
    OBVIOUS
  <2>2. p \in c /\ p.kind = "column" /\ p.at = at
    BY DEF Columns, Inventory
  <2>3. PICK u \in ThePlan : p \in Made(u)
    BY <2>2 DEF MadeBy
  <2>4. u \in Items /\ u.kind # "column"
    BY <2>3, NoColumnItems DEF ThePlan, Items
  <2>5. u.kind = "table" /\ u \in J.src /\ \E k \in Columns(J.src, u.at) : p = Target(k, J.policy)
    BY <2>2, <2>3, <2>4, MadeIs
  <2>6. PICK k \in Columns(J.src, u.at) : p = Target(k, J.policy)
    BY <2>5
  <2>7. IsObject(k) /\ k.at = u.at
    BY SrcObjects DEF Columns
  <2>8. p.at = MapPlace(u.at, J.policy) /\ p.cols = k.cols
    BY <2>6, <2>7, TargetFields
  <2>9. u = t
    BY <2>2, <2>5, <2>8, PlacesDiffer DEF SrcTables, Tables, PlaceOf
  <2>10. QED BY <2>6, <2>8, <2>9
<1>8. extra = {}
  BY <1>7
<1>9. Diff(t, RowsVerdict(count)).verdict = "matched"
  BY DEF Diff
<1> HIDE DEF cols, extra
<1>10. status = "matched"
  BY <1>6, <1>8, <1>9
<1> HIDE DEF status, diffs
<1>11. QED BY <1>5, <1>10 DEF Item

\* An object made for another one of a rollup has another name, so it hides none.
LEMMA CleanVerdict ==
  ASSUME job \in DOMAIN Jobs, PlanTells(J), NEW o \in J.src, o.kind \in PostDataKinds,
         NEW present, \A p \in present : p \in MadeBy(ThePlan) /\ p.at = MapPlace(o.at, J.policy) /\ p.kind \in Group(o.kind),
         Verdict(o, present, J.policy) # "missing"
  PROVE  Verdict(o, present, J.policy) = "matched"
<1> DEFINE t == Target(o, J.policy)
           found == {p \in present : Key(p) = Key(t)}
<1>1. t.at = MapPlace(o.at, J.policy)
  BY SrcObjects, TargetFields
<1>2. ASSUME NEW p \in found, o.kind \in {"pk", "index", "fk"} PROVE p = t
  <2>1. PICK i \in ThePlan : p \in Made(i)
    BY DEF MadeBy
  <2>2. p.at = t.at /\ p.kind \in Group(o.kind) /\ Key(p) = Key(t)
    BY <1>1
  <2>3. p \in Made(o)
    BY <2>1, <2>2 DEF PlanTells, ThePlan, Made
  <2>4. QED BY <1>2, <2>3, MadeForKept
<1>3. found # {} => Latest(found) \in found
  BY LatestIs
<1> HIDE DEF t, found
<1>4. found # {} /\ o.kind \in {"pk", "index", "fk"} => Latest(found).cols = t.cols
  BY <1>2, <1>3
<1>5. QED BY <1>4 DEF Verdict, t, found

LEMMA CleanRollup ==
  ASSUME job \in DOMAIN Jobs, PlanGoes(J), PlanTells(J), NEW t \in SrcTables, NEW group, NEW kinds,
         kinds \in {{"pk", "check", "default", "identity"}, {"index"}, {"fk"}},
         NEW i \in Rollup(group, kinds, t, J.src, Inventory(MadeBy(ThePlan)), J.policy)
  PROVE  i.status = "matched"
<1> DEFINE c == MadeBy(ThePlan)
           at == MapPlace(t.at, J.policy)
           cat0 == Inventory(c)
           expected == {e \in At(J.src, t.at) : e.kind \in kinds}
           present == {p \in At(cat0, at) : p.kind \in kinds
                   /\ (p.kind = "identity" => \E e \in expected : e.kind = "identity" /\ e.cols = p.cols)}
           diffs == {Diff(e, Verdict(e, present, J.policy)) : e \in expected}
           keys == {Key(Target(e, J.policy)) : e \in expected}
           strange == {p \in present : Key(p) \notin keys}
           extra == {Diff(p, "extra") : p \in strange}
           status == IF \A d \in diffs \cup extra : d.verdict = "matched" THEN "matched" ELSE "mismatch"
<1>1. PICK fix : i = Item(group, t.at, status, group, diffs \cup extra, fix)
  BY DEF Rollup
<1>2. i.status = status /\ i.diffs = diffs \cup extra
  <2> HIDE DEF status, diffs, extra
  <2>1. QED BY <1>1 DEF Item
<1>3. \A p \in present : p \in c /\ p.at = at /\ p.kind \in kinds
  BY DEF At, Inventory
<1>4. ASSUME NEW e \in expected PROVE Verdict(e, present, J.policy) = "matched"
  <2>1. e \in J.src /\ e.kind \in PostDataKinds /\ e.at = t.at /\ kinds = Group(e.kind)
    BY DEF At, PostDataKinds, Group
  <2>2. Diff(e, Verdict(e, present, J.policy)) \in i.diffs
    BY <1>2
  <2>3. LacksNothing(i)
    <3>1. \A o \in J.src : o.kind \in PostDataKinds => Made(o) \subseteq c
      BY DEF MadeBy, ThePlan, PlanItems, PostDataKinds
    <3>2. QED BY <3>1, MadeRollupIsFound
  <2> HIDE DEF present, expected
  <2>4. Verdict(e, present, J.policy) # "missing"
    BY <2>2, <2>3 DEF LacksNothing, Lacking, Diff
  <2>5. QED BY <1>3, <2>1, <2>4, CleanVerdict
<1>5. \A d \in diffs : d.verdict = "matched"
  <2> HIDE DEF present, expected
  <2>1. QED BY <1>4 DEF Diff
<1>6. strange = {}
  <2>1. SUFFICES ASSUME NEW p \in present PROVE Key(p) \in keys
    OBVIOUS
  <2>2. p \in c /\ p.at = at /\ p.kind \in kinds
    BY <1>3
  <2>3. PICK e \in ThePlan : p \in Made(e)
    BY <2>2 DEF MadeBy
  <2>4. e \in Items /\ p.kind \in PostDataKinds
    BY <2>2 DEF Items, ThePlan, PostDataKinds
  <2>5. e \in J.src /\ e.kind \in PostDataKinds
    BY <2>3, <2>4, MadeOf
  <2>6. p.at = MapPlace(e.at, J.policy) /\ p.kind \in Group(e.kind) /\ Key(p) = Key(Target(e, J.policy))
    <3>1. Target(e, J.policy).at = MapPlace(e.at, J.policy)
      BY <2>5, SrcObjects, TargetFields
    <3>2. QED BY <2>3, <2>5, <3>1, MadeForKept
  <2>7. PICK u \in SrcTables : u.at = e.at
    BY <2>5, SrcObjects
  <2>8. u = t
    BY <2>2, <2>6, <2>7, PlacesDiffer DEF PlaceOf
  <2>9. e.kind \in kinds
    <3>1. e.kind \in Group(e.kind)
      BY <2>5, GroupTells
    <3>2. Group(e.kind) = kinds
      BY <2>2, <2>5, <2>6 DEF Group, PostDataKinds
    <3>3. QED BY <3>1, <3>2
  <2>10. e \in expected
    BY <2>5, <2>7, <2>8, <2>9 DEF At
  <2> HIDE DEF expected
  <2>11. QED BY <2>6, <2>10
<1>7. extra = {}
  BY <1>6
<1> HIDE DEF diffs, extra
<1>8. status = "matched"
  BY <1>5, <1>7
<1>9. QED BY <1>2, <1>8

\* The shapes of a stored plan are those its statements make.
LEMMA StoredPlan ==
  ASSUME J.stored
  PROVE  /\ \A o \in DOMAIN J.shape : Plan.shape[o] = J.shape[o]
         /\ Plan.makes = CreatedObjects(MadeBy(ThePlan))
  BY DEF Plan, MadeBy, ThePlan

\* What a routine of the source is found as.
LEMMA RoutineFound ==
  ASSUME job \in DOMAIN Jobs, J.stored, PlanTells(J), NEW o \in J.src, o.kind \in Routines
  PROVE  LET kind == ExpectedKind(o, Plan)
         IN  /\ J.shape[o].tag # "extension"
             /\ \/ J.shape[o].kind = kind
                \/ o.kind = "procedure" /\ kind = "function" /\ J.shape[o].kind = "procedure" /\ J.shape[o].tag = "cursor"
<1>1. Plan.shape[o] = J.shape[o]
  BY SrcObjects, StoredPlan
<1>2. ExpectedKind(o, Plan) = ExpectedKind(o, J)
  BY <1>1 DEF ExpectedKind, ReturnsSet
<1>3. QED BY <1>2 DEF PlanTells

LEMMA CleanRoutine ==
  ASSUME job \in DOMAIN Jobs, J.stored, PlanGoes(J), PlanTells(J), NEW o \in J.src, o.kind \in Programmable,
         NEW i, i = RoutineItem(o, Inventory(MadeBy(ThePlan)), Plan, J.policy)
  PROVE  /\ i.status = "matched" /\ i.id = <<o.kind, o.at>>
         /\ o.kind \in Routines => i.found = J.shape[o].kind
<1> DEFINE c == MadeBy(ThePlan)
           cat0 == Inventory(c)
           at == MapPlace(o.at, J.policy)
           kind == ExpectedKind(o, Plan)
           cursor == \E p \in Kind(cat0, "procedure") : p.at = at /\ p.tag = "cursor"
<1>1. o \in ThePlan
  BY DEF ThePlan, PlanItems, Programmable, Routines
<1>2. Made(o) \subseteq c
  BY <1>1 DEF MadeBy
<1>3. CASE o.kind \notin Routines
  <2>1. kind = o.kind
    BY <1>3 DEF ExpectedKind, Routines
  <2>2. Target(o, J.policy).kind = o.kind /\ Target(o, J.policy).at = at
    BY SrcObjects, TargetFields
  <2>3. Target(o, J.policy) \in Made(o)
    BY <1>3 DEF Made, Created, Shared, Routines, Programmable
  <2>4. at \in Places(cat0, kind)
    BY <1>2, <1>3, <2>1, <2>2, <2>3 DEF Places, Kind, Inventory
  <2>5. i = Item(o.kind, o.at, "matched", kind, {Diff(o, "matched")}, {})
    BY <2>4 DEF RoutineItem
  <2>6. QED BY <1>3, <2>5 DEF Item
<1>4. CASE o.kind \in Routines
  <2>1. PICK p \in Made(o) : /\ p.kind = J.shape[o].kind /\ p.tag = J.shape[o].tag /\ p.at = at
                             /\ \A q \in Made(o) : q.kind \in Routines => q = p
    BY <1>4, MadeRoutine
  <2>2. /\ J.shape[o].tag # "extension"
        /\ \/ p.kind = kind
           \/ o.kind = "procedure" /\ kind = "function" /\ p.kind = "procedure" /\ p.tag = "cursor"
    BY <1>4, <2>1, RoutineFound
  <2>3. p \in cat0
    BY <1>2, <2>1, <2>2 DEF Inventory
  <2> HIDE DEF kind
  <2>4. CASE p.kind = kind
    <3>1. at \in Places(cat0, kind)
      BY <2>1, <2>3, <2>4 DEF Places, Kind
    <3>2. i = Item(o.kind, o.at, "matched", kind, {Diff(o, "matched")}, {})
      BY <3>1 DEF RoutineItem, kind
    <3>3. QED BY <2>1, <2>4, <3>2 DEF Item
  <2>5. CASE o.kind = "procedure" /\ kind = "function" /\ p.kind = "procedure" /\ p.tag = "cursor"
    <3>1. at \notin Places(cat0, "function")
      <4>1. SUFFICES ASSUME NEW q \in cat0, q.kind = "function", q.at = at PROVE FALSE
        BY DEF Places, Kind
      <4>2. PICK j \in ThePlan : q \in Made(j)
        BY <4>1 DEF Inventory, MadeBy
      <4>3. CASE j = o
        BY <2>1, <2>5, <4>1, <4>2, <4>3 DEF Routines
      <4>4. CASE j # o
        <5>1. q \in Others(o)
          BY <4>2, <4>4 DEF Others, MadeBy
        <5>2. q.at # p.at
          BY <1>1, <1>4, <2>1, <4>1, <5>1, PlanGoesIs DEF Routines
        <5>3. QED BY <2>1, <4>1, <5>2
      <4>5. QED BY <4>3, <4>4
    <3>2. at \in Places(cat0, "procedure")
      BY <2>1, <2>3, <2>5 DEF Places, Kind
    <3>3. cursor
      BY <2>1, <2>3, <2>5 DEF Kind
    <3>4. i = Item(o.kind, o.at, "matched", "procedure", {Diff(o, "matched")}, {})
      BY <2>5, <3>1, <3>2, <3>3 DEF RoutineItem, kind
    <3>5. QED BY <2>1, <2>5, <3>4 DEF Item
  <2>6. QED BY <2>2, <2>4, <2>5
<1>5. QED BY <1>3, <1>4

\* What only the target has are helpers, and they stay.
LEMMA CleanExtra ==
  ASSUME job \in DOMAIN Jobs, J.stored, PlanGoes(J), PlanTells(J),
         NEW routines, routines = {RoutineItem(o, Inventory(MadeBy(ThePlan)), Plan, J.policy) : o \in {o \in J.src : o.kind \in Programmable}},
         NEW i \in Extras(J.src, Inventory(MadeBy(ThePlan)), routines, "full", Plan, J.policy)
  PROVE  i.status = "extra" /\ i.fix = {}
<1> DEFINE cat0 == Inventory(MadeBy(ThePlan))
           objs == {o \in J.src : o.kind \in Programmable}
           kinds == Programmable \cup {"table"}
           claimed == [k \in Programmable \cup {"table"} |->
                         IF k = "table" THEN {MapPlace(t.at, J.policy) : t \in Tables(J.src)}
                         ELSE Claimed(k, objs, routines, J.policy)]
           owned == UNION {claimed[k] : k \in Programmable}
<1>1. PICK k \in kinds : i \in {Extra(k, at, claimed, owned, Plan) : at \in Places(cat0, k) \ claimed[k]}
  BY DEF Extras
<1> HIDE DEF claimed, owned
<1>2. PICK at \in Places(cat0, k) \ claimed[k] : i = Extra(k, at, claimed, owned, Plan)
  BY <1>1
<1> USE DEF claimed
<1>3. PICK p \in cat0 : p.kind = k /\ p.at = at
  BY DEF Places, Kind
<1>4. p \in MadeBy(ThePlan) /\ (p.kind \in Routines => p.tag # "extension")
  BY DEF Inventory
<1>5. Helper(at, owned, Plan)
  <2>1. p.tag # "extension"
    <3>1. PICK j \in ThePlan : p \in Made(j)
      BY <1>4 DEF MadeBy
    <3>2. p.tag = "extension" => p.kind \in Routines
      BY <3>1 DEF PlanTells, ThePlan, Made
    <3>3. QED BY <1>4, <3>2
  <2>2. QED BY <1>3, <1>4, <2>1, StoredPlan DEF Helper, CreatedObjects
<1>6. k \notin Routines
  <2>1. SUFFICES ASSUME k \in Routines PROVE at \in claimed[k]
    BY <1>2
  <2>2. PICK j \in ThePlan : p \in Made(j)
    BY <1>4 DEF MadeBy
  <2>3. claimed[k] = Claimed(k, objs, routines, J.policy)
    BY <2>1 DEF Routines, Programmable
  <2>4. CASE j \in J.src /\ j.kind = "trigger" /\ p.kind = "function"
             /\ p.at = <<MapSchema(j.at[1], J.policy), TriggerFunction(j.at[2], J.policy)>>
    <3>1. j \in Kind(objs, "trigger")
      BY <2>4 DEF Kind, Programmable
    <3> HIDE DEF objs, claimed
    <3>2. QED BY <1>3, <2>3, <2>4, <3>1 DEF Claimed
  <2>5. CASE j \in J.src /\ j.kind \in Routines /\ p.kind = J.shape[j].kind /\ p.at = MapPlace(j.at, J.policy)
    <3>1. j \in objs
      BY <2>5 DEF Programmable
    <3>2. PICK r \in routines : r = RoutineItem(j, cat0, Plan, J.policy)
      BY <3>1
    <3>3. r.id = <<j.kind, j.at>> /\ r.found = k
      BY <1>3, <2>5, <3>2, CleanRoutine DEF Programmable
    <3> HIDE DEF objs, claimed
    <3>4. QED BY <1>3, <2>3, <2>5, <3>1, <3>3 DEF Claimed
  <2>6. QED BY <1>3, <1>4, <2>1, <2>2, <2>4, <2>5, MadeOf DEF ThePlan, Items
<1> HIDE DEF claimed, owned
<1>7. PICK at2 : i = Item("extra", at2, "extra", k, {}, {})
  BY <1>2, <1>5, <1>6 DEF Extra
<1>8. QED BY <1>7 DEF Item

\* After a migration that went through, and with the rows the source has, nothing but helpers
\* is left.
LEMMA CleanCompare ==
  ASSUME job \in DOMAIN Jobs, J.stored, PlanGoes(J), PlanTells(J),
         NEW counts, \A t \in SrcTables : RowsVerdict(counts[t]) = "matched",
         NEW i \in Compare(J.src, MadeBy(ThePlan), counts, "full", Plan, J.policy)
  PROVE  i.status = "matched" \/ (i.status = "extra" /\ i.fix = {})
<1> DEFINE c == MadeBy(ThePlan)
           cat0 == Inventory(c)
           objs == {o \in J.src : o.kind \in Programmable}
           routines == {RoutineItem(o, cat0, Plan, J.policy) : o \in objs}
           there == {t \in Tables(J.src) : MapPlace(t.at, J.policy) \in Places(cat0, "table")}
           schemaItems == {SchemaItem(s, cat0) : s \in {MapSchema(o.at[1], J.policy) : o \in J.src}}
           tableItems == {TableItem(t, J.src, cat0, counts[t], J.policy) : t \in Tables(J.src)}
           rollups == UNION {PostDataItems(t, J.src, cat0, J.policy) : t \in there}
           triggers == TriggerFunctionItems(objs, cat0, J.policy)
           extras == Extras(J.src, cat0, routines, "full", Plan, J.policy)
<1>1. i \in schemaItems \cup tableItems \cup rollups \cup routines \cup triggers \cup extras
  BY DEF Compare
<1>2. CASE i \in schemaItems
  <2>1. PICK s : i = SchemaItem(s, cat0) /\ s \in {MapSchema(o.at[1], J.policy) : o \in J.src}
    BY <1>2
  <2>2. Schema(s) \in ThePlan
    BY <2>1 DEF ThePlan, PlanItems
  <2>3. Schema(s).kind = "schema"
    BY ObjFields DEF Schema
  <2>4. Schema(s) \in Made(Schema(s))
    BY <2>3 DEF Made, Created, Shared, Routines
  <2>5. Schema(s) \in cat0
    BY <2>2, <2>3, <2>4 DEF MadeBy, Inventory, Routines
  <2>6. i = Item("schema", <<s, <<>>>>, "matched", "schema", {}, {})
    BY <2>1, <2>5 DEF SchemaItem
  <2>7. QED BY <2>6 DEF Item
<1>3. CASE i \in tableItems
  <2>1. PICK t \in SrcTables : i = TableItem(t, J.src, cat0, counts[t], J.policy)
    BY <1>3 DEF SrcTables
  <2>2. QED BY <2>1, CleanTable
<1>4. CASE i \in rollups
  <2>1. PICK t \in there : i \in PostDataItems(t, J.src, cat0, J.policy)
    BY <1>4
  <2>2. t \in SrcTables
    BY DEF SrcTables
  <2>3. QED BY <2>1, <2>2, CleanRollup DEF PostDataItems
<1>5. CASE i \in routines
  <2>1. PICK o \in objs : i = RoutineItem(o, cat0, Plan, J.policy)
    BY <1>5
  <2>2. QED BY <2>1, CleanRoutine
<1>6. CASE i \in triggers
  <2>1. PICK at : i = Item("trigger-fn", at, "matched", "function", {}, {})
    BY <1>6 DEF TriggerFunctionItems
  <2>2. QED BY <2>1 DEF Item
<1>7. CASE i \in extras
  BY <1>7, CleanExtra
<1>8. QED BY <1>1, <1>2, <1>3, <1>4, <1>5, <1>6, <1>7
-----------------------------------------------------------------------------
(* The rows of a table that was loaded, counted or estimated. *)

\* An estimate from before the last changes is within the tolerance.
LEMMA WithinTolerance ==
  ASSUME NEW n \in Nat \ {0}, NEW k \in Nat, NEW r, r = k * n
  PROVE  /\ (r * (n - 1)) \div n = k * (n - 1)
         /\ k * (n - 1) \in Nat /\ k * (n - 1) <= r
         /\ r - k * (n - 1) = k
<1> DEFINE m == k * (n - 1)
           q == (r * (n - 1)) \div n
<1>1. r \in Nat /\ m \in Nat /\ r - m = k
  BY SMTT(30)
<1>2. r * (n - 1) = n * m
  BY SMTT(30)
<1>3. n * m \in Nat /\ q = (n * m) \div n
  BY <1>1, <1>2, SMTT(30)
<1> HIDE DEF m, q
<1>4. q \in Int /\ n * q <= n * m /\ n * m < n * q + n
  BY <1>1, <1>3, SMTT(30)
<1>5. q <= m
  <2>1. q >= m + 1 => n * q >= n * m + n
    BY <1>1, <1>4, SMTT(30)
  <2>2. QED BY <1>1, <1>4, <2>1, SMTT(30)
<1>6. q >= m
  <2>1. q <= m - 1 => n * q + n <= n * m
    BY <1>1, <1>4, SMTT(30)
  <2>2. QED BY <1>1, <1>4, <2>1, SMTT(30)
<1>7. q = m
  BY <1>1, <1>4, <1>5, <1>6
<1>8. QED BY <1>1, <1>7 DEF m, q

\* The rows of a table that was loaded are counted as the source's, or estimated near them.
LEMMA CleanCount ==
  ASSUME job \in DOMAIN Jobs, RowsTell(J), NEW t \in SrcTables, rows[PlaceOf(t)] = J.rows[t],
         NEW estimates, NEW analyzed \in Analyzed, NEW noTarget, t \in noTarget => J.mishaps > 0,
         NEW c, c = Count(t, estimates, analyzed, {}, noTarget), c.target # Unknown
  PROVE  RowsVerdict(c) = "matched"
<1> DEFINE n == J.rows[t]
           estimate == Estimate(t, analyzed)
           guess == estimates /\ J.huge[t]
           guessed == guess \/ (estimates /\ t \in noTarget /\ estimate # Unknown)
<1>1. n \in Nat /\ (J.huge[t] => J.scan[t] = n)
      /\ (J.huge[t] \/ J.mishaps > 0 => \E k \in Nat : n = k * Tolerance)
  BY SrcTypes DEF RowsTell, SrcTables
<1>2. /\ c.source = IF guess THEN J.scan[t] ELSE n
      /\ c.target = IF guessed THEN estimate ELSE IF t \in noTarget THEN Unknown ELSE n
      /\ c.approx = guessed
  BY DEF Count
<1>3. c.source = n
  BY <1>1, <1>2
<1>4. estimate = n \/ estimate = Unknown \/ estimate = (n * (Tolerance - 1)) \div Tolerance
  BY DEF Estimate
<1>5. CASE guessed
  <2>1. PICK k \in Nat : n = k * Tolerance
    BY <1>1, <1>5
  <2>2. c.target = n \/ c.target = k * (Tolerance - 1)
    BY <1>2, <1>4, <1>5, <2>1, WithinTolerance, ToleranceAssumption
  <2> HIDE DEF n, guessed, guess
  <2>3. c.approx /\ c.source = n
    BY <1>2, <1>3, <1>5
  <2>4. CASE c.target = n
    <3>1. ~RowsDiffer(c)
      <4>1. n - n = 0 /\ ~(n > n) /\ 0 * Tolerance = 0 /\ ~(0 > n)
        BY <1>1, ToleranceAssumption
      <4>2. QED BY <2>3, <2>4, <4>1 DEF RowsDiffer
    <3>2. QED BY <3>1 DEF RowsVerdict
  <2>5. CASE c.target = k * (Tolerance - 1)
    <3> DEFINE m == k * (Tolerance - 1)
    <3>1. m \in Nat /\ m <= n /\ n - m = k
      BY <2>1, WithinTolerance, ToleranceAssumption
    <3>2. (n > m => n - m = k) /\ (~(n > m) => m - n = k)
      BY <1>1, <3>1
    <3>3. ~(k * Tolerance > n)
      BY <1>1, <2>1
    <3> HIDE DEF m
    <3>4. c.target = m
      BY <2>5 DEF m
    <3>5. ~RowsDiffer(c)
      BY <2>3, <3>2, <3>3, <3>4 DEF RowsDiffer
    <3>6. QED BY <3>5 DEF RowsVerdict
  <2>6. QED BY <2>2, <2>4, <2>5
<1>6. CASE ~guessed
  <2>1. c.target = n /\ ~c.approx
    BY <1>2, <1>6
  <2>2. ~RowsDiffer(c)
    BY <1>1, <1>3, <2>1 DEF RowsDiffer
  <2>3. QED BY <2>2 DEF RowsVerdict
<1>7. QED BY <1>5, <1>6
-----------------------------------------------------------------------------
(* Plans, catalogs and reports are finite. *)

\* A union of finitely many finite sets.
LEMMA CoverFinite ==
  ASSUME NEW S, IsFiniteSet(S), NEW f, DOMAIN f = S, \A s \in S : IsFiniteSet(f[s]),
         NEW T, \A x \in T : \E s \in S : x \in f[s]
  PROVE  IsFiniteSet(T)
<1> DEFINE sets == {f[s] : s \in S}
<1>1. \A x \in sets : \E s \in S : x = f[s]
  OBVIOUS
<1> HIDE DEF sets
<1>2. IsFiniteSet(sets)
  BY <1>1, ImageFinite
<1>3. \A x \in sets : IsFiniteSet(x)
  BY <1>1
<1>4. IsFiniteSet(UNION sets)
  BY <1>2, <1>3, FS_UNION
<1>5. T \in SUBSET UNION sets
  BY DEF sets
<1>6. QED BY <1>4, <1>5, FS_Subset

\* A few elements.
LEMMA FewFinite ==
  ASSUME NEW a, NEW b, NEW c, NEW d, NEW e, NEW g
  PROVE  IsFiniteSet({a, b, c, d, e, g})
<1>1. IsFiniteSet({a}) /\ IsFiniteSet({b}) /\ IsFiniteSet({c}) /\ IsFiniteSet({d}) /\ IsFiniteSet({e}) /\ IsFiniteSet({g})
  BY FS_Singleton
<1>2. IsFiniteSet({a} \cup {b}) /\ IsFiniteSet({c} \cup {d}) /\ IsFiniteSet({e} \cup {g})
  BY <1>1, FS_Union
<1>3. IsFiniteSet(({a} \cup {b}) \cup ({c} \cup {d}))
  BY <1>2, FS_Union
<1>4. IsFiniteSet((({a} \cup {b}) \cup ({c} \cup {d})) \cup ({e} \cup {g}))
  BY <1>2, <1>3, FS_Union
<1>5. ((({a} \cup {b}) \cup ({c} \cup {d})) \cup ({e} \cup {g})) = {a, b, c, d, e, g}
  OBVIOUS
<1>6. QED BY <1>4, <1>5

\* A plan is finite, as its source is.
LEMMA PlanFinite ==
  ASSUME job \in DOMAIN Jobs
  PROVE  IsFiniteSet(ThePlan)
<1> DEFINE default == MapSchema(Dbo, J.policy)
           moved(k) == [k EXCEPT !.at = <<default, k.name>>, !.name = <<>>]
           f == [o \in J.src |-> {o, Schema(MapSchema(o.at[1], J.policy)), Schema(default),
                                  moved(TargetCollation(o.name)), ExtensionItem("postgis"), ExtensionItem("ltree")}]
<1>1. IsFiniteSet(J.src)
  BY SrcObjects
<1>2. DOMAIN f = J.src /\ \A o \in J.src : IsFiniteSet(f[o])
  BY FewFinite
<1>3. ASSUME NEW x \in NeedsCreate(AllColumns(J.src), default)
      PROVE  \E o \in J.src : x = moved(TargetCollation(o.name))
  <2>1. PICK k \in UNION {ColumnCollation(col) : col \in AllColumns(J.src)} : x = moved(k)
    BY DEF NeedsCreate
  <2>2. PICK col \in AllColumns(J.src) : k \in ColumnCollation(col)
    BY <2>1
  <2>3. k = TargetCollation(col.name) /\ col \in J.src
    BY <2>2 DEF ColumnCollation, AllColumns
  <2>4. QED BY <2>1, <2>3
<1>4. ASSUME NEW x \in ThePlan PROVE \E o \in J.src : x \in f[o]
  <2> HIDE DEF moved
  <2>1. CASE \E e \in UNION {Extension(c.tag) : c \in AllColumns(J.src)} : x = ExtensionItem(e)
    <3>1. PICK c \in AllColumns(J.src) : \E e \in Extension(c.tag) : x = ExtensionItem(e)
      BY <2>1
    <3>2. c \in J.src /\ x \in {ExtensionItem("postgis"), ExtensionItem("ltree")}
      BY <3>1 DEF Extension, AllColumns
    <3>3. QED BY <3>2
  <2>2. CASE \E s \in {MapSchema(o.at[1], J.policy) : o \in J.src} : x = Schema(s)
    BY <2>2
  <2>3. CASE x = Schema(default) /\ NeedsCreate(AllColumns(J.src), default) # {}
    <3>1. PICK o \in J.src : TRUE
      BY <1>3, <2>3
    <3>2. QED BY <2>3
  <2>4. CASE x \in NeedsCreate(AllColumns(J.src), default)
    BY <1>3, <2>4
  <2>5. CASE x \in J.src
    BY <2>5
  <2>6. QED BY <2>1, <2>2, <2>3, <2>4, <2>5 DEF ThePlan, PlanItems
<1> HIDE DEF f
<1>5. QED BY <1>1, <1>2, <1>4, CoverFinite

\* What a statement makes is finite.
LEMMA MadeFinite ==
  ASSUME job \in DOMAIN Jobs, NEW i \in ThePlan
  PROVE  IsFiniteSet(Made(i))
<1> DEFINE t == Target(i, J.policy)
<1>1. i \in Items
  BY DEF ThePlan, Items
<1>2. ASSUME NEW T, IsFiniteSet(T), NEW x, Made(i) = {x} \cup T PROVE IsFiniteSet(Made(i))
  <2>1. Made(i) = T \cup {x}
    BY <1>2
  <2>2. QED BY <1>2, <2>1, FS_AddElement
<1>3. CASE \E e \in {"postgis", "ltree"} : i = ExtensionItem(e)
  <2>1. PICK e \in {"postgis", "ltree"} : i = ExtensionItem(e)
    BY <1>3
  <2>2. i.kind = "extension" /\ i.at = <<<<e>>, <<>>>>
    BY <2>1, ObjFields DEF ExtensionItem
  <2> DEFINE p == Provides[e]
             f == [o \in p |-> [o EXCEPT !.at = <<Public, o.at[2]>>]]
             T == {[o EXCEPT !.at = <<Public, o.at[2]>>] : o \in p}
  <2>3. Made(i) = {i} \cup T
    BY <2>2 DEF Made, Created, Shared, Routines
  <2>4. IsFiniteSet(p)
    BY ProvidesAssumption
  <2>5. DOMAIN f = p /\ \A x \in T : \E o \in p : x = f[o]
    OBVIOUS
  <2> HIDE DEF p, f, T
  <2>6. IsFiniteSet(T)
    BY <2>4, <2>5, ImageFinite
  <2>7. QED BY <1>2, <2>3, <2>6
<1>4. CASE (\E s : i = Schema(s)) \/ (i.kind = "collation" /\ IsObject(i))
  <2>1. i.kind \in {"schema", "collation"}
    <3>1. CASE \E s : i = Schema(s)
      BY <3>1, ObjFields DEF Schema
    <3>2. QED BY <1>4, <3>1
  <2>2. Made(i) = {i}
    BY <2>1 DEF Made, Created, Shared, Routines
  <2>3. QED BY <2>2, FS_Singleton
<1>5. CASE i \in J.src /\ i.kind \in {"table", "column"} \cup PostDataKinds \cup Programmable
  <2>1. i.kind \notin Shared
    BY <1>5 DEF Shared, PostDataKinds, Programmable, Routines
  <2>2. CASE i.kind = "table"
    <3> DEFINE p == Columns(J.src, i.at)
               f == [c \in p |-> Target(c, J.policy)]
               T == {Target(c, J.policy) : c \in p}
    <3>1. Made(i) = {t} \cup T
      BY <2>1, <2>2 DEF Made, Created, Shared, Routines
    <3>2. IsFiniteSet(p)
      <4>1. p \in SUBSET J.src
        BY DEF Columns
      <4>2. QED BY <4>1, SrcObjects, FS_Subset
    <3>3. DOMAIN f = p /\ \A x \in T : \E o \in p : x = f[o]
      OBVIOUS
    <3> HIDE DEF p, f, T, t
    <3>4. IsFiniteSet(T)
      BY <3>2, <3>3, ImageFinite
    <3>5. QED BY <1>2, <3>1, <3>4
  <2>3. CASE i.kind \in Routines
    <3> DEFINE p == J.shape[i].helpers
               f == [h \in p |-> Obj("table", <<t.at[1], t.at[2] \o h>>, <<>>, <<>>, NoPlace, "helper")]
               T == {Obj("table", <<t.at[1], t.at[2] \o h>>, <<>>, <<>>, NoPlace, "helper") : h \in p}
               r == [t EXCEPT !.kind = J.shape[i].kind, !.tag = J.shape[i].tag]
    <3>1. Made(i) = {r} \cup T
      BY <2>1, <2>3 DEF Made, Created, Shared, Routines
    <3>2. IsFiniteSet(p)
      BY <1>5, <2>3, SrcObjects DEF IsShape
    <3>3. DOMAIN f = p /\ \A x \in T : \E h \in p : x = f[h]
      OBVIOUS
    <3> HIDE DEF p, f, T, t, r
    <3>4. IsFiniteSet(T)
      BY <3>2, <3>3, ImageFinite
    <3>5. QED BY <1>2, <3>1, <3>4
  <2>4. CASE i.kind \notin {"table"} \cup Routines
    <3>1. \E a, b : Made(i) = {a, b}
      <4>1. CASE i.kind = "identity"
        <5>1. \E a : Made(i) = {a}
          BY <2>1, <4>1 DEF Made, Created, Shared, Routines
        <5>2. QED BY <5>1
      <4>2. CASE i.kind = "trigger"
        BY <2>1, <4>2 DEF Made, Created, Shared, Routines
      <4>3. CASE i.kind \notin Routines \cup {"identity", "table", "trigger"}
        <5>1. Made(i) = {t}
          BY <2>1, <4>3 DEF Made, Created, Shared, Routines
        <5>2. QED BY <5>1
      <4>4. QED BY <2>4, <4>1, <4>2, <4>3
    <3>2. PICK a, b : Made(i) = {a, b}
      BY <3>1
    <3>3. Made(i) = {a} \cup {b} /\ IsFiniteSet({b})
      BY <3>2, FS_Singleton
    <3> HIDE DEF t
    <3>4. QED BY <1>2, <3>3
  <2>5. QED BY <2>2, <2>3, <2>4
<1>6. QED BY <1>1, <1>3, <1>4, <1>5, ItemIs

LEMMA MadeByFinite ==
  ASSUME job \in DOMAIN Jobs
  PROVE  IsFiniteSet(MadeBy(ThePlan))
<1> DEFINE f == [i \in ThePlan |-> Made(i)]
<1>1. DOMAIN f = ThePlan /\ \A i \in ThePlan : IsFiniteSet(f[i])
  BY MadeFinite
<1>2. \A x \in MadeBy(ThePlan) : \E i \in ThePlan : x \in f[i]
  BY DEF MadeBy
<1> HIDE DEF f
<1>3. QED BY <1>1, <1>2, PlanFinite, CoverFinite

LEMMA RollupsFinite ==
  ASSUME NEW t, NEW src, NEW cat0, NEW policy
  PROVE  IsFiniteSet(PostDataItems(t, src, cat0, policy))
<1>1. ASSUME NEW group, NEW kinds PROVE IsFiniteSet(Rollup(group, kinds, t, src, cat0, policy))
  <2>1. Rollup(group, kinds, t, src, cat0, policy) = {} \/ \E i : Rollup(group, kinds, t, src, cat0, policy) = {i}
    BY Zenon DEF Rollup
  <2>2. IsFiniteSet({}) /\ \A i : IsFiniteSet({i})
    BY FS_EmptySet, FS_Singleton
  <2>3. QED BY <2>1, <2>2, Zenon
<1> DEFINE a == Rollup("constraint", {"pk", "check", "default", "identity"}, t, src, cat0, policy)
           b == Rollup("index", {"index"}, t, src, cat0, policy)
           c == Rollup("foreign_key", {"fk"}, t, src, cat0, policy)
<1>2. IsFiniteSet(a) /\ IsFiniteSet(b) /\ IsFiniteSet(c)
  BY <1>1
<1>3. PostDataItems(t, src, cat0, policy) = (a \cup b) \cup c
  BY DEF PostDataItems
<1> HIDE DEF a, b, c
<1>4. IsFiniteSet(a \cup b)
  BY <1>2, FS_Union
<1>5. IsFiniteSet((a \cup b) \cup c)
  BY <1>2, <1>4, FS_Union
<1>6. QED BY <1>3, <1>5

\* A report has finitely many items, as the two sides have objects.
LEMMA CompareFinite ==
  ASSUME NEW src, IsFiniteSet(src), NEW catalog, IsFiniteSet(catalog), NEW counts, NEW plan, NEW policy
  PROVE  IsFiniteSet(Compare(src, catalog, counts, "full", plan, policy))
<1> DEFINE cat0 == Inventory(catalog)
           objs == {o \in src : o.kind \in Programmable}
           routines == {RoutineItem(o, cat0, plan, policy) : o \in objs}
           there == {t \in Tables(src) : MapPlace(t.at, policy) \in Places(cat0, "table")}
           schemaItems == {SchemaItem(s, cat0) : s \in {MapSchema(o.at[1], policy) : o \in src}}
           tableItems == {TableItem(t, src, cat0, counts[t], policy) : t \in Tables(src)}
           rollups == UNION {PostDataItems(t, src, cat0, policy) : t \in there}
           triggers == TriggerFunctionItems(objs, cat0, policy)
           extras == Extras(src, cat0, routines, "full", plan, policy)
<1>1. Compare(src, catalog, counts, "full", plan, policy)
        = ((((schemaItems \cup tableItems) \cup rollups) \cup routines) \cup triggers) \cup extras
  BY DEF Compare
<1>2. IsFiniteSet(cat0) /\ IsFiniteSet(objs) /\ IsFiniteSet(there) /\ IsFiniteSet(Tables(src))
  <2>1. cat0 \in SUBSET catalog /\ objs \in SUBSET src /\ there \in SUBSET src /\ Tables(src) \in SUBSET src
    BY DEF Inventory, Tables
  <2> HIDE DEF cat0, objs, there
  <2>2. QED BY <2>1, FS_Subset
<1>3. IsFiniteSet(schemaItems)
  <2> DEFINE f == [o \in src |-> SchemaItem(MapSchema(o.at[1], policy), cat0)]
  <2>1. DOMAIN f = src /\ \A x \in schemaItems : \E o \in src : x = f[o]
    OBVIOUS
  <2> HIDE DEF f, schemaItems
  <2>2. QED BY <2>1, ImageFinite
<1>4. IsFiniteSet(tableItems)
  <2> DEFINE f == [t \in Tables(src) |-> TableItem(t, src, cat0, counts[t], policy)]
  <2>1. DOMAIN f = Tables(src) /\ \A x \in tableItems : \E t \in Tables(src) : x = f[t]
    OBVIOUS
  <2> HIDE DEF f, tableItems
  <2>2. QED BY <1>2, <2>1, ImageFinite
<1>5. IsFiniteSet(rollups)
  <2> DEFINE f == [t \in there |-> PostDataItems(t, src, cat0, policy)]
  <2>1. DOMAIN f = there /\ (\A t \in there : IsFiniteSet(f[t])) /\ \A x \in rollups : \E t \in there : x \in f[t]
    BY RollupsFinite
  <2> HIDE DEF f, rollups, there
  <2>2. QED BY <1>2, <2>1, CoverFinite
<1>6. IsFiniteSet(routines)
  <2> DEFINE f == [o \in objs |-> RoutineItem(o, cat0, plan, policy)]
  <2>1. DOMAIN f = objs /\ \A x \in routines : \E o \in objs : x = f[o]
    OBVIOUS
  <2> HIDE DEF f, routines, objs
  <2>2. QED BY <1>2, <2>1, ImageFinite
<1>7. IsFiniteSet(triggers)
  <2> DEFINE f == [o \in objs |-> Item("trigger-fn", o.at, "matched", "function", {}, {})]
  <2>1. DOMAIN f = objs /\ \A x \in triggers : \E o \in objs : x = f[o]
    BY DEF TriggerFunctionItems
  <2> HIDE DEF f, triggers, objs
  <2>2. QED BY <1>2, <2>1, ImageFinite
<1>8. IsFiniteSet(extras)
  <2> DEFINE claimed == [k \in Programmable \cup {"table"} |->
                           IF k = "table" THEN {MapPlace(t.at, policy) : t \in Tables(src)}
                           ELSE Claimed(k, objs, routines, policy)]
             owned == UNION {claimed[k] : k \in Programmable}
             f == [p \in cat0 |-> Extra(p.kind, p.at, claimed, owned, plan)]
  <2>1. extras = UNION {{Extra(k, at, claimed, owned, plan) : at \in Places(cat0, k) \ claimed[k]} : k \in Programmable \cup {"table"}}
    BY DEF Extras
  <2> HIDE DEF claimed, owned, cat0, extras
  <2>2. ASSUME NEW x \in extras PROVE \E p \in cat0 : x = f[p]
    <3>1. PICK k, at : at \in Places(cat0, k) /\ x = Extra(k, at, claimed, owned, plan)
      BY <2>1
    <3>2. PICK p \in cat0 : p.kind = k /\ p.at = at
      BY <3>1 DEF Places, Kind
    <3>3. QED BY <3>1, <3>2
  <2>3. DOMAIN f = cat0
    OBVIOUS
  <2> HIDE DEF f
  <2>4. QED BY <1>2, <2>2, <2>3, ImageFinite
<1> HIDE DEF cat0, objs, routines, there, schemaItems, tableItems, rollups, triggers, extras
<1>9. IsFiniteSet(schemaItems \cup tableItems)
  BY <1>3, <1>4, FS_Union
<1>10. IsFiniteSet((schemaItems \cup tableItems) \cup rollups)
  BY <1>5, <1>9, FS_Union
<1>11. IsFiniteSet(((schemaItems \cup tableItems) \cup rollups) \cup routines)
  BY <1>6, <1>10, FS_Union
<1>12. IsFiniteSet((((schemaItems \cup tableItems) \cup rollups) \cup routines) \cup triggers)
  BY <1>7, <1>11, FS_Union
<1>13. IsFiniteSet(((((schemaItems \cup tableItems) \cup rollups) \cup routines) \cup triggers) \cup extras)
  BY <1>8, <1>12, FS_Union
<1>14. QED BY <1>1, <1>13

\* The score of a report on which nothing is missing or differs.
LEMMA CleanScore ==
  ASSUME NEW items, IsFiniteSet(items),
         \A i \in items : i.status = "matched" \/ i.status = "extra"
  PROVE  MatchScore(items) = 100 <=> {i \in items : i.status = "extra"} = {}
  BY ScoreIsFull
-----------------------------------------------------------------------------
(* A migration in which nothing failed, from its first statement to the first scan. *)

\* What CleanInv says of the migration as it goes.
LEMMA CleanInit ==
  ASSUME ValidationInit
  PROVE  CleanInv
<1>1. job \in DOMAIN Jobs /\ cat = J.left /\ todo = ThePlan /\ loaded = FALSE /\ mishaps = 0 /\ scans = 0
      /\ report = {} /\ scanned = NoScan /\ parity = NoParity
  BY DEF ValidationInit, ThePlan
<1>2. ~scanned.full /\ parity.status # "running"
  BY <1>1 DEF NoScan, NoParity
<1>3. MadeBy(ThePlan \ todo) = {}
  BY <1>1 DEF MadeBy
<1>4. PlanGoes(J) => J.left = {}
  BY DEF PlanGoes
<1>5. QED BY <1>1, <1>2, <1>3, <1>4 DEF CleanInv

\* The tables are loaded where the plan put them.
LEMMA CleanLoad ==
  ASSUME RowsInv, CleanInv, Load, PlanGoes(J), mishaps' = 0, mishaps = 0, scans = 0, NEW t \in SrcTables
  PROVE  rows'[PlaceOf(t)] = J.rows[t]
<1>1. PICK bad \in SUBSET SrcTables :
        /\ mishaps' = mishaps + Cardinality(bad)
        /\ rows' = [p \in DOMAIN rows |->
            LET here == {u \in SrcTables \ bad : PlaceOf(u) = p /\ p \in Places(cat, "table")}
            IN  IF here = {} THEN 0 ELSE J.rows[CHOOSE u \in here : TRUE]]
  BY DEF Load
<1>2. job \in DOMAIN Jobs /\ PlaceOf(t) \in DOMAIN rows
  BY DEF RowsInv
<1>3. bad = {}
  <2>1. IsFiniteSet(bad)
    <3>1. bad \in SUBSET J.src
      BY DEF SrcTables, Tables
    <3>2. QED BY <1>2, <3>1, SrcObjects, FS_Subset
  <2>2. Cardinality(bad) \in Nat
    BY <2>1, FS_CardinalityType
  <2>3. Cardinality(bad) = 0
    BY <1>1, <2>2
  <2>4. QED BY <2>1, <2>3, FS_EmptySet
<1>4. PlaceOf(t) \in Places(cat, "table")
  <2>1. t \in ThePlan \ todo /\ t.kind = "table"
    BY DEF Load, ThePlan, PlanItems, SrcTables, Tables, PreData
  <2>2. Target(t, J.policy) \in Made(t)
    BY <2>1 DEF Made, Created, Shared, Routines
  <2>3. Target(t, J.policy) \in cat
    BY <2>1, <2>2 DEF CleanInv, MadeBy
  <2>4. Target(t, J.policy).kind = "table" /\ Target(t, J.policy).at = PlaceOf(t)
    BY <1>2, <2>1, SrcObjects, TargetFields DEF PlaceOf, SrcTables, Tables
  <2>5. QED BY <2>3, <2>4 DEF Places, Kind
<1> DEFINE here == {u \in SrcTables \ bad : PlaceOf(u) = PlaceOf(t) /\ PlaceOf(t) \in Places(cat, "table")}
<1>5. here = {t}
  BY <1>2, <1>3, <1>4, PlacesDiffer
<1>6. rows'[PlaceOf(t)] = IF here = {} THEN 0 ELSE J.rows[CHOOSE u \in here : TRUE]
  BY <1>1, <1>2
<1> HIDE DEF here
<1>7. (CHOOSE u \in here : TRUE) = t
  BY <1>5
<1>8. QED BY <1>5, <1>6, <1>7
\* A refused statement, a failed load, a change by hand, a scan, a fix, a run of pairs: each leaves
\* its mark in what CleanInv looks at.
LEMMA CleanInvNext ==
  ASSUME RowsInv, CleanInv, [ValidationNext]_validationVars
  PROVE  /\ CleanInv'
         /\ mishaps' = 0 => mishaps = 0
<1>1. job \in DOMAIN Jobs /\ job' = job
  BY RowsInvNext DEF RowsInv
<1>2. J' = J /\ SrcTables' = SrcTables /\ Plan' = Plan /\ (\A t : PlaceOf(t)' = PlaceOf(t)) /\ \A i : Made(i)' = Made(i)
  BY <1>1, JobStays
<1>3. ThePlan' = ThePlan /\ (\A items : MadeBy(items)' = MadeBy(items)) /\ PlanGoes(J)' = PlanGoes(J)
  BY <1>2 DEF ThePlan, MadeBy, PlanGoes
<1>4. SUFFICES
        /\ mishaps' \in Nat /\ scans' \in Nat
        /\ mishaps' = 0 => mishaps = 0
        /\ scans' = 0 => report' = {} /\ ~scanned'.full /\ parity'.status # "running"
        /\ PlanGoes(J) /\ mishaps' = 0 /\ scans' = 0 =>
             /\ todo' \subseteq ThePlan
             /\ cat' = MadeBy(ThePlan \ todo')
             /\ loaded' => \A t \in SrcTables : rows'[PlaceOf(t)] = J.rows[t]
  BY <1>2, <1>3 DEF CleanInv
<1>5. mishaps \in Nat /\ scans \in Nat
      /\ (scans = 0 => report = {} /\ ~scanned.full /\ parity.status # "running")
  BY DEF CleanInv
<1>6. CASE Apply
  <2>1. UNCHANGED <<scans, report, scanned, parity, rows, loaded>>
        /\ todo # {} /\ todo' = todo \ {NextItem}
    BY <1>6 DEF Apply
  <2>2. \/ /\ Accepted(NextItem, Made(NextItem), cat)
           /\ cat' = After(NextItem, Made(NextItem), cat) /\ mishaps' = mishaps
        \/ /\ Accepted(NextItem, Made(NextItem), cat) /\ mishaps' = mishaps + 1
        \/ /\ ~Accepted(NextItem, Made(NextItem), cat) /\ mishaps' = mishaps
    BY <1>6 DEF Apply
  <2>3. mishaps' \in Nat /\ (mishaps' = 0 => mishaps = 0 /\ mishaps' # mishaps + 1)
    BY <1>5, <2>2
  <2>4. ASSUME PlanGoes(J), mishaps' = 0, scans' = 0
        PROVE  /\ todo' \subseteq ThePlan
               /\ cat' = MadeBy(ThePlan \ todo')
               /\ loaded' => \A t \in SrcTables : rows'[PlaceOf(t)] = J.rows[t]
    <3>1. todo \subseteq ThePlan /\ cat = MadeBy(ThePlan \ todo)
          /\ (loaded => \A t \in SrcTables : rows[PlaceOf(t)] = J.rows[t])
      BY <2>1, <2>3, <2>4 DEF CleanInv
    <3>2. /\ Accepted(NextItem, Made(NextItem), cat)
          /\ After(NextItem, Made(NextItem), cat) = MadeBy(ThePlan \ (todo \ {NextItem}))
      BY <1>1, <2>1, <2>4, <3>1, NextGoes
    <3>3. cat' = MadeBy(ThePlan \ todo')
      BY <2>1, <2>2, <2>3, <2>4, <3>2
    <3>4. QED BY <2>1, <3>1, <3>3
  <2>5. QED BY <1>5, <2>1, <2>3, <2>4
<1>7. CASE Load
  <2>1. UNCHANGED <<scans, report, scanned, parity, cat, todo>>
    BY <1>7 DEF Load
  <2>2. mishaps' \in Nat /\ (mishaps' = 0 => mishaps = 0)
    <3>1. PICK bad \in SUBSET SrcTables : mishaps' = mishaps + Cardinality(bad)
      BY <1>7 DEF Load
    <3>2. IsFiniteSet(bad)
      <4>1. bad \in SUBSET J.src
        BY DEF SrcTables, Tables
      <4>2. QED BY <1>1, <4>1, SrcObjects, FS_Subset
    <3>3. Cardinality(bad) \in Nat
      BY <3>2, FS_CardinalityType
    <3>4. QED BY <1>5, <3>1, <3>3
  <2>3. ASSUME PlanGoes(J), mishaps' = 0, scans' = 0
        PROVE  /\ todo' \subseteq ThePlan
               /\ cat' = MadeBy(ThePlan \ todo')
               /\ \A t \in SrcTables : rows'[PlaceOf(t)] = J.rows[t]
    <3>1. mishaps = 0 /\ scans = 0
      BY <2>1, <2>2, <2>3
    <3>2. todo \subseteq ThePlan /\ cat = MadeBy(ThePlan \ todo)
      BY <2>3, <3>1 DEF CleanInv
    <3>3. QED BY <1>7, <2>1, <2>3, <3>1, <3>2, CleanLoad
  <2>4. QED BY <1>5, <2>1, <2>2, <2>3
<1>8. CASE Drift
  <2>1. mishaps' = mishaps + 1 /\ UNCHANGED <<scans, report, scanned, parity>>
    BY <1>8 DEF Drift
  <2>2. mishaps' \in Nat /\ mishaps' # 0
    BY <1>5, <2>1
  <2>3. QED BY <1>5, <2>1, <2>2
<1>9. CASE Validate \/ Rescan \/ StartParity
  <2>1. scans' = scans + 1 /\ mishaps' = mishaps
    BY <1>9 DEF Validate, Rescan, StartParity
  <2>2. scans' \in Nat /\ scans' # 0
    BY <1>5, <2>1
  <2>3. QED BY <1>5, <2>1, <2>2
<1>10. CASE RunFix
  <2>1. report # {} /\ UNCHANGED <<scans, mishaps, report, scanned, parity>>
    BY <1>10 DEF RunFix
  <2>2. QED BY <1>5, <2>1
<1>11. CASE RunPair \/ EndParity
  <2>1. parity.status = "running" /\ UNCHANGED <<scans, mishaps>>
    BY <1>11 DEF RunPair, EndParity
  <2>2. QED BY <1>5, <2>1
<1>12. CASE UNCHANGED validationVars
  BY <1>5, <1>12 DEF CleanInv, validationVars
<1>13. QED
  BY <1>6, <1>7, <1>8, <1>9, <1>10, <1>11, <1>12 DEF ValidationNext

\* The first scan after a migration that went through, when everything was counted or estimated.
LEMMA CleanScan ==
  ASSUME RowsInv, CleanInv, Validate, Sound(J), mishaps = 0, scans = 0, scanned'.whole, J.stored
  PROVE  /\ \A i \in report' : i.status = "matched" \/ (i.status = "extra" /\ i.fix = {})
         /\ MatchScore(report') = 100 <=> {i \in report' : i.status = "extra"} = {}
<1>1. job \in DOMAIN Jobs /\ PlanGoes(J) /\ PlanTells(J) /\ RowsTell(J)
  BY DEF RowsInv, Sound
<1>2. todo = {} /\ loaded
  BY DEF Validate, Ready
<1>3. cat = MadeBy(ThePlan) /\ \A t \in SrcTables : rows[PlaceOf(t)] = J.rows[t]
  <2>1. ThePlan \ todo = ThePlan
    BY <1>2
  <2>2. QED BY <1>1, <1>2, <2>1 DEF CleanInv
<1>4. PICK estimates \in BOOLEAN, analyzed \in Analyzed, noSource \in SUBSET SrcTables, noTarget \in SUBSET SrcTables :
        /\ Cardinality(noSource) + Cardinality(noTarget) <= J.mishaps
        /\ LET counts == [t \in SrcTables |-> Count(t, estimates, analyzed, noSource, noTarget)]
           IN  /\ report' = Compare(J.src, cat, counts, "full", Plan, J.policy)
               /\ scanned'.whole = (noSource = {} /\ \A t \in SrcTables : counts[t].target # Unknown)
  BY DEF Validate
<1> DEFINE counts == [t \in SrcTables |-> Count(t, estimates, analyzed, noSource, noTarget)]
<1>5. report' = Compare(J.src, MadeBy(ThePlan), counts, "full", Plan, J.policy)
  BY <1>3, <1>4
<1>6. noSource = {} /\ \A t \in SrcTables : counts[t].target # Unknown
  BY <1>4
<1>7. noTarget # {} => J.mishaps > 0
  <2>1. IsFiniteSet(noTarget)
    <3>1. noTarget \in SUBSET J.src
      BY DEF SrcTables, Tables
    <3>2. QED BY <1>1, <3>1, SrcObjects, FS_Subset
  <2>2. Cardinality(noSource) = 0
    BY <1>6, FS_EmptySet
  <2>3. Cardinality(noTarget) \in Nat /\ (noTarget # {} => Cardinality(noTarget) # 0)
    BY <2>1, FS_CardinalityType, FS_EmptySet
  <2>4. J.mishaps \in Nat
    BY <1>1, JobsAssumption DEF J
  <2>5. QED BY <1>4, <2>2, <2>3, <2>4
<1>8. \A t \in SrcTables : RowsVerdict(counts[t]) = "matched"
  <2>1. SUFFICES ASSUME NEW t \in SrcTables PROVE RowsVerdict(counts[t]) = "matched"
    OBVIOUS
  <2>2. counts[t] = Count(t, estimates, analyzed, {}, noTarget) /\ counts[t].target # Unknown
    BY <1>6
  <2>3. t \in noTarget => J.mishaps > 0
    BY <1>7
  <2> HIDE DEF counts
  <2>4. QED BY <1>1, <1>3, <2>2, <2>3, CleanCount
<1> HIDE DEF counts
<1>9. \A i \in report' : i.status = "matched" \/ (i.status = "extra" /\ i.fix = {})
  BY <1>1, <1>5, <1>8, CleanCompare
<1>10. IsFiniteSet(report')
  BY <1>1, <1>5, SrcObjects, MadeByFinite, CompareFinite
<1>11. QED BY <1>9, <1>10, CleanScore

LEMMA CleanNext ==
  ASSUME RowsInv, CleanInv, CleanIsFull, [ValidationNext]_validationVars
  PROVE  CleanIsFull'
<1>1. J' = J /\ (Sound(J)' <=> Sound(J))
  <2>1. J' = J
    BY RowsInvNext, JobStays
  <2>2. QED BY <2>1 DEF Sound, PlanGoes, PlanTells, RowsTell
<1>2. SUFFICES ASSUME Sound(J), scanned'.full, mishaps' = 0, scans' = 1, scanned'.whole, J.stored
               PROVE  /\ \A i \in report' : i.status = "matched" \/ (i.status = "extra" /\ i.fix = {})
                      /\ MatchScore(report') = 100 <=> {i \in report' : i.status = "extra"} = {}
  BY <1>1 DEF CleanIsFull, Clean
<1>3. mishaps = 0 /\ scans \in Nat /\ (scans = 0 => ~scanned.full /\ parity.status # "running")
  BY <1>2, CleanInvNext DEF CleanInv
<1>4. CASE Validate
  <2>1. scans = 0
    BY <1>2, <1>3, <1>4 DEF Validate
  <2>2. QED BY <1>2, <1>3, <1>4, <2>1, CleanScan
<1>5. CASE Rescan
  <2>1. scanned.full /\ scans' = scans + 1
    BY <1>5 DEF Rescan
  <2>2. QED BY <1>2, <1>3, <2>1
<1>6. CASE StartParity
  <2>1. scanned' = scanned /\ scans' = scans + 1
    BY <1>6 DEF StartParity
  <2>2. QED BY <1>2, <1>3, <2>1
<1>7. CASE UNCHANGED <<report, scanned, scans>>
  BY <1>2, <1>3, <1>7 DEF CleanIsFull, Clean
<1>8. QED
  BY <1>4, <1>5, <1>6, <1>7
  DEF ValidationNext, Apply, Load, Drift, RunFix, RunPair, EndParity, validationVars

\* The inductive invariant of a migration in which nothing fails.
LEMMA CleanIsInvariant == ValidationSpec => [](RowsInv /\ ScanInv /\ CleanInv)
<1>1. ValidationInit => CleanInv
  BY CleanInit
<1>2. RowsInv /\ CleanInv /\ [ValidationNext]_validationVars => CleanInv'
  BY CleanInvNext
<1>3. QED BY <1>1, <1>2, ReportIsOfTheScan, PTL DEF ValidationSpec

\* Where the statements of a plan do not get in one another's way, none of them is refused and
\* none undoes another, as long as nothing fails and nobody touches the target: up to the first
\* scan the target is what those that were run have made of it (apply_plan, _ordered).
THEOREM PlanGoesThrough ==
  ValidationSpec => [](PlanGoes(J) /\ mishaps = 0 /\ scans = 0 => cat = MadeBy(ThePlan \ todo))
<1>1. CleanInv => (PlanGoes(J) /\ mishaps = 0 /\ scans = 0 => cat = MadeBy(ThePlan \ todo))
  BY DEF CleanInv
<1>2. QED BY <1>1, CleanIsInvariant, PTL

\* After such a migration the first report has nothing but matches and helpers of the plan, none
\* of which it offers to drop, and its score is 100 just when there are no helpers (compare,
\* _rollup): provided that the shape of a routine is the one its source or the stored plan
\* tells, no extension brings tables, and the row count of the scan is not stale.
THEOREM CleanReport == ValidationSpec => []CleanIsFull
<1>1. ValidationInit => CleanIsFull
  BY DEF ValidationInit, NoScan, CleanIsFull
<1>2. RowsInv /\ CleanInv /\ CleanIsFull /\ [ValidationNext]_validationVars => CleanIsFull'
  BY CleanNext
<1>3. QED BY <1>1, <1>2, CleanIsInvariant, PTL DEF ValidationSpec
=============================================================================
