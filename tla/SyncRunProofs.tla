--------------------------- MODULE SyncRunProofs ---------------------------
(***************************************************************************)
(* What is proved of SyncRun, for any tables, foreign keys, workers,       *)
(* attempts and numbers of runs and crashes: the checkpoint is true, a     *)
(* success is complete, and, where no commit goes unacknowledged, no       *)
(* foreign key is forgotten, even if a run that is alive is resumed.       *)
(***************************************************************************)
EXTENDS SyncRun, Integers, FiniteSetTheorems, TLAPS

Running == {"capture", "record", "table", "load", "settle", "restore", "clear", "finish", "abort"}
Labels == Running \cup {"none", "ended", "lost"}

\* The loader, the memory and the row of a run go together.
RunInv(r) ==
  /\ Live(r) <=> pc[r] \in Running
  /\ Live(r) => mem[r].status = "running" /\ row[r].status = "running"
  /\ ~Live(r) => mem[r] = NoState /\ loader[r] = NoLoader
  /\ pc[r] = "none" => row[r] = NoState /\ r \notin recorded /\ r \notin resumed

\* What a run calls loaded is in the target, and so is the table it has just loaded.
SoundInv(r) ==
  /\ \A t \in Tables : {mem[r].tables[t], row[r].tables[t]} \cap DONE # {} => rows[t] > 0
  /\ pc[r] = "settle" =>
       /\ loader[r].outcome # "none"
       /\ loader[r].outcome \in DONE /\ Table(r) \in Tables => rows[Table(r)] > 0

\* Every table that is not still to do is settled, or a failure is remembered; and the
\* foreign keys that could not be put back are remembered too.
SuccessInv(r) ==
  /\ pc[r] \in Running => \A t \in Tables \ loader[r].todo :
       \/ pc[r] \in {"load", "settle"} /\ t = Table(r)
       \/ mem[r].tables[t] \in SETTLED
       \/ loader[r].anyFailed
  /\ pc[r] \in {"restore", "clear", "finish"} => loader[r].todo = {}
  /\ pc[r] \in Running \ {"clear", "finish"} => mem[r].unrestored = {}
  /\ pc[r] = "clear" => loader[r].anyFailed
  /\ pc[r] = "finish" => mem[r].dropped = {} /\ (mem[r].unrestored = {} \/ loader[r].anyFailed)
  /\ row[r].status = "success" =>
       TablesLeft(row[r]) = {} /\ row[r].dropped = {} /\ row[r].unrestored = {}

\* The foreign keys a run dropped are in its memory, once they are recorded in its row
\* too, and those it could not put back are reported.
KeyInv(r) ==
  /\ loader[r].failures \cup loader[r].left \subseteq loader[r].held
  /\ loader[r].failures \cap loader[r].left = {} \/ pc[r] # "restore"
  /\ pc[r] \notin {"restore", "clear", "finish"} => loader[r].failures = {}
  /\ pc[r] = "capture" => mem[r].dropped = loader[r].held /\ r \notin recorded
  /\ pc[r] \in {"table", "load", "settle", "restore", "clear", "abort"} =>
       mem[r].dropped = loader[r].held
  /\ pc[r] \in {"clear", "finish"} => mem[r].unrestored = loader[r].failures
  /\ pc[r] \in Running =>
       /\ row[r].unrestored \subseteq mem[r].unrestored
       /\ r \in recorded => IF pc[r] = "finish"
                            THEN loader[r].failures \subseteq row[r].dropped \cup row[r].unrestored
                            ELSE loader[r].held \subseteq row[r].dropped \cap mem[r].dropped

LocalInv(r) == RunInv(r) /\ SoundInv(r) /\ SuccessInv(r) /\ KeyInv(r)

\* A run that a worker is about to resume is not one of its own.
AskInv == \A w \in Workers, p \in Runs : <<w, p>> \in asked => pc[p] # "none" /\ owner[p] # w

IInv == TypeOK /\ (\A r \in Runs : LocalInv(r)) /\ AskInv

\* Run r still has to put foreign key f back, has reported it, or can be resumed for it.
\* A run that was resumed no longer answers for the keys its row showed then.
Keeps(r, f) ==
  \/ /\ r \in resumed => f \notin row[r].dropped
     /\ \/ /\ f \in loader[r].held
           /\ pc[r] \in {"capture", "record", "table", "load", "settle", "abort"}
        \/ f \in loader[r].left /\ pc[r] = "restore"
        \/ f \in loader[r].failures
        \/ f \in mem[r].unrestored
        \/ pc[r] \in {"ended", "lost"} /\ f \in row[r].dropped
  \/ f \in row[r].unrestored

\* What FkConserved needs of each run, where a commit that succeeds is acknowledged.
FksKept == \A f \in Fks \ lost : f \in fks \/ \E r \in Runs : Keeps(r, f)

\* The runs are started in order.
OrderInv == \E n \in 0 .. MaxRuns : \A r \in Runs : pc[r] = "none" <=> r > n

\* A step of run r leaves the other runs alone and the tables that are loaded loaded.
Touches(r) ==
  /\ \A q \in Runs \ {r} :
       /\ mem'[q] = mem[q] /\ row'[q] = row[q] /\ pc'[q] = pc[q] /\ loader'[q] = loader[q]
       /\ owner'[q] = owner[q] /\ prior'[q] = prior[q]
       /\ q \in recorded' <=> q \in recorded
       /\ q \in stale' <=> q \in stale
       /\ q \in resumed' <=> q \in resumed
  /\ \A t \in Tables : rows[t] > 0 => rows'[t] > 0
  /\ pc[r] \in {"ended", "lost"} => pc'[r] = pc[r]

\* What each step of a run that is already started is shown to do.
Goes(r) ==
  /\ TypeOK' /\ LocalInv(r)' /\ Touches(r)
  /\ pc[r] # "none" /\ pc'[r] # "none" /\ owner'[r] \in {owner[r], NoWorker}
  /\ UNCHANGED <<asked, prior, lost>>
  /\ ~LostAcks => \A f \in Fks : f \in fks \/ Keeps(r, f) => f \in fks' \/ Keeps(r, f)'

\* The invariant of the other runs survives such a step.
LEMMA OthersGoOn ==
  ASSUME IInv, NEW r \in Runs, Touches(r)
  PROVE  \A q \in Runs \ {r} : LocalInv(q)'
<1> SUFFICES ASSUME NEW q \in Runs \ {r} PROVE LocalInv(q)'
  OBVIOUS
<1> USE DEF Touches
<1>1. RunInv(q)'
  BY DEF IInv, LocalInv, RunInv, Live
<1>2. SoundInv(q)'
  BY DEF IInv, LocalInv, SoundInv, Table
<1>3. SuccessInv(q)'
  BY DEF IInv, LocalInv, SuccessInv, Table, TablesLeft
<1>4. KeyInv(q)'
  BY DEF IInv, LocalInv, KeyInv
<1>5. QED BY <1>1, <1>2, <1>3, <1>4 DEF LocalInv

\* So does the whole invariant.
LEMMA OneRunGoes ==
  ASSUME IInv, OrderInv, NEW r \in Runs, Goes(r)
  PROVE  IInv' /\ OrderInv' /\ (~LostAcks /\ FksKept => FksKept')
<1>1. IInv'
  <2>1. \A p \in Runs : pc[p] # "none" => pc'[p] # "none" /\ owner'[p] \in {owner[p], NoWorker}
    BY DEF Goes, Touches
  <2>2. AskInv'
    BY <2>1, NoWorkerAssumption DEF Goes, AskInv, IInv
  <2>3. QED BY <2>2, OthersGoOn DEF Goes, IInv
<1>2. OrderInv'
  BY DEF Goes, Touches, OrderInv
<1>3. ASSUME ~LostAcks, FksKept PROVE FksKept'
  <2> SUFFICES ASSUME NEW f \in Fks \ lost, ~(f \in fks') PROVE \E q \in Runs : Keeps(q, f)'
    BY DEF Goes, FksKept
  <2>1. f \in fks \/ \E q \in Runs : Keeps(q, f)
    BY <1>3 DEF FksKept
  <2>2. CASE f \in fks \/ Keeps(r, f)
    BY <1>3, <2>2 DEF Goes
  <2>3. CASE \E q \in Runs \ {r} : Keeps(q, f)
    BY <2>3 DEF Goes, Touches, Keeps
  <2>4. QED BY <2>1, <2>2, <2>3
<1>4. QED BY <1>1, <1>2, <1>3

\* What Store and Set do to the row and the memory.
LEMMA StoreDoes ==
  ASSUME TypeOK, NEW r \in Runs, NEW s \in RunState, Store(r, s)
  PROVE  /\ row' \in [Runs -> RunState] /\ stale' \subseteq stale /\ r \notin stale'
         /\ latest' = r /\ recorded' \subseteq Runs
         /\ row'[r] = s /\ \A q \in Runs \ {r} : row'[q] = row[q]
         /\ resumed' \subseteq Runs /\ r \notin resumed'
         /\ \A q \in Runs \ {r} : /\ q \in recorded' <=> q \in recorded
                                  /\ q \in stale' <=> q \in stale
                                  /\ q \in resumed' <=> q \in resumed
         /\ r \in recorded' <=> \/ r \in recorded
                                \/ /\ pc[r] \notin {"none", "capture"}
                                   /\ loader[r].held \subseteq s.dropped
  BY DEF Store, TypeOK

LEMMA SetDoes ==
  ASSUME TypeOK, NEW r \in Runs, NEW s \in RunState, Set(r, s)
  PROVE  /\ row' \in [Runs -> RunState] /\ stale' \subseteq stale
         /\ latest' \in Runs \cup {NoRun} /\ recorded' \subseteq Runs /\ resumed' \subseteq Runs
         /\ mem' \in [Runs -> RunState] /\ mem'[r] = s
         /\ \A q \in Runs \ {r} : /\ row'[q] = row[q] /\ mem'[q] = mem[q]
                                  /\ (q \in recorded' <=> q \in recorded)
                                  /\ (q \in stale' <=> q \in stale)
                                  /\ (q \in resumed' <=> q \in resumed)
         /\ r \in resumed' => r \in resumed /\ row'[r] = row[r]
         /\ \/ /\ row'[r] = s
               /\ r \in recorded' <=> \/ r \in recorded
                                      \/ /\ pc[r] \notin {"none", "capture"}
                                         /\ loader[r].held \subseteq s.dropped
            \/ row'[r] = row[r] /\ (r \in recorded' <=> r \in recorded)
<1>1. mem' \in [Runs -> RunState] /\ mem'[r] = s /\ \A q \in Runs \ {r} : mem'[q] = mem[q]
  BY DEF Set, TypeOK
<1>2. CASE Store(r, s)
  BY <1>1, <1>2, StoreDoes
<1>3. CASE UNCHANGED store
  BY <1>1, <1>3 DEF store, TypeOK
<1>4. QED BY <1>2, <1>3 DEF Set

LEMMA NoStates == NoState \in RunState /\ NoLoader \in Loader
<1>1. Max({DB_ATTEMPTS, LOAD_ATTEMPTS}) \in Nat \ {0}
  <2>1. CASE DB_ATTEMPTS >= LOAD_ATTEMPTS
    <3>1. \E x \in {DB_ATTEMPTS, LOAD_ATTEMPTS} : \A y \in {DB_ATTEMPTS, LOAD_ATTEMPTS} : x >= y
      BY <2>1, RetryAssumption
    <3>2. QED BY <3>1, RetryAssumption DEF Max
  <2>2. CASE LOAD_ATTEMPTS >= DB_ATTEMPTS
    <3>1. \E x \in {DB_ATTEMPTS, LOAD_ATTEMPTS} : \A y \in {DB_ATTEMPTS, LOAD_ATTEMPTS} : x >= y
      BY <2>2, RetryAssumption
    <3>2. QED BY <3>1, RetryAssumption DEF Max
  <2>3. QED BY <2>1, <2>2, RetryAssumption
<1>2. QED BY <1>1 DEF NoState, RunState, NoLoader, Loader, TableStatus, SETTLED, DONE, TERMINAL

LEMMA MostAttempts ==
  /\ Max({DB_ATTEMPTS, LOAD_ATTEMPTS}) \in Nat \ {0}
  /\ DB_ATTEMPTS <= Max({DB_ATTEMPTS, LOAD_ATTEMPTS}) /\ LOAD_ATTEMPTS <= Max({DB_ATTEMPTS, LOAD_ATTEMPTS})
<1>1. \E x \in {DB_ATTEMPTS, LOAD_ATTEMPTS} : \A y \in {DB_ATTEMPTS, LOAD_ATTEMPTS} : x >= y
  <2>1. CASE DB_ATTEMPTS >= LOAD_ATTEMPTS
    BY <2>1, RetryAssumption
  <2>2. CASE LOAD_ATTEMPTS >= DB_ATTEMPTS
    BY <2>2, RetryAssumption
  <2>3. QED BY <2>1, <2>2, RetryAssumption
<1>2. QED BY <1>1, RetryAssumption DEF Max

\* The fields of the records of a run.
\* A copy leaves rows in its table and takes none from another.
LEMMA Copying ==
  ASSUME TypeOK, NEW t
  PROVE  /\ Copied(t) \in [Tables -> 0 .. 2]
         /\ \A u \in Tables : rows[u] > 0 => Copied(t)[u] > 0
         /\ t \in Tables => Copied(t)[t] > 0
<1>1. \A n \in 0 .. 2 : Min({n + 1, 2}) \in 1 .. 2
  <2> SUFFICES ASSUME NEW n \in 0 .. 2 PROVE Min({n + 1, 2}) \in 1 .. 2
    OBVIOUS
  <2>1. CASE n = 2
    <3>1. \E x \in {n + 1, 2} : \A y \in {n + 1, 2} : x =< y
      BY <2>1
    <3>2. QED BY <2>1, <3>1 DEF Min
  <2>2. CASE n < 2
    <3>1. \E x \in {n + 1, 2} : \A y \in {n + 1, 2} : x =< y
      BY <2>2
    <3>2. QED BY <2>2, <3>1 DEF Min
  <2>3. QED BY <2>1, <2>2
<1>2. CASE t \in Tables
  <2>1. rows[t] \in 0 .. 2 /\ Min({rows[t] + 1, 2}) \in 1 .. 2
    BY <1>1, <1>2 DEF TypeOK
  <2> DEFINE n == IF TruncateFirst THEN 1 ELSE Min({rows[t] + 1, 2})
  <2>2. n \in 1 .. 2
    BY <2>1
  <2>3. Copied(t) = [rows EXCEPT ![t] = n]
    BY DEF Copied
  <2> HIDE DEF n
  <2>4. QED BY <1>2, <2>2, <2>3 DEF TypeOK
<1>3. CASE t \notin Tables
  <2>1. Copied(t) = rows
    BY <1>3 DEF TypeOK, Copied
  <2>2. QED BY <1>3, <2>1 DEF TypeOK
<1>4. QED BY <1>2, <1>3

\* The fields of the records of a run.
LEMMA Fields ==
  ASSUME TypeOK, NEW r \in Runs
  PROVE  /\ mem[r] \in RunState /\ row[r] \in RunState /\ loader[r] \in Loader
         /\ mem[r].tables \in [Tables -> TableStatus] /\ row[r].tables \in [Tables -> TableStatus]
         /\ mem[r].dropped \subseteq Fks /\ row[r].dropped \subseteq Fks
         /\ mem[r].unrestored \subseteq Fks /\ row[r].unrestored \subseteq Fks
         /\ loader[r].held \subseteq Fks /\ loader[r].left \subseteq Fks
         /\ loader[r].failures \subseteq Fks /\ loader[r].todo \subseteq Tables
         /\ loader[r].anyFailed \in BOOLEAN /\ loader[r].attempt \in Nat \ {0}
         /\ loader[r].outcome \in {"none", "success", "warning", "failed"}
<1>1. mem[r] \in RunState /\ row[r] \in RunState /\ loader[r] \in Loader
  BY DEF TypeOK
<1>2. /\ mem[r].tables \in [Tables -> TableStatus] /\ row[r].tables \in [Tables -> TableStatus]
      /\ mem[r].dropped \subseteq Fks /\ row[r].dropped \subseteq Fks
      /\ mem[r].unrestored \subseteq Fks /\ row[r].unrestored \subseteq Fks
  BY <1>1 DEF RunState
<1>3. /\ loader[r].held \subseteq Fks /\ loader[r].left \subseteq Fks
      /\ loader[r].failures \subseteq Fks /\ loader[r].todo \subseteq Tables
      /\ loader[r].anyFailed \in BOOLEAN
      /\ loader[r].outcome \in {"none", "success", "warning", "failed"}
  BY <1>1 DEF Loader
<1>4. loader[r].attempt \in Nat \ {0}
  <2>1. loader[r].attempt \in 1 .. Max({DB_ATTEMPTS, LOAD_ATTEMPTS})
    BY <1>1 DEF Loader
  <2>2. QED BY <2>1, MostAttempts
<1>5. QED BY <1>1, <1>2, <1>3, <1>4

-----------------------------------------------------------------------------
(* The steps of a loader, each of which concerns its own run. *)

LEMMA CaptureGoes ==
  ASSUME IInv, NEW r \in Runs, Capture(r)
  PROVE  Goes(r)
<1> USE DEF IInv, LocalInv, TypeOK
<1> DEFINE new == [loader[r] EXCEPT !.held = loader[r].held \cup fks, !.attempt = 1]
<1>1. /\ new \in Loader /\ new.held = loader[r].held \cup fks /\ new.todo = loader[r].todo
      /\ new.attempt = 1 /\ new.outcome = loader[r].outcome /\ new.left = loader[r].left
      /\ new.failures = loader[r].failures /\ new.anyFailed = loader[r].anyFailed
  <2>1. loader[r] \in Loader /\ fks \subseteq Fks /\ 1 \in 1 .. Max({DB_ATTEMPTS, LOAD_ATTEMPTS})
    BY Fields, MostAttempts
  <2>2. QED BY <2>1 DEF Loader
<1>2. /\ loader' = [loader EXCEPT ![r] = new] /\ pc' = [pc EXCEPT ![r] = "record"]
      /\ pc[r] = "capture"
      /\ UNCHANGED <<owner, asked, prior, crashes, lost, rows, mem, row, stale, latest, recorded>>
      /\ fks' = {} /\ resumed' = resumed \ {r}
  BY DEF Capture, store, target, history, GoTo
<1> HIDE DEF new
<1>3. loader'[r] = new /\ pc'[r] = "record"
  BY <1>2
<1>4. TypeOK'
  BY <1>1, <1>2, <1>3
<1>5. Touches(r)
  BY <1>1, <1>2, <1>3 DEF Touches
<1>6. RunInv(r)'
  BY <1>1, <1>2, <1>3 DEF RunInv, Live, Running
<1>7. SoundInv(r)'
  BY <1>1, <1>2, <1>3 DEF SoundInv, Table, DONE
<1>8. SuccessInv(r)'
  BY <1>1, <1>2, <1>3 DEF SuccessInv, RunInv, Live, Running, Table, SETTLED, DONE
<1>9. KeyInv(r)'
  BY <1>1, <1>2, <1>3 DEF KeyInv, SuccessInv, Running
<1>10. ~LostAcks => \A g \in Fks : g \in fks \/ Keeps(r, g) => g \in fks' \/ Keeps(r, g)'
  BY <1>1, <1>2, <1>3 DEF Keeps, KeyInv, SuccessInv, Running
<1>11. QED
  BY <1>1, <1>2, <1>3, <1>4, <1>5, <1>6, <1>7, <1>8, <1>9, <1>10 DEF Goes

LEMMA CaptureRetryGoes ==
  ASSUME IInv, NEW r \in Runs, NEW committed \in BOOLEAN, CaptureRetry(r, committed)
  PROVE  Goes(r)
<1> USE DEF IInv, LocalInv, TypeOK
<1> DEFINE new == [loader[r] EXCEPT !.attempt = loader[r].attempt + 1]
<1>1. /\ new \in Loader /\ new.held = loader[r].held /\ new.todo = loader[r].todo
      /\ new.attempt = loader[r].attempt + 1 /\ new.outcome = loader[r].outcome
      /\ new.left = loader[r].left /\ new.failures = loader[r].failures
      /\ new.anyFailed = loader[r].anyFailed
  <2>1. /\ loader[r] \in Loader /\ fks \subseteq Fks /\ 1 \in 1 .. Max({DB_ATTEMPTS, LOAD_ATTEMPTS})
        /\ loader[r].attempt + 1 \in 1 .. Max({DB_ATTEMPTS, LOAD_ATTEMPTS})
    BY Fields, MostAttempts, RetryAssumption DEF CaptureRetry
  <2>2. QED BY <2>1 DEF Loader
<1>2. /\ loader' = [loader EXCEPT ![r] = new] /\ pc[r] = "capture"
      /\ UNCHANGED <<owner, asked, prior, crashes, lost, rows, mem, row, stale, latest, recorded, resumed, pc>>
      /\ fks' \in {{}, fks} /\ (~LostAcks => fks' = fks)
  BY DEF CaptureRetry, store, target, history, GoTo, CaptureRaises
<1> HIDE DEF new
<1>3. loader'[r] = new
  BY <1>2
<1>4. TypeOK'
  BY <1>1, <1>2, <1>3
<1>5. Touches(r)
  BY <1>1, <1>2, <1>3 DEF Touches
<1>6. RunInv(r)'
  BY <1>1, <1>2, <1>3 DEF RunInv, Live, Running
<1>7. SoundInv(r)'
  BY <1>1, <1>2, <1>3 DEF SoundInv, Table, DONE
<1>8. SuccessInv(r)'
  BY <1>1, <1>2, <1>3 DEF SuccessInv, RunInv, Live, Running, Table, SETTLED, DONE
<1>9. KeyInv(r)'
  BY <1>1, <1>2, <1>3 DEF KeyInv, SuccessInv, Running
<1>10. ~LostAcks => \A g \in Fks : g \in fks \/ Keeps(r, g) => g \in fks' \/ Keeps(r, g)'
  BY <1>1, <1>2, <1>3 DEF Keeps, KeyInv, SuccessInv, Running
<1>11. QED
  BY <1>1, <1>2, <1>3, <1>4, <1>5, <1>6, <1>7, <1>8, <1>9, <1>10 DEF Goes

LEMMA CaptureFailsGoes ==
  ASSUME IInv, NEW r \in Runs, NEW committed \in BOOLEAN, CaptureFails(r, committed)
  PROVE  Goes(r)
<1> USE DEF IInv, LocalInv, TypeOK
<1>1. /\ pc' = [pc EXCEPT ![r] = "abort"] /\ pc[r] = "capture"
      /\ UNCHANGED <<owner, asked, prior, crashes, lost, rows, mem, row, stale, latest, recorded, resumed, loader>>
      /\ fks' \in {{}, fks} /\ (~LostAcks => fks' = fks)
  BY DEF CaptureFails, store, target, history, GoTo, CaptureRaises
<1>2. pc'[r] = "abort"
  BY <1>1
<1>3. TypeOK'
  BY <1>1, <1>2
<1>4. Touches(r)
  BY <1>1, <1>2 DEF Touches
<1>5. RunInv(r)'
  BY <1>1, <1>2 DEF RunInv, Live, Running
<1>6. SoundInv(r)'
  BY <1>1, <1>2 DEF SoundInv, Table, DONE
<1>7. SuccessInv(r)'
  BY <1>1, <1>2 DEF SuccessInv, RunInv, Live, Running, Table, SETTLED, DONE
<1>8. KeyInv(r)'
  BY <1>1, <1>2 DEF KeyInv, SuccessInv, Running
<1>9. ~LostAcks => \A f \in Fks : f \in fks \/ Keeps(r, f) => f \in fks' \/ Keeps(r, f)'
  BY <1>1, <1>2 DEF Keeps, KeyInv, SuccessInv, Running
<1>10. QED
  BY <1>1, <1>2, <1>3, <1>4, <1>5, <1>6, <1>7, <1>8, <1>9 DEF Goes

LEMMA RecordFksGoes ==
  ASSUME IInv, NEW r \in Runs, RecordFks(r)
  PROVE  Goes(r)
<1> USE DEF IInv, LocalInv, TypeOK
<1> DEFINE s == [mem[r] EXCEPT !.dropped = loader[r].held]
<1>1. /\ s \in RunState /\ s.status = mem[r].status /\ s.tables = mem[r].tables
      /\ s.dropped = loader[r].held /\ s.unrestored = mem[r].unrestored
  BY Fields DEF RunState
<1>2. Set(r, s)
  BY DEF RecordFks
<1> HIDE DEF s
<1>3. /\ pc' = [pc EXCEPT ![r] = "table"] /\ pc[r] = "record"
      /\ UNCHANGED <<owner, asked, prior, crashes, lost, rows, fks, loader>>
  BY DEF RecordFks, store, target, history, GoTo
<1>4. pc'[r] = "table"
  BY <1>3
<1>5. /\ row' \in [Runs -> RunState] /\ mem' \in [Runs -> RunState] /\ stale' \subseteq Runs
      /\ latest' \in Runs \cup {NoRun} /\ recorded' \subseteq Runs /\ resumed' \subseteq Runs
  BY <1>1, <1>2, SetDoes
<1>6. \A q \in Runs \ {r} : /\ row'[q] = row[q] /\ mem'[q] = mem[q]
                            /\ (q \in recorded' <=> q \in recorded)
                            /\ (q \in stale' <=> q \in stale)
                            /\ (q \in resumed' <=> q \in resumed)
  BY <1>1, <1>2, SetDoes
<1>7. mem'[r] = s /\ row'[r] \in {s, row[r]} /\ (r \in resumed' => r \in resumed /\ row'[r] = row[r])
  BY <1>1, <1>2, SetDoes
<1>8. r \in recorded' =>
       r \in recorded \/ (row'[r] = s /\ pc[r] # "capture" /\ loader[r].held \subseteq s.dropped)
  BY <1>1, <1>2, SetDoes
<1>9. TypeOK'
  BY <1>1, <1>3, <1>4, <1>5
<1>10. Touches(r)
  BY <1>1, <1>3, <1>4, <1>6 DEF Touches
<1>11. RunInv(r)'
  BY <1>1, <1>3, <1>4, <1>7 DEF RunInv, Live, Running
<1>12. SoundInv(r)'
  BY <1>1, <1>3, <1>4, <1>7 DEF SoundInv, Table, DONE
<1>13. SuccessInv(r)'
  BY <1>1, <1>3, <1>4, <1>7 DEF SuccessInv, RunInv, Live, Running, Table, SETTLED, DONE
<1>14. KeyInv(r)'
  BY <1>1, <1>3, <1>4, <1>7, <1>8 DEF KeyInv, SuccessInv, Running
<1>15. ~LostAcks => \A f \in Fks : f \in fks \/ Keeps(r, f) => f \in fks' \/ Keeps(r, f)'
  BY <1>1, <1>3, <1>4, <1>7 DEF Keeps, KeyInv, SuccessInv, Running
<1>16. QED
  BY <1>1, <1>3, <1>4, <1>9, <1>10, <1>11, <1>12, <1>13, <1>14, <1>15 DEF Goes

LEMMA StartTableGoes ==
  ASSUME IInv, NEW r \in Runs, StartTable(r)
  PROVE  Goes(r)
<1> USE DEF IInv, LocalInv, TypeOK
<1> DEFINE s == [mem[r] EXCEPT !.tables = [mem[r].tables EXCEPT ![Table(r)] = "running"]]
<1>1. /\ s \in RunState /\ s.status = mem[r].status
      /\ s.tables = [mem[r].tables EXCEPT ![Table(r)] = "running"] /\ s.dropped = mem[r].dropped
      /\ s.unrestored = mem[r].unrestored
  BY Fields DEF RunState, TableStatus
<1>2. Set(r, s)
  BY DEF StartTable
<1> HIDE DEF s
<1>3. /\ pc' = [pc EXCEPT ![r] = "load"] /\ pc[r] = "table"
      /\ UNCHANGED <<owner, asked, prior, crashes, lost, rows, fks, loader>>
  BY DEF StartTable, store, target, history, GoTo
<1>4. pc'[r] = "load"
  BY <1>3
<1>5. /\ row' \in [Runs -> RunState] /\ mem' \in [Runs -> RunState] /\ stale' \subseteq Runs
      /\ latest' \in Runs \cup {NoRun} /\ recorded' \subseteq Runs /\ resumed' \subseteq Runs
  BY <1>1, <1>2, SetDoes
<1>6. \A q \in Runs \ {r} : /\ row'[q] = row[q] /\ mem'[q] = mem[q]
                            /\ (q \in recorded' <=> q \in recorded)
                            /\ (q \in stale' <=> q \in stale)
                            /\ (q \in resumed' <=> q \in resumed)
  BY <1>1, <1>2, SetDoes
<1>7. mem'[r] = s /\ row'[r] \in {s, row[r]} /\ (r \in resumed' => r \in resumed /\ row'[r] = row[r])
  BY <1>1, <1>2, SetDoes
<1>8. r \in recorded' =>
       r \in recorded \/ (row'[r] = s /\ pc[r] # "capture" /\ loader[r].held \subseteq s.dropped)
  BY <1>1, <1>2, SetDoes
<1>9. \A t \in Tables : s.tables[t] = IF t = Table(r) THEN "running" ELSE mem[r].tables[t]
  BY <1>1, <1>3, <1>4, Fields
<1>10. TypeOK'
  BY <1>1, <1>3, <1>4, <1>9, <1>5
<1>11. Touches(r)
  BY <1>1, <1>3, <1>4, <1>9, <1>6 DEF Touches
<1>12. RunInv(r)'
  BY <1>1, <1>3, <1>4, <1>9, <1>7 DEF RunInv, Live, Running
<1>13. SoundInv(r)'
  BY <1>1, <1>3, <1>4, <1>9, <1>7 DEF SoundInv, Table, DONE
<1>14. SuccessInv(r)'
  <2>1. pc'[r] \in Running /\ \A t \in Tables \ loader'[r].todo :
           \/ pc'[r] = "load" /\ t = Table(r)'
           \/ mem'[r].tables[t] \in SETTLED
           \/ loader'[r].anyFailed
    BY <1>1, <1>3, <1>4, <1>9, <1>7 DEF SuccessInv, Running, Table, SETTLED, DONE
  <2>2. row'[r].status = "success" =>
          TablesLeft(row'[r]) = {} /\ row'[r].dropped = {} /\ row'[r].unrestored = {}
    BY <1>1, <1>3, <1>4, <1>9, <1>7 DEF SuccessInv, RunInv, Live, Running
  <2>3. mem'[r].unrestored = {}
    BY <1>1, <1>3, <1>4, <1>9, <1>7 DEF SuccessInv, Running
  <2>4. QED
    BY <1>1, <1>3, <1>4, <1>9, <1>7, <2>1, <2>2, <2>3 DEF SuccessInv, Running, TablesLeft
<1>15. KeyInv(r)'
  BY <1>1, <1>3, <1>4, <1>9, <1>7, <1>8 DEF KeyInv, SuccessInv, Running
<1>16. ~LostAcks => \A f \in Fks : f \in fks \/ Keeps(r, f) => f \in fks' \/ Keeps(r, f)'
  BY <1>1, <1>3, <1>4, <1>9, <1>7 DEF Keeps, KeyInv, SuccessInv, Running
<1>17. QED
  BY <1>1, <1>3, <1>4, <1>9, <1>10, <1>11, <1>12, <1>13, <1>14, <1>15, <1>16 DEF Goes

LEMMA LoadCommitsGoes ==
  ASSUME IInv, NEW r \in Runs, LoadCommits(r)
  PROVE  Goes(r)
<1> USE DEF IInv, LocalInv, TypeOK
<1> DEFINE new == [loader[r] EXCEPT !.outcome = "success", !.attempt = 1]
<1>1. /\ new \in Loader /\ new.held = loader[r].held /\ new.todo = loader[r].todo /\ new.attempt = 1
      /\ new.outcome = "success" /\ new.left = loader[r].left /\ new.failures = loader[r].failures
      /\ new.anyFailed = loader[r].anyFailed
  <2>1. loader[r] \in Loader /\ fks \subseteq Fks /\ 1 \in 1 .. Max({DB_ATTEMPTS, LOAD_ATTEMPTS})
    BY Fields, MostAttempts
  <2>2. QED BY <2>1 DEF Loader
<1>2. /\ loader' = [loader EXCEPT ![r] = new] /\ pc' = [pc EXCEPT ![r] = "settle"] /\ pc[r] = "load"
      /\ UNCHANGED <<owner, asked, prior, crashes, lost, fks, mem, row, stale, latest, recorded, resumed>>
      /\ rows' \in [Tables -> 0 .. 2] /\ (\A t \in Tables : rows[t] > 0 => rows'[t] > 0)
      /\ (Table(r) \in Tables => rows'[Table(r)] > 0)
  BY Copying DEF LoadCommits, store, target, history, GoTo, Tried
<1> HIDE DEF new
<1>3. loader'[r] = new /\ pc'[r] = "settle"
  BY <1>2
<1>4. TypeOK'
  BY <1>1, <1>2, <1>3
<1>5. Touches(r)
  BY <1>1, <1>2, <1>3 DEF Touches
<1>6. RunInv(r)'
  BY <1>1, <1>2, <1>3 DEF RunInv, Live, Running
<1>7. SoundInv(r)'
  BY <1>1, <1>2, <1>3 DEF SoundInv, Table, DONE
<1>8. SuccessInv(r)'
  BY <1>1, <1>2, <1>3 DEF SuccessInv, RunInv, Live, Running, Table, SETTLED, DONE
<1>9. KeyInv(r)'
  BY <1>1, <1>2, <1>3 DEF KeyInv, SuccessInv, Running
<1>10. ~LostAcks => \A g \in Fks : g \in fks \/ Keeps(r, g) => g \in fks' \/ Keeps(r, g)'
  BY <1>1, <1>2, <1>3 DEF Keeps, KeyInv, SuccessInv, Running
<1>11. QED
  BY <1>1, <1>2, <1>3, <1>4, <1>5, <1>6, <1>7, <1>8, <1>9, <1>10 DEF Goes

LEMMA LoadWarnsGoes ==
  ASSUME IInv, NEW r \in Runs, LoadWarns(r)
  PROVE  Goes(r)
<1> USE DEF IInv, LocalInv, TypeOK
<1> DEFINE new == [loader[r] EXCEPT !.outcome = "warning", !.attempt = 1]
<1>1. /\ new \in Loader /\ new.held = loader[r].held /\ new.todo = loader[r].todo /\ new.attempt = 1
      /\ new.outcome = "warning" /\ new.left = loader[r].left /\ new.failures = loader[r].failures
      /\ new.anyFailed = loader[r].anyFailed
  <2>1. loader[r] \in Loader /\ fks \subseteq Fks /\ 1 \in 1 .. Max({DB_ATTEMPTS, LOAD_ATTEMPTS})
    BY Fields, MostAttempts
  <2>2. QED BY <2>1 DEF Loader
<1>2. /\ loader' = [loader EXCEPT ![r] = new] /\ pc' = [pc EXCEPT ![r] = "settle"] /\ pc[r] = "load"
      /\ UNCHANGED <<owner, asked, prior, crashes, lost, rows, fks, mem, row, stale, latest, recorded, resumed>>
  BY DEF LoadWarns, store, target, history, GoTo, Tried
<1> HIDE DEF new
<1>3. loader'[r] = new /\ pc'[r] = "settle"
  BY <1>2
<1>4. TypeOK'
  BY <1>1, <1>2, <1>3
<1>5. Touches(r)
  BY <1>1, <1>2, <1>3 DEF Touches
<1>6. RunInv(r)'
  BY <1>1, <1>2, <1>3 DEF RunInv, Live, Running
<1>7. SoundInv(r)'
  BY <1>1, <1>2, <1>3 DEF SoundInv, Table, DONE
<1>8. SuccessInv(r)'
  BY <1>1, <1>2, <1>3 DEF SuccessInv, RunInv, Live, Running, Table, SETTLED, DONE
<1>9. KeyInv(r)'
  BY <1>1, <1>2, <1>3 DEF KeyInv, SuccessInv, Running
<1>10. ~LostAcks => \A g \in Fks : g \in fks \/ Keeps(r, g) => g \in fks' \/ Keeps(r, g)'
  BY <1>1, <1>2, <1>3 DEF Keeps, KeyInv, SuccessInv, Running
<1>11. QED
  BY <1>1, <1>2, <1>3, <1>4, <1>5, <1>6, <1>7, <1>8, <1>9, <1>10 DEF Goes

LEMMA LoadRetryGoes ==
  ASSUME IInv, NEW r \in Runs, NEW committed \in BOOLEAN, LoadRetry(r, committed)
  PROVE  Goes(r)
<1> USE DEF IInv, LocalInv, TypeOK
<1> DEFINE new == [loader[r] EXCEPT !.attempt = loader[r].attempt + 1]
<1>1. /\ new \in Loader /\ new.held = loader[r].held /\ new.todo = loader[r].todo
      /\ new.attempt = loader[r].attempt + 1 /\ new.outcome = loader[r].outcome
      /\ new.left = loader[r].left /\ new.failures = loader[r].failures
      /\ new.anyFailed = loader[r].anyFailed
  <2>1. /\ loader[r] \in Loader /\ fks \subseteq Fks /\ 1 \in 1 .. Max({DB_ATTEMPTS, LOAD_ATTEMPTS})
        /\ loader[r].attempt + 1 \in 1 .. Max({DB_ATTEMPTS, LOAD_ATTEMPTS})
    BY Fields, MostAttempts, RetryAssumption DEF LoadRetry
  <2>2. QED BY <2>1 DEF Loader
<1>2. /\ loader' = [loader EXCEPT ![r] = new] /\ pc[r] = "load"
      /\ UNCHANGED <<owner, asked, prior, crashes, lost, fks, mem, row, stale, latest, recorded, resumed, pc>>
      /\ rows' \in [Tables -> 0 .. 2] /\ (\A t \in Tables : rows[t] > 0 => rows'[t] > 0)
  BY Copying DEF LoadRetry, store, target, history, GoTo, LoadRaises
<1> HIDE DEF new
<1>3. loader'[r] = new
  BY <1>2
<1>4. TypeOK'
  BY <1>1, <1>2, <1>3
<1>5. Touches(r)
  BY <1>1, <1>2, <1>3 DEF Touches
<1>6. RunInv(r)'
  BY <1>1, <1>2, <1>3 DEF RunInv, Live, Running
<1>7. SoundInv(r)'
  BY <1>1, <1>2, <1>3 DEF SoundInv, Table, DONE
<1>8. SuccessInv(r)'
  BY <1>1, <1>2, <1>3 DEF SuccessInv, RunInv, Live, Running, Table, SETTLED, DONE
<1>9. KeyInv(r)'
  BY <1>1, <1>2, <1>3 DEF KeyInv, SuccessInv, Running
<1>10. ~LostAcks => \A g \in Fks : g \in fks \/ Keeps(r, g) => g \in fks' \/ Keeps(r, g)'
  BY <1>1, <1>2, <1>3 DEF Keeps, KeyInv, SuccessInv, Running
<1>11. QED
  BY <1>1, <1>2, <1>3, <1>4, <1>5, <1>6, <1>7, <1>8, <1>9, <1>10 DEF Goes

LEMMA LoadFailsGoes ==
  ASSUME IInv, NEW r \in Runs, NEW committed \in BOOLEAN, LoadFails(r, committed)
  PROVE  Goes(r)
<1> USE DEF IInv, LocalInv, TypeOK
<1> DEFINE new == [loader[r] EXCEPT !.outcome = "failed", !.attempt = 1]
<1>1. /\ new \in Loader /\ new.held = loader[r].held /\ new.todo = loader[r].todo /\ new.attempt = 1
      /\ new.outcome = "failed" /\ new.left = loader[r].left /\ new.failures = loader[r].failures
      /\ new.anyFailed = loader[r].anyFailed
  <2>1. loader[r] \in Loader /\ fks \subseteq Fks /\ 1 \in 1 .. Max({DB_ATTEMPTS, LOAD_ATTEMPTS})
    BY Fields, MostAttempts
  <2>2. QED BY <2>1 DEF Loader
<1>2. /\ loader' = [loader EXCEPT ![r] = new] /\ pc' = [pc EXCEPT ![r] = "settle"] /\ pc[r] = "load"
      /\ UNCHANGED <<owner, asked, prior, crashes, lost, fks, mem, row, stale, latest, recorded, resumed>>
      /\ rows' \in [Tables -> 0 .. 2] /\ (\A t \in Tables : rows[t] > 0 => rows'[t] > 0)
  BY Copying DEF LoadFails, store, target, history, GoTo, Tried, LoadRaises
<1> HIDE DEF new
<1>3. loader'[r] = new /\ pc'[r] = "settle"
  BY <1>2
<1>4. TypeOK'
  BY <1>1, <1>2, <1>3
<1>5. Touches(r)
  BY <1>1, <1>2, <1>3 DEF Touches
<1>6. RunInv(r)'
  BY <1>1, <1>2, <1>3 DEF RunInv, Live, Running
<1>7. SoundInv(r)'
  BY <1>1, <1>2, <1>3 DEF SoundInv, Table, DONE
<1>8. SuccessInv(r)'
  BY <1>1, <1>2, <1>3 DEF SuccessInv, RunInv, Live, Running, Table, SETTLED, DONE
<1>9. KeyInv(r)'
  BY <1>1, <1>2, <1>3 DEF KeyInv, SuccessInv, Running
<1>10. ~LostAcks => \A g \in Fks : g \in fks \/ Keeps(r, g) => g \in fks' \/ Keeps(r, g)'
  BY <1>1, <1>2, <1>3 DEF Keeps, KeyInv, SuccessInv, Running
<1>11. QED
  BY <1>1, <1>2, <1>3, <1>4, <1>5, <1>6, <1>7, <1>8, <1>9, <1>10 DEF Goes

LEMMA SettleGoes ==
  ASSUME IInv, NEW r \in Runs, Settle(r)
  PROVE  Goes(r)
<1> USE DEF IInv, LocalInv, TypeOK
<1>1. loader[r].outcome \in {"success", "warning", "failed"}
  BY Fields DEF Settle, SoundInv
<1> DEFINE new == [loader[r] EXCEPT !.todo = loader[r].todo \ {Table(r)},
                                    !.outcome = "none",
                                    !.anyFailed = (loader[r].anyFailed \/ loader[r].outcome = "failed")]
<1>2. /\ new \in Loader /\ new.held = loader[r].held /\ new.todo = loader[r].todo \ {Table(r)}
      /\ new.attempt = loader[r].attempt /\ new.outcome = "none" /\ new.left = loader[r].left
      /\ new.failures = loader[r].failures
      /\ new.anyFailed = (loader[r].anyFailed \/ loader[r].outcome = "failed")
  <2>1. loader[r] \in Loader /\ fks \subseteq Fks /\ 1 \in 1 .. Max({DB_ATTEMPTS, LOAD_ATTEMPTS})
    BY Fields, MostAttempts
  <2>2. QED BY <2>1 DEF Loader
<1> DEFINE s == [mem[r] EXCEPT !.tables = [mem[r].tables EXCEPT ![Table(r)] = loader[r].outcome]]
<1>3. /\ s \in RunState /\ s.status = mem[r].status
      /\ s.tables = [mem[r].tables EXCEPT ![Table(r)] = loader[r].outcome]
      /\ s.dropped = mem[r].dropped /\ s.unrestored = mem[r].unrestored
  BY Fields, <1>1 DEF RunState, TableStatus, SETTLED, DONE
<1>4. Set(r, s)
  BY DEF Settle
<1> HIDE DEF s
<1>5. /\ loader' = [loader EXCEPT ![r] = new] /\ pc' = [pc EXCEPT ![r] = "table"]
      /\ pc[r] = "settle" /\ UNCHANGED <<owner, asked, prior, crashes, lost, rows, fks>>
  BY DEF Settle, store, target, history, GoTo
<1> HIDE DEF new
<1>6. loader'[r] = new /\ pc'[r] = "table"
  BY <1>5
<1>7. /\ row' \in [Runs -> RunState] /\ mem' \in [Runs -> RunState] /\ stale' \subseteq Runs
      /\ latest' \in Runs \cup {NoRun} /\ recorded' \subseteq Runs /\ resumed' \subseteq Runs
  BY <1>3, <1>4, SetDoes
<1>8. \A q \in Runs \ {r} : /\ row'[q] = row[q] /\ mem'[q] = mem[q]
                            /\ (q \in recorded' <=> q \in recorded)
                            /\ (q \in stale' <=> q \in stale)
                            /\ (q \in resumed' <=> q \in resumed)
  BY <1>3, <1>4, SetDoes
<1>9. mem'[r] = s /\ row'[r] \in {s, row[r]} /\ (r \in resumed' => r \in resumed /\ row'[r] = row[r])
  BY <1>3, <1>4, SetDoes
<1>10. r \in recorded' =>
       r \in recorded \/ (row'[r] = s /\ pc[r] # "capture" /\ loader[r].held \subseteq s.dropped)
  BY <1>3, <1>4, SetDoes
<1>11. \A t \in Tables : s.tables[t] = IF t = Table(r) THEN loader[r].outcome ELSE mem[r].tables[t]
  BY <1>1, <1>2, <1>3, <1>5, <1>6, Fields
<1>12. TypeOK'
  BY <1>1, <1>2, <1>3, <1>5, <1>6, <1>11, <1>7
<1>13. Touches(r)
  BY <1>1, <1>2, <1>3, <1>5, <1>6, <1>11, <1>8 DEF Touches
<1>14. RunInv(r)'
  BY <1>1, <1>2, <1>3, <1>5, <1>6, <1>11, <1>9 DEF RunInv, Live, Running
<1>15. SoundInv(r)'
  BY <1>1, <1>2, <1>3, <1>5, <1>6, <1>11, <1>9 DEF SoundInv, Table, DONE
<1>16. SuccessInv(r)'
  <2>1. pc'[r] \in Running /\ \A t \in Tables \ loader'[r].todo :
           \/ pc'[r] = "load" /\ t = Table(r)'
           \/ mem'[r].tables[t] \in SETTLED
           \/ loader'[r].anyFailed
    BY <1>1, <1>2, <1>3, <1>5, <1>6, <1>11, <1>9, Fields DEF SuccessInv, Running, Table, SETTLED,
       DONE
  <2>2. row'[r].status = "success" =>
          TablesLeft(row'[r]) = {} /\ row'[r].dropped = {} /\ row'[r].unrestored = {}
    BY <1>1, <1>2, <1>3, <1>5, <1>6, <1>11, <1>9, Fields DEF SuccessInv, RunInv, Live, Running
  <2>3. mem'[r].unrestored = {}
    BY <1>1, <1>2, <1>3, <1>5, <1>6, <1>11, <1>9, Fields DEF SuccessInv, Running
  <2>4. QED
    BY <1>1, <1>2, <1>3, <1>5, <1>6, <1>11, <1>9, Fields, <2>1, <2>2, <2>3 DEF SuccessInv, Running,
       TablesLeft
<1>17. KeyInv(r)'
  BY <1>1, <1>2, <1>3, <1>5, <1>6, <1>11, <1>9, <1>10 DEF KeyInv, SuccessInv, Running
<1>18. ~LostAcks => \A f \in Fks : f \in fks \/ Keeps(r, f) => f \in fks' \/ Keeps(r, f)'
  BY <1>1, <1>2, <1>3, <1>5, <1>6, <1>11, <1>9 DEF Keeps, KeyInv, SuccessInv, Running
<1>19. QED
  BY <1>1, <1>2, <1>3, <1>5, <1>6, <1>11, <1>12, <1>13, <1>14, <1>15, <1>16, <1>17, <1>18 DEF Goes

LEMMA BeginRestoreGoes ==
  ASSUME IInv, NEW r \in Runs, BeginRestore(r)
  PROVE  Goes(r)
<1> USE DEF IInv, LocalInv, TypeOK
<1> DEFINE new == [loader[r] EXCEPT !.left = loader[r].held]
<1>1. /\ new \in Loader /\ new.held = loader[r].held /\ new.todo = loader[r].todo
      /\ new.attempt = loader[r].attempt /\ new.outcome = loader[r].outcome
      /\ new.left = loader[r].held /\ new.failures = loader[r].failures
      /\ new.anyFailed = loader[r].anyFailed
  <2>1. loader[r] \in Loader /\ fks \subseteq Fks /\ 1 \in 1 .. Max({DB_ATTEMPTS, LOAD_ATTEMPTS})
    BY Fields, MostAttempts
  <2>2. QED BY <2>1 DEF Loader
<1>2. /\ loader' = [loader EXCEPT ![r] = new] /\ pc' = [pc EXCEPT ![r] = "restore"]
      /\ pc[r] = "table" /\ loader[r].todo = {}
      /\ UNCHANGED <<owner, asked, prior, crashes, lost, rows, fks, mem, row, stale, latest, recorded, resumed>>
  BY DEF BeginRestore, store, target, history, GoTo
<1> HIDE DEF new
<1>3. loader'[r] = new /\ pc'[r] = "restore"
  BY <1>2
<1>4. TypeOK'
  BY <1>1, <1>2, <1>3
<1>5. Touches(r)
  BY <1>1, <1>2, <1>3 DEF Touches
<1>6. RunInv(r)'
  BY <1>1, <1>2, <1>3 DEF RunInv, Live, Running
<1>7. SoundInv(r)'
  BY <1>1, <1>2, <1>3 DEF SoundInv, Table, DONE
<1>8. SuccessInv(r)'
  BY <1>1, <1>2, <1>3 DEF SuccessInv, RunInv, Live, Running, Table, SETTLED, DONE
<1>9. KeyInv(r)'
  BY <1>1, <1>2, <1>3 DEF KeyInv, SuccessInv, Running
<1>10. ~LostAcks => \A g \in Fks : g \in fks \/ Keeps(r, g) => g \in fks' \/ Keeps(r, g)'
  BY <1>1, <1>2, <1>3 DEF Keeps, KeyInv, SuccessInv, Running
<1>11. QED
  BY <1>1, <1>2, <1>3, <1>4, <1>5, <1>6, <1>7, <1>8, <1>9, <1>10 DEF Goes

LEMMA RestoreRaisesGoes ==
  ASSUME IInv, NEW r \in Runs, RestoreRaises(r)
  PROVE  Goes(r)
<1> USE DEF IInv, LocalInv, TypeOK
<1>1. /\ pc' = [pc EXCEPT ![r] = "abort"] /\ pc[r] = "restore" /\ loader[r].left = loader[r].held
      /\ UNCHANGED <<owner, asked, prior, crashes, lost, rows, fks, mem, row, stale, latest, recorded, resumed, loader>>
  BY DEF RestoreRaises, store, target, history, GoTo
<1>2. pc'[r] = "abort"
  BY <1>1
<1>3. TypeOK'
  BY <1>1, <1>2
<1>4. Touches(r)
  BY <1>1, <1>2 DEF Touches
<1>5. RunInv(r)'
  BY <1>1, <1>2 DEF RunInv, Live, Running
<1>6. SoundInv(r)'
  BY <1>1, <1>2 DEF SoundInv, Table, DONE
<1>7. SuccessInv(r)'
  BY <1>1, <1>2 DEF SuccessInv, RunInv, Live, Running, Table, SETTLED, DONE
<1>8. KeyInv(r)'
  BY <1>1, <1>2 DEF KeyInv, SuccessInv, Running
<1>9. ~LostAcks => \A f \in Fks : f \in fks \/ Keeps(r, f) => f \in fks' \/ Keeps(r, f)'
  BY <1>1, <1>2 DEF Keeps, KeyInv, SuccessInv, Running
<1>10. QED
  BY <1>1, <1>2, <1>3, <1>4, <1>5, <1>6, <1>7, <1>8, <1>9 DEF Goes

LEMMA RestoreFkGoes ==
  ASSUME IInv, NEW r \in Runs, NEW f \in Fks, RestoreFk(r, f)
  PROVE  Goes(r)
<1> USE DEF IInv, LocalInv, TypeOK
<1> DEFINE new == [loader[r] EXCEPT !.left = loader[r].left \ {f}]
<1>1. /\ new \in Loader /\ new.held = loader[r].held /\ new.todo = loader[r].todo
      /\ new.attempt = loader[r].attempt /\ new.outcome = loader[r].outcome
      /\ new.left = loader[r].left \ {f} /\ new.failures = loader[r].failures
      /\ new.anyFailed = loader[r].anyFailed
  <2>1. loader[r] \in Loader /\ fks \subseteq Fks /\ 1 \in 1 .. Max({DB_ATTEMPTS, LOAD_ATTEMPTS})
    BY Fields, MostAttempts
  <2>2. QED BY <2>1 DEF Loader
<1>2. /\ loader' = [loader EXCEPT ![r] = new] /\ pc[r] = "restore"
      /\ UNCHANGED <<owner, asked, prior, crashes, lost, rows, mem, row, stale, latest, recorded, resumed, pc>>
      /\ fks' = fks \cup {f}
  BY DEF RestoreFk, store, target, history, GoTo
<1> HIDE DEF new
<1>3. loader'[r] = new
  BY <1>2
<1>4. TypeOK'
  BY <1>1, <1>2, <1>3
<1>5. Touches(r)
  BY <1>1, <1>2, <1>3 DEF Touches
<1>6. RunInv(r)'
  BY <1>1, <1>2, <1>3 DEF RunInv, Live, Running
<1>7. SoundInv(r)'
  BY <1>1, <1>2, <1>3 DEF SoundInv, Table, DONE
<1>8. SuccessInv(r)'
  BY <1>1, <1>2, <1>3 DEF SuccessInv, RunInv, Live, Running, Table, SETTLED, DONE
<1>9. KeyInv(r)'
  BY <1>1, <1>2, <1>3 DEF KeyInv, SuccessInv, Running
<1>10. ~LostAcks => \A g \in Fks : g \in fks \/ Keeps(r, g) => g \in fks' \/ Keeps(r, g)'
  BY <1>1, <1>2, <1>3 DEF Keeps, KeyInv, SuccessInv, Running
<1>11. QED
  BY <1>1, <1>2, <1>3, <1>4, <1>5, <1>6, <1>7, <1>8, <1>9, <1>10 DEF Goes

LEMMA RestoreFkFailsGoes ==
  ASSUME IInv, NEW r \in Runs, NEW f \in Fks, NEW committed \in BOOLEAN, RestoreFkFails(r, f, committed)
  PROVE  Goes(r)
<1> USE DEF IInv, LocalInv, TypeOK
<1> DEFINE new == [loader[r] EXCEPT !.left = loader[r].left \ {f},
                                    !.failures = loader[r].failures \cup {f}]
<1>1. /\ new \in Loader /\ new.held = loader[r].held /\ new.todo = loader[r].todo
      /\ new.attempt = loader[r].attempt /\ new.outcome = loader[r].outcome
      /\ new.left = loader[r].left \ {f} /\ new.failures = loader[r].failures \cup {f}
      /\ new.anyFailed = loader[r].anyFailed
  <2>1. loader[r] \in Loader /\ fks \subseteq Fks /\ 1 \in 1 .. Max({DB_ATTEMPTS, LOAD_ATTEMPTS})
    BY Fields, MostAttempts
  <2>2. QED BY <2>1 DEF Loader
<1>2. /\ loader' = [loader EXCEPT ![r] = new] /\ pc[r] = "restore" /\ f \in loader[r].left
      /\ UNCHANGED <<owner, asked, prior, crashes, lost, rows, mem, row, stale, latest, recorded, resumed, pc>>
      /\ fks' \in {fks, fks \cup {f}}
  BY DEF RestoreFkFails, store, target, history, GoTo
<1> HIDE DEF new
<1>3. loader'[r] = new
  BY <1>2
<1>4. TypeOK'
  BY <1>1, <1>2, <1>3
<1>5. Touches(r)
  BY <1>1, <1>2, <1>3 DEF Touches
<1>6. RunInv(r)'
  BY <1>1, <1>2, <1>3 DEF RunInv, Live, Running
<1>7. SoundInv(r)'
  BY <1>1, <1>2, <1>3 DEF SoundInv, Table, DONE
<1>8. SuccessInv(r)'
  BY <1>1, <1>2, <1>3 DEF SuccessInv, RunInv, Live, Running, Table, SETTLED, DONE
<1>9. KeyInv(r)'
  BY <1>1, <1>2, <1>3 DEF KeyInv, SuccessInv, Running
<1>10. ~LostAcks => \A g \in Fks : g \in fks \/ Keeps(r, g) => g \in fks' \/ Keeps(r, g)'
  BY <1>1, <1>2, <1>3 DEF Keeps, KeyInv, SuccessInv, Running
<1>11. QED
  BY <1>1, <1>2, <1>3, <1>4, <1>5, <1>6, <1>7, <1>8, <1>9, <1>10 DEF Goes

LEMMA ReportFksGoes ==
  ASSUME IInv, NEW r \in Runs, ReportFks(r)
  PROVE  Goes(r)
<1> USE DEF IInv, LocalInv, TypeOK
<1> DEFINE new == [loader[r] EXCEPT !.anyFailed = TRUE]
<1>1. /\ new \in Loader /\ new.held = loader[r].held /\ new.todo = loader[r].todo
      /\ new.attempt = loader[r].attempt /\ new.outcome = loader[r].outcome
      /\ new.left = loader[r].left /\ new.failures = loader[r].failures /\ new.anyFailed = TRUE
  <2>1. loader[r] \in Loader /\ fks \subseteq Fks /\ 1 \in 1 .. Max({DB_ATTEMPTS, LOAD_ATTEMPTS})
    BY Fields, MostAttempts
  <2>2. QED BY <2>1 DEF Loader
<1> DEFINE s == [mem[r] EXCEPT !.unrestored = loader[r].failures]
<1>2. /\ s \in RunState /\ s.status = mem[r].status /\ s.tables = mem[r].tables
      /\ s.dropped = mem[r].dropped /\ s.unrestored = loader[r].failures
  BY Fields DEF RunState
<1>3. Set(r, s)
  BY DEF ReportFks
<1> HIDE DEF s
<1>4. /\ loader' = [loader EXCEPT ![r] = new] /\ pc' = [pc EXCEPT ![r] = "clear"]
      /\ pc[r] = "restore" /\ loader[r].left = {}
      /\ UNCHANGED <<owner, asked, prior, crashes, lost, rows, fks>>
  BY DEF ReportFks, store, target, history, GoTo
<1> HIDE DEF new
<1>5. loader'[r] = new /\ pc'[r] = "clear"
  BY <1>4
<1>6. /\ row' \in [Runs -> RunState] /\ mem' \in [Runs -> RunState] /\ stale' \subseteq Runs
      /\ latest' \in Runs \cup {NoRun} /\ recorded' \subseteq Runs /\ resumed' \subseteq Runs
  BY <1>2, <1>3, SetDoes
<1>7. \A q \in Runs \ {r} : /\ row'[q] = row[q] /\ mem'[q] = mem[q]
                            /\ (q \in recorded' <=> q \in recorded)
                            /\ (q \in stale' <=> q \in stale)
                            /\ (q \in resumed' <=> q \in resumed)
  BY <1>2, <1>3, SetDoes
<1>8. mem'[r] = s /\ row'[r] \in {s, row[r]} /\ (r \in resumed' => r \in resumed /\ row'[r] = row[r])
  BY <1>2, <1>3, SetDoes
<1>9. r \in recorded' =>
       r \in recorded \/ (row'[r] = s /\ pc[r] # "capture" /\ loader[r].held \subseteq s.dropped)
  BY <1>2, <1>3, SetDoes
<1>10. TypeOK'
  BY <1>1, <1>2, <1>4, <1>5, <1>6
<1>11. Touches(r)
  BY <1>1, <1>2, <1>4, <1>5, <1>7 DEF Touches
<1>12. RunInv(r)'
  BY <1>1, <1>2, <1>4, <1>5, <1>8 DEF RunInv, Live, Running
<1>13. SoundInv(r)'
  BY <1>1, <1>2, <1>4, <1>5, <1>8 DEF SoundInv, Table, DONE
<1>14. SuccessInv(r)'
  BY <1>1, <1>2, <1>4, <1>5, <1>8 DEF SuccessInv, RunInv, Live, Running, Table, SETTLED, DONE
<1>15. KeyInv(r)'
  BY <1>1, <1>2, <1>4, <1>5, <1>8, <1>9 DEF KeyInv, SuccessInv, Running
<1>16. ~LostAcks => \A f \in Fks : f \in fks \/ Keeps(r, f) => f \in fks' \/ Keeps(r, f)'
  BY <1>1, <1>2, <1>4, <1>5, <1>8 DEF Keeps, KeyInv, SuccessInv, Running
<1>17. QED
  BY <1>1, <1>2, <1>4, <1>5, <1>10, <1>11, <1>12, <1>13, <1>14, <1>15, <1>16 DEF Goes

LEMMA ClearFksGoes ==
  ASSUME IInv, NEW r \in Runs, ClearFks(r)
  PROVE  Goes(r)
<1> USE DEF IInv, LocalInv, TypeOK
<1> DEFINE s == [mem[r] EXCEPT !.dropped = {}]
<1>1. /\ s \in RunState /\ s.status = mem[r].status /\ s.tables = mem[r].tables /\ s.dropped = {}
      /\ s.unrestored = mem[r].unrestored
  BY Fields DEF RunState
<1>2. Set(r, s)
  BY DEF ClearFks
<1> HIDE DEF s
<1>3. /\ pc' = [pc EXCEPT ![r] = "finish"]
      /\ (pc[r] = "clear" \/ (pc[r] = "restore" /\ loader[r].left = {} /\ loader[r].failures = {}))
      /\ UNCHANGED <<owner, asked, prior, crashes, lost, rows, fks, loader>>
  BY DEF ClearFks, store, target, history, GoTo
<1>4. pc'[r] = "finish"
  BY <1>3
<1>5. /\ row' \in [Runs -> RunState] /\ mem' \in [Runs -> RunState] /\ stale' \subseteq Runs
      /\ latest' \in Runs \cup {NoRun} /\ recorded' \subseteq Runs /\ resumed' \subseteq Runs
  BY <1>1, <1>2, SetDoes
<1>6. \A q \in Runs \ {r} : /\ row'[q] = row[q] /\ mem'[q] = mem[q]
                            /\ (q \in recorded' <=> q \in recorded)
                            /\ (q \in stale' <=> q \in stale)
                            /\ (q \in resumed' <=> q \in resumed)
  BY <1>1, <1>2, SetDoes
<1>7. mem'[r] = s /\ row'[r] \in {s, row[r]} /\ (r \in resumed' => r \in resumed /\ row'[r] = row[r])
  BY <1>1, <1>2, SetDoes
<1>8. r \in recorded' =>
       r \in recorded \/ (row'[r] = s /\ pc[r] # "capture" /\ loader[r].held \subseteq s.dropped)
  BY <1>1, <1>2, SetDoes
<1>9. TypeOK'
  BY <1>1, <1>3, <1>4, <1>5
<1>10. Touches(r)
  BY <1>1, <1>3, <1>4, <1>6 DEF Touches
<1>11. RunInv(r)'
  BY <1>1, <1>3, <1>4, <1>7 DEF RunInv, Live, Running
<1>12. SoundInv(r)'
  BY <1>1, <1>3, <1>4, <1>7 DEF SoundInv, Table, DONE
<1>13. SuccessInv(r)'
  BY <1>1, <1>3, <1>4, <1>7 DEF SuccessInv, RunInv, Live, Running, Table, SETTLED, DONE
<1>14. KeyInv(r)'
  <2>2. CASE pc[r] = "restore"
    <3>1. loader[r].failures = {} /\ mem[r].unrestored = {} /\ row[r].unrestored = {}
      BY <1>1, <1>3, <1>4, <2>2 DEF KeyInv, SuccessInv, Running
    <3>2. loader[r].left \subseteq loader[r].held
      BY DEF KeyInv
    <3>3. /\ mem'[r].unrestored = {} /\ row'[r].unrestored = {} /\ loader'[r] = loader[r]
          /\ pc'[r] = "finish"
      BY <1>1, <1>3, <1>4, <1>7, <1>8, <3>1
    <3>4. QED BY <3>1, <3>2, <3>3 DEF KeyInv
  <2>1. CASE pc[r] = "clear"
    BY <1>1, <1>3, <1>4, <1>7, <1>8, <2>1 DEF KeyInv, SuccessInv, Running
  <2>3. QED BY <1>1, <1>3, <1>4, <2>1, <2>2
<1>15. ~LostAcks => \A f \in Fks : f \in fks \/ Keeps(r, f) => f \in fks' \/ Keeps(r, f)'
  BY <1>1, <1>3, <1>4, <1>7 DEF Keeps, KeyInv, SuccessInv, Running
<1>16. QED
  BY <1>1, <1>3, <1>4, <1>9, <1>10, <1>11, <1>12, <1>13, <1>14, <1>15 DEF Goes

-----------------------------------------------------------------------------
(* The end of a loader, its heartbeats, and what becomes stale. *)

LEMMA EndGoes ==
  ASSUME IInv, NEW r \in Runs, NEW status \in {"success", "failed", "partial"}, End(r, status),
         pc[r] \in {"finish", "abort"},
         status = "success" => pc[r] = "finish" /\ loader[r].anyFailed = FALSE
  PROVE  Goes(r)
<1> USE DEF IInv, LocalInv, TypeOK
<1> DEFINE s == [mem[r] EXCEPT !.status = status]
<1>1. /\ s \in RunState /\ s.status = status /\ s.tables = mem[r].tables
      /\ s.dropped = mem[r].dropped /\ s.unrestored = mem[r].unrestored
  BY Fields DEF RunState, TERMINAL
<1>2. Store(r, s)
  BY DEF End
<1> HIDE DEF s
<1>3. /\ mem' = [mem EXCEPT ![r] = NoState] /\ pc' = [pc EXCEPT ![r] = "ended"]
      /\ loader' = [loader EXCEPT ![r] = NoLoader] /\ owner' = [owner EXCEPT ![r] = NoWorker]
      /\ UNCHANGED <<rows, fks, asked, prior, crashes, lost>>
  BY DEF End, target, history
<1>4. pc'[r] = "ended" /\ mem'[r] = NoState /\ loader'[r] = NoLoader /\ owner'[r] = NoWorker
  BY <1>3
<1>5. /\ row' \in [Runs -> RunState] /\ stale' \subseteq Runs
      /\ latest' \in Runs \cup {NoRun} /\ recorded' \subseteq Runs /\ resumed' \subseteq Runs
  BY <1>1, <1>2, StoreDoes
<1>6. \A q \in Runs \ {r} : /\ row'[q] = row[q]
                            /\ (q \in recorded' <=> q \in recorded)
                            /\ (q \in stale' <=> q \in stale)
                            /\ (q \in resumed' <=> q \in resumed)
  BY <1>1, <1>2, StoreDoes
<1>7. row'[r] = s /\ r \notin stale' /\ r \notin resumed'
  BY <1>1, <1>2, StoreDoes
<1>9. /\ NoState.status = "none" /\ NoState.dropped = {} /\ NoState.unrestored = {}
      /\ \A t \in Tables : NoState.tables[t] = "pending"
  BY DEF NoState
<1>10. NoLoader.held = {} /\ NoLoader.left = {} /\ NoLoader.failures = {}
  BY DEF NoLoader
<1>11. TypeOK'
  BY <1>3, <1>5, NoStates
<1>12. Touches(r)
  BY <1>3, <1>6 DEF Touches
<1>13. RunInv(r)'
  BY <1>3, <1>4, <1>7 DEF RunInv, Live, Running
<1>14. SoundInv(r)'
  BY <1>1, <1>3, <1>4, <1>7, <1>9 DEF SoundInv, DONE
<1>15. SuccessInv(r)'
  <2>1. status = "success" =>
           TablesLeft(row'[r]) = {} /\ row'[r].dropped = {} /\ row'[r].unrestored = {}
    <3> SUFFICES ASSUME status = "success"
          PROVE  TablesLeft(row'[r]) = {} /\ row'[r].dropped = {} /\ row'[r].unrestored = {}
      OBVIOUS
    <3>1. /\ mem[r].dropped = {} /\ mem[r].unrestored = {}
          /\ \A t \in Tables : mem[r].tables[t] \in SETTLED
      BY DEF SuccessInv, Running
    <3>2. QED BY <1>1, <1>7, <3>1 DEF TablesLeft
  <2>2. row'[r].status = status
    BY <1>1, <1>7
  <2>3. QED BY <2>1, <2>2, <1>4 DEF SuccessInv, Running, TablesLeft
<1>16. KeyInv(r)'
  BY <1>4, <1>10 DEF KeyInv, Running
<1>17. \A f \in Fks : f \in fks \/ Keeps(r, f) => f \in fks' \/ Keeps(r, f)'
  <2>1. pc[r] = "abort" => mem[r].dropped = loader[r].held /\ loader[r].failures = {}
    BY DEF KeyInv
  <2>2. pc[r] = "finish" => mem[r].unrestored = loader[r].failures
    BY DEF KeyInv
  <2>3. row[r].unrestored \subseteq mem[r].unrestored
    BY DEF KeyInv, Running
  <2>4. QED BY <1>1, <1>3, <1>4, <1>7, <2>1, <2>2, <2>3 DEF Keeps
<1>18. QED
  BY <1>3, <1>4, <1>11, <1>12, <1>13, <1>14, <1>15, <1>16, <1>17 DEF Goes

LEMMA FinishGoes ==
  ASSUME IInv, NEW r \in Runs, Finish(r)
  PROVE  Goes(r)
<1>1. pc[r] = "finish" /\ loader[r].anyFailed \in BOOLEAN
  BY Fields DEF Finish, IInv
<1>2. CASE loader[r].anyFailed
  <2>1. End(r, "partial")
    BY <1>2 DEF Finish
  <2>2. QED BY <1>1, <2>1, EndGoes
<1>3. CASE ~loader[r].anyFailed
  <2>1. End(r, "success")
    BY <1>3 DEF Finish
  <2>2. loader[r].anyFailed = FALSE
    BY <1>1, <1>3
  <2>3. QED BY <1>1, <2>1, <2>2, EndGoes
<1>4. QED BY <1>2, <1>3

LEMMA AbortGoes ==
  ASSUME IInv, NEW r \in Runs, Abort(r)
  PROVE  Goes(r)
<1>1. pc[r] = "abort" /\ End(r, "failed")
  BY DEF Abort
<1>2. QED BY <1>1, EndGoes

LEMMA BeatGoes ==
  ASSUME IInv, NEW r \in Runs, Beat(r)
  PROVE  Goes(r)
<1> USE DEF IInv, LocalInv, TypeOK
<1>1. pc[r] \in Running /\ Store(r, mem[r]) /\ mem[r] \in RunState
  BY DEF Beat, RunInv
<1>2. UNCHANGED <<rows, fks, mem, pc, loader, owner, asked, prior, crashes, lost>>
  BY DEF Beat, target, history
<1>3. /\ row' \in [Runs -> RunState] /\ stale' \subseteq Runs
      /\ latest' \in Runs \cup {NoRun} /\ recorded' \subseteq Runs /\ resumed' \subseteq Runs
  BY <1>1, StoreDoes
<1>4. \A q \in Runs \ {r} : /\ row'[q] = row[q]
                            /\ (q \in recorded' <=> q \in recorded)
                            /\ (q \in stale' <=> q \in stale)
                            /\ (q \in resumed' <=> q \in resumed)
  BY <1>1, StoreDoes
<1>5. row'[r] = mem[r] /\ r \notin stale' /\ r \notin resumed'
  BY <1>1, StoreDoes
<1>6. r \in recorded' =>
       r \in recorded \/ (pc[r] # "capture" /\ loader[r].held \subseteq mem[r].dropped)
  BY <1>1, StoreDoes
<1>7. TypeOK'
  BY <1>2, <1>3
<1>8. Touches(r)
  BY <1>2, <1>4 DEF Touches
<1>9. RunInv(r)'
  BY <1>1, <1>2, <1>5 DEF RunInv, Live, Running
<1>10. SoundInv(r)'
  BY <1>2, <1>5 DEF SoundInv, Table
<1>11. SuccessInv(r)'
  <2>1. row'[r].status # "success"
    BY <1>1, <1>5 DEF RunInv, Live
  <2>2. QED BY <1>2, <2>1 DEF SuccessInv, Table
<1>12. KeyInv(r)'
  <2>1. r \in recorded' /\ pc[r] # "finish" => loader[r].held \subseteq mem[r].dropped
    BY <1>1, <1>6 DEF KeyInv
  <2>2. pc[r] = "finish" => loader[r].failures \subseteq mem[r].unrestored
    BY DEF KeyInv
  <2>3. QED BY <1>2, <1>5, <1>6, <2>1, <2>2 DEF KeyInv
<1>13. \A f \in Fks : f \in fks \/ Keeps(r, f) => f \in fks' \/ Keeps(r, f)'
  <2>1. row[r].unrestored \subseteq mem[r].unrestored
    BY <1>1 DEF KeyInv
  <2>2. QED BY <1>1, <1>2, <1>5, <2>1 DEF Keeps, Running
<1>14. QED
  BY <1>1, <1>2, <1>7, <1>8, <1>9, <1>10, <1>11, <1>12, <1>13 DEF Goes, Running

LEMMA GoStaleGoes ==
  ASSUME IInv, NEW r \in Runs, GoStale(r)
  PROVE  Goes(r)
<1> USE DEF IInv, LocalInv, TypeOK
<1>1. /\ stale' = stale \cup {r} /\ pc[r] # "none"
      /\ UNCHANGED <<rows, fks, mem, row, latest, recorded, resumed, pc, loader, owner, asked, prior, crashes, lost>>
  <2>1. row[r].status = "running"
    BY DEF GoStale
  <2>2. pc[r] # "none"
    BY <2>1 DEF RunInv, NoState
  <2>3. QED BY <2>2 DEF GoStale, target, history
<1>2. TypeOK' /\ Touches(r)
  BY <1>1 DEF Touches
<1>3. RunInv(r)'
  BY <1>1 DEF RunInv, Live
<1>4. SoundInv(r)'
  BY <1>1 DEF SoundInv, Table
<1>5. SuccessInv(r)'
  BY <1>1 DEF SuccessInv, Table, TablesLeft
<1>6. KeyInv(r)'
  BY <1>1 DEF KeyInv
<1>7. QED
  BY <1>1, <1>2, <1>3, <1>4, <1>5, <1>6 DEF Goes, Keeps

-----------------------------------------------------------------------------
(* Starting and resuming a run, and losing a worker. *)

\* The next run to start is the first that is not started.
LEMMA StartOrder ==
  ASSUME OrderInv
  PROVE  /\ Cardinality(Started) \in Nat
         /\ \A r \in Runs : pc[r] = "none" <=> r > Cardinality(Started)
<1>1. PICK n \in 0 .. MaxRuns : \A r \in Runs : pc[r] = "none" <=> r > n
  BY DEF OrderInv
<1>2. Started = 1 .. n
  BY <1>1, BoundsAssumption DEF Started, Runs
<1>3. Cardinality(Started) = n
  BY <1>2, FS_Interval
<1>4. QED BY <1>1, <1>3

LEMMA StartKeeps ==
  ASSUME IInv, OrderInv, NEW w \in Workers, NEW p \in Runs \cup {NoRun},
         NEW done \in SUBSET Tables, NEW inherited \in SUBSET Fks,
         NextRun \in Runs, Begin(w, NextRun, p, done, inherited),
         \A t \in done : rows[t] > 0, asked' \subseteq asked,
         \/ resumed' = resumed
         \/ p \in Runs /\ pc[p] # "none" /\ resumed' = resumed \cup {p} /\ row[p].dropped \subseteq inherited
  PROVE  IInv' /\ OrderInv' /\ (~LostAcks /\ FksKept => FksKept')
<1> USE DEF IInv, LocalInv, TypeOK
<1>0. PICK r \in Runs : r = NextRun /\ r = Cardinality(Started) + 1
  BY DEF NextRun
<1> DEFINE s == [NoState EXCEPT !.status = "running", !.tables = Seed(done), !.dropped = inherited]
           new == [NoLoader EXCEPT !.held = inherited, !.todo = Tables \ done]
<1>1. r \in Runs /\ pc[r] = "none"
  BY <1>0, StartOrder
<1>2. /\ owner' = [owner EXCEPT ![r] = w] /\ mem' = [mem EXCEPT ![r] = s]
      /\ row' = [row EXCEPT ![r] = s] /\ latest' = r
      /\ pc' = [pc EXCEPT ![r] = "capture"] /\ loader' = [loader EXCEPT ![r] = new]
      /\ prior' = [prior EXCEPT ![r] = p]
      /\ UNCHANGED <<rows, fks, stale, recorded, crashes, lost>>
  BY <1>0 DEF Begin, GoTo, target
<1>3. /\ s \in RunState /\ s.status = "running" /\ s.dropped = inherited /\ s.unrestored = {}
      /\ \A t \in Tables : s.tables[t] = IF t \in done THEN "skipped" ELSE "pending"
  <2>1. Seed(done) \in [Tables -> TableStatus]
    BY DEF Seed, TableStatus, SETTLED, DONE
  <2>2. NoState \in RunState /\ NoState.unrestored = {}
    BY NoStates DEF NoState
  <2>3. /\ s \in RunState /\ s.status = "running" /\ s.tables = Seed(done) /\ s.dropped = inherited
        /\ s.unrestored = {}
    BY <2>1, <2>2 DEF RunState
  <2>4. QED BY <2>3 DEF Seed
<1>4. /\ new \in Loader /\ new.held = inherited /\ new.todo = Tables \ done /\ new.left = {}
      /\ new.failures = {} /\ new.outcome = "none" /\ new.anyFailed = FALSE
  <2>1. NoLoader \in Loader
    BY NoStates
  <2>2. QED BY <2>1 DEF Loader, NoLoader
<1>5. \A q \in Runs : pc[q] = "none" <=> q >= r
  BY <1>0, StartOrder DEF Runs
<1> HIDE DEF s, new
<1>6. OrderInv'
  <2>1. r \in 0 .. MaxRuns
    BY <1>1, BoundsAssumption DEF Runs
  <2>2. \A q \in Runs : pc'[q] = "none" <=> q > r
    BY <1>0, <1>1, <1>2, <1>5, StartOrder DEF Runs
  <2>3. QED BY <2>1, <2>2 DEF OrderInv, Runs
<1>7. /\ row' \in [Runs -> RunState] /\ stale' \subseteq Runs
      /\ latest' \in Runs \cup {NoRun} /\ recorded' \subseteq Runs /\ resumed' \subseteq Runs
  BY <1>1, <1>2, <1>3
<1>8. \A q \in Runs \ {r} : /\ row'[q] = row[q]
                            /\ (q \in recorded' <=> q \in recorded)
                            /\ (q \in stale' <=> q \in stale)
  BY <1>1, <1>2, <1>3
<1>9. row'[r] = s /\ r \notin recorded' /\ r \notin resumed'
  BY <1>1, <1>2 DEF RunInv
<1>10. TypeOK'
  BY <1>1, <1>2, <1>3, <1>4, <1>7
<1>11. pc'[r] = "capture" /\ mem'[r] = s /\ loader'[r] = new /\ owner'[r] = w /\ prior'[r] = p
  BY <1>1, <1>2
<1>12. \A q \in Runs \ {r} : /\ mem'[q] = mem[q] /\ pc'[q] = pc[q] /\ loader'[q] = loader[q]
                             /\ owner'[q] = owner[q] /\ prior'[q] = prior[q]
  BY <1>1, <1>2
<1>13. AskInv'
  BY <1>1, <1>11, <1>12 DEF AskInv
<1>14. LocalInv(r)'
  <2>1. RunInv(r)'
    BY <1>1, <1>3, <1>9, <1>11, NoWorkerAssumption DEF RunInv, Live, Running
  <2>2. SoundInv(r)'
    BY <1>2, <1>3, <1>9, <1>11 DEF SoundInv, DONE
  <2>3. SuccessInv(r)'
    BY <1>3, <1>4, <1>9, <1>11 DEF SuccessInv, Running, SETTLED, DONE
  <2>4. KeyInv(r)'
    BY <1>3, <1>4, <1>9, <1>11 DEF KeyInv
  <2>5. QED BY <2>1, <2>2, <2>3, <2>4
<1>15. ASSUME NEW q \in Runs \ {r} PROVE LocalInv(q)'
  <2>1. RunInv(q)'
    BY <1>1, <1>8, <1>12 DEF RunInv, Live
  <2>2. SoundInv(q)'
    BY <1>2, <1>8, <1>12 DEF SoundInv, Table
  <2>3. SuccessInv(q)'
    BY <1>8, <1>12 DEF SuccessInv, Table, TablesLeft
  <2>4. KeyInv(q)'
    BY <1>8, <1>12 DEF KeyInv
  <2>5. QED BY <2>1, <2>2, <2>3, <2>4
<1>16. ASSUME FksKept PROVE FksKept'
  <2> SUFFICES ASSUME NEW f \in Fks \ lost, ~(f \in fks) PROVE \E q \in Runs : Keeps(q, f)'
    BY <1>2 DEF FksKept
  <2>1. PICK q \in Runs : Keeps(q, f)
    BY <1>16 DEF FksKept
  <2>2. q # r
    <3>1. row[r] = NoState /\ mem[r] = NoState /\ loader[r] = NoLoader
      BY <1>1 DEF RunInv, Running
    <3>2. QED BY <1>1, <2>1, <3>1 DEF Keeps, NoState, NoLoader
  <2>3. CASE resumed' # resumed /\ q = p /\ f \in row[q].dropped
    <3>1. f \in loader'[r].held
      BY <1>4, <1>11, <2>3
    <3>2. QED BY <1>9, <1>11, <3>1 DEF Keeps
  <2>4. CASE ~(resumed' # resumed /\ q = p /\ f \in row[q].dropped)
    <3>1. (q \in resumed' => f \notin row[q].dropped) \/ f \in row[q].unrestored
      BY <2>1, <2>4 DEF Keeps
    <3>2. QED BY <1>8, <1>12, <2>1, <2>2, <3>1 DEF Keeps
  <2>5. QED BY <2>3, <2>4
<1>17. QED
  BY <1>6, <1>10, <1>13, <1>14, <1>15, <1>16

LEMMA StartFreshKeeps ==
  ASSUME IInv, OrderInv, NEW w \in Workers, StartFresh(w)
  PROVE  IInv' /\ OrderInv' /\ (~LostAcks /\ FksKept => FksKept')
  BY StartKeeps DEF StartFresh

\* A request asks to resume a run that is not of its own worker, or that is over.
LEMMA AskResumeKeeps ==
  ASSUME IInv, OrderInv, NEW w \in Workers, NEW p \in Runs, AskResume(w, p)
  PROVE  IInv' /\ OrderInv' /\ (~LostAcks /\ FksKept => FksKept')
<1>1. /\ asked' = {<<w, p>>} /\ p \in Started /\ IsResumable(w, p)
      /\ UNCHANGED <<rows, fks, mem, row, stale, latest, recorded, resumed, pc, loader, owner>>
      /\ UNCHANGED <<prior, crashes, lost>>
  BY DEF AskResume, target, store
<1>2. TypeOK'
  BY <1>1 DEF IInv, TypeOK
<1>3. owner[p] # w
  <2>1. owner[p] = w => Live(p) /\ View(w, p) = mem[p]
    BY NoWorkerAssumption DEF Live, View
  <2>2. owner[p] = w => View(w, p).status = "running"
    BY <2>1 DEF IInv, LocalInv, RunInv
  <2>3. QED BY <1>1, <2>2 DEF IsResumable, TERMINAL
<1>4. AskInv'
  BY <1>1, <1>3 DEF AskInv, Started
<1>5. ASSUME NEW r \in Runs PROVE LocalInv(r)'
  BY <1>1 DEF IInv, LocalInv, RunInv, Live, SoundInv, SuccessInv, KeyInv, Table, TablesLeft
<1>6. OrderInv' /\ (FksKept => FksKept')
  BY <1>1 DEF OrderInv, FksKept, Keeps
<1>7. QED BY <1>2, <1>4, <1>5, <1>6 DEF IInv

LEMMA StartResumeKeeps ==
  ASSUME IInv, OrderInv, NEW w \in Workers, NEW p \in Runs, StartResume(w, p)
  PROVE  IInv' /\ OrderInv' /\ (~LostAcks /\ FksKept => FksKept')
<1> DEFINE done == {t \in Tables : View(w, p).tables[t] \in DONE}
<1>1. /\ <<w, p>> \in asked /\ NextRun \in Runs /\ asked' = {} /\ resumed' = resumed \cup {p}
      /\ Begin(w, NextRun, p, done, View(w, p).dropped)
  BY DEF StartResume, Resume
<1>2. pc[p] # "none" /\ View(w, p) = row[p]
  BY <1>1 DEF IInv, AskInv, View
<1>3. \A t \in done : rows[t] > 0
  BY <1>2 DEF IInv, LocalInv, SoundInv
<1>4. row[p].dropped \subseteq Fks
  BY Fields DEF IInv
<1>5. done \subseteq Tables
  OBVIOUS
<1> HIDE DEF done
<1>6. QED BY <1>1, <1>2, <1>3, <1>4, <1>5, StartKeeps

LEMMA CrashKeeps ==
  ASSUME IInv, OrderInv, NEW w \in Workers, Crash(w)
  PROVE  IInv' /\ OrderInv' /\ (~LostAcks /\ FksKept => FksKept')
<1> USE DEF IInv, LocalInv, TypeOK
<1> DEFINE gone == {r \in Runs : owner[r] = w}
           unsaved == UNION {loader[r].held \ row[r].dropped : r \in gone \ recorded}
<1>0. lost' = lost \cup (unsaved \ fks)
  BY DEF Crash
<1>1. /\ crashes' = crashes + 1 /\ crashes < MaxCrashes
      /\ pc' = [r \in Runs |-> IF r \in gone THEN "lost" ELSE pc[r]]
      /\ mem' = [r \in Runs |-> IF r \in gone THEN NoState ELSE mem[r]]
      /\ loader' = [r \in Runs |-> IF r \in gone THEN NoLoader ELSE loader[r]]
      /\ owner' = [r \in Runs |-> IF r \in gone THEN NoWorker ELSE owner[r]]
      /\ asked' = asked \ ({w} \X Runs)
      /\ UNCHANGED <<rows, fks, row, stale, latest, recorded, resumed, prior>>
  BY DEF Crash, target, store
<1>2. \A r \in gone : pc[r] \in Running
  BY NoWorkerAssumption DEF RunInv, Live
<1>3. unsaved \subseteq Fks
  BY Fields
<1>4. \A r \in gone \ recorded : loader[r].held \ row[r].dropped \subseteq unsaved
  OBVIOUS
<1> HIDE DEF unsaved
<1>5. \A r \in gone \ recorded : \A f \in loader[r].held : f \in fks \/ f \in unsaved \/ f \in row[r].dropped
  BY <1>4
<1> HIDE DEF gone
<1>6. gone \subseteq Runs
  BY DEF gone
<1>7. TypeOK'
  BY <1>0, <1>1, <1>3, NoStates, BoundsAssumption
<1>8. \A r \in gone : pc'[r] = "lost" /\ mem'[r] = NoState /\ loader'[r] = NoLoader /\ owner'[r] = NoWorker
  BY <1>1, <1>6
<1>9. \A r \in Runs \ gone : /\ pc'[r] = pc[r] /\ mem'[r] = mem[r]
                             /\ loader'[r] = loader[r] /\ owner'[r] = owner[r]
  BY <1>1
<1>10. AskInv'
  <2>1. \A q \in Runs : pc[q] # "none" => pc'[q] # "none" /\ owner'[q] \in {owner[q], NoWorker}
    BY <1>8, <1>9
  <2>2. asked' \subseteq asked
    BY <1>1
  <2>3. QED BY <2>1, <2>2, NoWorkerAssumption DEF AskInv
<1>11. OrderInv'
  BY <1>2, <1>8, <1>9 DEF OrderInv, Running
<1>12. ASSUME NEW r \in Runs PROVE LocalInv(r)'
  <2>2. CASE r \in gone
    <3>1. RunInv(r)'
      BY <1>1, <1>2, <1>8, <2>2 DEF RunInv, Live, Running
    <3>2. SoundInv(r)'
      BY <1>1, <1>8, <2>2 DEF SoundInv, NoState, DONE
    <3>3. SuccessInv(r)'
      BY <1>1, <1>8, <2>2 DEF SuccessInv, Running, TablesLeft
    <3>4. KeyInv(r)'
      BY <1>8, <2>2 DEF KeyInv, Running, NoLoader
    <3>5. QED BY <3>1, <3>2, <3>3, <3>4
  <2>3. CASE r \notin gone
    <3>1. RunInv(r)'
      BY <1>1, <1>9, <2>3 DEF RunInv, Live
    <3>2. SoundInv(r)'
      BY <1>1, <1>9, <2>3 DEF SoundInv, Table
    <3>3. SuccessInv(r)'
      BY <1>1, <1>9, <2>3 DEF SuccessInv, Table, TablesLeft
    <3>4. KeyInv(r)'
      BY <1>1, <1>9, <2>3 DEF KeyInv
    <3>5. QED BY <3>1, <3>2, <3>3, <3>4
  <2>4. QED BY <2>2, <2>3
<1>13. ASSUME FksKept PROVE FksKept'
  <2> SUFFICES ASSUME NEW f \in Fks \ lost', ~(f \in fks) PROVE \E q \in Runs : Keeps(q, f)'
    BY <1>1 DEF FksKept
  <2>1. f \in Fks \ lost /\ f \notin unsaved \ fks
    BY <1>0
  <2>2. PICK q \in Runs : Keeps(q, f)
    BY <1>13, <2>1 DEF FksKept
  <2>3. CASE q \notin gone
    BY <1>1, <1>9, <2>2, <2>3 DEF Keeps
  <2>4. CASE q \in gone
    <3>1. CASE f \in row[q].unrestored
      BY <1>1, <3>1 DEF Keeps
    <3>2. CASE f \notin row[q].unrestored
      <4>1. f \in mem[q].unrestored => f \in loader[q].failures
        BY <1>2, <2>4 DEF KeyInv, SuccessInv, Running
      <4>2. loader[q].failures \cup loader[q].left \subseteq loader[q].held
        BY DEF KeyInv
      <4>3. f \in loader[q].held /\ (q \in resumed => f \notin row[q].dropped)
        BY <1>2, <2>2, <2>4, <3>2, <4>1, <4>2 DEF Keeps, Running
      <4>4. CASE f \in row[q].dropped
        BY <1>1, <1>8, <2>4, <4>3, <4>4 DEF Keeps
      <4>5. CASE f \notin row[q].dropped
        <5>1. q \in recorded
          BY <1>5, <2>1, <2>4, <4>3, <4>5
        <5>2. pc[q] = "finish" /\ loader[q].failures \subseteq row[q].dropped \cup row[q].unrestored
          BY <1>2, <2>4, <4>3, <4>5, <5>1 DEF KeyInv
        <5>3. QED BY <2>2, <3>2, <4>1, <4>5, <5>2 DEF Keeps
      <4>6. QED BY <4>4, <4>5
    <3>3. QED BY <3>1, <3>2
  <2>5. QED BY <2>3, <2>4
<1>14. QED
  BY <1>7, <1>10, <1>11, <1>12, <1>13

LEMMA InitInvariant == Init => IInv /\ OrderInv /\ FksKept
<1> SUFFICES ASSUME Init PROVE IInv /\ OrderInv /\ FksKept
  OBVIOUS
<1> USE DEF Init
<1>1. TypeOK
  BY NoStates, BoundsAssumption DEF TypeOK
<1>2. ASSUME NEW r \in Runs PROVE LocalInv(r)
  <2>1. RunInv(r)
    BY <1>2 DEF RunInv, Live, Running
  <2>2. SoundInv(r)
    BY <1>2 DEF SoundInv, NoState, DONE
  <2>3. SuccessInv(r)
    BY <1>2 DEF SuccessInv, NoState, Running
  <2>4. KeyInv(r)
    BY <1>2 DEF KeyInv, NoLoader, Running
  <2>5. QED BY <2>1, <2>2, <2>3, <2>4 DEF LocalInv
<1>3. OrderInv
  BY BoundsAssumption DEF OrderInv, Runs
<1>4. FksKept
  BY DEF FksKept
<1>5. AskInv
  BY DEF AskInv
<1>6. QED BY <1>1, <1>2, <1>3, <1>4, <1>5 DEF IInv

LEMMA StutterKeeps ==
  ASSUME IInv, OrderInv, UNCHANGED vars
  PROVE  IInv' /\ OrderInv' /\ (~LostAcks /\ FksKept => FksKept')
<1>1. UNCHANGED <<rows, fks, mem, row, stale, latest, recorded, resumed, pc, loader, owner, asked, prior, crashes, lost>>
  BY DEF vars, target, store, history
<1>2. TypeOK'
  BY <1>1 DEF IInv, TypeOK
<1>3. ASSUME NEW r \in Runs PROVE LocalInv(r)'
  <2>1. RunInv(r)'
    BY <1>1 DEF IInv, LocalInv, RunInv, Live
  <2>2. SoundInv(r)'
    BY <1>1 DEF IInv, LocalInv, SoundInv, Table
  <2>3. SuccessInv(r)'
    BY <1>1 DEF IInv, LocalInv, SuccessInv, Table, TablesLeft
  <2>4. KeyInv(r)'
    BY <1>1 DEF IInv, LocalInv, KeyInv
  <2>5. QED BY <2>1, <2>2, <2>3, <2>4 DEF LocalInv
<1>4. OrderInv'
  BY <1>1 DEF OrderInv
<1>5. FksKept => FksKept'
  BY <1>1 DEF FksKept, Keeps
<1>6. AskInv'
  BY <1>1 DEF IInv, AskInv
<1>7. QED BY <1>2, <1>3, <1>4, <1>5, <1>6 DEF IInv

LEMMA StepKeeps ==
  ASSUME IInv, OrderInv, [Next]_vars
  PROVE  IInv' /\ OrderInv' /\ (~LostAcks /\ FksKept => FksKept')
<1>1. ASSUME NEW w \in Workers, StartFresh(w)
      PROVE  IInv' /\ OrderInv' /\ (~LostAcks /\ FksKept => FksKept')
  BY <1>1, StartFreshKeeps
<1>2. ASSUME NEW w \in Workers, NEW p \in Runs, AskResume(w, p) \/ StartResume(w, p)
      PROVE  IInv' /\ OrderInv' /\ (~LostAcks /\ FksKept => FksKept')
  BY <1>2, AskResumeKeeps, StartResumeKeeps
<1>3. ASSUME NEW w \in Workers, Crash(w)
      PROVE  IInv' /\ OrderInv' /\ (~LostAcks /\ FksKept => FksKept')
  BY <1>3, CrashKeeps
<1>4. ASSUME NEW r \in Runs, LoaderStep(r) PROVE Goes(r)
  <2>1. CASE Capture(r) \/ RecordFks(r) \/ StartTable(r) \/ LoadCommits(r) \/ LoadWarns(r)
    BY <2>1, CaptureGoes, RecordFksGoes, StartTableGoes, LoadCommitsGoes, LoadWarnsGoes
  <2>2. CASE Settle(r) \/ BeginRestore(r) \/ RestoreRaises(r) \/ ReportFks(r) \/ ClearFks(r)
    BY <2>2, SettleGoes, BeginRestoreGoes, RestoreRaisesGoes, ReportFksGoes, ClearFksGoes
  <2>3. CASE Finish(r) \/ Abort(r)
    BY <2>3, FinishGoes, AbortGoes
  <2>4. CASE \E f \in Fks : RestoreFk(r, f)
    BY <2>4, RestoreFkGoes
  <2>5. ASSUME NEW committed \in BOOLEAN,
               \/ CaptureRetry(r, committed) \/ CaptureFails(r, committed)
               \/ LoadRetry(r, committed) \/ LoadFails(r, committed)
        PROVE  Goes(r)
    BY <2>5, CaptureRetryGoes, CaptureFailsGoes, LoadRetryGoes, LoadFailsGoes
  <2>6. ASSUME NEW committed \in BOOLEAN, NEW f \in Fks, RestoreFkFails(r, f, committed)
        PROVE  Goes(r)
    BY <2>6, RestoreFkFailsGoes
  <2>7. QED BY <1>4, <2>1, <2>2, <2>3, <2>4, <2>5, <2>6 DEF LoaderStep
<1>5. ASSUME NEW r \in Runs, LoaderStep(r) \/ Beat(r) \/ GoStale(r)
      PROVE  IInv' /\ OrderInv' /\ (~LostAcks /\ FksKept => FksKept')
  <2>1. Goes(r)
    BY <1>4, <1>5, BeatGoes, GoStaleGoes
  <2>2. QED BY <2>1, OneRunGoes
<1>6. QED BY <1>1, <1>2, <1>3, <1>5, StutterKeeps DEF Next

-----------------------------------------------------------------------------
\* The runs and their rows, memories and loaders go together in every reachable state.
THEOREM Invariance == Spec => [](IInv /\ OrderInv)
<1>1. Init => IInv /\ OrderInv
  BY InitInvariant
<1>2. IInv /\ OrderInv /\ [Next]_vars => (IInv /\ OrderInv)'
  BY StepKeeps
<1>3. QED BY <1>1, <1>2, PTL DEF Spec

\* The target, the store and every loader keep the types of data_loader.py's variables.
THEOREM TypeCorrect == Spec => []TypeOK
<1>1. IInv => TypeOK
  BY DEF IInv
<1>2. QED BY <1>1, Invariance, PTL

\* What the checkpoint calls loaded is in the target, whatever crashed, was resumed or
\* ran at the same time (the skip of an already loaded table in start_run).
THEOREM CheckpointTrue == Spec => []CheckpointSound
<1>1. IInv => CheckpointSound
  <2> SUFFICES ASSUME IInv, NEW r \in Runs, NEW t \in Tables,
                      {mem[r].tables[t], row[r].tables[t]} \cap DONE # {}
               PROVE  rows[t] > 0
    BY DEF CheckpointSound
  <2>1. SoundInv(r)
    BY DEF IInv, LocalInv
  <2>2. QED BY <2>1 DEF SoundInv
<1>2. QED BY <1>1, Invariance, PTL

\* A run stored as a success left nothing to resume (_copy_tables' last _set).
THEOREM SuccessComplete == Spec => []SuccessIsComplete
<1>1. IInv => SuccessIsComplete
  BY DEF IInv, LocalInv, SuccessInv, SuccessIsComplete
<1>2. QED BY <1>1, Invariance, PTL

\* Where a commit that succeeds is acknowledged, no foreign key taken off the target is
\* forgotten, whoever takes a live run for dead and resumes it (capture_and_drop_fks,
\* restore_fks, start_run and the dropped_fks of the checkpoint).
THEOREM FksConserved == ASSUME LostAcks = FALSE PROVE Spec => []FkConserved
<1>1. Init => IInv /\ OrderInv /\ FksKept
  BY InitInvariant
<1>2. IInv /\ OrderInv /\ FksKept /\ [Next]_vars => (IInv /\ OrderInv /\ FksKept)'
  BY StepKeeps
<1>3. IInv /\ FksKept => FkConserved
  <2> SUFFICES ASSUME IInv, FksKept, NEW f \in Fks \ lost, f \notin fks
               PROVE  \E r \in Runs : Carries(r, f)
    BY DEF FkConserved
  <2>1. PICK r \in Runs : Keeps(r, f)
    BY DEF FksKept
  <2>2. loader[r].failures \cup loader[r].left \subseteq loader[r].held
    BY DEF IInv, LocalInv, KeyInv
  <2>3. Carries(r, f)
    BY <2>1, <2>2 DEF Keeps, Carries
  <2>4. QED BY <2>3
<1>4. QED BY <1>1, <1>2, <1>3, PTL DEF Spec
=============================================================================
