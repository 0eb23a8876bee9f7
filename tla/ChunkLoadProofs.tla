-------------------------- MODULE ChunkLoadProofs ---------------------------
(***************************************************************************)
(* What is proved of ChunkLoad, for any rows and keys, however the table   *)
(* is cut and however often the task fails: no row is copied twice, a      *)
(* loaded table is whole and the triggers sleep; and of Tuning, for any    *)
(* limits, overrides and tables: what it recommends can be carried out.    *)
(***************************************************************************)
EXTENDS ChunkLoad, WellFoundedInduction, TLAPS

ChunkState == {"waiting", "running", "done", "failed", "cancelled"}
InPool == {"copying", "cancelled"}

\* The types of what the invariant is about.
Types ==
  /\ columns \in Described
  /\ edges \subseteq Nat
  /\ source \subseteq Rows /\ due \subseteq source
  /\ pc \in {"start", "cut", "copying", "cancelled", "loaded", "failed", "warning"}
  /\ chunk \in [Ranges -> ChunkState]
  /\ seen \in [Ranges -> SUBSET Rows]
  /\ target \in [Rows -> Nat]
  /\ triggers \in {"none", "on", "off"}

\* Chunks are only read between the truncate and the end of the pool, with the
\* triggers off; before it all of them wait.
PhaseInv ==
  /\ pc \notin InPool => \A c \in Ranges : chunk[c] # "running"
  /\ pc = "cut" => \A c \in Ranges : chunk[c] = "waiting"
  /\ pc = "loaded" => \A c \in Ranges : chunk[c] = "done"
  /\ pc \in InPool => triggers # "on"
  /\ pc = "loaded" => triggers # "off"

\* A row is in the target when its chunk is done and only then.
RowInv ==
  /\ CopiedOnce
  /\ pc \in InPool \cup {"loaded"} =>
       \A c \in Ranges, r \in Rows : InChunk(c, Key[r]) =>
         /\ target[r] >= 1 => chunk[c] = "done"
         /\ r \in due /\ chunk[c] = "running" => r \in seen[c]
         /\ r \in due /\ chunk[c] = "done" => target[r] >= 1

IInv == Types /\ PhaseInv /\ RowInv /\ (pc \in InPool \cup {"loaded", "cut"} => Readable(columns.of, Relation))

\* No key is in two chunks.
LEMMA OneChunk ==
  ASSUME edges \subseteq Nat, NEW k \in Nat, NEW c \in Ranges, NEW d \in Ranges,
         InChunk(c, k), InChunk(d, k)
  PROVE  c = d
<1>1. c \in Int /\ d \in Int
  BY DEF Ranges, Open
<1>2. ASSUME c < d PROVE FALSE
  <2>1. d \in edges
    BY <1>1, <1>2 DEF Ranges, Open, InChunk
  <2>2. QED BY <1>1, <1>2, <2>1 DEF InChunk
<1>3. ASSUME d < c PROVE FALSE
  <2>1. c \in edges
    BY <1>1, <1>3 DEF Ranges, Open, InChunk
  <2>2. QED BY <1>1, <1>3, <2>1 DEF InChunk
<1>4. QED BY <1>1, <1>2, <1>3

\* Every key is in a chunk: the one of the last edge that is not past it.
LEMMA SomeChunk ==
  ASSUME edges \subseteq Nat, NEW k \in Nat
  PROVE  \E c \in Ranges : InChunk(c, k)
<1> DEFINE below == {c \in Ranges : c <= k}
           less == {p \in Nat \X Nat : p[1] < p[2]}
           dist == {d \in Nat : \E c \in below : d = k - c}
<1>1. Ranges \subseteq Int
  BY DEF Ranges, Open
<1>2. k + 1 \in dist
  BY DEF Ranges, Open
<1>3. PICK d \in dist : \A e \in dist : ~(<<e, d>> \in less)
  <2>1. dist \subseteq Nat /\ dist # {}
    BY <1>2
  <2>2. IsWellFoundedOn(less, Nat)
    BY NatLessThanWellFounded DEF OpToRel
  <2> HIDE DEF dist, less
  <2>3. QED BY <2>1, <2>2, WFMin
<1>4. PICK c \in below : d = k - c
  OBVIOUS
<1>5. ASSUME NEW e \in edges, e > c PROVE k < e
  <2>1. CASE e <= k
    <3>1. e \in below /\ k - e \in dist
      BY <1>1, <2>1 DEF Ranges
    <3>2. k - e < d
      BY <1>1, <1>4, <1>5
    <3>3. <<k - e, d>> \in less
      BY <3>1, <3>2
    <3>4. QED BY <1>3, <3>1, <3>3
  <2>2. QED BY <2>1
<1>6. QED BY <1>4, <1>5, <1>1 DEF InChunk

LEMMA IInvInit == Init => IInv
<1> SUFFICES ASSUME Init PROVE IInv
  OBVIOUS
<1>1. Types
  BY DEF Init, Types, Ranges, ChunkState
<1>2. PhaseInv
  BY DEF Init, PhaseInv, Ranges, InPool
<1>3. RowInv
  BY DEF Init, RowInv, CopiedOnce, InPool
<1>4. QED BY <1>1, <1>2, <1>3 DEF IInv, Init, InPool

\* What the source does moves no chunk, and a row that comes or goes is not due.
LEMMA ChangeKeeps ==
  ASSUME IInv, NEW q \in Rows, Change(q)
  PROVE  IInv'
<1>1. /\ due' = due \ {q} /\ due' \subseteq source' /\ source' \subseteq Rows
      /\ UNCHANGED <<columns, edges, pc, chunk, seen, target, triggers>>
  BY DEF Change, IInv, Types, setup, db
<1>2. Types'
  BY <1>1 DEF IInv, Types, Ranges
<1>3. PhaseInv'
  BY <1>1 DEF IInv, PhaseInv, Ranges
<1>4. RowInv'
  BY <1>1 DEF IInv, RowInv, Ranges, CopiedOnce, InChunk
<1>5. QED BY <1>1, <1>2, <1>3, <1>4 DEF IInv, Relation

\* A step outside the pool that moves no chunk and no row.
LEMMA OutsideKeeps ==
  ASSUME IInv, UNCHANGED <<columns, source, edges, chunk, seen, target, triggers, due>>,
         pc \notin InPool, pc' \in {"warning", "failed"}
  PROVE  IInv'
<1>1. Types'
  BY DEF IInv, Types, Ranges
<1>2. PhaseInv'
  BY DEF IInv, PhaseInv, Ranges, InPool
<1>3. RowInv'
  BY DEF IInv, RowInv, InPool, CopiedOnce
<1>4. QED BY <1>1, <1>2, <1>3 DEF IInv, InPool

LEMMA CutKeeps ==
  ASSUME IInv, NEW probed \in BOOLEAN, Cut(probed)
  PROVE  IInv'
<1>1. /\ UNCHANGED <<columns, source, target, triggers, due>>
      /\ pc' = "cut"
      /\ chunk' = [c \in Ranges' |-> "waiting"] /\ seen' = [c \in Ranges' |-> {}]
  BY DEF Cut, setup, db, Ranges
<1>2. edges' \subseteq Nat
  <2>1. ASSUME NEW b \in Bounds, NEW n PROVE Edges(b[1], b[2], n) \subseteq Nat
    <3>1. b[1] \in Nat /\ b[2] \in Nat
      BY RowsAssumption DEF Bounds, IInv, Types
    <3>2. QED BY <3>1 DEF Edges
  <2>2. QED BY <2>1 DEF Cut
<1>3. Types'
  BY <1>1, <1>2 DEF IInv, Types, ChunkState
<1>4. PhaseInv'
  BY <1>1 DEF IInv, PhaseInv, InPool
<1>5. RowInv'
  BY <1>1 DEF IInv, RowInv, InPool, CopiedOnce
<1>6. Readable(columns.of, Relation)'
  BY <1>1 DEF Cut, Relation
<1>7. QED BY <1>3, <1>4, <1>5, <1>6 DEF IInv

LEMMA TruncateKeeps ==
  ASSUME IInv, Truncate
  PROVE  IInv'
<1>1. /\ UNCHANGED <<columns, source, edges, chunk, seen>>
      /\ pc = "cut" /\ pc' = "copying"
      /\ target' = [r \in Rows |-> 0] /\ due' = source
      /\ triggers' = IF triggers = "none" THEN "none" ELSE "off"
  BY DEF Truncate, setup
<1>2. Types'
  BY <1>1 DEF IInv, Types, Ranges
<1>3. PhaseInv'
  BY <1>1 DEF IInv, PhaseInv, Ranges, InPool
<1>4. RowInv'
  BY <1>1 DEF IInv, RowInv, PhaseInv, InPool, CopiedOnce, Ranges
<1>5. QED BY <1>1, <1>2, <1>3, <1>4 DEF IInv, Relation

\* A chunk is read by whoever takes it from the moment it is taken, with the rows due by then.
LEMMA StartKeeps ==
  ASSUME IInv, StartChunk
  PROVE  IInv'
<1>1. PICK c \in Ranges : /\ chunk[c] = "waiting"
                          /\ chunk' = [chunk EXCEPT ![c] = "running"]
                          /\ seen' = [seen EXCEPT ![c] = source]
  BY DEF StartChunk, InState
<1>2. pc = "copying" /\ UNCHANGED <<columns, source, edges, pc, target, triggers, due>>
  BY DEF StartChunk, setup, db
<1>3. Types'
  BY <1>1, <1>2 DEF IInv, Types, Ranges, ChunkState
<1>4. PhaseInv'
  BY <1>1, <1>2 DEF IInv, PhaseInv, Ranges, InPool
<1>5. RowInv'
  <2>1. CopiedOnce'
    BY <1>2 DEF IInv, RowInv, CopiedOnce
  <2>2. ASSUME NEW d \in Ranges', NEW r \in Rows, InChunk(d, Key[r])'
        PROVE  /\ target'[r] >= 1 => chunk'[d] = "done"
               /\ r \in due' /\ chunk'[d] = "running" => r \in seen'[d]
               /\ r \in due' /\ chunk'[d] = "done" => target'[r] >= 1
    <3>1. d \in Ranges /\ InChunk(d, Key[r])
      BY <1>2, <2>2 DEF Ranges, InChunk
    <3>2. /\ target[r] >= 1 => chunk[d] = "done"
          /\ r \in due /\ chunk[d] = "running" => r \in seen[d]
          /\ r \in due /\ chunk[d] = "done" => target[r] >= 1
      BY <1>2, <3>1 DEF IInv, RowInv, InPool
    <3>3. due \subseteq source /\ chunk \in [Ranges -> ChunkState] /\ seen \in [Ranges -> SUBSET Rows]
      BY DEF IInv, Types
    <3>4. QED BY <1>1, <1>2, <3>1, <3>2, <3>3
  <2>3. QED BY <2>1, <2>2 DEF RowInv
<1>6. QED BY <1>2, <1>3, <1>4, <1>5 DEF IInv, Relation

\* A committed chunk brings every row of its range that is due, and no other chunk has one of them.
LEMMA CommitKeeps ==
  ASSUME IInv, NEW c \in Ranges, Commit(c)
  PROVE  IInv'
<1>1. PICK extra \in SUBSET ((source \ seen[c]) \cup (seen[c] \ source)) :
        target' = [r \in Rows |-> IF r \in {q \in (source \cap seen[c]) \cup extra : InChunk(c, Key[q])}
                                  THEN target[r] + 1 ELSE target[r]]
  BY DEF Commit
<1> DEFINE read == {q \in (source \cap seen[c]) \cup extra : InChunk(c, Key[q])}
<1>2. /\ chunk[c] = "running"
      /\ chunk' = [chunk EXCEPT ![c] = "done"] /\ seen' = [seen EXCEPT ![c] = {}]
      /\ UNCHANGED <<columns, source, edges, pc, triggers, due>>
  BY DEF Commit, InState, setup
<1>3. pc \in InPool
  BY <1>2 DEF IInv, PhaseInv
<1>4. /\ edges \subseteq Nat /\ due \subseteq source /\ source \subseteq Rows
      /\ chunk \in [Ranges -> ChunkState] /\ seen \in [Ranges -> SUBSET Rows]
      /\ target \in [Rows -> Nat]
  BY DEF IInv, Types
<1>5. target' = [r \in Rows |-> IF r \in read THEN target[r] + 1 ELSE target[r]]
  BY <1>1
<1> HIDE DEF read
<1>6. Types'
  <2>1. target' \in [Rows -> Nat]
    BY <1>4, <1>5
  <2>2. QED BY <1>2, <1>4, <2>1 DEF IInv, Types, Ranges, ChunkState
<1>7. PhaseInv'
  BY <1>2, <1>3, <1>4 DEF IInv, PhaseInv, Ranges, InPool
<1>8. ASSUME NEW r \in Rows, NEW d \in Ranges, InChunk(d, Key[r])
      PROVE  /\ target[r] >= 1 => chunk[d] = "done"
             /\ r \in due /\ chunk[d] = "running" => r \in seen[d]
             /\ r \in due /\ chunk[d] = "done" => target[r] >= 1
  BY <1>3, <1>8 DEF IInv, RowInv
<1>9. ASSUME NEW r \in read, r \in Rows PROVE InChunk(c, Key[r]) /\ target[r] = 0
  <2>1. InChunk(c, Key[r])
    BY DEF read
  <2>2. QED BY <1>2, <1>4, <1>8, <1>9, <2>1
<1>10. RowInv'
  <2>1. CopiedOnce'
    <3>1. CopiedOnce
      BY DEF IInv, RowInv
    <3>2. QED BY <1>4, <1>5, <1>9, <3>1 DEF CopiedOnce
  <2>2. ASSUME NEW d \in Ranges', NEW r \in Rows, InChunk(d, Key[r])'
        PROVE  /\ target'[r] >= 1 => chunk'[d] = "done"
               /\ r \in due' /\ chunk'[d] = "running" => r \in seen'[d]
               /\ r \in due' /\ chunk'[d] = "done" => target'[r] >= 1
    <3>1. d \in Ranges /\ InChunk(d, Key[r])
      BY <1>2, <2>2 DEF Ranges, InChunk
    <3>2. Key[r] \in Nat
      BY RowsAssumption
    <3>3. CASE d = c
      <4>1. r \in due => r \in read
        BY <1>2, <1>4, <1>8, <3>1, <3>3 DEF read
      <4>2. QED BY <1>2, <1>4, <1>5, <3>3, <4>1
    <3>4. CASE d # c
      <4>1. r \notin read
        BY <1>4, <1>9, <3>1, <3>2, <3>4, OneChunk
      <4>2. QED BY <1>2, <1>4, <1>5, <1>8, <3>1, <3>4, <4>1
    <3>5. QED BY <3>3, <3>4
  <2>3. QED BY <2>1, <2>2 DEF RowInv
<1>11. Readable(columns.of, Relation)'
  BY <1>2, <1>3 DEF IInv, Relation
<1>12. QED BY <1>6, <1>7, <1>10, <1>11 DEF IInv

\* A chunk that fails, or never starts, leaves the target alone.
LEMMA FailKeeps ==
  ASSUME IInv, NEW c \in Ranges, FailChunk(c)
  PROVE  IInv'
<1>1. /\ chunk[c] = "running"
      /\ chunk' = [chunk EXCEPT ![c] = "failed"] /\ seen' = [seen EXCEPT ![c] = {}]
      /\ UNCHANGED <<columns, source, edges, pc, target, triggers, due>>
  BY DEF FailChunk, InState, setup, db
<1>2. pc \in InPool
  BY <1>1 DEF IInv, PhaseInv
<1>3. Types'
  BY <1>1 DEF IInv, Types, Ranges, ChunkState
<1>4. PhaseInv'
  BY <1>1, <1>2 DEF IInv, Types, PhaseInv, Ranges, InPool
<1>5. RowInv'
  BY <1>1, <1>2 DEF IInv, Types, RowInv, Ranges, CopiedOnce, InChunk
<1>6. QED BY <1>1, <1>3, <1>4, <1>5 DEF IInv, Relation

LEMMA CancelKeeps ==
  ASSUME IInv, Cancel
  PROVE  IInv'
<1>1. /\ pc = "copying" /\ pc' = "cancelled"
      /\ chunk' = [c \in Ranges |-> IF chunk[c] = "waiting" THEN "cancelled" ELSE chunk[c]]
      /\ UNCHANGED <<columns, source, edges, seen, target, triggers, due>>
  BY DEF Cancel, setup, db
<1>2. Types'
  BY <1>1 DEF IInv, Types, Ranges, ChunkState
<1>3. PhaseInv'
  BY <1>1 DEF IInv, PhaseInv, Ranges, InPool
<1>4. RowInv'
  BY <1>1 DEF IInv, Types, RowInv, Ranges, CopiedOnce, InChunk, InPool
<1>5. QED BY <1>1, <1>2, <1>3, <1>4 DEF IInv, Relation, InPool

\* The pool is only left when none of its chunks runs, so that the triggers are on again
\* for nobody.
LEMMA CloseKeeps ==
  ASSUME IInv, NEW enabled \in BOOLEAN, Close(enabled)
  PROVE  IInv'
<1>1. /\ pc \in InPool /\ pc' \in {"loaded", "failed"}
      /\ pc' = "loaded" => pc = "copying" /\ enabled
      /\ triggers' = IF enabled /\ triggers = "off" THEN "on" ELSE triggers
      /\ UNCHANGED <<columns, source, edges, chunk, seen, target, due>>
  BY DEF Close, PoolOver, setup, InPool
<1>2. /\ \A c \in Ranges : chunk[c] # "running"
      /\ pc = "copying" => \A c \in Ranges : chunk[c] = "done"
  BY <1>1 DEF Close, PoolOver, InState
<1>3. Types'
  BY <1>1 DEF IInv, Types, Ranges
<1>4. PhaseInv'
  BY <1>1, <1>2 DEF IInv, Types, PhaseInv, Ranges, InPool
<1>5. RowInv'
  BY <1>1 DEF IInv, RowInv, Ranges, CopiedOnce, InChunk, InPool
<1>6. QED BY <1>1, <1>3, <1>4, <1>5 DEF IInv, Relation, InPool

LEMMA RetryKeeps ==
  ASSUME IInv, Retry
  PROVE  IInv'
<1>1. /\ pc' = "start" /\ edges' = {}
      /\ chunk' = [c \in {Open} |-> "waiting"] /\ seen' = [c \in {Open} |-> {}]
      /\ UNCHANGED <<columns, source, target, triggers, due>>
  BY DEF Retry, setup, db
<1>2. Types'
  BY <1>1 DEF IInv, Types, Ranges, ChunkState
<1>3. PhaseInv'
  BY <1>1 DEF IInv, PhaseInv, Ranges, InPool
<1>4. RowInv'
  BY <1>1 DEF IInv, RowInv, CopiedOnce, InPool
<1>5. QED BY <1>1, <1>2, <1>3, <1>4 DEF IInv, InPool

\* Every step keeps the invariant.
LEMMA IInvNext == IInv /\ [Next]_vars => IInv'
<1> SUFFICES ASSUME IInv, [Next]_vars PROVE IInv'
  OBVIOUS
<1>1. ASSUME Warn PROVE IInv'
  BY <1>1, OutsideKeeps DEF Warn, setup, db, InPool
<1>2. ASSUME Raise PROVE IInv'
  BY <1>2, OutsideKeeps DEF Raise, setup, db, InPool
<1>3. ASSUME NEW probed \in BOOLEAN, Cut(probed) PROVE IInv'
  BY <1>3, CutKeeps
<1>4. ASSUME NEW c \in Ranges, Commit(c) \/ FailChunk(c) PROVE IInv'
  BY <1>4, CommitKeeps, FailKeeps
<1>5. ASSUME NEW enabled \in BOOLEAN, Close(enabled) PROVE IInv'
  BY <1>5, CloseKeeps
<1>6. ASSUME NEW r \in Rows, Change(r) PROVE IInv'
  BY <1>6, ChangeKeeps
<1>7. ASSUME UNCHANGED vars PROVE IInv'
  BY <1>7 DEF vars, setup, db, IInv, Types, PhaseInv, RowInv, Ranges, CopiedOnce, InChunk, Relation
<1>8. QED
  BY <1>1, <1>2, <1>3, <1>4, <1>5, <1>6, <1>7, TruncateKeeps, StartKeeps, CancelKeeps, RetryKeeps
  DEF Next, TaskStep

\* The inductive invariant, for any rows, keys, limits and columns.
THEOREM Invariance == Spec => []IInv
<1>1. QED BY IInvInit, IInvNext, PTL DEF Spec

\* No row is in the target twice, however the keys are cut and whatever fails.
THEOREM RowsOnce == Spec => []CopiedOnce
<1>1. IInv => CopiedOnce
  BY DEF IInv, RowInv
<1>2. QED BY <1>1, Invariance, PTL

\* A loaded table has every row it had to have, and every column of it.
THEOREM LoadIsWhole == Spec => []LoadedIsWhole
<1>1. ASSUME IInv, pc = "loaded", NEW r \in due PROVE target[r] >= 1
  <2>1. r \in Rows /\ Key[r] \in Nat /\ edges \subseteq Nat
    BY <1>1, RowsAssumption DEF IInv, Types
  <2>2. PICK c \in Ranges : InChunk(c, Key[r])
    BY <2>1, SomeChunk
  <2>3. chunk[c] = "done"
    BY <1>1 DEF IInv, PhaseInv
  <2>4. QED BY <1>1, <2>1, <2>2, <2>3 DEF IInv, RowInv
<1>2. ASSUME IInv, pc = "loaded", NEW n \in DOMAIN columns.of
      PROVE  /\ n \in Brought(columns.of, Relation)
             /\ \/ Relation[n] = SourceSelect(columns.of)[n]
                \/ Relation[n] = "value" /\ SourceSelect(columns.of)[n] = "reference"
  <2>1. Readable(columns.of, Relation) /\ columns \in Described
    BY <1>2 DEF IInv, Types
  <2>2. /\ columns.known \in BOOLEAN
        /\ ~columns.known => ~columns.of[n].hidden
    BY <2>1, <1>2, DescribedAssumption
  <2>3. Relation[n] = IF columns.known THEN Projected(columns.of[n]) ELSE "reference"
    BY <1>2, <2>2 DEF Relation, SourceRelation
  <2>4. SourceSelect(columns.of)[n] = IF CastTemplate(columns.of[n]) # "none"
                                      THEN CastTemplate(columns.of[n]) ELSE "reference"
    BY <1>2 DEF SourceSelect
  <2>5. n \in Brought(columns.of, Relation)
    BY <1>2, <2>2, <2>3 DEF Brought, Projected, CastTemplate, SOURCE_CASTS
  <2>6. Relation[n] = "reference" => CastTemplate(columns.of[n]) = "none"
    BY <2>1, <2>5 DEF Readable
  <2>7. QED BY <2>2, <2>3, <2>4, <2>5, <2>6 DEF Projected
<1>3. IInv => LoadedIsWhole
  BY <1>1, <1>2 DEF LoadedIsWhole, Brought
<1>4. QED BY <1>3, Invariance, PTL

\* The triggers of the target never fire for a row the load brings.
THEOREM TriggersAsleep == Spec => []TriggersSleep
<1>1. IInv => TriggersSleep
  BY DEF IInv, PhaseInv, TriggersSleep
<1>2. QED BY <1>1, Invariance, PTL

\* A positive size cut in positive parts has a positive number of parts.
LEMMA CeilingPos ==
  ASSUME NEW a \in Positive, NEW b \in Positive
  PROVE  Ceiling(a, b) \in Positive
<1> DEFINE n == a + b - 1
           q == n \div b
<1>1. n \in Nat /\ n >= b /\ b \in Nat /\ b > 0
  BY DEF Positive
<1>2. q = Ceiling(a, b)
  BY DEF Ceiling
<1> HIDE DEF n
<1>3. q \in Int /\ n % b \in 0 .. b - 1 /\ n = (b * q) + (n % b)
  BY <1>1
<1> HIDE DEF q
<1>4. ASSUME q <= 0 PROVE FALSE
  <2>1. b * q <= 0
    BY <1>1, <1>3, <1>4
  <2>2. n < b
    BY <1>1, <1>3, <2>1
  <2>3. QED BY <1>1, <2>2
<1>5. QED BY <1>2, <1>3, <1>4 DEF Positive

LEMMA StreamsPos ==
  ASSUME NEW c \in Limits, NEW o \in Overrides
  PROVE  Streams(c, o) \in Positive
<1>1. Free(c) \in Nat \cup {Nothing}
  BY DEF Free, Limits, Maybe, Larger, Nothing
<1>2. TargetBudget(c) = Nothing \/ TargetBudget(c) \in Positive
  BY <1>1 DEF TargetBudget, Larger, Nothing, Positive
<1>3. SourceBudget(c) = Nothing \/ SourceBudget(c) \in Positive
  BY DEF SourceBudget, Limits, Larger, Smaller, Nothing, Positive
<1>4. o.streams = Nothing \/ o.streams \in Positive
  BY DEF Overrides, Maybe
<1>5. QED BY <1>2, <1>3, <1>4, TuningAssumption DEF Streams, Smaller, Positive

LEMMA ChunksPos ==
  ASSUME NEW t \in TableRef
  PROVE  Chunks(t) \in Positive
<1>1. t.bytes \in Nat /\ (t.rows = Nothing \/ t.rows \in Nat)
  BY DEF TableRef, Maybe
<1>2. t.bytes > 0 => Ceiling(t.bytes, CHUNK_BYTES) \in Positive
  BY <1>1, CeilingPos, TuningAssumption DEF Positive
<1>3. t.rows # Nothing /\ t.rows # 0 => Ceiling(t.rows, CHUNK_ROWS) \in Positive
  BY <1>1, CeilingPos, TuningAssumption DEF Positive
<1>4. QED BY <1>1, <1>2, <1>3, TuningAssumption DEF Chunks, Smaller, Positive

\* Unless the project asks for more, a load is never given more streams than the target has free.
LEMMA StreamsFree ==
  ASSUME NEW c \in Limits, NEW o \in Overrides, Free(c) # Nothing
  PROVE  Streams(c, o) <= Larger(1, Free(c)) \/ Warned(c, o)
<1>1. Free(c) \in Nat
  BY DEF Free, Limits, Maybe, Larger, Nothing
<1>2. CASE o.streams # Nothing
  <2>1. o.streams \in Positive
    BY <1>2 DEF Overrides, Maybe
  <2>2. QED BY <1>1, <1>2, <2>1 DEF Streams, Warned, Larger, Positive
<1>3. CASE o.streams = Nothing
  <2>1. TargetBudget(c) \in Positive /\ TargetBudget(c) <= Larger(1, Free(c))
    BY <1>1 DEF TargetBudget, Larger, Nothing, Positive
  <2>2. SourceBudget(c) = Nothing \/ SourceBudget(c) \in Positive
    BY DEF SourceBudget, Limits, Larger, Smaller, Nothing, Positive
  <2>3. Streams(c, o) <= TargetBudget(c)
    BY <1>3, <2>1, <2>2, TuningAssumption DEF Streams, Smaller, Nothing, Positive
  <2>4. Streams(c, o) \in Positive
    BY StreamsPos
  <2>5. QED BY <1>1, <2>1, <2>3, <2>4 DEF Larger, Positive
<1>4. QED BY <1>2, <1>3

\* Whatever the limits, the overrides and the tables, what is recommended can be carried out.
THEOREM RecommendationFits ==
  ASSUME NEW count \in Positive, NEW tables, \A i \in 1 .. count : tables[i] \in TableRef,
         NEW c \in Limits, NEW o \in Overrides
  PROVE  Fits(Recommend(tables, count, c, o), count, c, o)
<1> DEFINE p == Recommend(tables, count, c, o)
           streams == Streams(c, o)
           cap == Cap(streams, count)
<1>1. streams \in Positive
  BY StreamsPos
<1>2. /\ p.streams = streams
      /\ p.parallel = Larger(1, Smaller(Smaller(count, streams), MAX_TABLES))
      /\ p.warned = Warned(c, o)
      /\ \A i \in 1 .. count : /\ p.tables[i].chunks = Chunks(tables[i])
                               /\ p.tables[i].streams = TableStreams(Chunks(tables[i]), cap, o)
  BY DEF Recommend
<1> HIDE DEF p, streams
<1>3. p.parallel \in 1 .. streams
  BY <1>1, <1>2, TuningAssumption DEF Larger, Smaller, Positive
<1>4. /\ cap \in 1 .. streams
      /\ count > 1 => 2 * cap <= streams + 1
  BY <1>1 DEF Cap, Larger, Ceiling, Positive
<1> HIDE DEF cap
<1>5. ASSUME NEW i \in 1 .. count
      PROVE  /\ p.tables[i].streams \in 1 .. cap
             /\ p.tables[i].streams <= p.tables[i].chunks
  <2>1. Chunks(tables[i]) \in Positive
    BY ChunksPos
  <2>2. o.table = Nothing \/ o.table \in Positive
    BY DEF Overrides, Maybe
  <2>3. cap \in Positive
    BY <1>1, <1>4 DEF Positive
  <2>4. QED BY <1>2, <2>1, <2>2, <2>3, TuningAssumption DEF TableStreams, Smaller, Positive
<1>6. Free(c) # Nothing => p.streams <= Larger(1, Free(c)) \/ p.warned
  BY <1>2, StreamsFree DEF streams
<1>7. ASSUME NEW i \in 1 .. count
      PROVE  /\ p.tables[i].streams \in 1 .. p.streams
             /\ count > 1 /\ p.streams > 1 => 2 * p.tables[i].streams <= p.streams + 1
  BY <1>1, <1>2, <1>4, <1>5 DEF Positive
<1>8. QED BY <1>1, <1>2, <1>3, <1>5, <1>6, <1>7 DEF Fits, p

\* The limits and overrides the notebook is generated from stay what they were.
SetupInv == limits \in Limits /\ overrides \in Overrides

\* Whatever is probed, the plan the notebook is generated with can be carried out.
THEOREM GeneratedPlanFits == Spec => []PlanFits
<1>1. Init => SetupInv
  <2>1. ASSUME NEW t \in TargetReads, NEW v \in SourceReads PROVE Probe(t, v) \in Limits
    <3>1. t \in [max : Maybe(Nat), reserved : Nat, used : Nat] /\ v[1] \in View /\ v[2] \in View
      BY SetupAssumption
    <3>2. Source(v).quarters \in Nat /\ Source(v).workers \in Nat
      BY <3>1 DEF Source, View
    <3>3. QED BY <3>1, <3>2 DEF Probe, Limits
  <2>2. QED BY <2>1, SetupAssumption DEF Init, SetupInv
<1>2. SetupInv /\ [Next]_vars => SetupInv'
  BY DEF SetupInv, Next, TaskStep, vars, setup, Warn, Cut, Truncate, Raise, StartChunk,
         Commit, FailChunk, Cancel, Close, Retry, Change
<1>3. SetupInv => PlanFits
  BY RecommendationFits, SetupAssumption DEF SetupInv, PlanFits, Plan, Count, Positive
<1>4. QED BY <1>1, <1>2, <1>3, PTL DEF Spec
=============================================================================
