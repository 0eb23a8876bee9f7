----------------------------- MODULE ChunkLoad ------------------------------
(***************************************************************************)
(* One table of the snapshot, as the loader notebook copies it             *)
(* (snapshot_table of backend/data_migration/etl_generator.py), while the  *)
(* source goes on changing.                                                *)
(*                                                                         *)
(* The columns are looked up (SourceColumns);                              *)
(* the key range is probed and cut at the recommended number of chunks;    *)
(* the target is truncated with its triggers disabled, in one transaction; *)
(* a pool of threads copies the chunks, each in a transaction of its own;  *)
(* when one fails those that run finish and the rest never start; and the  *)
(* triggers are enabled again, whatever happened.  The task may be killed  *)
(* at any point, and is retried.                                           *)
(*                                                                         *)
(* A row has a key that never changes.  A chunk is named by its lower      *)
(* edge, the first one by Open.                                            *)
(***************************************************************************)
EXTENDS Tuning, SourceColumns, FiniteSets

CONSTANTS
  Rows,          \* the rows the source ever has
  Key,           \* key of each row
  Globes,        \* rows with a FULLGLOBE in their geography columns
  Described,     \* the columns of the table, and whether the catalogue tells of them
  Tables,        \* the statistics of the tables of the load, the copied one first
  TargetReads,   \* what the target may say of its connections
  SourceReads,   \* what the two views of the source may say of its limits
  OverridesSet,  \* the overrides the project may have
  MaxAttempts,   \* bound: runs of the task
  MaxChanges     \* bound: rows inserted or deleted at the source

\* Whoever cannot look up the columns of a table could not list it either, so that such
\* a table is taken to have no hidden column.
ASSUME DescribedAssumption ==
  \A d \in Described : d.known \in BOOLEAN /\ (d.known \/ \A n \in DOMAIN d.of : ~d.of[n].hidden)
ASSUME SetupAssumption ==
  /\ Tables[1] \in TableRef /\ Tables[2] \in TableRef
  /\ TargetReads \subseteq [max : Maybe(Nat), reserved : Nat, used : Nat]
  /\ \A v \in SourceReads : v[1] \in View /\ v[2] \in View
  /\ OverridesSet \subseteq Overrides
ASSUME RowsAssumption == IsFiniteSet(Rows) /\ Key \in [Rows -> Nat] /\ Globes \subseteq Rows

VARIABLES
  limits, overrides,  \* what the notebook was generated from
  columns,     \* the columns of the table, see Described
  grain,       \* 2 when keys are datetimes: edges are cut on whole seconds
  source,      \* rows in the source
  pc,          \* where snapshot_table is
  edges,       \* cut points between the chunks
  chunk,       \* how far each chunk is
  seen,        \* rows the source had when the read of a running chunk began
  target,      \* how often each row is in the target
  triggers,    \* the target's own triggers: "none", "on" or "off"
  due,         \* rows there at the truncate and ever since
  attempts, changes

setup == <<limits, overrides, columns, grain>>
db == <<target, triggers>>
bounds == <<attempts, changes>>
vars == <<setup, source, pc, edges, chunk, seen, db, due, bounds>>

Count == 2
Plan == Recommend(Tables, Count, limits, overrides)

Relation == SourceRelation(columns.of, columns.known)
Refused == IF NeedGlobes(columns.of) = {} THEN {} ELSE Globes

Open == -1
Ranges == edges \cup {Open}

\* Mutant: a range takes both of its edges.
InClosedChunk(c, k) == k >= c /\ \A e \in edges : e > c => k <= e

\* Mutant: a range takes none of its edges.
InOpenChunk(c, k) == k > c /\ \A e \in edges : e > c => k < e

\* _chunk_where(): the first range and the last are open-ended.
InChunk(c, k) == k >= c /\ \A e \in edges : e > c => k < e

InState(st) == {c \in Ranges : chunk[c] = st}
TableStreamsOf == Larger(1, Smaller(Plan.tables[1].streams, Cardinality(Ranges)))

\* SELECT MIN, MAX of the key.
Bounds == {b \in {<<Key[q], Key[r]>> : q, r \in source} : \A r \in source : Key[r] \in b[1] .. b[2]}

\* _chunk_edges(): a datetime edge loses its fraction of a second.
Edges(lo, hi, n) ==
  {e \in lo + 1 .. hi :
     \E i \in 1 .. n - 1 : LET at == lo + ((hi - lo) * i) \div n IN e = at - (at % grain)}

Init ==
  /\ limits \in {Probe(t, v) : t \in TargetReads, v \in SourceReads}
  /\ overrides \in OverridesSet
  /\ columns \in Described
  /\ grain \in {1, 2}
  /\ source \in SUBSET Rows
  /\ pc = "start"
  /\ edges = {}
  /\ chunk = [c \in {Open} |-> "waiting"]
  /\ seen = [c \in {Open} |-> {}]
  /\ target = [r \in Rows |-> 0]
  /\ triggers \in {"none", "on"}
  /\ due = {}
  /\ attempts = 1
  /\ changes = 0

\* The source goes on: a row is inserted or deleted.
Change(r) ==
  /\ changes < MaxChanges
  /\ changes' = changes + 1
  /\ source' = IF r \in source THEN source \ {r} ELSE source \cup {r}
  /\ due' = due \ {r}
  /\ UNCHANGED <<setup, pc, edges, chunk, seen, db, attempts>>

\* _full_globes(): values the cast cannot keep, in a column that needs one.  The
\* table is skipped with a warning before anything is changed.
Warn ==
  /\ pc = "start"
  /\ source \cap Refused # {}
  /\ pc' = "warning"
  /\ UNCHANGED <<setup, source, edges, chunk, seen, db, due, bounds>>

\* _bounds() and _chunk_edges(): the table is read as one chunk when the plan says so,
\* the probe fails, or the keys cannot be cut.  Then the relation's columns are asked for.
Cut(probed) ==
  /\ pc = "start"
  /\ source \cap Refused = {}
  /\ Readable(columns.of, Relation)
  /\ pc' = "cut"
  /\ edges' \in IF probed /\ Plan.tables[1].chunks > 1 /\ Cardinality({Key[r] : r \in source}) > 1
                THEN {Edges(b[1], b[2], Plan.tables[1].chunks) : b \in Bounds} ELSE {{}}
  /\ chunk' = [c \in edges' \cup {Open} |-> "waiting"]
  /\ seen' = [c \in edges' \cup {Open} |-> {}]
  /\ UNCHANGED <<setup, source, db, due, bounds>>

\* The triggers are disabled and the table truncated, in one transaction.
Truncate ==
  /\ pc = "cut"
  /\ pc' = "copying"
  /\ target' = [r \in Rows |-> 0]
  /\ triggers' = IF triggers = "none" THEN "none" ELSE "off"
  /\ due' = source
  /\ UNCHANGED <<setup, source, edges, chunk, seen, bounds>>

\* The source or the target does not answer, or the target table is not there.
Raise ==
  /\ pc \in {"start", "cut"}
  /\ pc' = "failed"
  /\ UNCHANGED <<setup, source, edges, chunk, seen, db, due, bounds>>

\* A thread of the pool takes the next chunk and begins to read it.
StartChunk ==
  /\ pc = "copying"
  /\ Cardinality(InState("running")) < TableStreamsOf
  /\ \E c \in InState("waiting") :
       /\ \A d \in InState("waiting") : c <= d
       /\ chunk' = [chunk EXCEPT ![c] = "running"]
       /\ seen' = [seen EXCEPT ![c] = source]
  /\ UNCHANGED <<setup, source, pc, edges, db, due, bounds>>

\* The COPY of the chunk commits.  A row that came or went while the chunk was read
\* is in it or not.  The target refuses a NULL where a value is needed.
Commit(c) ==
  /\ c \in InState("running")
  /\ chunk' = [chunk EXCEPT ![c] = "done"]
  /\ \E extra \in SUBSET ((source \ seen[c]) \cup (seen[c] \ source)) :
       LET read == {r \in (source \cap seen[c]) \cup extra : InChunk(c, Key[r])}
       IN  /\ read \cap Refused = {}
           /\ target' = [r \in Rows |-> IF r \in read THEN target[r] + 1 ELSE target[r]]
  /\ seen' = [seen EXCEPT ![c] = {}]
  /\ UNCHANGED <<setup, source, pc, edges, triggers, due, bounds>>

\* The read or the COPY fails: the chunk's transaction is rolled back.
FailChunk(c) ==
  /\ c \in InState("running")
  /\ chunk' = [chunk EXCEPT ![c] = "failed"]
  /\ seen' = [seen EXCEPT ![c] = {}]
  /\ UNCHANGED <<setup, source, pc, edges, db, due, bounds>>

\* "The chunks already running finish; the rest never start."
Cancel ==
  /\ pc = "copying"
  /\ InState("failed") # {}
  /\ pc' = "cancelled"
  /\ chunk' = [c \in Ranges |-> IF chunk[c] = "waiting" THEN "cancelled" ELSE chunk[c]]
  /\ UNCHANGED <<setup, source, edges, seen, db, due, bounds>>

\* Mutant: the pool is not waited for.
PoolLeft ==
  \/ pc = "cancelled"
  \/ pc = "copying" /\ InState("done") = Ranges

\* The pool is left when none of its threads is busy.
PoolOver ==
  \/ pc = "cancelled" /\ InState("running") = {}
  \/ pc = "copying" /\ InState("done") = Ranges

\* finally: the triggers are enabled again, which may fail like any statement; then
\* the exception of the chunk goes on, or the table is loaded.
Close(enabled) ==
  /\ PoolOver
  /\ enabled \/ triggers = "off"
  /\ triggers' = IF enabled /\ triggers = "off" THEN "on" ELSE triggers
  /\ pc' = IF pc = "copying" /\ enabled THEN "loaded" ELSE "failed"
  /\ UNCHANGED <<setup, source, edges, chunk, seen, target, due, bounds>>

\* The task is killed, or has failed, and runs again: what its chunks had not
\* committed is rolled back.
Retry ==
  /\ pc \notin {"loaded", "warning"}
  /\ attempts < MaxAttempts
  /\ attempts' = attempts + 1
  /\ pc' = "start"
  /\ edges' = {}
  /\ chunk' = [c \in {Open} |-> "waiting"]
  /\ seen' = [c \in {Open} |-> {}]
  /\ UNCHANGED <<setup, source, db, due, changes>>

TaskStep ==
  \/ Warn
  \/ \E probed \in BOOLEAN : Cut(probed)
  \/ Truncate
  \/ Raise
  \/ StartChunk
  \/ \E c \in Ranges : Commit(c) \/ FailChunk(c)
  \/ Cancel
  \/ \E enabled \in BOOLEAN : Close(enabled)
  \/ Retry

Next == TaskStep \/ \E r \in Rows : Change(r)

Spec == Init /\ [][Next]_vars
-----------------------------------------------------------------------------
(***************************************************************************)
(* Properties.                                                             *)
(***************************************************************************)

\* No row of the source is in the target twice, however the keys are cut, whatever is
\* inserted between the probe, the truncate and the reads, and however often the task
\* fails and runs again.
CopiedOnce == \A r \in Rows : target[r] <= 1

\* A table that is reported as loaded has every row the source had at the truncate and
\* has kept: "no row is ever left between chunks, whatever was inserted after the
\* bounds probe" (_chunk_where).  Every column came with them, hidden ones too, converted
\* as the in-app load converts it (source_casts).
LoadedIsWhole ==
  pc = "loaded" =>
    /\ \A r \in due : target[r] >= 1
    /\ Brought(columns.of, Relation) = DOMAIN columns.of
    /\ \A n \in DOMAIN columns.of :
         LET async == Relation[n]  inApp == SourceSelect(columns.of)[n]
         IN  async = inApp \/ (async = "value" /\ inApp = "reference")

\* The target's triggers never fire for a bulk-loaded row, not even one of a chunk that
\* was still running when another failed; and a loaded table has them back.
TriggersSleep ==
  /\ \A c \in Ranges : chunk[c] = "running" => triggers # "on"
  /\ pc = "loaded" => triggers # "off"

\* What the notebook is generated with can be carried out (see Fits).
PlanFits == Fits(Plan, Count, limits, overrides)
=============================================================================
