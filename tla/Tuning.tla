------------------------------- MODULE Tuning -------------------------------
(***************************************************************************)
(* The recommendation of a load's tuning                                   *)
(* (backend/data_migration/tuning.py): from what the live source and       *)
(* target allow, the sizes of the tables and the project's overrides, how  *)
(* many connections the snapshot may hold, and for each table how many     *)
(* chunks it is read in and how many of them at a time.                    *)
(*                                                                         *)
(* The limits are a record: the target's connections (max, reserved,       *)
(* used), the source's vCores in quarters and its worker threads.  Nothing *)
(* stands for a value that could not be read, or is not overridden.        *)
(***************************************************************************)
EXTENDS Integers

CONSTANTS
  CHUNK_BYTES, CHUNK_ROWS, MAX_CHUNKS, DEFAULT_CHUNKS,
  MAX_TABLE_STREAMS, MAX_TABLES, DEFAULT_STREAMS, MAX_STREAMS,
  FETCH_BYTES, FETCH_MIN, FETCH_MAX, FETCH_DEFAULT, FETCH_STEP

Positive == Nat \ {0}

ASSUME TuningAssumption ==
  /\ {CHUNK_BYTES, CHUNK_ROWS, MAX_CHUNKS, DEFAULT_CHUNKS} \subseteq Positive
  /\ {MAX_TABLE_STREAMS, MAX_TABLES, DEFAULT_STREAMS, MAX_STREAMS} \subseteq Positive
  /\ {FETCH_BYTES, FETCH_MIN, FETCH_MAX, FETCH_DEFAULT, FETCH_STEP} \subseteq Positive

Nothing == -1
Maybe(S) == S \cup {Nothing}

View == [quarters : Nat, workers : Nat]
Limits == [max : Maybe(Nat), reserved : Nat, used : Nat, quarters : Nat, workers : Nat]
Overrides == [streams : Maybe(Positive), table : Maybe(Positive), fetch : Maybe(Positive)]
TableRef == [ranged : BOOLEAN, bytes : Nat, rows : Maybe(Nat)]

Larger(a, b) == IF a >= b THEN a ELSE b
Smaller(a, b) == IF a <= b THEN a ELSE b
Ceiling(a, b) == (a + b - 1) \div b

\* probe_source(): the governance view, else the host's own; a limit is kept when it
\* is positive.  probe(): what neither answers stays unknown, and says so.
Source(views) ==
  LET told == {v \in {1, 2} : views[v].quarters > 0 \/ views[v].workers > 0}
  IN  IF 1 \in told THEN views[1]
      ELSE IF 2 \in told THEN views[2]
      ELSE [quarters |-> 0, workers |-> 0]

Probe(target, views) ==
  [max |-> target.max, reserved |-> target.reserved, used |-> target.used,
   quarters |-> Source(views).quarters, workers |-> Source(views).workers]

\* _target_free()
Free(c) ==
  IF c.max = Nothing THEN Nothing ELSE Larger(0, c.max - c.reserved - c.used)

\* _target_budget(): three quarters of what is free.
TargetBudget(c) ==
  IF Free(c) = Nothing THEN Nothing ELSE Larger(1, (Free(c) * 3) \div 4)

\* _source_budget(): four per vCore, half of the workers.
SourceBudget(c) ==
  IF c.quarters = 0 /\ c.workers = 0 THEN Nothing
  ELSE IF c.workers = 0 THEN Larger(2, c.quarters)
  ELSE IF c.quarters = 0 THEN Larger(1, c.workers \div 2)
  ELSE Smaller(Larger(2, c.quarters), Larger(1, c.workers \div 2))

\* Mutant: the target's connections are forgotten when the source is known.
StreamsOfSource(c, o) ==
  IF o.streams # Nothing THEN o.streams
  ELSE IF SourceBudget(c) # Nothing THEN Smaller(SourceBudget(c), MAX_STREAMS)
  ELSE IF TargetBudget(c) # Nothing THEN Smaller(TargetBudget(c), MAX_STREAMS)
  ELSE DEFAULT_STREAMS

\* _streams()
Streams(c, o) ==
  IF o.streams # Nothing THEN o.streams
  ELSE IF TargetBudget(c) = Nothing /\ SourceBudget(c) = Nothing THEN DEFAULT_STREAMS
  ELSE IF TargetBudget(c) = Nothing THEN Smaller(SourceBudget(c), MAX_STREAMS)
  ELSE IF SourceBudget(c) = Nothing THEN Smaller(TargetBudget(c), MAX_STREAMS)
  ELSE Smaller(Smaller(TargetBudget(c), SourceBudget(c)), MAX_STREAMS)

\* The warnings of _streams(): more than the target has free, or the source should bear.
Warned(c, o) ==
  /\ o.streams # Nothing
  /\ \/ Free(c) # Nothing /\ o.streams > Free(c)
     \/ SourceBudget(c) # Nothing /\ o.streams > SourceBudget(c)

\* _chunks(): by size, else by rows, else a fixed number.
Chunks(t) ==
  IF ~t.ranged THEN 1
  ELSE IF t.bytes > 0 THEN Smaller(MAX_CHUNKS, Ceiling(t.bytes, CHUNK_BYTES))
  ELSE IF t.rows = Nothing THEN DEFAULT_CHUNKS
  ELSE IF t.rows = 0 THEN 1
  ELSE Smaller(MAX_CHUNKS, Ceiling(t.rows, CHUNK_ROWS))

\* _table_streams(): what the project asks, else the fixed most; never more than the
\* table has chunks, nor than one table may have.
TableStreams(chunks, cap, o) ==
  Smaller(Smaller(IF o.table = Nothing THEN MAX_TABLE_STREAMS ELSE o.table, cap), chunks)

\* _fetch(): the rows of one round trip, in steps, within the allowed range.
Fetch(t, o) ==
  IF o.fetch # Nothing THEN o.fetch
  ELSE IF t.bytes = 0 \/ t.rows \in {Nothing, 0} THEN FETCH_DEFAULT
  ELSE LET fit == (FETCH_BYTES * t.rows) \div t.bytes
       IN  Larger(FETCH_MIN, Smaller(FETCH_MAX, (fit \div FETCH_STEP) * FETCH_STEP))

\* "Half the streams at most per table, so one big table never holds up the rest."
Cap(streams, count) == IF count = 1 THEN streams ELSE Larger(1, Ceiling(streams, 2))

\* recommend() for tables numbered 1 .. count.
Recommend(tables, count, c, o) ==
  LET streams == Streams(c, o)
      cap == Cap(streams, count)
  IN  [streams |-> streams,
       parallel |-> Larger(1, Smaller(Smaller(count, streams), MAX_TABLES)),
       warned |-> Warned(c, o),
       tables |-> [i \in 1 .. count |->
         [chunks |-> Chunks(tables[i]),
          streams |-> TableStreams(Chunks(tables[i]), cap, o),
          fetch |-> Fetch(tables[i], o)]]]
-----------------------------------------------------------------------------
\* A plan the notebook can carry out: every table gets streams and never more than it
\* has chunks or than there are in all, so that no table waits for streams that never
\* come; several tables can always be loading; and the load leaves the target's
\* connections to others unless the project was warned (a target with none free is
\* still given one).
Fits(p, count, c, o) ==
  /\ p.streams \in Positive
  /\ p.parallel \in 1 .. p.streams
  /\ \A i \in 1 .. count :
       /\ p.tables[i].streams \in 1 .. p.streams
       /\ p.tables[i].streams <= p.tables[i].chunks
       /\ count > 1 /\ p.streams > 1 => 2 * p.tables[i].streams <= p.streams + 1
  /\ Free(c) # Nothing => p.streams <= Larger(1, Free(c)) \/ p.warned
=============================================================================
