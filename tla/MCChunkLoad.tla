---------------------------- MODULE MCChunkLoad -----------------------------
(***************************************************************************)
(* Four rows, two of them with the same key, in a table of up to three     *)
(* chunks next to a small one.                                             *)
(***************************************************************************)
EXTENDS ChunkLoad, TLC

CONSTANTS r1, r2, r3, r4

MCRows == {r1, r2, r3, r4}
MCKey == (r1 :> 0) @@ (r2 :> 3) @@ (r3 :> 3) @@ (r4 :> 5)

MCTables ==
  <<[ranged |-> TRUE, bytes |-> 5, rows |-> 4], [ranged |-> FALSE, bytes |-> 0, rows |-> Nothing]>>

Column(type, clr, hidden, nullable) ==
  [type |-> type, clr |-> clr, hidden |-> hidden, nullable |-> nullable]

\* A row's key, a type the drivers do not read, one of the users' own, and a column that
\* SELECT * leaves out; in the second table a place that needs a value as well.  A
\* table the catalogue does not tell of has no hidden column: it could not be listed.
MCColumns ==
  ("id" :> Column("int", FALSE, FALSE, FALSE)) @@ ("path" :> Column("hierarchyid", FALSE, FALSE, TRUE))
    @@ ("own" :> Column("udt", TRUE, FALSE, TRUE)) @@ ("ended" :> Column("bigint", FALSE, TRUE, TRUE))
MCDescribed ==
  {[of |-> MCColumns, known |-> TRUE],
   [of |-> MCColumns @@ ("place" :> Column("geography", FALSE, FALSE, FALSE)), known |-> TRUE],
   [of |-> [n \in {"id", "path"} |-> MCColumns[n]], known |-> FALSE]}
MCGlobes == {r4}

\* The target does not answer, has no room, or has some.
MCTargetReads ==
  {[max |-> Nothing, reserved |-> 0, used |-> 0],
   [max |-> 5, reserved |-> 3, used |-> 2],
   [max |-> 9, reserved |-> 1, used |-> 2]}

Unread == [quarters |-> 0, workers |-> 0]

\* Neither view answers, the host's own does, or Azure's does.
MCSourceReads ==
  {<<Unread, Unread>>,
   <<Unread, [quarters |-> 8, workers |-> 0]>>,
   <<[quarters |-> 1, workers |-> 7], Unread>>}

MCOverrides ==
  {[streams |-> Nothing, table |-> Nothing, fetch |-> Nothing],
   [streams |-> 4, table |-> 1, fetch |-> Nothing]}
=============================================================================
