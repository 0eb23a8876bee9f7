---------------------------- MODULE StreamBudget ----------------------------
(***************************************************************************)
(* _StreamBudget and its users in the loader notebook                      *)
(* (backend/data_migration/etl_generator.py): how the tables of a snapshot *)
(* share MAX_STREAMS connections to the source.                            *)
(*                                                                         *)
(* A pool of MAX_PARALLEL_TABLES threads works through the tables in their *)
(* order.  The thread of a table first acquires the table's streams, in    *)
(* the order of the tables, waiting on a condition variable; then it       *)
(* copies the chunks of the table with a pool of that many threads, and    *)
(* gives the streams back.                                                 *)
(***************************************************************************)
EXTENDS Naturals, FiniteSets, FiniteSetsExt

CONSTANTS
  N,            \* number of tables to copy, numbered in the order of TABLES
  MAX_STREAMS,
  Parallel,     \* MAX_PARALLEL_TABLES
  MaxAsked,     \* bound: streams a table asks for
  MaxChunks     \* bound: chunks of a table

ASSUME CountAssumption == N \in Nat
ASSUME StreamsAssumption == MAX_STREAMS \in Nat \ {0}
ASSUME ParallelAssumption == Parallel \in Nat \ {0}
ASSUME BoundsAssumption == {MaxAsked, MaxChunks} \subseteq Nat

Tables == 1 .. N

VARIABLES
  asked,    \* streams in the spec of each table
  free,     \* self._free
  turn,     \* self._turn: the next table to acquire
  thread,       \* where the thread of each table is
  left,     \* chunks of the table no thread has taken
  running,  \* chunks being copied
  failed    \* tables with a chunk that raised

budget == <<free, turn>>
copy == <<left, running, failed>>
budgetVars == <<asked, budget, thread, copy>>

\* Mutant: a table that asks for more than there is gets what it asks for.
StreamsUncapped(t) == Max({1, asked[t]})

\* _load(): at least one stream, at most all.
Streams(t) == Max({1, Min({asked[t], MAX_STREAMS})})

InPool == {t \in Tables : thread[t] \notin {"queued", "done"}}
Holders == {t \in Tables : thread[t] \in {"copying", "cancelled"}}

BudgetInit ==
  /\ asked \in [Tables -> 0 .. MaxAsked]
  /\ free = MAX_STREAMS
  /\ turn = 1
  /\ thread = [t \in Tables |-> "queued"]
  /\ left \in [Tables -> 1 .. MaxChunks]
  /\ running = [t \in Tables |-> 0]
  /\ failed = {}

\* A thread of the pool takes the next table.
Take(t) ==
  /\ thread[t] = "queued"
  /\ \A u \in Tables : u < t => thread[u] # "queued"
  /\ Cardinality(InPool) < Parallel
  /\ thread' = [thread EXCEPT ![t] = "acquire"]
  /\ UNCHANGED <<asked, budget, copy>>

\* notify_all(): who waits on the condition looks at it again.
Notified == [u \in Tables |-> IF thread[u] = "waiting" THEN "acquire" ELSE thread[u]]

Ready(t) == turn = t /\ free >= Streams(t)

\* wait_for() finds the condition false and blocks.
Wait(t) ==
  /\ thread[t] = "acquire"
  /\ ~Ready(t)
  /\ thread' = [thread EXCEPT ![t] = "waiting"]
  /\ UNCHANGED <<asked, budget, copy>>

\* Mutant: a table does not wait for its turn.
AcquireAny(t) ==
  /\ thread[t] = "acquire"
  /\ free >= Streams(t)
  /\ free' = free - Streams(t)
  /\ turn' = turn + 1
  /\ thread' = [Notified EXCEPT ![t] = "copying"]
  /\ UNCHANGED <<asked, copy>>

Acquire(t) ==
  /\ thread[t] = "acquire"
  /\ Ready(t)
  /\ free' = free - Streams(t)
  /\ turn' = turn + 1
  /\ thread' = [Notified EXCEPT ![t] = "copying"]
  /\ UNCHANGED <<asked, copy>>

\* One thread of the table's own pool takes a chunk.
StartChunk(t) ==
  /\ thread[t] = "copying"
  /\ left[t] > 0
  /\ running[t] < Streams(t)
  /\ left' = [left EXCEPT ![t] = left[t] - 1]
  /\ running' = [running EXCEPT ![t] = running[t] + 1]
  /\ UNCHANGED <<asked, budget, thread, failed>>

EndChunk(t, ok) ==
  /\ running[t] > 0
  /\ running' = [running EXCEPT ![t] = running[t] - 1]
  /\ failed' = IF ok THEN failed ELSE failed \cup {t}
  /\ UNCHANGED <<asked, budget, thread, left>>

\* The table's thread sees the exception, or raises before its first chunk: the
\* chunks that are running finish, the rest never start.
Cancel(t) ==
  /\ thread[t] = "copying"
  /\ t \in failed \/ running[t] = 0
  /\ left' = [left EXCEPT ![t] = 0]
  /\ thread' = [thread EXCEPT ![t] = "cancelled"]
  /\ UNCHANGED <<asked, budget, running, failed>>

\* The pool of the table is left only when its threads are done.
CopyOver(t) ==
  /\ thread[t] \in {"copying", "cancelled"}
  /\ left[t] = 0
  /\ running[t] = 0

\* Mutant: the streams are given back as soon as the copy is cancelled.
ReleaseEarly(t) ==
  /\ thread[t] \in {"copying", "cancelled"}
  /\ left[t] = 0
  /\ free' = free + Streams(t)
  /\ thread' = [Notified EXCEPT ![t] = "done"]
  /\ UNCHANGED <<asked, turn, copy>>

Release(t) ==
  /\ CopyOver(t)
  /\ free' = free + Streams(t)
  /\ thread' = [Notified EXCEPT ![t] = "done"]
  /\ UNCHANGED <<asked, turn, copy>>

TableStep(t) ==
  \/ Take(t)
  \/ Wait(t)
  \/ Acquire(t)
  \/ StartChunk(t)
  \/ \E ok \in BOOLEAN : EndChunk(t, ok)
  \/ Cancel(t)
  \/ Release(t)

BudgetNext == \E t \in Tables : TableStep(t)

BudgetSpec == BudgetInit /\ [][BudgetNext]_budgetVars

\* Threads of the pools run on, and reading a chunk comes to an end.
BudgetFair == BudgetSpec /\ \A t \in Tables : WF_budgetVars(TableStep(t))
-----------------------------------------------------------------------------
(***************************************************************************)
(* Properties.                                                             *)
(***************************************************************************)

\* Type invariant of the budget, the threads and the chunks.  That no more than MAX_STREAMS
\* are ever free is part of StreamsBounded.
TypeOK ==
  /\ asked \in [Tables -> Nat]
  /\ free \in Nat
  /\ turn \in 1 .. N + 1
  /\ thread \in [Tables -> {"queued", "acquire", "waiting", "copying", "cancelled", "done"}]
  /\ left \in [Tables -> Nat]
  /\ running \in [Tables -> Nat]
  /\ failed \subseteq Tables

\* A connection is a table and a number: those the budget has handed out, and those
\* a chunk is read through.
Connections(t, n) == {t} \X (1 .. n)
Held == UNION {Connections(t, Streams(t)) : t \in Holders}
Reads == UNION {Connections(t, running[t]) : t \in Tables}

\* The chunks that are read from the source at one time, over all tables, failed
\* ones included, never exceed the streams the budget has handed out, and those
\* and the free ones are MAX_STREAMS.
StreamsBounded ==
  /\ free + Cardinality(Held) = MAX_STREAMS
  /\ Cardinality(Reads) <= MAX_STREAMS - free

\* "Hands out MAX_STREAMS in TABLES order": no table overtakes a larger one that has
\* not got its streams yet, even when the few it needs are free.
InOrder ==
  \A t, u \in Tables : u < t /\ thread[t] \in {"copying", "cancelled", "done"}
    => thread[u] \in {"copying", "cancelled", "done"}

\* No table waits for ever, whatever it asks for and whichever copies fail.
EveryTableSettles == \A t \in Tables : <>(thread[t] = "done")
-----------------------------------------------------------------------------
\* The inductive invariant behind InOrder: the tables that got their streams are
\* those before the turn.
IInv ==
  /\ turn \in Nat
  /\ thread \in [Tables -> {"queued", "acquire", "waiting", "copying", "cancelled", "done"}]
  /\ \A t \in Tables : thread[t] \in {"copying", "cancelled", "done"} <=> t < turn

\* And behind StreamsBounded: a chunk is read for a table only while the table has its
\* streams, and no more of its chunks at a time than it has streams.
BudgetInv ==
  /\ IsFiniteSet(Held)
  /\ free + Cardinality(Held) = MAX_STREAMS
  /\ \A t \in Tables : running[t] <= Streams(t) /\ (running[t] > 0 => t \in Holders)
=============================================================================
