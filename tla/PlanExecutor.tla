---------------------------- MODULE PlanExecutor ----------------------------
(***************************************************************************)
(* backend/migration/executor.py: apply_plan() puts SQL statements of the  *)
(* plan into the target, each in a transaction of its own, in the order of *)
(* their kinds.  A transient failure is retried on a fresh connection      *)
(* (backend/retry.py); anything else fails the item, and the next one      *)
(* follows on the same session.                                            *)
(***************************************************************************)
EXTENDS Naturals, FiniteSets, FiniteSetsExt

CONSTANTS
  NItems,       \* number of items, numbered in the order of the plan
  Kind,         \* KIND_ORDER[item.kind] of each item
  Requires,     \* objects that must exist before the object of an item
  Guarded,      \* items whose statements are IF NOT EXISTS, OR REPLACE or the like
  DB_ATTEMPTS,  \* DB_POLICY.attempts
  MaxOutages    \* bound: failures of the connection

Items == 1 .. NItems
NoItem == 0

ASSUME KindAssumption == Kind \in [Items -> Nat]
ASSUME RequiresAssumption == Requires \in [Items -> SUBSET Items]
ASSUME GuardedAssumption == Guarded \subseteq Items
ASSUME AttemptsAssumption == DB_ATTEMPTS \in Nat \ {0}
ASSUME BoundsAssumption == {NItems, MaxOutages} \subseteq Nat

VARIABLES
  objects,   \* items whose object is in the target as the source defines it
  sql,       \* item.sql: what Postgres would do with it
  todo,      \* items of the call that have no result yet
  result,    \* ItemResult.status of the other ones
  stop,      \* stop_on_error
  call,      \* where the call of apply_plan is
  conn,      \* the connection of the _Session
  attempt,   \* the attempt of call_with_retry
  hit,       \* whether the connection failed during the current item
  outages    \* failures of the connection so far

session == <<conn, attempt, hit, outages>>
execVars == <<objects, sql, todo, result, stop, call, session>>

\* "good" creates the object, "useless" is accepted and does not, "bad" is rejected,
\* "empty" is no statement.
Sql == {"good", "useless", "bad", "empty"}
Result == {"none", "success", "failed", "skipped"}

ExecInit ==
  /\ objects = {}
  /\ sql = [i \in Items |-> "empty"]
  /\ todo = {}
  /\ result = [i \in Items |-> "none"]
  /\ stop = FALSE
  /\ call = "idle"
  /\ conn = "closed"
  /\ attempt = 1
  /\ hit = FALSE
  /\ outages = 0

\* _ordered(): by kind, and within a kind in the order of the plan.
Before(i, j) == Kind[i] < Kind[j] \/ (Kind[i] = Kind[j] /\ i < j)

\* Mutant: in the order of the plan.
ItemInPlan == Min(todo)

Item == CHOOSE i \in todo : \A j \in todo \ {i} : Before(i, j)

\* Postgres runs the statement: what it refers to exists, and what it creates does not, unless
\* the statement allows for that.
Accepted(i) ==
  \/ sql[i] = "useless"
  \/ sql[i] = "good" /\ Requires[i] \subseteq objects /\ (i \in objects => i \in Guarded)

Created(i) == IF sql[i] = "good" THEN objects \cup {i} ELSE objects

\* apply_plan(conn_info, items, stop_on_error) with the statements given in texts.
CallApply(items, texts, stopOnError) ==
  /\ call = "idle"
  /\ todo' = items
  /\ sql' = texts
  /\ result' = [i \in Items |-> "none"]
  /\ stop' = stopOnError
  /\ call' = "open"
  /\ attempt' = 1
  /\ hit' = FALSE
  /\ UNCHANGED <<objects, conn, outages>>

Open ==
  /\ call = "open"
  /\ conn' = "open"
  /\ call' = "apply"
  /\ UNCHANGED <<objects, sql, todo, result, stop, attempt, hit, outages>>

\* The first connection fails: apply_plan raises.
OpenFails ==
  /\ call = "open"
  /\ outages < MaxOutages
  /\ outages' = outages + 1
  /\ call' = "raised"
  /\ UNCHANGED <<objects, sql, todo, result, stop, conn, attempt, hit>>

Applying == call = "apply" /\ todo # {}

\* The item has its result.
Gets(status) ==
  /\ result' = [result EXCEPT ![Item] = status]
  /\ todo' = IF status = "failed" /\ stop THEN {} ELSE todo \ {Item}
  /\ attempt' = 1
  /\ hit' = FALSE
  /\ UNCHANGED <<sql, stop, call>>

Skip ==
  /\ Applying
  /\ sql[Item] = "empty"
  /\ Gets("skipped")
  /\ UNCHANGED <<objects, conn, outages>>

Statement == Applying /\ sql[Item] # "empty"

\* Mutant: the item is not committed.
ApplyUncommitted ==
  /\ Statement
  /\ conn = "open"
  /\ Accepted(Item)
  /\ Gets("success")
  /\ UNCHANGED <<objects, conn, outages>>

Apply ==
  /\ Statement
  /\ conn = "open"
  /\ Accepted(Item)
  /\ objects' = Created(Item)
  /\ Gets("success")
  /\ UNCHANGED <<conn, outages>>

\* A real error: no retry.  The transaction is aborted, and until it is rolled back every
\* statement on the session fails.
Reject ==
  /\ Statement
  /\ conn = "open"
  /\ ~Accepted(Item)
  /\ conn' = "aborted"
  /\ UNCHANGED <<objects, sql, todo, result, stop, call, attempt, hit, outages>>

\* The session's rollback; if that fails too, the connection stays as it is.
Rollback ==
  /\ Statement
  /\ conn = "aborted"
  /\ \/ conn' = "open" /\ UNCHANGED outages
     \/ conn' = "closed" /\ outages < MaxOutages /\ outages' = outages + 1
  /\ Gets("failed")
  /\ UNCHANGED objects

\* An open connection fails before the commit, or after it: the acknowledgement is lost.
Drop(committed) ==
  /\ Statement
  /\ conn = "open"
  /\ outages < MaxOutages
  /\ outages' = outages + 1
  /\ conn' = "closed"
  /\ committed => Accepted(Item)
  /\ objects' = IF committed THEN Created(Item) ELSE objects
  /\ hit' = TRUE
  /\ UNCHANGED <<sql, todo, result, stop, call, attempt>>

\* Mutant: the retry uses the connection that failed.
ReconnectNot ==
  /\ Statement
  /\ conn = "closed"
  /\ attempt < DB_ATTEMPTS
  /\ attempt' = attempt + 1
  /\ UNCHANGED <<objects, sql, todo, result, stop, call, conn, hit, outages>>

\* The statement fails on a closed connection, which is transient: reconnect.
Reconnect ==
  /\ Statement
  /\ conn = "closed"
  /\ attempt < DB_ATTEMPTS
  /\ conn' = "open"
  /\ attempt' = attempt + 1
  /\ UNCHANGED <<objects, sql, todo, result, stop, call, hit, outages>>

\* The reconnect raises out of call_with_retry.
ReconnectFails ==
  /\ Statement
  /\ conn = "closed"
  /\ attempt < DB_ATTEMPTS
  /\ outages < MaxOutages
  /\ outages' = outages + 1
  /\ Gets("failed")
  /\ UNCHANGED <<objects, conn>>

\* The last attempt failed too; the next item starts on the closed connection.
GiveUp ==
  /\ Statement
  /\ conn = "closed"
  /\ attempt = DB_ATTEMPTS
  /\ Gets("failed")
  /\ UNCHANGED <<objects, conn, outages>>

Close ==
  /\ call = "apply"
  /\ todo = {}
  /\ call' = "returned"
  /\ conn' = "closed"
  /\ UNCHANGED <<objects, sql, todo, result, stop, attempt, hit, outages>>

ExecStep ==
  \/ Open
  \/ OpenFails
  \/ Skip
  \/ Apply
  \/ Reject
  \/ Rollback
  \/ \E committed \in BOOLEAN : Drop(committed)
  \/ Reconnect
  \/ ReconnectFails
  \/ GiveUp
  \/ Close

-----------------------------------------------------------------------------
ExecTypeOK ==
  /\ objects \subseteq Items
  /\ sql \in [Items -> Sql]
  /\ todo \subseteq Items
  /\ result \in [Items -> Result]
  /\ stop \in BOOLEAN
  /\ call \in {"idle", "open", "apply", "returned", "raised"}
  /\ conn \in {"open", "aborted", "closed"}
  /\ attempt \in 1 .. DB_ATTEMPTS
  /\ hit \in BOOLEAN
  /\ outages \in 0 .. MaxOutages
=============================================================================
