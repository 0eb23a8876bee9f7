---------------------------- MODULE RepairAgent -----------------------------
(***************************************************************************)
(* The target is built with the plan (POST /apply in                       *)
(* backend/api/migration_routes.py), validated, and what is missing is     *)
(* repaired by backend/validation/agent.py: in rounds, a model proposes a  *)
(* statement for every open item, and one call of apply_plan applies them. *)
(***************************************************************************)
EXTENDS PlanExecutor

CONSTANT
  max_attempts   \* req.max_attempts

ASSUME MaxAttemptsAssumption == max_attempts \in 1 .. 5

VARIABLES
  pc,        \* what happens: the apply request, then the repair run's thread
  targets,   \* the items of the report the run is asked to repair
  status,    \* RepairItemState.status
  gaveUp,    \* items with gave_up
  calls,     \* model calls made for each item
  round,     \* RepairState.attempt
  asking,    \* items the model is still to be asked about in this round
  proposal,  \* the statement of each item of this round
  fixed,     \* RepairState.fixed
  outcome,   \* RepairState.status
  able       \* the model has proposed the right statement each time so far

agentVars == <<pc, targets, status, gaveUp, calls, round, asking, proposal, fixed, outcome, able>>
vars == <<execVars, agentVars>>

ItemStatus == {"pending", "analyzing", "applying", "success", "failed"}
NoSql == [i \in Items |-> "empty"]

Fixed == {i \in targets : status[i] = "success"}

\* sql_fixable(): a missing object is; one that is there with other rows, or in the
\* target only, is not.
Fixable(i) == i \notin objects

\* The pending list of a round.
OpenItems == {i \in targets : status[i] # "success" /\ i \notin gaveUp}

Init ==
  /\ ExecInit
  /\ pc = "apply"
  /\ targets = {}
  /\ status = [i \in Items |-> "pending"]
  /\ gaveUp = {}
  /\ calls = [i \in Items |-> 0]
  /\ round = 0
  /\ asking = {}
  /\ proposal = NoSql
  /\ fixed = 0
  /\ outcome = "running"
  /\ able = TRUE

-----------------------------------------------------------------------------
(* Building the target. *)

ApplyRequest ==
  /\ pc = "apply"
  /\ \E texts \in [Items -> {"good", "bad", "empty"}], stopOnError \in BOOLEAN :
       CallApply(Items, texts, stopOnError)
  /\ pc' = "applying"
  /\ UNCHANGED <<targets, status, gaveUp, calls, round, asking, proposal, fixed, outcome, able>>

\* The report of the validation, from which the run is started: what is missing, and
\* objects whose rows differ or that only the target has.
Validate ==
  /\ pc = "applying"
  /\ call \in {"returned", "raised"}
  /\ \E drifted \in SUBSET objects : targets' = (Items \ objects) \cup drifted
  /\ targets' # {}
  /\ call' = "idle"
  /\ pc' = "prepass"
  /\ UNCHANGED <<objects, sql, todo, result, stop, session,
                 status, gaveUp, calls, round, asking, proposal, fixed, outcome, able>>

-----------------------------------------------------------------------------
(* The repair run. *)

\* Row counts that differ, target-only objects and the like are not agent work.
PrePass ==
  /\ pc = "prepass"
  /\ gaveUp' = {i \in targets : ~Fixable(i)}
  /\ status' = [i \in Items |-> IF i \in gaveUp' THEN "failed" ELSE status[i]]
  /\ pc' = "round"
  /\ UNCHANGED <<execVars, targets, calls, round, asking, proposal, fixed, outcome, able>>

StartRound ==
  /\ pc = "round"
  /\ round < max_attempts
  /\ OpenItems # {}
  /\ round' = round + 1
  /\ asking' = OpenItems
  /\ proposal' = NoSql
  /\ pc' = "propose"
  /\ UNCHANGED <<execVars, targets, status, gaveUp, calls, fixed, outcome, able>>

\* A reply of the model: whether it was cut at the token limit or its JSON is broken, and
\* the statement in it, which is all of it when it has no JSON.
Reply == [cut : BOOLEAN, broken : BOOLEAN, sql : Sql]

\* _propose() and _parse_proposal(): such a reply is an exception, and any other one has
\* the fences around its statement taken off.
Fix(reply) == IF reply.cut \/ reply.broken THEN "empty" ELSE reply.sql

\* The agent asks about the next item; a call that fails gives no statement, and neither
\* may the model, but the item stays open for the next round.
Propose(reply) ==
  /\ pc = "propose"
  /\ asking # {}
  /\ LET i == Min(asking)
         text == Fix(reply)
     IN /\ asking' = asking \ {i}
        /\ calls' = [calls EXCEPT ![i] = calls[i] + 1]
        /\ proposal' = [proposal EXCEPT ![i] = text]
        /\ status' = [status EXCEPT ![i] = IF text = "empty" THEN "failed" ELSE "applying"]
        /\ able' = (able /\ text = "good")
  /\ UNCHANGED <<execVars, pc, targets, gaveUp, round, fixed, outcome>>

Fixes == {i \in Items : proposal[i] # "empty"}

\* Mutant: the thread returns when nothing was proposed.
NoFixesReturn ==
  /\ pc = "propose"
  /\ asking = {}
  /\ Fixes = {}
  /\ pc' = "over"
  /\ UNCHANGED <<execVars, targets, status, gaveUp, calls, round, asking, proposal, fixed,
                 outcome, able>>

NoFixes ==
  /\ pc = "propose"
  /\ asking = {}
  /\ Fixes = {}
  /\ pc' = "round"
  /\ UNCHANGED <<execVars, targets, status, gaveUp, calls, round, asking, proposal, fixed,
                 outcome, able>>

ApplyFixes ==
  /\ pc = "propose"
  /\ asking = {}
  /\ Fixes # {}
  /\ CallApply(Fixes, proposal, FALSE)
  /\ pc' = "fixing"
  /\ UNCHANGED <<targets, status, gaveUp, calls, round, asking, proposal, fixed, outcome, able>>

\* The results are recorded and counted.
RecordResults ==
  /\ pc = "fixing"
  /\ call = "returned"
  /\ status' = [i \in Items |-> IF i \notin Fixes THEN status[i]
                                ELSE IF result[i] = "success" THEN "success" ELSE "failed"]
  /\ fixed' = Cardinality({i \in targets : status'[i] = "success"})
  /\ call' = "idle"
  /\ pc' = "round"
  /\ UNCHANGED <<objects, sql, todo, result, stop, session,
                 targets, gaveUp, calls, round, asking, proposal, outcome, able>>

Finish ==
  /\ pc = "round"
  /\ round = max_attempts \/ OpenItems = {}
  /\ outcome' = IF Fixed = targets THEN "success" ELSE IF Fixed # {} THEN "partial" ELSE "failed"
  /\ pc' = "over"
  /\ UNCHANGED <<execVars, targets, status, gaveUp, calls, round, asking, proposal, fixed, able>>

\* apply_plan could not connect: the outer except.
SetupFails ==
  /\ pc = "fixing"
  /\ call = "raised"
  /\ outcome' = "failed"
  /\ call' = "idle"
  /\ pc' = "over"
  /\ UNCHANGED <<objects, sql, todo, result, stop, session,
                 targets, status, gaveUp, calls, round, asking, proposal, fixed, able>>

RunStep ==
  \/ PrePass
  \/ StartRound
  \/ \E reply \in Reply : Propose(reply)
  \/ NoFixes
  \/ ApplyFixes
  \/ RecordResults
  \/ Finish
  \/ SetupFails

Execute == ExecStep /\ UNCHANGED agentVars

Next == ApplyRequest \/ Validate \/ RunStep \/ Execute

Spec == Init /\ [][Next]_vars

\* The thread of the run goes on; model and database calls return or time out.
FairSpec == Spec /\ WF_vars(RunStep \/ Execute)
-----------------------------------------------------------------------------
(***************************************************************************)
(* Properties.                                                             *)
(***************************************************************************)

\* Type invariant of the executor and of the run.
TypeOK ==
  /\ ExecTypeOK
  /\ pc \in {"apply", "applying", "prepass", "round", "propose", "fixing", "over"}
  /\ targets \subseteq Items
  /\ status \in [Items -> ItemStatus]
  /\ gaveUp \subseteq Items
  /\ calls \in [Items -> 0 .. max_attempts]
  /\ round \in 0 .. max_attempts
  /\ asking \subseteq Items
  /\ proposal \in [Items -> Sql]
  /\ fixed \in 0 .. NItems
  /\ outcome \in {"running", "success", "partial", "failed"}
  /\ able \in BOOLEAN

\* "A single failure is isolated": an item whose statement Postgres would accept
\* fails only if the connection failed during the item's own attempts, not because
\* of what an earlier item did to the session.
FailuresAreIsolated ==
  [][\A i \in Items :
       result[i] = "none" /\ result'[i] = "failed" /\ Accepted(i) => hit \/ outages' # outages]_vars

\* What a call reports as applied is in the target, and so is what the run counts as
\* fixed by the right statement, through retries and lost acknowledgements; and unless
\* the connection has failed, nothing is in the target that was reported as failed.
ResultsAreTrue ==
  /\ \A i \in Items : result[i] = "success" /\ sql[i] = "good" => i \in objects
  /\ able => Fixed \subseteq objects
  /\ outages = 0 => \A i \in Items : result[i] = "failed" /\ sql[i] = "good" => i \notin objects

\* Ways to spread the items over rounds: an item comes no earlier than what it requires,
\* and later than what it requires but the executor applies after it.  There is none
\* when items require each other in a circle.
Levels ==
  {level \in [Items -> 1 .. NItems] :
     \A i \in Items : \A j \in Requires[i] :
       level[j] < level[i] \/ (level[j] = level[i] /\ Before(j, i))}

\* Of the items the agent works on, those of the first n rounds are in the target.
Resolved(n) ==
  \A level \in Levels : \A i \in targets \ gaveUp : level[i] <= n => status[i] = "success"

\* "Dependency chains resolve across rounds": as long as the model is right and the
\* connection holds, each round gets one level further.
ChainsResolve ==
  able /\ outages = 0 =>
    /\ pc = "round" => Resolved(round)
    /\ pc = "over" => Resolved(max_attempts)

\* The rounds and the retries are bounded: a run that was started gets an outcome.
RunEnds == pc = "prepass" ~> outcome # "running"
=============================================================================
