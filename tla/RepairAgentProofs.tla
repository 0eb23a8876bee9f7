------------------------- MODULE RepairAgentProofs --------------------------
(***************************************************************************)
(* What is proved of RepairAgent and the executor under it, for any plan,  *)
(* kinds, dependencies, attempts, rounds and outages: the results are      *)
(* true, and one item's failure does not fail another.                     *)
(***************************************************************************)
EXTENDS RepairAgent, Integers, FiniteSetTheorems, TLAPS

\* Some natural numbers have a least one.
LEMMA Least ==
  ASSUME NEW S \in SUBSET Nat, S # {} PROVE \E m \in S : \A n \in S : m <= n
<1> DEFINE less == {p \in Nat \X Nat : p[1] < p[2]}
<1>1. PICK m \in S : \A n \in S : ~(<<n, m>> \in less)
  <2>1. IsWellFoundedOn(less, Nat)
    BY NatLessThanWellFounded DEF OpToRel
  <2> HIDE DEF less
  <2>2. QED BY <2>1, WFMin
<1>2. ASSUME NEW n \in S, n < m PROVE FALSE
  BY <1>1, <1>2
<1>3. QED BY <1>2

\* Of some items one comes first in the order in which they are applied.
LEMMA SomeItemIsFirst ==
  ASSUME NEW S \in SUBSET Items, S # {}
  PROVE  \E i \in S : \A j \in S \ {i} : Before(i, j)
<1> DEFINE kinds == {Kind[i] : i \in S}
<1>1. S \subseteq Nat /\ kinds \subseteq Nat /\ kinds # {}
  BY KindAssumption, BoundsAssumption DEF Items
<1>2. PICK k \in kinds : \A n \in kinds : k <= n
  <2> HIDE DEF kinds
  <2>1. QED BY <1>1, Least
<1>3. DEFINE T == {i \in S : Kind[i] = k}
<1>4. PICK i \in T : \A n \in T : i <= n
  <2>1. T \subseteq Nat /\ T # {}
    BY <1>1
  <2> HIDE DEF T
  <2>2. QED BY <2>1, Least
<1>5. ASSUME NEW j \in S \ {i} PROVE Before(i, j)
  <2>1. Kind[j] \in kinds /\ k <= Kind[j] /\ k \in Nat /\ Kind[j] \in Nat
    BY <1>1, <1>2
  <2>2. CASE Kind[j] = k
    BY <1>1, <1>4, <2>2 DEF Before
  <2>3. CASE Kind[j] # k
    BY <1>4, <2>1, <2>3 DEF Before
  <2>4. QED BY <2>2, <2>3
<1>6. QED BY <1>4, <1>5

\* The item that is applied next is one that has no result yet.
LEMMA ItemIsOpen ==
  ASSUME todo \subseteq Items, todo # {} PROVE Item \in todo
BY SomeItemIsFirst DEF Item

\* The item the model is asked about next is one of those to ask about.
LEMMA AskedIsOpen ==
  ASSUME asking \subseteq Items, asking # {} PROVE Min(asking) \in asking
<1>1. asking \subseteq Nat
  BY BoundsAssumption DEF Items
<1>2. QED BY <1>1, Least DEF Min

-----------------------------------------------------------------------------
(* Types. *)

\* A model was asked about an item once in each round at most.
CallsInv ==
  /\ \A i \in Items : calls[i] <= round
  /\ pc = "propose" => \A i \in asking : calls[i] < round

\* The executor's steps keep the types.
LEMMA ExecTypeStep ==
  ASSUME ExecTypeOK, ExecStep PROVE ExecTypeOK'
<1> USE AttemptsAssumption, BoundsAssumption DEF ExecTypeOK, session
<1>1. ASSUME NEW res \in Result, Gets(res), todo # {}
      PROVE  /\ result' \in [Items -> Result] /\ todo' \subseteq Items
             /\ attempt' \in 1 .. DB_ATTEMPTS /\ hit' \in BOOLEAN
             /\ sql' \in [Items -> Sql] /\ stop' \in BOOLEAN
             /\ call' \in {"idle", "open", "apply", "returned", "raised"}
  <2>1. Item \in todo
    BY <1>1, ItemIsOpen
  <2>2. /\ result' = [result EXCEPT ![Item] = res]
        /\ todo' = IF res = "failed" /\ stop THEN {} ELSE todo \ {Item}
        /\ attempt' = 1 /\ hit' = FALSE /\ sql' = sql /\ stop' = stop /\ call' = call
    BY <1>1 DEF Gets
  <2>3. result' \in [Items -> Result]
    BY <2>1, <2>2
  <2>4. todo' \subseteq Items
    BY <2>2
  <2>5. attempt' \in 1 .. DB_ATTEMPTS
    BY <2>2
  <2>6. QED BY <2>2, <2>3, <2>4, <2>5
<1>2. CASE Open \/ Close
  BY <1>2 DEF Open, Close
<1>3. CASE OpenFails
  BY <1>3 DEF OpenFails
<1>4. CASE Skip \/ Rollback \/ GiveUp
  <2>1. todo # {} /\ \E res \in Result : Gets(res)
    BY <1>4 DEF Skip, Rollback, GiveUp, Statement, Applying, Result
  <2>2. QED BY <1>1, <1>4, <2>1 DEF Skip, Rollback, GiveUp
<1>5. CASE Apply
  <2>1. todo # {} /\ Gets("success") /\ "success" \in Result
    BY <1>5 DEF Apply, Statement, Applying, Result
  <2>2. objects' \subseteq Items
    BY <1>5, <2>1, ItemIsOpen DEF Apply, Created
  <2>3. QED BY <1>1, <1>5, <2>1, <2>2 DEF Apply
<1>6. ASSUME NEW committed \in BOOLEAN, Drop(committed) PROVE ExecTypeOK'
  <2>1. todo # {}
    BY <1>6 DEF Drop, Statement, Applying
  <2>2. objects' \subseteq Items
    BY <1>6, <2>1, ItemIsOpen DEF Drop, Created
  <2>3. QED BY <1>6, <2>2 DEF Drop
<1>7. CASE Reconnect \/ Reject
  BY <1>7 DEF Reconnect, Reject
<1>8. CASE ReconnectFails
  <2>1. todo # {} /\ Gets("failed") /\ "failed" \in Result
    BY <1>8 DEF ReconnectFails, Statement, Applying, Result
  <2>2. QED BY <1>1, <1>8, <2>1 DEF ReconnectFails
<1>9. QED BY <1>2, <1>3, <1>4, <1>5, <1>6, <1>7, <1>8 DEF ExecStep

\* A call of apply_plan does.
LEMMA CallTypes ==
  ASSUME ExecTypeOK, NEW items \in SUBSET Items, NEW texts \in [Items -> Sql],
         NEW stopOnError \in BOOLEAN, CallApply(items, texts, stopOnError)
  PROVE  ExecTypeOK'
<1>1. result' \in [Items -> Result]
  BY DEF CallApply, Result
<1>2. attempt' \in 1 .. DB_ATTEMPTS
  BY AttemptsAssumption DEF CallApply
<1>3. QED BY <1>1, <1>2 DEF ExecTypeOK, CallApply

\* And so does every step.
LEMMA TypeStep ==
  ASSUME TypeOK, CallsInv, [Next]_vars PROVE TypeOK' /\ CallsInv'
<1> USE MaxAttemptsAssumption
<1>1. CASE UNCHANGED vars
  BY <1>1 DEF vars, execVars, agentVars, session, TypeOK, ExecTypeOK, CallsInv
<1>2. CASE ApplyRequest
  <2>1. ExecTypeOK'
    <3>1. PICK texts \in [Items -> {"good", "bad", "empty"}], stopOnError \in BOOLEAN :
            CallApply(Items, texts, stopOnError)
      BY <1>2 DEF ApplyRequest
    <3>2. texts \in [Items -> Sql]
      BY DEF Sql
    <3>3. QED BY <3>1, <3>2, CallTypes DEF TypeOK
  <2>2. QED BY <1>2, <2>1 DEF ApplyRequest, TypeOK, CallsInv
<1>3. CASE Validate
  BY <1>3 DEF Validate, TypeOK, ExecTypeOK, session, CallsInv
<1>4. CASE PrePass
  <2>1. ExecTypeOK'
    BY <1>4 DEF PrePass, TypeOK, ExecTypeOK, execVars, session
  <2>2. QED BY <1>4, <2>1 DEF PrePass, TypeOK, ItemStatus, CallsInv
<1>5. CASE StartRound
  <2>1. ExecTypeOK'
    BY <1>5 DEF StartRound, TypeOK, ExecTypeOK, execVars, session
  <2>2. proposal' \in [Items -> Sql]
    BY <1>5 DEF StartRound, NoSql, Sql
  <2>3. asking' \subseteq Items
    BY <1>5 DEF StartRound, OpenItems, TypeOK
  <2>4. round \in Nat /\ max_attempts \in Nat /\ round' = round + 1 /\ round < max_attempts
        /\ calls' = calls /\ calls \in [Items -> 0 .. max_attempts]
    BY <1>5 DEF StartRound, TypeOK
  <2>5. CallsInv'
    BY <2>3, <2>4 DEF CallsInv
  <2>6. QED BY <1>5, <2>1, <2>2, <2>3, <2>4, <2>5 DEF StartRound, TypeOK
<1>6. ASSUME NEW reply \in Reply, Propose(reply) PROVE TypeOK' /\ CallsInv'
  <2>1. ExecTypeOK'
    BY <1>6 DEF Propose, TypeOK, ExecTypeOK, execVars, session
  <2>2. PICK i \in asking : i = Min(asking)
    BY <1>6, AskedIsOpen DEF Propose, TypeOK
  <2>3. i \in Items /\ calls[i] < round /\ round \in 0 .. max_attempts
        /\ calls \in [Items -> 0 .. max_attempts]
    BY <1>6 DEF Propose, TypeOK, CallsInv
  <2>4. Fix(reply) \in Sql
    BY DEF Fix, Reply, Sql
  <2>5. /\ asking' = asking \ {i} /\ calls' = [calls EXCEPT ![i] = calls[i] + 1]
        /\ proposal' = [proposal EXCEPT ![i] = Fix(reply)]
        /\ status' = [status EXCEPT ![i] = IF Fix(reply) = "empty" THEN "failed" ELSE "applying"]
        /\ able' = (able /\ Fix(reply) = "good")
        /\ UNCHANGED <<pc, targets, gaveUp, round, fixed, outcome>>
    BY <1>6, <2>2 DEF Propose
  <2>6. calls' \in [Items -> 0 .. max_attempts]
    BY <2>3, <2>5
  <2>7. CallsInv'
    BY <2>3, <2>5, <2>6 DEF CallsInv, TypeOK
  <2>8. QED BY <2>1, <2>4, <2>5, <2>6, <2>7 DEF TypeOK, ItemStatus
<1>7. CASE NoFixes
  <2>1. ExecTypeOK'
    BY <1>7 DEF NoFixes, TypeOK, ExecTypeOK, execVars, session
  <2>2. QED BY <1>7, <2>1 DEF NoFixes, TypeOK, CallsInv
<1>8. CASE ApplyFixes
  <2>1. ExecTypeOK'
    BY <1>8, CallTypes DEF ApplyFixes, TypeOK, Fixes
  <2>2. QED BY <1>8, <2>1 DEF ApplyFixes, TypeOK, CallsInv
<1>9. CASE RecordResults
  <2>1. ExecTypeOK'
    BY <1>9 DEF RecordResults, TypeOK, ExecTypeOK, session
  <2>2. status' \in [Items -> ItemStatus]
    BY <1>9 DEF RecordResults, TypeOK, ItemStatus
  <2>3. fixed' \in 0 .. NItems
    <3>1. {i \in targets : status'[i] = "success"} \in SUBSET (1 .. NItems)
      BY DEF TypeOK, Items
    <3>2. IsFiniteSet(1 .. NItems) /\ Cardinality(1 .. NItems) = NItems
      BY BoundsAssumption, FS_Interval
    <3>3. IsFiniteSet({i \in targets : status'[i] = "success"})
          /\ Cardinality({i \in targets : status'[i] = "success"}) <= NItems
      BY <3>1, <3>2, FS_Subset
    <3>4. QED BY <1>9, <3>3, FS_CardinalityType, BoundsAssumption DEF RecordResults
  <2>4. QED BY <1>9, <2>1, <2>2, <2>3 DEF RecordResults, TypeOK, CallsInv
<1>10. CASE Finish
  <2>1. ExecTypeOK'
    BY <1>10 DEF Finish, TypeOK, ExecTypeOK, execVars, session
  <2>2. QED BY <1>10, <2>1 DEF Finish, TypeOK, CallsInv
<1>11. CASE SetupFails
  BY <1>11 DEF SetupFails, TypeOK, ExecTypeOK, session, CallsInv
<1>12. CASE Execute
  <2>1. ExecTypeOK'
    BY <1>12, ExecTypeStep DEF Execute, TypeOK
  <2>2. QED BY <1>12, <2>1 DEF Execute, agentVars, TypeOK, CallsInv
<1>13. QED BY <1>1, <1>2, <1>3, <1>4, <1>5, <1>6, <1>7, <1>8, <1>9, <1>10, <1>11, <1>12
           DEF Next, RunStep

-----------------------------------------------------------------------------
(* The executor. *)

\* A connection that is closed while an item is tried again has failed during that item; and
\* a transaction is aborted only by a statement that Postgres would not run.
AttemptInv ==
  /\ todo = {} => attempt = 1
  /\ ~hit /\ conn = "closed" => attempt = 1
  /\ conn = "aborted" => Statement /\ ~Accepted(Item)

\* What apply_plan knows within a call: items without a result have none yet, one that was
\* applied is there, and what AttemptInv says of the connection.
CallInv ==
  /\ call # "idle" => pc \in {"applying", "fixing"}
  /\ \A i \in todo : result[i] = "none"
  /\ \A i \in Items : result[i] = "success" /\ sql[i] = "good" => i \in objects
  /\ AttemptInv

\* The statements of an item that got its result, and the objects.
LEMMA GetsEffect ==
  ASSUME ExecTypeOK, NEW res \in Result, Gets(res), todo # {}
  PROVE  /\ Item \in todo /\ result'[Item] = res
         /\ \A i \in Items \ {Item} : result'[i] = result[i]
         /\ todo' \subseteq todo \ {Item}
         /\ attempt' = 1 /\ hit' = FALSE /\ sql' = sql /\ call' = call
<1>1. Item \in todo
  BY ItemIsOpen DEF ExecTypeOK
<1>2. QED BY <1>1 DEF Gets, ExecTypeOK

\* Of one step of the executor: what becomes of the call, the results, the objects, and the
\* attempt.
CallEffect ==
  /\ sql' = sql /\ todo' \subseteq todo /\ outages' >= outages
  /\ call # "idle" /\ call' # "idle"

ResultEffect ==
  \/ result' = result
  \/ /\ Item \in todo /\ Item \notin todo'
     /\ \A i \in Items \ {Item} : result'[i] = result[i]
     /\ \/ result'[Item] = "skipped"
        \/ result'[Item] = "success" /\ objects' = Created(Item)
        \/ /\ result'[Item] = "failed" /\ objects' = objects
           /\ ~Accepted(Item) \/ outages' # outages \/ (attempt = DB_ATTEMPTS /\ conn = "closed")

ObjectEffect ==
  \/ objects' = objects
  \/ /\ Item \in todo /\ sql[Item] = "good" /\ objects' = objects \cup {Item}
     /\ outages' # 0 \/ (result'[Item] = "success" /\ Item \notin todo')

ExecEffect == CallEffect /\ ResultEffect /\ ObjectEffect /\ AttemptInv'

\* Every step of the executor has these effects.
LEMMA ExecStepEffect ==
  ASSUME ExecTypeOK, AttemptInv, ExecStep PROVE ExecEffect
<1>o. outages \in Nat /\ outages <= outages /\ outages + 1 >= outages /\ outages + 1 # 0
  BY BoundsAssumption DEF ExecTypeOK
<1>1. CASE Open \/ OpenFails \/ Close
  <2>1. /\ sql' = sql /\ todo' = todo /\ result' = result /\ objects' = objects
        /\ hit' = hit /\ attempt' = attempt
        /\ outages' = outages \/ outages' = outages + 1
        /\ call # "idle" /\ call' # "idle"
    BY <1>1 DEF Open, OpenFails, Close
  <2>2. CallEffect
    BY <1>o, <2>1 DEF CallEffect
  <2>3. ResultEffect /\ ObjectEffect
    BY <2>1 DEF ResultEffect, ObjectEffect
  <2>4. AttemptInv'
    <3>1. conn' = "open" \/ (conn' = conn /\ call # "apply") \/ (conn' = "closed" /\ todo = {})
      BY <1>1 DEF Open, OpenFails, Close
    <3>2. QED BY <2>1, <3>1 DEF AttemptInv, Statement, Applying
  <2>5. QED BY <2>2, <2>3, <2>4 DEF ExecEffect
<1>2. CASE Skip \/ Rollback \/ GiveUp \/ ReconnectFails
  <2>1. /\ todo # {} /\ call = "apply" /\ objects' = objects
        /\ outages' = outages \/ outages' = outages + 1
    BY <1>2 DEF Skip, Rollback, GiveUp, ReconnectFails, Statement, Applying
  <2>2. PICK s \in {"skipped", "failed"} :
          /\ Gets(s)
          /\ s = "failed" =>
               ~Accepted(Item) \/ outages' # outages \/ (attempt = DB_ATTEMPTS /\ conn = "closed")
    <3>1. CASE Skip
      BY <3>1 DEF Skip
    <3>2. CASE Rollback
      BY <3>2 DEF Rollback, AttemptInv
    <3>3. CASE GiveUp
      BY <3>3 DEF GiveUp
    <3>4. CASE ReconnectFails
      BY <1>o, <3>4 DEF ReconnectFails
    <3>5. QED BY <1>2, <3>1, <3>2, <3>3, <3>4
  <2>3. /\ Item \in todo /\ result'[Item] = s
        /\ \A i \in Items \ {Item} : result'[i] = result[i]
        /\ todo' \subseteq todo \ {Item}
        /\ attempt' = 1 /\ hit' = FALSE /\ sql' = sql /\ call' = call
    BY <2>1, <2>2, GetsEffect DEF Result
  <2>4. CallEffect
    BY <1>o, <2>1, <2>3 DEF CallEffect
  <2>5. ResultEffect
    BY <2>1, <2>2, <2>3 DEF ResultEffect
  <2>6. conn' # "aborted"
    <3>1. CASE Skip
      BY <3>1 DEF Skip, Statement, AttemptInv
    <3>2. CASE Rollback \/ GiveUp \/ ReconnectFails
      BY <3>2 DEF Rollback, GiveUp, ReconnectFails
    <3>3. QED BY <1>2, <3>1, <3>2
  <2>7. QED BY <2>1, <2>3, <2>4, <2>5, <2>6 DEF ObjectEffect, AttemptInv, ExecEffect
<1>3. CASE Apply
  <2>1. todo # {} /\ call = "apply" /\ Gets("success") /\ outages' = outages
        /\ objects' = Created(Item)
    BY <1>3 DEF Apply, Statement, Applying
  <2>2. /\ Item \in todo /\ result'[Item] = "success"
        /\ \A i \in Items \ {Item} : result'[i] = result[i]
        /\ todo' \subseteq todo \ {Item}
        /\ attempt' = 1 /\ hit' = FALSE /\ sql' = sql /\ call' = call
    BY <2>1, GetsEffect DEF Result
  <2>3. CallEffect
    BY <1>o, <2>1, <2>2 DEF CallEffect
  <2>4. ResultEffect
    BY <2>1, <2>2 DEF ResultEffect
  <2>5. ObjectEffect
    BY <2>1, <2>2 DEF ObjectEffect, Created
  <2>6. conn' = "open"
    BY <1>3 DEF Apply
  <2>7. QED BY <2>2, <2>3, <2>4, <2>5, <2>6 DEF AttemptInv, ExecEffect
<1>4. ASSUME NEW committed \in BOOLEAN, Drop(committed) PROVE ExecEffect
  <2>1. /\ todo # {} /\ call = "apply" /\ outages' = outages + 1 /\ hit' = TRUE
        /\ sql' = sql /\ todo' = todo /\ result' = result /\ call' = call
        /\ objects' = objects \/ objects' = Created(Item)
    BY <1>4 DEF Drop, Statement, Applying
  <2>2. Item \in todo
    BY <2>1, ItemIsOpen DEF ExecTypeOK
  <2>3. CallEffect
    BY <1>o, <2>1 DEF CallEffect
  <2>4. ResultEffect
    BY <2>1 DEF ResultEffect
  <2>5. ObjectEffect
    BY <1>o, <2>1, <2>2 DEF ObjectEffect, Created
  <2>6. conn' = "closed"
    BY <1>4 DEF Drop
  <2>7. QED BY <2>1, <2>3, <2>4, <2>5, <2>6 DEF AttemptInv, ExecEffect
<1>5. CASE Reconnect
  <2>1. /\ todo # {} /\ call = "apply" /\ outages' = outages /\ conn' = "open"
        /\ sql' = sql /\ todo' = todo /\ result' = result /\ call' = call /\ objects' = objects
    BY <1>5 DEF Reconnect, Statement, Applying
  <2>2. CallEffect
    BY <1>o, <2>1 DEF CallEffect
  <2>3. ResultEffect /\ ObjectEffect
    BY <2>1 DEF ResultEffect, ObjectEffect
  <2>4. QED BY <2>1, <2>2, <2>3 DEF AttemptInv, ExecEffect
<1>6. CASE Reject
  <2>1. /\ todo # {} /\ call = "apply" /\ outages' = outages /\ attempt' = attempt /\ hit' = hit
        /\ sql' = sql /\ todo' = todo /\ result' = result /\ call' = call /\ objects' = objects
        /\ conn' = "aborted" /\ ~Accepted(Item)
    BY <1>6 DEF Reject, Statement, Applying
  <2>2. CallEffect
    BY <1>o, <2>1 DEF CallEffect
  <2>3. ResultEffect /\ ObjectEffect
    BY <2>1 DEF ResultEffect, ObjectEffect
  <2>4. Item' = Item
    BY <2>1 DEF Item
  <2>5. ~Accepted(Item)' /\ Statement'
    BY <1>6, <2>1, <2>4 DEF Reject, Accepted, Statement, Applying
  <2>6. QED BY <2>1, <2>2, <2>3, <2>5 DEF AttemptInv, ExecEffect
<1>7. QED BY <1>1, <1>2, <1>3, <1>4, <1>5, <1>6 DEF ExecStep

\* They keep the invariant of the call.
LEMMA ExecKeepsCall ==
  ASSUME TypeOK, CallInv, Execute PROVE CallInv'
<1>1. CallEffect /\ ResultEffect /\ ObjectEffect /\ AttemptInv' /\ pc' = pc
  BY ExecStepEffect DEF Execute, TypeOK, CallInv, agentVars, ExecEffect
<1>2. todo \subseteq Items /\ todo' \subseteq todo /\ sql' = sql
  BY <1>1 DEF TypeOK, ExecTypeOK, CallEffect
<1>3. ASSUME NEW i \in todo' PROVE result'[i] = "none"
  <2>1. result'[i] = result[i]
    BY <1>1, <1>2 DEF ResultEffect
  <2>2. QED BY <1>2, <2>1 DEF CallInv
<1>4. ASSUME NEW i \in Items, result'[i] = "success", sql'[i] = "good" PROVE i \in objects'
  <2>1. objects \subseteq objects'
    BY <1>1 DEF ObjectEffect
  <2>2. CASE result'[i] = result[i]
    BY <1>2, <1>4, <2>1, <2>2 DEF CallInv
  <2>3. CASE result'[i] # result[i]
    BY <1>1, <1>2, <1>4, <2>3 DEF ResultEffect, Created
  <2>4. QED BY <2>2, <2>3
<1>5. call # "idle" /\ call' # "idle"
  BY <1>1 DEF CallEffect
<1>6. QED BY <1>1, <1>3, <1>4, <1>5 DEF CallInv

\* And so does every step.
LEMMA CallStep ==
  ASSUME TypeOK, CallInv, [Next]_vars PROVE CallInv'
<1>1. CASE UNCHANGED vars
  BY <1>1 DEF vars, execVars, agentVars, session, CallInv, AttemptInv, Statement, Applying, Accepted, Item
<1>2. ASSUME NEW items \in SUBSET Items, NEW texts, NEW stopOnError,
             CallApply(items, texts, stopOnError), pc' \in {"applying", "fixing"}
      PROVE  CallInv'
  BY <1>2 DEF CallApply, CallInv, AttemptInv, Statement, Applying
<1>3. CASE ApplyRequest
  BY <1>2, <1>3 DEF ApplyRequest
<1>4. CASE ApplyFixes
  BY <1>2, <1>4 DEF ApplyFixes, Fixes
<1>5. CASE Validate \/ RecordResults \/ SetupFails
  BY <1>5 DEF Validate, RecordResults, SetupFails, session, CallInv, AttemptInv, Statement, Applying
<1>6. CASE PrePass \/ StartRound \/ NoFixes \/ Finish \/ \E reply \in Reply : Propose(reply)
  <2>1. UNCHANGED execVars /\ pc \notin {"applying", "fixing"}
    BY <1>6 DEF PrePass, StartRound, NoFixes, Finish, Propose
  <2>2. QED BY <2>1 DEF execVars, session, CallInv, AttemptInv, Statement, Applying
<1>7. CASE Execute
  BY <1>7, ExecKeepsCall
<1>8. QED BY <1>1, <1>3, <1>4, <1>5, <1>6, <1>7 DEF Next, RunStep

-----------------------------------------------------------------------------
(* The rounds. *)

\* The items of a round are open; what is applied are their statements; and while the model
\* proposes the right ones, what the run has fixed is there.
RoundInv ==
  /\ pc \in {"apply", "applying", "prepass"} => \A i \in Items : status[i] = "pending"
  /\ pc = "propose" => asking \subseteq OpenItems
  /\ pc \in {"propose", "fixing"} => Fixes \subseteq OpenItems
  /\ pc = "fixing" => sql = proposal /\ todo \subseteq Fixes
  /\ pc = "fixing" => \A i \in Items \ Fixes : result[i] = "none"
  /\ able => \A i \in Items : proposal[i] \in {"good", "empty"}
  /\ able => \A i \in Items : status[i] = "success" => i \in objects

\* Every step keeps it.
LEMMA RoundStep ==
  ASSUME TypeOK, CallInv, RoundInv, [Next]_vars PROVE RoundInv'
<1>t. /\ targets \subseteq Items /\ gaveUp \subseteq Items /\ asking \subseteq Items
      /\ status \in [Items -> ItemStatus] /\ proposal \in [Items -> Sql]
  BY DEF TypeOK
<1>1. CASE UNCHANGED vars
  BY <1>1 DEF vars, execVars, agentVars, RoundInv, OpenItems, Fixes
<1>2. CASE ApplyRequest
  BY <1>2 DEF ApplyRequest, CallApply, RoundInv
<1>3. CASE Validate
  BY <1>3 DEF Validate, RoundInv
<1>4. CASE PrePass
  <2>1. /\ pc' = "round" /\ UNCHANGED <<able, proposal, objects>>
        /\ \A i \in Items : status'[i] = "success" => status[i] = "success"
    BY <1>4, <1>t DEF PrePass, execVars
  <2>2. QED BY <2>1 DEF RoundInv
<1>5. CASE StartRound
  <2>1. /\ pc' = "propose" /\ UNCHANGED <<able, objects, status, targets, gaveUp>>
        /\ asking' = OpenItems /\ proposal' = NoSql
    BY <1>5 DEF StartRound, execVars
  <2>2. Fixes' = {} /\ OpenItems' = OpenItems /\ \A i \in Items : proposal'[i] = "empty"
    BY <2>1 DEF Fixes, NoSql, OpenItems
  <2>3. QED BY <2>1, <2>2 DEF RoundInv
<1>6. ASSUME NEW reply \in Reply, Propose(reply) PROVE RoundInv'
  <2>1. PICK i \in asking : i = Min(asking)
    BY <1>6, <1>t, AskedIsOpen DEF Propose
  <2>2. /\ pc = "propose" /\ pc' = pc /\ UNCHANGED <<objects, targets, gaveUp>>
        /\ asking' = asking \ {i}
        /\ proposal' = [proposal EXCEPT ![i] = Fix(reply)]
        /\ status' = [status EXCEPT ![i] = IF Fix(reply) = "empty" THEN "failed" ELSE "applying"]
        /\ able' = (able /\ Fix(reply) = "good")
    BY <1>6, <2>1 DEF Propose, execVars
  <2>3. i \in OpenItems /\ i \in Items
    BY <1>t, <2>2 DEF RoundInv
  <2>4. \A j \in Items : status'[j] = "success" => status[j] = "success"
    BY <1>t, <2>2, <2>3
  <2>5. OpenItems \subseteq OpenItems'
    BY <1>t, <2>2, <2>4 DEF OpenItems
  <2>6. Fixes' \subseteq Fixes \cup {i}
    BY <1>t, <2>2, <2>3 DEF Fixes
  <2>7. Fixes' \subseteq OpenItems' /\ asking' \subseteq OpenItems'
    BY <2>2, <2>3, <2>5, <2>6 DEF RoundInv
  <2>8. able' => \A j \in Items : proposal'[j] \in {"good", "empty"}
    BY <1>t, <2>2, <2>3 DEF RoundInv
  <2>9. QED BY <2>2, <2>4, <2>7, <2>8 DEF RoundInv
<1>7. CASE NoFixes \/ Finish \/ SetupFails
  <2>1. pc' \in {"round", "over"} /\ UNCHANGED <<able, proposal, objects, status>>
    BY <1>7 DEF NoFixes, Finish, SetupFails, execVars
  <2>2. QED BY <2>1 DEF RoundInv
<1>8. CASE ApplyFixes
  <2>1. /\ pc = "propose" /\ pc' = "fixing" /\ sql' = proposal /\ todo' = Fixes
        /\ UNCHANGED <<able, proposal, objects, status, targets, gaveUp>>
        /\ \A i \in Items : result'[i] = "none"
    BY <1>8 DEF ApplyFixes, CallApply
  <2>2. Fixes' = Fixes /\ OpenItems' = OpenItems
    BY <2>1 DEF Fixes, OpenItems
  <2>3. QED BY <2>1, <2>2 DEF RoundInv
<1>9. CASE RecordResults
  <2>1. /\ pc = "fixing" /\ pc' = "round" /\ UNCHANGED <<able, proposal, objects>>
        /\ status' = [i \in Items |-> IF i \notin Fixes THEN status[i]
                                      ELSE IF result[i] = "success" THEN "success" ELSE "failed"]
    BY <1>9 DEF RecordResults
  <2>2. ASSUME able, NEW i \in Items, status'[i] = "success" PROVE i \in objects
    <3>1. CASE i \notin Fixes
      BY <2>1, <2>2, <3>1 DEF RoundInv
    <3>2. CASE i \in Fixes
      <4>1. result[i] = "success" /\ sql[i] = "good"
        BY <2>1, <2>2, <3>2 DEF RoundInv, Fixes
      <4>2. QED BY <4>1 DEF CallInv
    <3>3. QED BY <3>1, <3>2
  <2>3. QED BY <2>1, <2>2 DEF RoundInv
<1>10. CASE Execute
  <2>1. CallEffect /\ ResultEffect /\ ObjectEffect /\ UNCHANGED agentVars
    BY <1>10, ExecStepEffect DEF Execute, TypeOK, CallInv, ExecEffect
  <2>2. sql' = sql /\ todo' \subseteq todo /\ objects \subseteq objects'
    BY <2>1 DEF CallEffect, ObjectEffect
  <2>3. Fixes' = Fixes /\ OpenItems' = OpenItems
    BY <2>1 DEF agentVars, Fixes, OpenItems
  <2>4. \A i \in Items \ todo : result'[i] = result[i]
    BY <2>1 DEF ResultEffect
  <2>5. QED BY <2>1, <2>2, <2>3, <2>4 DEF agentVars, RoundInv
<1>11. QED BY <1>1, <1>2, <1>3, <1>4, <1>5, <1>6, <1>7, <1>8, <1>9, <1>10 DEF Next, RunStep

-----------------------------------------------------------------------------
(* While the connection holds. *)

\* Nothing is in the target before the first call, nothing but what succeeded during a
\* call, and nothing of what is still open.
ExactInv ==
  outages = 0 =>
    /\ pc = "apply" => objects = {}
    /\ pc = "applying" => \A i \in Items : result[i] # "success" => i \notin objects
    /\ pc \in {"round", "propose"} => OpenItems \cap objects = {}
    /\ pc = "fixing" => \A i \in OpenItems : result[i] # "success" => i \notin objects
    /\ \A i \in Items : result[i] = "failed" => i \notin objects \/ sql[i] # "good"

\* Every step keeps it.
LEMMA ExactStep ==
  ASSUME TypeOK, CallInv, RoundInv, ExactInv, [Next]_vars PROVE ExactInv'
<1>t. /\ targets \subseteq Items /\ gaveUp \subseteq Items /\ todo \subseteq Items
      /\ status \in [Items -> ItemStatus] /\ outages \in Nat
  BY BoundsAssumption DEF TypeOK, ExecTypeOK
<1>1. CASE UNCHANGED vars
  BY <1>1 DEF vars, execVars, agentVars, session, ExactInv, OpenItems
<1>2. CASE ApplyRequest
  BY <1>2 DEF ApplyRequest, CallApply, ExactInv
<1>3. CASE Validate
  BY <1>3, <1>t DEF Validate, session, ExactInv, TypeOK, ExecTypeOK
<1>4. CASE PrePass
  <2>1. /\ pc' = "round" /\ UNCHANGED <<objects, outages, result, sql, targets>>
        /\ gaveUp' = {i \in targets : ~Fixable(i)}
    BY <1>4 DEF PrePass, execVars, session
  <2>2. OpenItems' \cap objects' = {}
    BY <2>1 DEF OpenItems, Fixable
  <2>3. QED BY <2>1, <2>2 DEF ExactInv
<1>5. CASE StartRound \/ NoFixes \/ Finish
  <2>1. /\ pc \in {"round", "propose"} /\ pc' \in {"round", "propose", "over"}
        /\ UNCHANGED <<objects, outages, result, sql, targets, gaveUp, status>>
    BY <1>5 DEF StartRound, NoFixes, Finish, execVars, session
  <2>2. OpenItems' = OpenItems
    BY <2>1 DEF OpenItems
  <2>3. QED BY <2>1, <2>2 DEF ExactInv
<1>6. ASSUME NEW reply \in Reply, Propose(reply) PROVE ExactInv'
  <2>1. PICK i \in asking : i = Min(asking)
    BY <1>6, AskedIsOpen DEF Propose, TypeOK
  <2>2. /\ pc = "propose" /\ pc' = pc
        /\ UNCHANGED <<objects, outages, result, sql, targets, gaveUp>>
        /\ status' = [status EXCEPT ![i] = IF Fix(reply) = "empty" THEN "failed" ELSE "applying"]
    BY <1>6, <2>1 DEF Propose, execVars, session
  <2>3. i \in OpenItems
    BY <2>2 DEF RoundInv
  <2>4. OpenItems' \subseteq OpenItems
    BY <1>t, <2>2, <2>3 DEF OpenItems
  <2>5. QED BY <2>2, <2>4 DEF ExactInv
<1>7. CASE ApplyFixes
  <2>1. /\ pc = "propose" /\ pc' = "fixing"
        /\ UNCHANGED <<objects, outages, targets, gaveUp, status>>
        /\ \A i \in Items : result'[i] = "none"
    BY <1>7 DEF ApplyFixes, CallApply
  <2>2. OpenItems' = OpenItems
    BY <2>1 DEF OpenItems
  <2>3. QED BY <2>1, <2>2 DEF ExactInv
<1>8. CASE RecordResults
  <2>1. /\ pc = "fixing" /\ pc' = "round"
        /\ UNCHANGED <<objects, outages, result, sql, targets, gaveUp>>
        /\ status' = [i \in Items |-> IF i \notin Fixes THEN status[i]
                                      ELSE IF result[i] = "success" THEN "success" ELSE "failed"]
    BY <1>8 DEF RecordResults, session
  <2>2. ASSUME outages = 0, NEW i \in OpenItems' PROVE i \notin objects
    <3>1. i \in Items /\ i \in targets /\ i \notin gaveUp /\ status'[i] # "success"
      BY <1>t, <2>1 DEF OpenItems
    <3>2. i \in OpenItems
      BY <2>1, <3>1 DEF RoundInv, OpenItems
    <3>3. CASE result[i] # "success"
      BY <2>1, <2>2, <3>2, <3>3 DEF ExactInv
    <3>4. CASE result[i] = "success"
      BY <2>1, <3>1, <3>4 DEF RoundInv
    <3>5. QED BY <3>3, <3>4
  <2>3. QED BY <2>1, <2>2 DEF ExactInv
<1>9. CASE SetupFails
  BY <1>9 DEF SetupFails, session, ExactInv
<1>10. CASE Execute
  <2>1. CallEffect /\ ResultEffect /\ ObjectEffect /\ UNCHANGED agentVars
    BY <1>10, ExecStepEffect DEF Execute, TypeOK, CallInv, ExecEffect
  <2>2. pc \in {"applying", "fixing"} /\ pc' = pc /\ OpenItems' = OpenItems
    BY <2>1 DEF CallEffect, CallInv, agentVars, OpenItems
  <2>3. ASSUME outages' = 0
        PROVE  /\ outages = 0
               /\ \/ objects' = objects
                  \/ objects' = objects \cup {Item} /\ result'[Item] = "success"
    BY <1>t, <2>1, <2>3 DEF CallEffect, ObjectEffect
  <2>4. ASSUME NEW i \in Items, result'[i] # "success" PROVE result[i] # "success"
    BY <2>1, <2>4 DEF ResultEffect, CallInv
  <2>5. ASSUME outages' = 0, NEW i \in Items, result'[i] # "success", i \notin objects
        PROVE  i \notin objects'
    BY <2>3, <2>5
  <2>6. ASSUME outages' = 0, NEW i \in Items, result'[i] = "failed", sql'[i] = "good"
        PROVE  i \notin objects'
    <3>1. CASE result[i] = "failed"
      BY <2>1, <2>3, <2>5, <2>6, <3>1 DEF ExactInv, CallEffect
    <3>2. CASE result[i] # "failed"
      <4>1. i = Item /\ i \in todo /\ result[i] = "none"
        BY <2>1, <2>6, <3>2 DEF ResultEffect, CallInv
      <4>2. pc = "fixing" => i \in OpenItems
        BY <4>1 DEF RoundInv
      <4>3. i \notin objects
        BY <2>2, <2>3, <2>6, <4>1, <4>2 DEF ExactInv
      <4>4. QED BY <2>5, <2>6, <4>3
    <3>3. QED BY <3>1, <3>2
  <2>7. OpenItems \subseteq Items
    BY <1>t DEF OpenItems
  <2>8. ASSUME outages' = 0, NEW i \in Items, result'[i] # "success",
               pc = "applying" \/ i \in OpenItems
        PROVE  i \notin objects'
    BY <2>2, <2>3, <2>4, <2>5, <2>8 DEF ExactInv
  <2>9. QED BY <2>2, <2>6, <2>7, <2>8 DEF ExactInv
<1>11. QED BY <1>1, <1>2, <1>3, <1>4, <1>5, <1>6, <1>7, <1>8, <1>9, <1>10 DEF Next, RunStep

-----------------------------------------------------------------------------
(* The levels of the dependencies. *)

\* What is not left to the agent is in the target.
RestInv ==
  /\ pc \in {"apply", "applying", "prepass"} => round = 0 /\ gaveUp = {}
  /\ pc \notin {"apply", "applying"} => Items \ (targets \ gaveUp) \subseteq objects

\* Every step keeps it.
LEMMA RestStep ==
  ASSUME TypeOK, CallInv, RestInv, [Next]_vars PROVE RestInv'
<1>1. objects \subseteq objects' \/ pc \in {"apply", "applying"}
  <2>1. CASE Execute
    BY <2>1, ExecStepEffect DEF Execute, TypeOK, CallInv, ExecEffect, ObjectEffect
  <2>2. CASE ~Execute
    BY <2>2 DEF Next, RunStep, ApplyRequest, Validate, PrePass, StartRound, Propose, NoFixes,
                ApplyFixes, RecordResults, Finish, SetupFails, CallApply, vars, execVars
  <2>3. QED BY <2>1, <2>2
<1>2. CASE Validate
  BY <1>2 DEF Validate, RestInv, TypeOK, ExecTypeOK
<1>3. CASE PrePass
  BY <1>1, <1>3 DEF PrePass, Fixable, RestInv, TypeOK, execVars
<1>4. CASE ApplyRequest
  BY <1>4 DEF ApplyRequest, RestInv
<1>5. CASE StartRound \/ NoFixes \/ ApplyFixes \/ RecordResults \/ Finish \/ SetupFails
           \/ \E reply \in Reply : Propose(reply)
  <2>1. /\ pc \notin {"apply", "applying", "prepass"} /\ pc' \notin {"apply", "applying", "prepass"}
        /\ UNCHANGED <<targets, gaveUp>>
    BY <1>5 DEF StartRound, NoFixes, ApplyFixes, RecordResults, Finish, SetupFails, Propose
  <2>2. QED BY <1>1, <2>1 DEF RestInv
<1>6. CASE Execute \/ UNCHANGED vars
  <2>1. UNCHANGED agentVars
    BY <1>6 DEF Execute, vars
  <2>2. QED BY <1>1, <2>1 DEF RestInv, agentVars
<1>7. QED BY <1>2, <1>3, <1>4, <1>5, <1>6 DEF Next, RunStep

\* While the model is right and the connection holds, the call of a round applies a
\* statement for every open item, in the order of the kinds; those of the earlier rounds'
\* levels are fixed, and those of this round's that had their turn succeeded.
RoundCall ==
  /\ Fixes = OpenItems
  /\ ~stop /\ call # "raised"
  /\ call = "apply" => conn # "closed"
  /\ call = "returned" => todo = {}
  /\ \A i \in Fixes \ todo : \A j \in todo : Before(i, j)
  /\ \A level \in Levels : \A i \in Fixes \ todo : level[i] <= round => result[i] = "success"

LevelInv ==
  able /\ outages = 0 =>
    /\ pc = "propose" => OpenItems # {} /\ Fixes \cup asking = OpenItems
    /\ pc = "fixing" => RoundCall
    /\ pc = "round" => Resolved(round)
    /\ pc \in {"propose", "fixing"} => Resolved(round - 1)
    /\ pc = "over" => Resolved(max_attempts)

\* The item that is applied next comes first.
LEMMA ItemIsFirst ==
  ASSUME todo \subseteq Items, todo # {} PROVE \A j \in todo \ {Item} : Before(Item, j)
BY SomeItemIsFirst DEF Item

\* Of two items one comes first, and then the other does not.
LEMMA BeforeIsOrder ==
  ASSUME NEW i \in Items, NEW j \in Items, Before(i, j) PROVE ~Before(j, i)
BY KindAssumption, BoundsAssumption DEF Before, Items

\* What an item of the round's level requires is there when it is applied.
LEMMA RequiredIsThere ==
  ASSUME TypeOK, CallInv, RoundInv, ExactInv, RestInv, LevelInv, able, outages = 0, pc = "fixing",
         todo # {}, NEW level \in Levels, level[Item] <= round
  PROVE  Accepted(Item)
<1>1. /\ Item \in todo /\ Item \in Items /\ Item \in OpenItems /\ Item \in Fixes
      /\ RoundCall /\ Resolved(round - 1) /\ round \in Nat
  BY ItemIsOpen DEF TypeOK, ExecTypeOK, RoundInv, LevelInv
<1>2. sql[Item] = "good"
  BY <1>1 DEF RoundInv, Fixes
<1>3. Item \notin objects
  <2>1. result[Item] = "none"
    BY <1>1 DEF CallInv
  <2>2. QED BY <1>1, <2>1 DEF ExactInv
<1>4. level \in [Items -> 1 .. NItems] /\ Requires[Item] \subseteq Items
  BY <1>1, RequiresAssumption DEF Levels
<1>5. ASSUME NEW j \in Requires[Item] PROVE j \in objects
  <2>1. j \in Items /\ level[j] \in Nat /\ level[Item] \in Nat
    BY <1>1, <1>4, BoundsAssumption
  <2>2. CASE j \notin targets \ gaveUp
    BY <2>1, <2>2 DEF RestInv
  <2>3. CASE j \in targets \ gaveUp /\ status[j] = "success"
    BY <2>1, <2>3 DEF RoundInv
  <2>4. CASE j \in targets \ gaveUp /\ status[j] # "success"
    <3>1. j \in Fixes
      BY <1>1, <2>4 DEF OpenItems, RoundCall
    <3>2. ~(level[j] <= round - 1)
      BY <1>1, <2>4 DEF Resolved
    <3>3. level[j] = level[Item] /\ Before(j, Item)
      BY <1>1, <1>5, <2>1, <3>2 DEF Levels
    <3>4. j \notin todo
      <4>1. ASSUME j \in todo, j # Item PROVE FALSE
        <5>1. Before(Item, j)
          BY <4>1, ItemIsFirst DEF TypeOK, ExecTypeOK
        <5>2. QED BY <1>1, <2>1, <3>3, <5>1, BeforeIsOrder
      <4>2. j # Item
        BY <1>1, <2>1, <3>3, BeforeIsOrder
      <4>3. QED BY <4>1, <4>2
    <3>5. result[j] = "success"
      BY <1>1, <3>1, <3>3, <3>4 DEF RoundCall
    <3>6. sql[j] = "good"
      BY <3>1 DEF RoundInv, Fixes
    <3>7. QED BY <2>1, <3>5, <3>6 DEF CallInv
  <2>5. QED BY <2>2, <2>3, <2>4
<1>6. QED BY <1>2, <1>3, <1>5 DEF Accepted

\* The executor's steps keep the levels.
LEMMA ExecKeepsLevels ==
  ASSUME TypeOK, CallInv, RoundInv, ExactInv, RestInv, LevelInv, Execute PROVE LevelInv'
<1> SUFFICES ASSUME able', outages' = 0 PROVE LevelInv'
  BY DEF LevelInv
<1>1. /\ UNCHANGED agentVars /\ ExecStep /\ call # "idle" /\ sql' = sql
      /\ outages = 0 /\ able /\ outages \in Nat /\ todo \subseteq Items
  BY ExecStepEffect, BoundsAssumption DEF Execute, TypeOK, ExecTypeOK, CallInv, ExecEffect, CallEffect, agentVars
<1>2. pc' = pc /\ pc \in {"applying", "fixing"}
  BY <1>1 DEF agentVars, CallInv
<1>3. /\ OpenItems' = OpenItems /\ Fixes' = Fixes /\ Resolved(round - 1)' = Resolved(round - 1)
      /\ round' = round
  BY <1>1 DEF agentVars, OpenItems, Fixes, Resolved
<1>4. CASE pc = "applying"
  BY <1>2, <1>4 DEF LevelInv
<1>5. CASE pc = "fixing"
  <2>1. RoundCall /\ Resolved(round - 1)
    BY <1>1, <1>5 DEF LevelInv
  <2>2. ASSUME Open PROVE RoundCall'
    BY <1>3, <2>1, <2>2 DEF Open, RoundCall
  <2>3. ASSUME Close PROVE RoundCall'
    BY <1>3, <2>1, <2>3 DEF Close, RoundCall
  <2>4. ASSUME NEW s \in Result, Gets(s), Applying, conn' # "closed",
               s = "success" \/ ~Accepted(Item)
        PROVE  RoundCall'
    <3>1. /\ Item \in todo /\ result'[Item] = s
          /\ \A i \in Items \ {Item} : result'[i] = result[i]
          /\ call' = call /\ call = "apply"
      BY <2>4, GetsEffect DEF TypeOK, Applying
    <3>2. todo' = todo \ {Item} /\ stop' = stop
      BY <2>1, <2>4 DEF Gets, RoundCall
    <3>3. \A j \in todo \ {Item} : Before(Item, j)
      BY <1>1, <3>1, ItemIsFirst
    <3>4. \A i \in Fixes \ todo' : \A j \in todo' : Before(i, j)
      BY <2>1, <3>2, <3>3 DEF RoundCall
    <3>5. ASSUME NEW level \in Levels, NEW i \in Fixes \ todo', level[i] <= round
          PROVE  result'[i] = "success"
      <4>1. CASE i = Item
        BY <1>1, <1>5, <2>4, <3>1, <3>5, <4>1, RequiredIsThere
      <4>2. CASE i # Item
        BY <2>1, <3>1, <3>2, <3>5, <4>2 DEF RoundCall, Fixes
      <4>3. QED BY <4>1, <4>2
    <3>6. QED BY <1>3, <2>1, <2>4, <3>1, <3>2, <3>4, <3>5 DEF RoundCall
  <2>5. ASSUME Apply PROVE RoundCall'
    BY <2>4, <2>5 DEF Apply, Statement, Result
  <2>6. ASSUME Rollback PROVE RoundCall'
    <3>1. conn' # "closed" /\ Gets("failed") /\ Applying
      BY <1>1, <2>6 DEF Rollback, Statement
    <3>2. ~Accepted(Item)
      BY <2>6 DEF Rollback, CallInv, AttemptInv
    <3>3. QED BY <2>4, <3>1, <3>2 DEF Result
  <2>7. ASSUME Skip PROVE RoundCall'
    <3>1. Item \in Fixes /\ sql = proposal
      BY <1>1, <1>5, <2>7, ItemIsOpen DEF Skip, Applying, RoundInv
    <3>2. QED BY <2>7, <3>1 DEF Skip, Fixes
  <2>8. ASSUME OpenFails \/ ReconnectFails \/ \E committed \in BOOLEAN : Drop(committed)
        PROVE  RoundCall'
    BY <1>1, <2>8 DEF OpenFails, ReconnectFails, Drop
  <2>9. ASSUME Reconnect \/ GiveUp PROVE RoundCall'
    BY <2>1, <2>9 DEF Reconnect, GiveUp, Statement, Applying, RoundCall
  <2>10. ASSUME Reject PROVE RoundCall'
    BY <1>3, <2>1, <2>10 DEF Reject, RoundCall
  <2>11. RoundCall'
    BY <1>1, <2>2, <2>3, <2>5, <2>6, <2>7, <2>8, <2>9, <2>10 DEF ExecStep
  <2>12. QED BY <1>2, <1>3, <1>5, <2>1, <2>11 DEF LevelInv
<1>6. QED BY <1>2, <1>4, <1>5

\* And so do those of the run.
LEMMA LevelStep ==
  ASSUME TypeOK, CallInv, RoundInv, ExactInv, RestInv, LevelInv, [Next]_vars PROVE LevelInv'
<1>t. /\ targets \subseteq Items /\ asking \subseteq Items /\ round \in Nat
      /\ status \in [Items -> ItemStatus] /\ proposal \in [Items -> Sql]
  BY DEF TypeOK
<1> SUFFICES ASSUME able', outages' = 0 PROVE LevelInv'
  BY DEF LevelInv
<1>1. CASE ApplyRequest \/ Validate
  BY <1>1 DEF ApplyRequest, Validate, LevelInv
<1>2. CASE PrePass
  <2>1. pc' = "round" /\ round' = 0
    BY <1>2 DEF PrePass, RestInv
  <2>2. \A level \in Levels : \A i \in Items : ~(level[i] <= 0)
    BY BoundsAssumption DEF Levels
  <2>3. targets' \subseteq Items
    BY <1>2, <1>t DEF PrePass
  <2>4. Resolved(round)'
    BY <2>1, <2>2, <2>3 DEF Resolved
  <2>5. QED BY <2>1, <2>4 DEF LevelInv
<1>3. CASE StartRound
  <2>1. /\ pc = "round" /\ pc' = "propose" /\ round' = round + 1 /\ asking' = OpenItems
        /\ proposal' = NoSql /\ OpenItems # {}
        /\ UNCHANGED <<able, outages, status, targets, gaveUp>>
    BY <1>3 DEF StartRound, execVars, session
  <2>2. Fixes' = {} /\ OpenItems' = OpenItems
    BY <2>1 DEF Fixes, NoSql, OpenItems
  <2>3. Resolved(round)
    BY <2>1 DEF LevelInv
  <2>4. Resolved(round - 1)'
    BY <1>t, <2>1, <2>3 DEF Resolved
  <2>5. QED BY <2>1, <2>2, <2>4 DEF LevelInv
<1>4. ASSUME NEW reply \in Reply, Propose(reply) PROVE LevelInv'
  <2>1. PICK i \in asking : i = Min(asking)
    BY <1>4, <1>t, AskedIsOpen DEF Propose
  <2>2. /\ pc = "propose" /\ pc' = pc /\ UNCHANGED <<outages, targets, gaveUp, round>>
        /\ asking' = asking \ {i} /\ Fix(reply) = "good" /\ able
        /\ proposal' = [proposal EXCEPT ![i] = Fix(reply)]
        /\ status' = [status EXCEPT ![i] = IF Fix(reply) = "empty" THEN "failed" ELSE "applying"]
    BY <1>4, <2>1 DEF Propose, execVars, session
  <2>3. /\ i \in OpenItems /\ i \in Items /\ status[i] # "success"
        /\ OpenItems # {} /\ Fixes \cup asking = OpenItems /\ Resolved(round - 1)
    BY <1>t, <2>2 DEF LevelInv, RoundInv, OpenItems
  <2>4. \A j \in Items : status'[j] = "success" <=> status[j] = "success"
    BY <1>t, <2>2, <2>3
  <2>5. OpenItems' = OpenItems /\ Resolved(round - 1)'
    BY <1>t, <2>2, <2>3, <2>4 DEF OpenItems, Resolved
  <2>6. Fixes' = Fixes \cup {i}
    BY <1>t, <2>2, <2>3 DEF Fixes
  <2>7. Fixes' \cup asking' = OpenItems'
    BY <2>2, <2>3, <2>5, <2>6
  <2>8. QED BY <2>2, <2>3, <2>5, <2>7 DEF LevelInv
<1>5. CASE NoFixes
  BY <1>5 DEF NoFixes, execVars, session, LevelInv
<1>6. CASE ApplyFixes
  <2>1. /\ pc = "propose" /\ pc' = "fixing" /\ asking = {} /\ todo' = Fixes /\ stop' = FALSE
        /\ call' = "open"
        /\ UNCHANGED <<able, outages, status, targets, gaveUp, round, proposal>>
    BY <1>6 DEF ApplyFixes, CallApply
  <2>2. Fixes' = Fixes /\ OpenItems' = OpenItems /\ Resolved(round - 1)' = Resolved(round - 1)
    BY <2>1 DEF Fixes, OpenItems, Resolved
  <2>3. Fixes = OpenItems /\ Resolved(round - 1)
    BY <2>1 DEF LevelInv
  <2>4. RoundCall'
    BY <2>1, <2>2, <2>3 DEF RoundCall
  <2>5. QED BY <2>1, <2>2, <2>3, <2>4 DEF LevelInv
<1>7. CASE RecordResults
  <2>1. /\ pc = "fixing" /\ pc' = "round" /\ call = "returned"
        /\ UNCHANGED <<able, outages, targets, gaveUp, round>>
        /\ status' = [i \in Items |-> IF i \notin Fixes THEN status[i]
                                      ELSE IF result[i] = "success" THEN "success" ELSE "failed"]
    BY <1>7 DEF RecordResults, session
  <2>2. RoundCall /\ todo = {}
    BY <2>1 DEF LevelInv, RoundCall
  <2>3. ASSUME NEW level \in Levels, NEW i \in targets \ gaveUp, level[i] <= round
        PROVE  status'[i] = "success"
    <3>1. CASE i \in Fixes
      BY <1>t, <2>1, <2>2, <2>3, <3>1 DEF RoundCall
    <3>2. CASE i \notin Fixes
      BY <1>t, <2>1, <2>2, <3>2 DEF RoundCall, OpenItems
    <3>3. QED BY <3>1, <3>2
  <2>4. Resolved(round)'
    BY <2>1, <2>3 DEF Resolved
  <2>5. QED BY <2>1, <2>4 DEF LevelInv
<1>8. CASE Finish
  <2>1. /\ pc = "round" /\ pc' = "over" /\ (round = max_attempts \/ OpenItems = {})
        /\ UNCHANGED <<able, outages, status, targets, gaveUp, round>>
    BY <1>8 DEF Finish, execVars, session
  <2>2. Resolved(max_attempts)
    BY <2>1 DEF LevelInv, Resolved, OpenItems
  <2>3. Resolved(max_attempts)'
    BY <2>1, <2>2 DEF Resolved
  <2>4. QED BY <2>1, <2>3 DEF LevelInv
<1>9. CASE SetupFails
  <2>1. pc = "fixing" /\ call = "raised" /\ able /\ outages = 0
    BY <1>9 DEF SetupFails, session
  <2>2. QED BY <2>1 DEF LevelInv, RoundCall
<1>10. CASE Execute
  BY <1>10, ExecKeepsLevels
<1>11. CASE UNCHANGED vars
  BY <1>11 DEF vars, execVars, agentVars, session, LevelInv, RoundCall, Resolved, OpenItems, Fixes
<1>12. QED BY <1>1, <1>2, <1>3, <1>4, <1>5, <1>6, <1>7, <1>8, <1>9, <1>10, <1>11 DEF Next, RunStep

-----------------------------------------------------------------------------
(* The theorems. *)

IInv == TypeOK /\ CallsInv /\ CallInv /\ RoundInv

\* The first state.
LEMMA InitInv == Init => IInv /\ ExactInv
<1> SUFFICES ASSUME Init PROVE IInv /\ ExactInv
  OBVIOUS
<1> USE DEF Init, ExecInit
<1>1. ExecTypeOK
  <2>1. attempt \in 1 .. DB_ATTEMPTS /\ outages \in 0 .. MaxOutages
    BY AttemptsAssumption, BoundsAssumption
  <2>2. sql \in [Items -> Sql] /\ result \in [Items -> Result]
    BY DEF Sql, Result
  <2>3. QED BY <2>1, <2>2 DEF ExecTypeOK
<1>2. TypeOK
  BY <1>1, MaxAttemptsAssumption, BoundsAssumption DEF TypeOK, ItemStatus, NoSql, Sql
<1>3. CallsInv /\ CallInv
  BY DEF CallsInv, CallInv, AttemptInv
<1>4. RoundInv /\ ExactInv
  BY DEF RoundInv, ExactInv, NoSql
<1>5. QED BY <1>2, <1>3, <1>4 DEF IInv

\* What is applied are the statements of open items, each item has one result per call, and
\* what a run counts as fixed by the right statement is there (apply_plan, _run_agent).
THEOREM Invariance == Spec => []IInv
<1>1. Init => IInv
  BY InitInv
<1>2. IInv /\ [Next]_vars => IInv'
  BY TypeStep, CallStep, RoundStep DEF IInv
<1>3. QED BY <1>1, <1>2, PTL DEF Spec

\* The executor and the run keep the types of the code's variables; the model is asked
\* about an item once in a round at most.
THEOREM TypeCorrect == Spec => []TypeOK
<1>1. IInv => TypeOK
  BY DEF IInv
<1>2. QED BY <1>1, Invariance, PTL

\* What is reported as applied is in the target, and as long as the connection holds what
\* is reported as failed is not (ItemResult, RepairItemState and their counts).
THEOREM ResultsTrue == Spec => []ResultsAreTrue
<1>1. Init => IInv /\ ExactInv
  BY InitInv
<1>2. IInv /\ ExactInv /\ [Next]_vars => (IInv /\ ExactInv)'
  BY TypeStep, CallStep, RoundStep, ExactStep DEF IInv
<1>3. IInv /\ ExactInv => ResultsAreTrue
  <2> SUFFICES ASSUME IInv, ExactInv PROVE ResultsAreTrue
    OBVIOUS
  <2>1. \A i \in Items : result[i] = "success" /\ sql[i] = "good" => i \in objects
    BY DEF IInv, CallInv
  <2>2. able => Fixed \subseteq objects
    BY DEF IInv, RoundInv, TypeOK, Fixed
  <2>3. outages = 0 => \A i \in Items : result[i] = "failed" /\ sql[i] = "good" => i \notin objects
    BY DEF ExactInv
  <2>4. QED BY <2>1, <2>2, <2>3 DEF ResultsAreTrue
<1>4. QED BY <1>1, <1>2, <1>3, PTL DEF Spec

\* An item whose statement is accepted fails only by an outage of its own (the retry of
\* call_with_retry reconnects a session that an earlier item left closed).
THEOREM FailuresIsolated == ASSUME DB_ATTEMPTS > 1 PROVE Spec => FailuresAreIsolated
<1>1. IInv /\ [Next]_vars =>
        [\A i \in Items :
           result[i] = "none" /\ result'[i] = "failed" /\ Accepted(i) => hit \/ outages' # outages]_vars
  <2> SUFFICES ASSUME IInv, [Next]_vars, vars' # vars, NEW i \in Items,
                      result[i] = "none", result'[i] = "failed", Accepted(i)
               PROVE  hit \/ outages' # outages
    OBVIOUS
  <2>1. CASE ExecStep
    <3>1. ResultEffect
      BY <2>1, ExecStepEffect DEF IInv, TypeOK, CallInv, ExecEffect
    <3>2. i = Item
      BY <3>1 DEF ResultEffect
    <3>3. outages' # outages \/ (attempt = DB_ATTEMPTS /\ conn = "closed")
      BY <3>1, <3>2 DEF ResultEffect
    <3>4. ~hit /\ conn = "closed" => attempt = 1
      BY DEF IInv, CallInv, AttemptInv
    <3>5. QED BY <3>3, <3>4 DEF IInv, TypeOK, ExecTypeOK
  <2>2. CASE \E items, texts, stopOnError : CallApply(items, texts, stopOnError)
    BY <2>2 DEF CallApply
  <2>3. CASE result' = result
    BY <2>3
  <2>4. QED
    <3>1. CASE ApplyRequest \/ ApplyFixes
      BY <2>2, <3>1 DEF ApplyRequest, ApplyFixes
    <3>2. CASE Validate \/ PrePass \/ StartRound \/ NoFixes \/ RecordResults \/ Finish
                 \/ SetupFails \/ \E reply \in Reply : Propose(reply)
      BY <2>3, <3>2 DEF Validate, PrePass, StartRound, NoFixes, RecordResults, Finish, SetupFails,
                        Propose, execVars
    <3>3. CASE Execute
      BY <2>1, <3>3 DEF Execute
    <3>4. QED BY <3>1, <3>2, <3>3 DEF Next, RunStep
<1>2. QED BY <1>1, Invariance, PTL DEF Spec, FailuresAreIsolated

\* "Dependency chains resolve across rounds", whatever the plan, the kinds and the
\* dependencies: while the model proposes the right statements and the connection holds,
\* round n leaves no item of the first n levels unresolved (_run_agent, apply_plan).
THEOREM ChainsAreResolved == Spec => []ChainsResolve
<1>1. Init => RestInv /\ LevelInv
  BY DEF Init, ExecInit, RestInv, LevelInv
<1>2. IInv /\ ExactInv /\ RestInv /\ LevelInv /\ [Next]_vars => (ExactInv /\ RestInv /\ LevelInv)'
  BY ExactStep, RestStep, LevelStep DEF IInv
<1>3. LevelInv => ChainsResolve
  BY DEF LevelInv, ChainsResolve
<1>4. QED BY <1>1, <1>2, <1>3, InitInv, Invariance, PTL DEF Spec
=============================================================================
