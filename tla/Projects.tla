------------------------------ MODULE Projects ------------------------------
(***************************************************************************)
(* backend/api/projects_routes.py and the stores under it: the document of *)
(* a project is read and saved as a whole, and a delete clears what other  *)
(* stores hold of the project before the document goes.  Credentials is    *)
(* the credential store of the same deployment, whose requests go on       *)
(* meanwhile.  The stores are the Postgres ones.                           *)
(***************************************************************************)
EXTENDS Credentials

CONSTANTS
  Cases,    \* policies of identifier_case
  NoDoc,    \* there is no such project
  MaxPuts   \* bound: PUT requests

ASSUME NoDocAssumption == NoDoc \notin [case : Cases, plan : Cases \cup {None}]

VARIABLES
  tab,    \* the document an open browser tab holds
  doc,    \* the project's row: its identifier_case, and the one its plan was built with
  runs,   \* whether the run store has rows of the project
  body,   \* the document each PUT carries
  puts    \* PUT requests so far

projVars == <<tab, doc, runs, body, puts>>
vars == <<credVars, pc, req, projVars>>

Doc == [case : Cases, plan : Cases \cup {None}]

Init ==
  /\ CredInit
  /\ doc \in [case : Cases, plan : {None}] /\ runs = FALSE
  /\ tab = NoDoc
  /\ body = [t \in Threads |-> NoDoc] /\ puts = 0

Begin(t, w, label) ==
  /\ At(t, "idle") /\ GoTo(t, label)
  /\ req' = [req EXCEPT ![t] = NewRequest(w, None, None)]

\* A browser tab reads the document.
Fetch ==
  /\ doc # NoDoc /\ tab' = doc
  /\ UNCHANGED <<credVars, pc, req, doc, runs, body, puts>>

\* What a client makes of the document it holds: the plan is built with its
\* policy, or the policy is changed.  What depends on the policy, the plan and
\* the validation, goes together.
Edits(d) == {[d EXCEPT !.plan = d.case]} \cup {[d EXCEPT !.case = c] : c \in Cases}

\* update_project(): 404 for a missing project; a changed policy drops the plan.
Put(t, w, edited) ==
  /\ doc # NoDoc /\ puts < MaxPuts /\ puts' = puts + 1
  /\ Begin(t, w, "save")
  /\ body' = [body EXCEPT ![t] = IF edited.case # doc.case THEN [edited EXCEPT !.plan = None]
                                 ELSE edited]
  /\ UNCHANGED <<credVars, doc, runs, tab>>

\* store.save() inserts what is not there.
Save(t) ==
  /\ At(t, "save") /\ Over(t)
  /\ doc' \in {body[t], doc}
  /\ body' = [body EXCEPT ![t] = NoDoc]
  /\ UNCHANGED <<credVars, runs, tab, puts>>

\* A run of the project records itself in the run store.
RecordRun == doc # NoDoc /\ ~runs /\ runs' = TRUE /\ UNCHANGED <<credVars, pc, req, tab, doc, body, puts>>

\* delete_project(), up to the clearing of the credentials.
Delete(t, w) == Begin(t, w, "clear") /\ UNCHANGED <<credVars, projVars>>

\* Mutant: a worker clears its own store, whichever it is.
AnyClears(t) == TRUE

\* A worker that has fallen back to its memory refuses to clear: it cannot
\* reach the table.
CanClear(t) == Durable(t)

\* clear_project() raises then, and when the table fails: the project is kept (502).
ClearProject(t) ==
  /\ At(t, "clear")
  /\ \/ /\ CanClear(t) /\ late' = {} /\ GoTo(t, "runs") /\ UNCHANGED req
        /\ IF Durable(t) THEN row' = NoRow /\ UNCHANGED memory
           ELSE memory' = [memory EXCEPT ![req[t].w] = NoRow] /\ UNCHANGED row
     \/ Over(t) /\ UNCHANGED <<row, late, memory>>
  /\ UNCHANGED <<keyVars, backend, starts, projVars>>

\* Run rows that cannot be deleted do not stop the delete.
ClearRuns(t) ==
  /\ At(t, "runs") /\ GoTo(t, "drop")
  /\ runs' \in {FALSE, runs}
  /\ UNCHANGED <<credVars, req, tab, doc, body, puts>>

\* store.delete(), which may raise.
DropProject(t) ==
  /\ At(t, "drop") /\ Over(t)
  /\ doc' \in {NoDoc, doc}
  /\ UNCHANGED <<credVars, runs, tab, body, puts>>

Restart == \E w \in Workers, b \in Backends : RestartWorker(w, b) /\ UNCHANGED projVars

Step(t) ==
  \/ CredStep(t) /\ UNCHANGED projVars
  \/ \E w \in Workers : Delete(t, w)
  \/ tab # NoDoc /\ \E w \in Workers, e \in Edits(tab) : Put(t, w, e)
  \/ Save(t) \/ ClearProject(t) \/ ClearRuns(t) \/ DropProject(t)
Next == Restart \/ RecordRun \/ Fetch \/ (\E t \in Threads : Step(t))

Spec == Init /\ [][Next]_vars

\* Type invariant of the stores and the requests.
TypeOK ==
  /\ CredTypeOK
  /\ pc \in [Threads -> {"idle", "resolve", "stored", "key", "newkey", "login", "write",
                         "save", "clear", "runs", "drop"}]
  /\ doc \in Doc \cup {NoDoc} /\ tab \in Doc \cup {NoDoc}
  /\ body \in [Threads -> Doc \cup {NoDoc}]

\* A delete takes a project from the store only when nothing is left of its credentials
\* in the table, except what a request has stored since that delete cleared them.  In
\* particular, a worker that has fallen back to its memory never deletes a project whose
\* row it cannot clear.
DeletedLeavesNothing ==
  [][\A t \in Threads : DropProject(t) /\ doc # NoDoc /\ doc' = NoDoc => row = NoRow \/ t \in late]_vars

\* projects_routes.py: "Never retain artifacts from the old policy when clients
\* change casing through the API directly".
PlanFitsCase == doc # NoDoc => doc.plan \in {None, doc.case}
=============================================================================
