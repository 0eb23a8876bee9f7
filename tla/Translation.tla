---------------------------- MODULE Translation ----------------------------
(***************************************************************************)
(* The translation of a plan's programmable objects: plan_runs starts a    *)
(* run, translate_all hands its objects to a pool of threads, and each     *)
(* translate_object makes a few calls of one model endpoint.  fm_params    *)
(* finds out what the endpoint accepts by sending it and remembers, for    *)
(* the whole process, what was refused; call_with_retry repeats a call     *)
(* that met a transient failure.                                           *)
(*                                                                         *)
(* A request is the set of features it was sent with: "temperature",       *)
(* "response_format", and "max_tokens" while that is beyond the endpoint's *)
(* output window.  Clamping it and dropping a parameter are then one step. *)
(* A reply is whether it was cut off and what _problems makes of it.       *)
(***************************************************************************)
EXTENDS Integers, FiniteSets

CONSTANTS N,        \* how many objects the plan has
          Workers,  \* threads of the pool
          Attempts, \* FM_POLICY.attempts
          MaxCont   \* _MAX_CONTINUATIONS

None == "none"

ASSUME TranslationAssumption ==
  N \in Nat \ {0} /\ Attempts \in Nat \ {0} /\ MaxCont \in Nat
  /\ IsFiniteSet(Workers) /\ Workers # {} /\ None \notin Workers

VARIABLES endpoint, \* what the endpoint refuses: features, and whole requests
          learned,  \* _LEARNED_UNSUPPORTED and _LEARNED_CAP
          refusals, \* how often each feature was refused
          work,     \* what each thread does
          next,     \* the object the pool hands out next
          results,  \* what became of each object
          lock,     \* who holds translate_all's lock
          counted,  \* completed
          run       \* the plan run the UI polls

vars == <<endpoint, learned, refusals, work, next, results, lock, counted, run>>

Objects == 1..N
Features == {"temperature", "response_format", "max_tokens"}

\* What _problems finds in a finished reply; "none" is a payload of None.
Quality == {"good", "bad", "none"}
Reply == [cut: BOOLEAN, quality: Quality]
Outcome == {"pending", "success", "flagged", "failed"}
Result == [outcome: Outcome, reply: Reply]
NoReply == [cut |-> FALSE, quality |-> "none"]

\* One call of translate_object: the first ask or the corrective one (fix),
\* structured or bare SQL, and how many continuations it has taken.
Call == [phase: {"call"}, obj: Objects, fix: BOOLEAN, sql: BOOLEAN,
         cont: 0..MaxCont, sent: SUBSET Features, tries: 1..Attempts]
At == [phase: {"lock"}, obj: Objects] \cup [phase: {"report", "idle", "gone"}, obj: Nat]
Idle == [phase |-> "idle", obj |-> 0]
Gone == [phase |-> "gone", obj |-> 0]

\* allowed_params: what is asked for, less what is known to be refused.
Allowed(asked) == asked \ (learned \cup endpoint.known)

\* _ask: a structured ask wants response_format, a bare one does not.
Ask(o, fix, sql, cont) ==
  [phase |-> "call", obj |-> o, fix |-> fix, sql |-> sql, cont |-> cont, tries |-> 1,
   sent |-> Allowed(IF sql THEN Features \ {"response_format"} ELSE Features)]

\* Type invariant of the endpoint, the pool and the run.
TypeOK ==
  /\ endpoint \in [refuses: SUBSET Features, known: SUBSET {"temperature"}, bad: SUBSET Objects]
  /\ learned \subseteq Features
  /\ refusals \in [Features -> Nat]
  /\ work \in [Workers -> Call \cup At]
  /\ next \in Nat \ {0}
  /\ results \in [Objects -> Result]
  /\ lock \in Workers \cup {None}
  /\ counted \in Nat
  /\ run \in [status: {"running", "success", "failed"}, done: Nat]

Init ==
  /\ \E refuses \in SUBSET Features, bad \in SUBSET Objects :
       \E known \in SUBSET (refuses \cap {"temperature"}) :
         endpoint = [refuses |-> refuses, known |-> known, bad |-> bad]
  /\ learned = {}
  /\ refusals = [f \in Features |-> 0]
  /\ work = [w \in Workers |-> Idle]
  /\ next = 1
  /\ results = [o \in Objects |-> [outcome |-> "pending", reply |-> NoReply]]
  /\ lock = None
  /\ counted = 0
  /\ run = [status |-> "running", done |-> 0]

\* pool.map gives a free thread the next object, and its first ask.
Take(w) ==
  /\ work[w] = Idle
  /\ IF next <= N
       THEN work' = [work EXCEPT ![w] = Ask(next, FALSE, FALSE, 0)] /\ next' = next + 1
       ELSE work' = [work EXCEPT ![w] = Gone] /\ UNCHANGED next
  /\ UNCHANGED <<endpoint, learned, refusals, results, lock, counted, run>>

Calling(w) == work[w].phase = "call"

\* A mutant: the request drops the feature but the process does not learn it.
ForgetOnce(w, f) ==
  /\ work' = [work EXCEPT ![w].sent = @ \ {f}]
  /\ refusals' = [refusals EXCEPT ![f] = @ + 1]
  /\ UNCHANGED <<endpoint, learned, next, results, lock, counted, run>>

\* Drop a feature from the request and remember it for the process.
Forget(w, f) ==
  /\ work' = [work EXCEPT ![w].sent = @ \ {f}]
  /\ learned' = learned \cup {f}
  /\ refusals' = [refusals EXCEPT ![f] = @ + 1]
  /\ UNCHANGED <<endpoint, next, results, lock, counted, run>>

\* The endpoint names the feature it refuses, or its output window.
Refuse(w) ==
  /\ Calling(w)
  /\ \E f \in work[w].sent \cap endpoint.refuses : Forget(w, f)

\* Any other 400 while response_format is sent is taken for a refusal of it.
BlameFormat(w) ==
  /\ Calling(w)
  /\ work[w].obj \in endpoint.bad
  /\ "response_format" \in work[w].sent
  /\ Forget(w, "response_format")

\* translate_object returns and the thread stores the result under its index.
Return(w, outcome, reply) ==
  /\ results' = [results EXCEPT ![work[w].obj] = [outcome |-> outcome, reply |-> reply]]
  /\ work' = [work EXCEPT ![w] = [phase |-> "lock", obj |-> work[w].obj]]
  /\ UNCHANGED <<endpoint, learned, refusals, next, lock, counted, run>>

\* An exception leaves the loops and translate_object returns _failed.
Raise(w) ==
  /\ Calling(w)
  /\ work[w].obj \in endpoint.bad /\ "response_format" \notin work[w].sent
  /\ Return(w, "failed", NoReply)

\* A transient failure is tried again with what was negotiated so far ...
Transient(w) ==
  /\ Calling(w)
  /\ IF work[w].tries < Attempts
       THEN /\ work' = [work EXCEPT ![w].tries = @ + 1]
            /\ UNCHANGED <<endpoint, learned, refusals, next, results, lock, counted, run>>
       ELSE Return(w, "failed", NoReply)

AskNext(w, fix, sql, cont) ==
  /\ work' = [work EXCEPT ![w] = Ask(@.obj, fix, sql, cont)]
  /\ UNCHANGED <<endpoint, learned, refusals, next, results, lock, counted, run>>

\* A mutant: the corrective ask is repeated until its reply is right.
JudgeAgain(w, reply) ==
  IF reply.quality = "good" THEN Return(w, "success", reply)
                            ELSE AskNext(w, TRUE, work[w].sql, 0)

\* A whole reply: kept when _problems finds nothing, asked for once more when it
\* does, and then kept but flagged, or failed when there is no payload.
Judge(w, reply) ==
  LET c == work[w]
  IN CASE reply.quality = "good" -> Return(w, "success", reply)
       [] reply.quality # "good" /\ ~c.fix -> AskNext(w, TRUE, c.sql, 0)
       [] reply.quality = "bad" /\ c.fix -> Return(w, "flagged", reply)
       [] reply.quality = "none" /\ c.fix -> Return(w, "failed", NoReply)

\* A mutant: the corrective ask's reply is judged although it was cut off.
CutJudged(w, reply) ==
  LET c == work[w]
  IN CASE ~c.sql /\ ~c.fix          -> AskNext(w, FALSE, TRUE, 0)
       [] c.sql /\ c.cont < MaxCont -> AskNext(w, c.fix, TRUE, c.cont + 1)
       [] c.sql /\ c.cont = MaxCont -> Return(w, "failed", NoReply)
       [] ~c.sql /\ c.fix           -> Judge(w, reply)

\* A reply that hit the output limit: a bare-SQL ask after the first structured
\* one, a continuation of a bare one, or _failed with the token-limit note.
Cut(w, reply) ==
  LET c == work[w]
  IN CASE ~c.sql /\ ~c.fix              -> AskNext(w, FALSE, TRUE, 0)
       [] c.sql /\ c.cont < MaxCont     -> AskNext(w, c.fix, TRUE, c.cont + 1)
       [] (c.sql /\ c.cont = MaxCont) \/ (~c.sql /\ c.fix) -> Return(w, "failed", NoReply)

Answer(w) ==
  /\ Calling(w)
  /\ work[w].obj \notin endpoint.bad
  /\ work[w].sent \cap endpoint.refuses = {}
  /\ \E reply \in Reply :
       /\ work[w].sql => reply.quality # "none"
       /\ IF reply.cut THEN Cut(w, reply) ELSE Judge(w, reply)

\* A mutant: the lock covers the count and not the report.
CountUnlocked(w) ==
  /\ work[w].phase = "lock"
  /\ counted' = counted + 1
  /\ work' = [work EXCEPT ![w] = [phase |-> "report", obj |-> counted + 1]]
  /\ UNCHANGED <<endpoint, learned, refusals, next, results, lock, run>>

\* on_done is called under the lock: the count is taken ...
Count(w) ==
  /\ work[w].phase = "lock"
  /\ lock = None
  /\ lock' = w
  /\ counted' = counted + 1
  /\ work' = [work EXCEPT ![w] = [phase |-> "report", obj |-> counted + 1]]
  /\ UNCHANGED <<endpoint, learned, refusals, next, results, run>>

\* ... and shown, before another thread counts.
Report(w) ==
  /\ work[w].phase = "report"
  /\ run' = [run EXCEPT !.done = work[w].obj]
  /\ lock' = None
  /\ work' = [work EXCEPT ![w] = Idle]
  /\ UNCHANGED <<endpoint, learned, refusals, next, results, counted>>

\* The pool has been left: build_plan returns its items, or raises.
Finish ==
  /\ run.status = "running"
  /\ \A w \in Workers : work[w] = Gone
  /\ \E status \in {"success", "failed"} : run' = [run EXCEPT !.status = status]
  /\ UNCHANGED <<endpoint, learned, refusals, work, next, results, lock, counted>>

WorkerStep(w) ==
  \/ Take(w) \/ Refuse(w) \/ BlameFormat(w) \/ Raise(w) \/ Transient(w)
  \/ Answer(w) \/ Count(w) \/ Report(w)

Next == Finish \/ \E w \in Workers : WorkerStep(w)

Spec == Init /\ [][Next]_vars

\* The threads of the pool run, and every call comes back in some way.
FairSpec == Spec /\ WF_vars(Finish) /\ \A w \in Workers : WF_vars(WorkerStep(w))
-----------------------------------------------------------------------------
\* A translation is called a success only on a whole reply in which nothing was
\* found wrong, through every fallback and retry (translate_object).
SuccessIsWhole ==
  \A o \in Objects :
    results[o].outcome = "success" => ~results[o].reply.cut /\ results[o].reply.quality = "good"

\* What the endpoint refuses costs each thread one failed call, not one for
\* every object (fm_params: "negotiation costs one failed call per endpoint").
RefusalsAreRemembered == \A f \in Features : refusals[f] <= Cardinality(Workers)

\* The progress the UI polls never goes back, though several threads report it.
ProgressNeverGoesBack == [][run'.done >= run.done]_vars

\* A build ends, whatever the endpoint does: every loop of asks is bounded.
BuildEnds == <>(run.status # "running")

\* fm_params: "What each endpoint rejected so far in this process".
LearnedIsRefused == learned \subseteq endpoint.refuses
=============================================================================
