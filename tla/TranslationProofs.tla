------------------------- MODULE TranslationProofs -------------------------
(***************************************************************************)
(* What is proved of Translation, for any number of objects, threads,      *)
(* attempts and continuations and whatever the endpoint refuses: only a    *)
(* whole, faultless reply is a success; a refused feature costs at most    *)
(* one call per thread; and the progress that is shown never goes back.    *)
(***************************************************************************)
EXTENDS Translation, FiniteSetTheorems, TLAPS

\* The threads with a request under way that has the feature.
Sending(f) == {w \in Workers : Calling(w) /\ f \in work[w].sent}

\* A feature is only refused while it is not remembered, or by a request sent before
\* it was: each of those is one thread's.
RefusalInv ==
  \A f \in Features :
    /\ f \notin learned => refusals[f] = 0
    /\ refusals[f] + Cardinality(Sending(f)) <= Cardinality(Workers)

\* Who shows the progress holds the lock, and shows the last count.
LockInv ==
  /\ run.done <= counted
  /\ \A w \in Workers : work[w].phase = "report" => lock = w /\ work[w].obj = counted

IInv == TypeOK /\ SuccessIsWhole /\ RefusalInv /\ LockInv

LEMMA SendingFinite ==
  ASSUME NEW f
  PROVE  IsFiniteSet(Sending(f)) /\ Cardinality(Sending(f)) \in Nat
         /\ Cardinality(Sending(f)) <= Cardinality(Workers) /\ Cardinality(Workers) \in Nat
<1>1. Sending(f) \in SUBSET Workers
  BY DEF Sending
<1>2. QED BY <1>1, FS_Subset, FS_CardinalityType, TranslationAssumption

\* Requests that end, and those that are sent with nothing that is remembered, keep the
\* count of refusals.
LEMMA RefusalsKept ==
  ASSUME IInv, UNCHANGED <<learned, refusals>>,
         \A f \in learned : Sending(f)' \subseteq Sending(f)
  PROVE  RefusalInv'
<1> SUFFICES ASSUME NEW f \in Features
             PROVE  /\ f \notin learned => refusals[f] = 0
                    /\ refusals[f] + Cardinality(Sending(f)') <= Cardinality(Workers)
  BY DEF RefusalInv
<1>1. f \notin learned => refusals[f] = 0
  BY DEF IInv, RefusalInv
<1>2. refusals[f] \in Nat
  BY DEF IInv, TypeOK
<1>3. refusals[f] + Cardinality(Sending(f)) <= Cardinality(Workers)
  BY DEF IInv, RefusalInv
<1>4. CASE f \in learned
  <2>1. Cardinality(Sending(f)') <= Cardinality(Sending(f)) /\ Cardinality(Sending(f)') \in Nat
    BY <1>4, SendingFinite, FS_Subset, FS_CardinalityType
  <2>2. QED BY <1>1, <1>2, <1>3, <2>1, SendingFinite
<1>5. CASE f \notin learned
  <2>1. Sending(f)' \in SUBSET Workers
    BY DEF Sending
  <2>2. Cardinality(Sending(f)') <= Cardinality(Workers) /\ Cardinality(Sending(f)') \in Nat
    BY <2>1, FS_Subset, FS_CardinalityType, TranslationAssumption
  <2>3. QED BY <1>1, <1>5, <2>2
<1>6. QED BY <1>4, <1>5

\* A thread that does anything but call sends nothing; it disturbs neither the lock nor
\* the others.
LEMMA WorkMoves ==
  ASSUME IInv, NEW w \in Workers, NEW item \in Call \cup At,
         work' = [work EXCEPT ![w] = item],
         work[w].phase # "report", item.phase # "report",
         item.phase = "call" => item.sent \cap learned \subseteq (IF Calling(w) THEN work[w].sent ELSE {}),
         UNCHANGED <<endpoint, learned, refusals, lock, counted, run>>,
         next' \in Nat \ {0},
         results' \in [Objects -> Result], SuccessIsWhole'
  PROVE  IInv'
<1>1. TypeOK'
  BY DEF IInv, TypeOK
<1>2. LockInv'
  BY DEF IInv, TypeOK, LockInv
<1>3. ASSUME NEW f \in learned PROVE Sending(f)' \subseteq Sending(f)
  BY DEF Sending, Calling, IInv, TypeOK
<1>4. RefusalInv'
  BY <1>3, RefusalsKept
<1>5. QED BY <1>1, <1>2, <1>4 DEF IInv

LEMMA AskIsCall ==
  ASSUME NEW o \in Objects, NEW fix \in BOOLEAN, NEW sql \in BOOLEAN, NEW cont \in 0 .. MaxCont
  PROVE  /\ Ask(o, fix, sql, cont) \in Call /\ Ask(o, fix, sql, cont).phase = "call"
         /\ Ask(o, fix, sql, cont).sent \cap learned = {}
  BY TranslationAssumption DEF Ask, Call, Allowed, Features

LEMMA CallTyped ==
  ASSUME IInv, NEW w \in Workers, Calling(w)
  PROVE  work[w] \in Call
  BY DEF IInv, TypeOK, Calling, At

LEMMA ReturnKeeps ==
  ASSUME IInv, NEW w \in Workers, Calling(w), NEW outcome \in Outcome, NEW reply \in Reply,
         outcome = "success" => ~reply.cut /\ reply.quality = "good", Return(w, outcome, reply)
  PROVE  IInv'
<1>1. work[w] \in Call /\ work[w].phase = "call" /\ work[w].obj \in Objects
  BY CallTyped DEF Call
<1>2. /\ results' = [results EXCEPT ![work[w].obj] = [outcome |-> outcome, reply |-> reply]]
      /\ work' = [work EXCEPT ![w] = [phase |-> "lock", obj |-> work[w].obj]]
      /\ UNCHANGED <<endpoint, learned, refusals, next, lock, counted, run>>
  BY DEF Return
<1>3. results' \in [Objects -> Result] /\ SuccessIsWhole'
  BY <1>1, <1>2 DEF IInv, TypeOK, SuccessIsWhole, Result
<1>4. [phase |-> "lock", obj |-> work[w].obj] \in Call \cup At
  BY <1>1 DEF At
<1>5. next' \in Nat \ {0}
  BY <1>2 DEF IInv, TypeOK
<1>6. QED BY <1>1, <1>2, <1>3, <1>4, <1>5, WorkMoves

LEMMA AskNextKeeps ==
  ASSUME IInv, NEW w \in Workers, Calling(w), NEW fix \in BOOLEAN, NEW sql \in BOOLEAN,
         NEW cont \in 0 .. MaxCont, AskNext(w, fix, sql, cont)
  PROVE  IInv'
<1>1. work[w] \in Call /\ work[w].phase = "call" /\ work[w].obj \in Objects
  BY CallTyped DEF Call
<1> DEFINE item == Ask(work[w].obj, fix, sql, cont)
<1>2. /\ work' = [work EXCEPT ![w] = item]
      /\ UNCHANGED <<endpoint, learned, refusals, next, results, lock, counted, run>>
  BY DEF AskNext
<1>3. item \in Call /\ item.phase = "call" /\ item.sent \cap learned = {}
  BY <1>1, AskIsCall
<1> HIDE DEF item
<1>4. /\ next' \in Nat \ {0}
      /\ results' \in [Objects -> Result] /\ SuccessIsWhole'
  BY <1>2 DEF IInv, TypeOK, SuccessIsWhole
<1>5. item \in Call \cup At /\ item.sent \cap learned \subseteq work[w].sent
  BY <1>3
<1>6. QED BY <1>1, <1>2, <1>3, <1>4, <1>5, WorkMoves

\* A refusal ends the request of one thread, and no request is sent with the feature again.
LEMMA ForgetKeeps ==
  ASSUME IInv, NEW w \in Workers, Calling(w), NEW g \in Features, g \in work[w].sent, Forget(w, g)
  PROVE  IInv'
<1>1. work[w] \in Call /\ work[w].phase = "call"
  BY CallTyped DEF Call
<1>2. /\ work' = [work EXCEPT ![w].sent = @ \ {g}]
      /\ learned' = learned \cup {g}
      /\ refusals' = [refusals EXCEPT ![g] = @ + 1]
      /\ UNCHANGED <<endpoint, next, results, lock, counted, run>>
  BY DEF Forget
<1>3. work \in [Workers -> Call \cup At] /\ refusals \in [Features -> Nat] /\ learned \subseteq Features
  BY DEF IInv, TypeOK
<1>4. [work[w] EXCEPT !.sent = @ \ {g}] \in Call
  BY <1>1 DEF Call
<1>5. /\ work' \in [Workers -> Call \cup At]
      /\ \A v \in Workers : work'[v].phase = work[v].phase /\ (v # w => work'[v] = work[v])
      /\ work'[w].sent = work[w].sent \ {g}
  <2>1. work' = [work EXCEPT ![w] = [work[w] EXCEPT !.sent = @ \ {g}]]
    BY <1>2
  <2>2. work'[w] = [work[w] EXCEPT !.sent = @ \ {g}] /\ \A v \in Workers : v # w => work'[v] = work[v]
    BY <1>3, <2>1
  <2>3. work'[w].phase = work[w].phase /\ work'[w].sent = work[w].sent \ {g}
    BY <1>1, <2>2 DEF Call
  <2>4. QED BY <1>3, <1>4, <2>1, <2>2, <2>3
<1>6. TypeOK'
  BY <1>2, <1>3, <1>5 DEF IInv, TypeOK
<1>7. SuccessIsWhole'
  BY <1>2 DEF IInv, SuccessIsWhole
<1>8. LockInv'
  BY <1>1, <1>2, <1>5 DEF IInv, LockInv
<1>9. Sending(g)' = Sending(g) \ {w} /\ \A f \in Features : f # g => Sending(f)' = Sending(f)
  BY <1>1, <1>5 DEF Sending, Calling
<1>10. ASSUME NEW f \in Features
       PROVE  /\ f \notin learned' => refusals'[f] = 0
              /\ refusals'[f] + Cardinality(Sending(f)') <= Cardinality(Workers)
  <2>1. /\ f \notin learned => refusals[f] = 0
        /\ refusals[f] + Cardinality(Sending(f)) <= Cardinality(Workers)
    BY DEF IInv, RefusalInv
  <2>2. CASE f # g
    BY <1>2, <1>3, <1>9, <2>1, <2>2
  <2>3. CASE f = g
    <3>1. w \in Sending(g)
      BY DEF Sending
    <3>2. Cardinality(Sending(g) \ {w}) = Cardinality(Sending(g)) - 1
      BY <3>1, SendingFinite, FS_RemoveElement
    <3>3. refusals'[g] = refusals[g] + 1 /\ refusals[g] \in Nat
      BY <1>2, <1>3
    <3>4. Cardinality(Sending(f)') = Cardinality(Sending(g)) - 1
      BY <1>9, <2>3, <3>2
    <3>5. Cardinality(Sending(g)) \in Nat /\ Cardinality(Workers) \in Nat
      BY SendingFinite
    <3>6. QED BY <1>2, <2>1, <2>3, <3>3, <3>4, <3>5
  <2>4. QED BY <2>2, <2>3
<1>11. QED BY <1>6, <1>7, <1>8, <1>10 DEF IInv, RefusalInv

\* What becomes of a reply: the object is over, or there is another ask.
LEMMA Judged ==
  ASSUME IInv, NEW w \in Workers, Calling(w), NEW reply \in Reply, Judge(w, reply)
  PROVE  \/ reply.quality = "good" /\ Return(w, "success", reply)
         \/ AskNext(w, TRUE, work[w].sql, 0)
         \/ Return(w, "flagged", reply)
         \/ Return(w, "failed", NoReply)
<1>1. work[w].fix \in BOOLEAN /\ reply.quality \in Quality
  BY CallTyped DEF Call, Reply
<1>2. QED BY <1>1 DEF Judge, Quality

LEMMA CutOff ==
  ASSUME IInv, NEW w \in Workers, Calling(w), NEW reply \in Reply, Cut(w, reply)
  PROVE  \/ AskNext(w, FALSE, TRUE, 0)
         \/ work[w].cont < MaxCont /\ AskNext(w, work[w].fix, TRUE, work[w].cont + 1)
         \/ Return(w, "failed", NoReply)
<1>1. work[w].fix \in BOOLEAN /\ work[w].sql \in BOOLEAN /\ work[w].cont \in 0 .. MaxCont
  BY CallTyped DEF Call
<1>2. /\ work[w].cont = MaxCont \/ work[w].cont < MaxCont
      /\ ~(work[w].cont = MaxCont /\ work[w].cont < MaxCont)
  BY <1>1, TranslationAssumption
<1>3. CASE ~work[w].sql /\ ~work[w].fix
  BY <1>1, <1>3, Zenon DEF Cut
<1>4. CASE work[w].sql /\ work[w].cont < MaxCont
  BY <1>1, <1>2, <1>4, Zenon DEF Cut
<1>5. CASE (work[w].sql /\ work[w].cont = MaxCont) \/ (~work[w].sql /\ work[w].fix)
  BY <1>1, <1>2, <1>5, Zenon DEF Cut
<1>6. QED BY <1>1, <1>2, <1>3, <1>4, <1>5

LEMMA JudgeKeeps ==
  ASSUME IInv, NEW w \in Workers, Calling(w), NEW reply \in Reply, ~reply.cut, Judge(w, reply)
  PROVE  IInv'
<1>1. work[w].sql \in BOOLEAN /\ 0 \in 0 .. MaxCont /\ NoReply \in Reply
  BY CallTyped, TranslationAssumption DEF Call, Reply, NoReply, Quality
<1>2. QED BY <1>1, Judged, ReturnKeeps, AskNextKeeps DEF Outcome

LEMMA CutKeeps ==
  ASSUME IInv, NEW w \in Workers, Calling(w), NEW reply \in Reply, Cut(w, reply)
  PROVE  IInv'
<1>1. /\ work[w].fix \in BOOLEAN /\ 0 \in 0 .. MaxCont /\ NoReply \in Reply
      /\ work[w].cont < MaxCont => work[w].cont + 1 \in 0 .. MaxCont
  BY CallTyped, TranslationAssumption DEF Call, Reply, NoReply, Quality
<1>2. QED BY <1>1, CutOff, ReturnKeeps, AskNextKeeps DEF Outcome

\* A call that is repeated is sent as it was.
LEMMA TransientKeeps ==
  ASSUME IInv, NEW w \in Workers, Transient(w)
  PROVE  IInv'
<1>1. Calling(w) /\ work[w] \in Call
  BY CallTyped DEF Transient
<1>2. CASE work[w].tries < Attempts
  <2>1. /\ work' = [work EXCEPT ![w] = [work[w] EXCEPT !.tries = work[w].tries + 1]]
        /\ UNCHANGED <<endpoint, learned, refusals, next, results, lock, counted, run>>
    BY <1>2 DEF Transient
  <2>2. [work[w] EXCEPT !.tries = work[w].tries + 1] \in Call
    BY <1>1, <1>2, TranslationAssumption DEF Call
  <2>3. /\ [work[w] EXCEPT !.tries = work[w].tries + 1].phase = "call"
        /\ [work[w] EXCEPT !.tries = work[w].tries + 1].sent = work[w].sent
    BY <1>1 DEF Call
  <2> DEFINE item == [work[w] EXCEPT !.tries = work[w].tries + 1]
  <2> HIDE DEF item
  <2>4. /\ item \in Call \cup At /\ item.phase = "call" /\ item.sent = work[w].sent
        /\ work' = [work EXCEPT ![w] = item]
    BY <2>1, <2>2, <2>3 DEF item
  <2>5. /\ next' \in Nat \ {0}
        /\ results' \in [Objects -> Result] /\ SuccessIsWhole'
    BY <2>1 DEF IInv, TypeOK, SuccessIsWhole
  <2>6. QED BY <1>1, <2>1, <2>4, <2>5, WorkMoves DEF Calling
<1>3. CASE ~(work[w].tries < Attempts)
  <2>1. Return(w, "failed", NoReply) /\ NoReply \in Reply
    BY <1>3 DEF Transient, NoReply, Reply, Quality
  <2>2. QED BY <1>1, <2>1, ReturnKeeps DEF Outcome
<1>4. QED BY <1>2, <1>3

LEMMA TakeKeeps ==
  ASSUME IInv, NEW w \in Workers, Take(w)
  PROVE  IInv'
<1>1. work[w].phase = "idle" /\ UNCHANGED <<endpoint, learned, refusals, results, lock, counted, run>>
  BY DEF Take, Idle
<1>2. results' \in [Objects -> Result] /\ SuccessIsWhole' /\ next \in Nat \ {0}
  BY <1>1 DEF IInv, TypeOK, SuccessIsWhole
<1>3. CASE next <= N
  <2> DEFINE item == Ask(next, FALSE, FALSE, 0)
  <2>1. next \in Objects /\ 0 \in 0 .. MaxCont
    BY <1>2, <1>3, TranslationAssumption DEF Objects
  <2>2. item \in Call /\ item.phase = "call" /\ item.sent \cap learned = {}
    BY <2>1, AskIsCall
  <2>3. work' = [work EXCEPT ![w] = item] /\ next' = next + 1
    BY <1>3 DEF Take
  <2> HIDE DEF item
  <2>4. next' \in Nat \ {0}
    BY <1>2, <2>3
  <2>5. QED BY <1>1, <1>2, <2>2, <2>3, <2>4, WorkMoves
<1>4. CASE ~(next <= N)
  <2>1. Gone \in Call \cup At /\ Gone.phase = "gone"
    BY DEF Gone, At
  <2>2. work' = [work EXCEPT ![w] = Gone] /\ next' = next
    BY <1>4 DEF Take
  <2>3. QED BY <1>1, <1>2, <2>1, <2>2, WorkMoves
<1>5. QED BY <1>3, <1>4

\* The count moves under the lock, when nobody else has a count to show.
LEMMA CountKeeps ==
  ASSUME IInv, NEW w \in Workers, Count(w)
  PROVE  IInv'
<1>1. /\ lock = None /\ lock' = w /\ counted' = counted + 1 /\ work[w].phase = "lock"
      /\ work' = [work EXCEPT ![w] = [phase |-> "report", obj |-> counted + 1]]
      /\ UNCHANGED <<endpoint, learned, refusals, next, results, run>>
  BY DEF Count
<1>2. counted \in Nat /\ run.done \in Nat
  BY DEF IInv, TypeOK
<1>3. TypeOK'
  <2>1. [phase |-> "report", obj |-> counted + 1] \in At
    BY <1>2 DEF At
  <2>2. QED BY <1>1, <1>2, <2>1 DEF IInv, TypeOK
<1>4. LockInv'
  <2>1. run'.done <= counted'
    BY <1>1, <1>2 DEF IInv, LockInv
  <2>2. ASSUME NEW v \in Workers, work'[v].phase = "report" PROVE lock' = v /\ work'[v].obj = counted'
    <3>1. work[v].phase # "report"
      BY <1>1, TranslationAssumption DEF IInv, LockInv
    <3>2. v = w
      BY <1>1, <2>2, <3>1 DEF IInv, TypeOK
    <3>3. QED BY <1>1, <3>2 DEF IInv, TypeOK
  <2>3. QED BY <2>1, <2>2 DEF LockInv
<1>5. ASSUME NEW f \in learned PROVE Sending(f)' \subseteq Sending(f)
  BY <1>1 DEF Sending, Calling, IInv, TypeOK
<1>6. RefusalInv'
  BY <1>1, <1>5, RefusalsKept
<1>7. SuccessIsWhole'
  BY <1>1 DEF IInv, SuccessIsWhole
<1>8. QED BY <1>3, <1>4, <1>6, <1>7 DEF IInv

LEMMA ReportKeeps ==
  ASSUME IInv, NEW w \in Workers, Report(w)
  PROVE  IInv'
<1>1. /\ lock' = None /\ work[w].phase = "report"
      /\ run' = [run EXCEPT !.done = work[w].obj]
      /\ work' = [work EXCEPT ![w] = Idle]
      /\ UNCHANGED <<endpoint, learned, refusals, next, results, counted>>
  BY DEF Report
<1>2. work[w].obj = counted /\ counted \in Nat
  BY <1>1 DEF IInv, LockInv, TypeOK
<1>3. TypeOK'
  <2>1. Idle \in At
    BY DEF Idle, At
  <2>2. QED BY <1>1, <1>2, <2>1 DEF IInv, TypeOK
<1>4. LockInv'
  <2>1. run'.done = counted'
    BY <1>1, <1>2 DEF IInv, TypeOK
  <2>2. ASSUME NEW v \in Workers, work'[v].phase = "report" PROVE FALSE
    <3>1. v # w
      BY <1>1, <2>2 DEF IInv, TypeOK, Idle
    <3>2. work[v].phase = "report"
      BY <1>1, <2>2, <3>1 DEF IInv, TypeOK
    <3>3. QED BY <1>1, <3>1, <3>2 DEF IInv, LockInv
  <2>3. QED BY <1>1, <1>2, <2>1, <2>2 DEF LockInv
<1>5. ASSUME NEW f \in learned PROVE Sending(f)' \subseteq Sending(f)
  BY <1>1 DEF Sending, Calling, Idle, IInv, TypeOK
<1>6. RefusalInv'
  BY <1>1, <1>5, RefusalsKept
<1>7. SuccessIsWhole'
  BY <1>1 DEF IInv, SuccessIsWhole
<1>8. QED BY <1>3, <1>4, <1>6, <1>7 DEF IInv

LEMMA FinishKeeps ==
  ASSUME IInv, Finish
  PROVE  IInv'
<1>1. PICK status \in {"success", "failed"} : run' = [run EXCEPT !.status = status]
  BY DEF Finish
<1>2. UNCHANGED <<endpoint, learned, refusals, work, next, results, lock, counted>>
  BY DEF Finish
<1>3. TypeOK' /\ run'.done = run.done
  BY <1>1, <1>2 DEF IInv, TypeOK
<1>4. QED BY <1>2, <1>3 DEF IInv, SuccessIsWhole, RefusalInv, LockInv, Sending, Calling

LEMMA IInvInit == Init => IInv
<1> SUFFICES ASSUME Init PROVE IInv
  OBVIOUS
<1>1. TypeOK
  BY TranslationAssumption
  DEF Init, TypeOK, Features, At, Idle, Result, Outcome, Reply, NoReply, Quality
<1>2. SuccessIsWhole
  BY DEF Init, SuccessIsWhole
<1>3. RefusalInv
  <2>1. ASSUME NEW f \in Features PROVE refusals[f] = 0
    BY <2>1 DEF Init
  <2>2. QED BY <2>1, SendingFinite DEF RefusalInv
<1>4. LockInv
  BY DEF Init, LockInv, Idle
<1>5. QED BY <1>1, <1>2, <1>3, <1>4 DEF IInv

LEMMA IInvNext == IInv /\ [Next]_vars => IInv'
<1> SUFFICES ASSUME IInv, [Next]_vars PROVE IInv'
  OBVIOUS
<1>1. ASSUME NEW w \in Workers, Refuse(w) PROVE IInv'
  <2>1. PICK f \in work[w].sent \cap endpoint.refuses : Calling(w) /\ Forget(w, f)
    BY <1>1 DEF Refuse
  <2>2. f \in Features
    BY <2>1, CallTyped DEF Call
  <2>3. QED BY <2>1, <2>2, ForgetKeeps
<1>2. ASSUME NEW w \in Workers, BlameFormat(w) PROVE IInv'
  BY <1>2, ForgetKeeps DEF BlameFormat, Features
<1>3. ASSUME NEW w \in Workers, Raise(w) PROVE IInv'
  <2>1. Calling(w) /\ Return(w, "failed", NoReply) /\ NoReply \in Reply
    BY <1>3 DEF Raise, NoReply, Reply, Quality
  <2>2. QED BY <2>1, ReturnKeeps DEF Outcome
<1>4. ASSUME NEW w \in Workers, Answer(w) PROVE IInv'
  BY <1>4, CutKeeps, JudgeKeeps DEF Answer
<1>5. ASSUME UNCHANGED vars PROVE IInv'
  BY <1>5 DEF vars, IInv, TypeOK, SuccessIsWhole, RefusalInv, LockInv, Sending, Calling
<1>6. QED
  BY <1>1, <1>2, <1>3, <1>4, <1>5, TakeKeeps, TransientKeeps, CountKeeps, ReportKeeps, FinishKeeps
  DEF Next, WorkerStep

\* The inductive invariant, for any number of objects and threads.
THEOREM Invariance == Spec => []IInv
<1>1. QED BY IInvInit, IInvNext, PTL DEF Spec

\* Every variable keeps its type.
THEOREM TypeCorrect == Spec => []TypeOK
<1>1. IInv => TypeOK
  BY DEF IInv
<1>2. QED BY <1>1, Invariance, PTL

\* Nothing is called a success but a whole reply without a fault.
THEOREM WholeSuccess == Spec => []SuccessIsWhole
<1>1. IInv => SuccessIsWhole
  BY DEF IInv
<1>2. QED BY <1>1, Invariance, PTL

\* A refused feature costs each thread one call, however many objects there are.
THEOREM RefusalsRemembered == Spec => []RefusalsAreRemembered
<1>1. ASSUME IInv, NEW f \in Features PROVE refusals[f] <= Cardinality(Workers)
  <2>1. refusals[f] + Cardinality(Sending(f)) <= Cardinality(Workers) /\ refusals[f] \in Nat
    BY <1>1 DEF IInv, RefusalInv, TypeOK
  <2>2. QED BY <2>1, SendingFinite
<1>2. IInv => RefusalsAreRemembered
  BY <1>1 DEF RefusalsAreRemembered
<1>3. QED BY <1>2, Invariance, PTL

\* What is shown of the progress never goes back, whichever thread shows it.
THEOREM ProgressOnward == Spec => ProgressNeverGoesBack
<1>1. IInv /\ [Next]_vars => [run'.done >= run.done]_vars
  <2> SUFFICES ASSUME IInv, Next PROVE run'.done >= run.done
    BY DEF vars
  <2>1. run.done \in Nat /\ counted \in Nat /\ run.done <= counted
    BY DEF IInv, TypeOK, LockInv
  <2>2. ASSUME NEW w \in Workers, Report(w) PROVE run'.done >= run.done
    <3>1. run'.done = work[w].obj /\ work[w].obj = counted
      BY <2>2 DEF Report, IInv, TypeOK, LockInv
    <3>2. QED BY <2>1, <3>1
  <2>3. ASSUME Finish PROVE run'.done >= run.done
    <3>1. run'.done = run.done
      BY <2>3 DEF Finish, IInv, TypeOK
    <3>2. QED BY <2>1, <3>1
  <2>4. ASSUME NEW w \in Workers, WorkerStep(w), ~Report(w) PROVE run' = run
    <3>1. ASSUME NEW reply \in Reply, Calling(w), Cut(w, reply) \/ Judge(w, reply) PROVE run' = run
      BY <3>1, CutOff, Judged DEF AskNext, Return
    <3>2. QED
      BY <2>4, <3>1 DEF WorkerStep, Take, Refuse, BlameFormat, Raise, Transient, Answer, Count, Forget, Return
  <2>5. QED BY <2>1, <2>2, <2>3, <2>4 DEF Next
<1>2. QED BY <1>1, Invariance, PTL DEF Spec, ProgressNeverGoesBack
=============================================================================
