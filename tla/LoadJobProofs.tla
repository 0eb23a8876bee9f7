--------------------------- MODULE LoadJobProofs ---------------------------
(***************************************************************************)
(* What is proved of the Lakeflow job of a project: of StreamBudget, the   *)
(* streams its loader notebook shares, for any number of tables and        *)
(* streams, and of JobSetup, its setting up, for any number of projects,   *)
(* jobs, requests, set-ups at a time and renamings, in a workspace without *)
(* jobs from before the tags.                                              *)
(***************************************************************************)
EXTENDS JobSetup, StreamBudget, FiniteSetTheorems, TLAPS

-----------------------------------------------------------------------------
(* StreamBudget. *)

\* Whoever is notified was waiting: nobody gets or loses streams by it.
LEMMA NotifiedKeepsHolders ==
  ASSUME IInv
  PROVE  /\ Notified \in [Tables -> {"queued", "acquire", "waiting", "copying", "cancelled", "done"}]
         /\ \A t \in Tables : Notified[t] \in {"copying", "cancelled", "done"}
                                <=> thread[t] \in {"copying", "cancelled", "done"}
  BY DEF IInv, Notified

\* No table has its streams before the first turn.
LEMMA IInvInit == BudgetInit => IInv
  BY CountAssumption DEF BudgetInit, IInv, Tables

\* Only Acquire moves the turn, and it hands the streams to the table whose turn it is.
LEMMA IInvNext == IInv /\ [BudgetNext]_budgetVars => IInv'
<1> SUFFICES ASSUME IInv, [BudgetNext]_budgetVars PROVE IInv'
  OBVIOUS
<1>1. ASSUME NEW t \in Tables, Take(t) PROVE IInv'
  BY <1>1 DEF IInv, Take, budget
<1>2. ASSUME NEW t \in Tables, Wait(t) PROVE IInv'
  BY <1>2 DEF IInv, Wait, budget
<1>3. ASSUME NEW t \in Tables, Acquire(t) PROVE IInv'
  <2>1. /\ turn = t /\ turn' = t + 1
        /\ thread' = [Notified EXCEPT ![t] = "copying"]
    BY <1>3 DEF Acquire, Ready
  <2>2. thread' \in [Tables -> {"queued", "acquire", "waiting", "copying", "cancelled", "done"}]
    BY <2>1, NotifiedKeepsHolders
  <2>3. \A u \in Tables : thread'[u] \in {"copying", "cancelled", "done"} <=> u < turn'
    <3> TAKE u \in Tables
    <3>1. CASE u = t
      BY <2>1, <3>1, NotifiedKeepsHolders DEF Tables
    <3>2. CASE u # t
      <4>1. thread'[u] \in {"copying", "cancelled", "done"} <=> u < turn
        BY <2>1, <3>2, NotifiedKeepsHolders DEF IInv
      <4>2. u < turn' <=> u < turn
        BY <2>1, <3>2 DEF Tables
      <4>3. QED BY <4>1, <4>2
    <3>3. QED BY <3>1, <3>2
  <2>4. QED BY <2>1, <2>2, <2>3 DEF IInv, Tables
<1>4. ASSUME NEW t \in Tables, StartChunk(t) PROVE IInv'
  BY <1>4 DEF IInv, StartChunk, budget
<1>5. ASSUME NEW t \in Tables, NEW ok \in BOOLEAN, EndChunk(t, ok) PROVE IInv'
  BY <1>5 DEF IInv, EndChunk, budget
<1>6. ASSUME NEW t \in Tables, Cancel(t) PROVE IInv'
  BY <1>6 DEF IInv, Cancel, budget
<1>7. ASSUME NEW t \in Tables, Release(t) PROVE IInv'
  <2>1. /\ thread[t] \in {"copying", "cancelled"} /\ turn' = turn
        /\ thread' = [Notified EXCEPT ![t] = "done"]
    BY <1>7 DEF Release, CopyOver
  <2>2. QED BY <2>1, NotifiedKeepsHolders DEF IInv
<1>8. CASE UNCHANGED budgetVars
  BY <1>8 DEF IInv, budgetVars, budget
<1>9. QED
  BY <1>1, <1>2, <1>3, <1>4, <1>5, <1>6, <1>7, <1>8 DEF BudgetNext, TableStep

\* The tables that got their streams are always those before the turn.
THEOREM TurnInvariance == BudgetSpec => []IInv
<1>1. QED BY IInvInit, IInvNext, PTL DEF BudgetSpec

\* No table ever overtakes an earlier one that has not got its streams, whatever the
\* tables ask for (_StreamBudget.acquire).
THEOREM OrderKept == BudgetSpec => []InOrder
<1>1. IInv => InOrder
  BY DEF IInv, InOrder, Tables
<1>2. QED BY <1>1, TurnInvariance, PTL

\* What Streams returns is between one and all.
LEMMA StreamsTypes ==
  ASSUME NEW t \in Tables, asked \in [Tables -> Nat]
  PROVE  Streams(t) \in 1 .. MAX_STREAMS
<1> USE StreamsAssumption
<1> DEFINE m == Min({asked[t], MAX_STREAMS})
<1>1. asked[t] \in Nat
  OBVIOUS
<1>2. m \in 0 .. MAX_STREAMS
  <2>1. \E x \in {asked[t], MAX_STREAMS} : \A y \in {asked[t], MAX_STREAMS} : x =< y
    <3>1. CASE asked[t] =< MAX_STREAMS
      BY <1>1, <3>1
    <3>2. CASE MAX_STREAMS =< asked[t]
      BY <1>1, <3>2
    <3>3. QED BY <1>1, <3>1, <3>2
  <2>2. QED BY <1>1, <2>1 DEF Min
<1> HIDE DEF m
<1>3. Max({1, m}) \in 1 .. MAX_STREAMS
  <2>1. \E x \in {1, m} : \A y \in {1, m} : x >= y
    <3>1. CASE m =< 1
      BY <1>2, <3>1
    <3>2. CASE 1 =< m
      BY <1>2, <3>2
    <3>3. QED BY <1>2, <3>1, <3>2
  <2>2. QED BY <1>2, <2>1 DEF Max
<1>4. QED BY <1>3 DEF Streams, m

LEMMA TypeNext == TypeOK /\ IInv /\ [BudgetNext]_budgetVars => TypeOK'
<1> SUFFICES ASSUME TypeOK, IInv, [BudgetNext]_budgetVars PROVE TypeOK'
  OBVIOUS
<1> USE DEF TypeOK
<1>1. ASSUME NEW t \in Tables, Take(t) PROVE TypeOK'
  BY <1>1 DEF Take, budget, copy
<1>2. ASSUME NEW t \in Tables, Wait(t) PROVE TypeOK'
  BY <1>2 DEF Wait, budget, copy
<1>3. ASSUME NEW t \in Tables, Acquire(t) PROVE TypeOK'
  <2>1. /\ free' = free - Streams(t) /\ free >= Streams(t) /\ turn = t /\ turn' = turn + 1
        /\ thread' = [Notified EXCEPT ![t] = "copying"] /\ UNCHANGED <<asked, left, running, failed>>
    BY <1>3 DEF Acquire, Ready, copy
  <2>2. Streams(t) \in Nat
    BY StreamsTypes, StreamsAssumption
  <2>3. free' \in Nat /\ turn' \in 1 .. N + 1
    BY <2>1, <2>2, CountAssumption DEF Tables
  <2>4. QED BY <2>1, <2>3, NotifiedKeepsHolders
<1>4. ASSUME NEW t \in Tables, StartChunk(t) PROVE TypeOK'
  BY <1>4 DEF StartChunk, budget
<1>5. ASSUME NEW t \in Tables, NEW ok \in BOOLEAN, EndChunk(t, ok) PROVE TypeOK'
  BY <1>5 DEF EndChunk, budget
<1>6. ASSUME NEW t \in Tables, Cancel(t) PROVE TypeOK'
  BY <1>6 DEF Cancel, budget
<1>7. ASSUME NEW t \in Tables, Release(t) PROVE TypeOK'
  <2>1. /\ free' = free + Streams(t) /\ thread' = [Notified EXCEPT ![t] = "done"]
        /\ UNCHANGED <<asked, turn, left, running, failed>>
    BY <1>7 DEF Release, copy
  <2>2. free' \in Nat
    BY <2>1, StreamsTypes, StreamsAssumption
  <2>3. QED BY <2>1, <2>2, NotifiedKeepsHolders
<1>8. CASE UNCHANGED budgetVars
  BY <1>8 DEF budgetVars, budget, copy
<1>9. QED
  BY <1>1, <1>2, <1>3, <1>4, <1>5, <1>6, <1>7, <1>8 DEF BudgetNext, TableStep

\* The budget never goes below zero and the turn never beyond the last table.
THEOREM TypeCorrect == BudgetSpec => []TypeOK
<1>1. BudgetInit => TypeOK
  BY CountAssumption, StreamsAssumption, BoundsAssumption DEF BudgetInit, TypeOK, Tables
<1>2. QED BY <1>1, TypeNext, TurnInvariance, PTL DEF BudgetSpec

\* A number of connections of one table.
LEMMA ConnectionsCount ==
  ASSUME NEW t, NEW n \in Nat
  PROVE  IsFiniteSet(Connections(t, n)) /\ Cardinality(Connections(t, n)) = n
<1>1. IsFiniteSet({t}) /\ Cardinality({t}) = 1
  BY FS_Singleton
<1>2. IsFiniteSet(1 .. n) /\ Cardinality(1 .. n) = n
  BY FS_Interval
<1>3. /\ IsFiniteSet({t} \X (1 .. n))
      /\ Cardinality({t} \X (1 .. n)) = Cardinality({t}) * Cardinality(1 .. n)
  BY <1>1, <1>2, FS_Product
<1>4. QED BY <1>1, <1>2, <1>3 DEF Connections

\* Connections of a table that had none are so many more.
LEMMA DisjointBlocks ==
  ASSUME NEW t, NEW n \in Nat, NEW S, IsFiniteSet(S), S \cap Connections(t, n) = {}
  PROVE  /\ IsFiniteSet(S \cup Connections(t, n))
         /\ Cardinality(S \cup Connections(t, n)) = Cardinality(S) + n
<1>1. IsFiniteSet(Connections(t, n)) /\ Cardinality(Connections(t, n)) = n
  BY ConnectionsCount
<1>2. Cardinality(S) \in Nat /\ Cardinality(S \cap Connections(t, n)) = 0
  BY FS_CardinalityType, FS_EmptySet
<1>3. QED BY <1>1, <1>2, FS_Union

LEMMA BudgetInvInit == BudgetInit => BudgetInv
<1> SUFFICES ASSUME BudgetInit PROVE BudgetInv
  OBVIOUS
<1>1. Held = {}
  BY DEF BudgetInit, Held, Holders
<1>2. \A t \in Tables : Streams(t) \in Nat
  BY StreamsTypes, StreamsAssumption, BoundsAssumption DEF BudgetInit
<1>3. QED BY <1>1, <1>2, FS_EmptySet, StreamsAssumption DEF BudgetInit, BudgetInv

\* A step that leaves the streams and the threads' holdings alone changes nothing of the budget.
LEMMA SameHolders ==
  ASSUME asked' = asked, Holders' = Holders
  PROVE  Held' = Held /\ \A t : Streams(t)' = Streams(t)
  BY DEF Held, Streams

LEMMA BudgetInvNext == TypeOK /\ IInv /\ BudgetInv /\ [BudgetNext]_budgetVars => BudgetInv'
<1> SUFFICES ASSUME TypeOK, IInv, BudgetInv, [BudgetNext]_budgetVars PROVE BudgetInv'
  OBVIOUS
<1>0. \A t \in Tables : Streams(t) \in Nat \ {0} /\ running[t] \in Nat
  BY StreamsTypes, StreamsAssumption DEF TypeOK
<1>1. ASSUME NEW t \in Tables, Take(t) \/ Wait(t) PROVE BudgetInv'
  <2>1. Holders' = Holders /\ UNCHANGED <<asked, free, running>>
    BY <1>1 DEF Take, Wait, Holders, TypeOK, budget, copy
  <2>2. QED BY <2>1, SameHolders DEF BudgetInv
<1>2. ASSUME NEW t \in Tables, Acquire(t) PROVE BudgetInv'
  <2>1. /\ free' = free - Streams(t) /\ free >= Streams(t) /\ t \notin Holders
        /\ thread' = [Notified EXCEPT ![t] = "copying"] /\ UNCHANGED <<asked, running>>
    BY <1>2 DEF Acquire, Ready, copy, Holders
  <2>2. Holders' = Holders \cup {t}
    BY <2>1, NotifiedKeepsHolders DEF Holders, Notified, TypeOK
  <2>3. \A u : Streams(u)' = Streams(u)
    BY <2>1 DEF Streams
  <2>4. Held' = Held \cup Connections(t, Streams(t))
    BY <2>2, <2>3 DEF Held, Connections
  <2>5. Held \cap Connections(t, Streams(t)) = {}
    BY <2>1 DEF Held, Connections
  <2>6. IsFiniteSet(Held') /\ Cardinality(Held') = Cardinality(Held) + Streams(t)
    BY <1>0, <2>4, <2>5, DisjointBlocks DEF BudgetInv
  <2>7. free' + Cardinality(Held') = MAX_STREAMS
    BY <1>0, <2>1, <2>6, FS_CardinalityType, StreamsAssumption DEF BudgetInv, TypeOK
  <2>8. QED BY <2>1, <2>2, <2>3, <2>6, <2>7 DEF BudgetInv
<1>3. ASSUME NEW t \in Tables, StartChunk(t) PROVE BudgetInv'
  <2>1. /\ t \in Holders /\ Holders' = Holders /\ running[t] < Streams(t)
        /\ running' = [running EXCEPT ![t] = running[t] + 1] /\ UNCHANGED <<asked, free>>
    BY <1>3 DEF StartChunk, Holders, budget
  <2>2. QED BY <1>0, <2>1, SameHolders DEF BudgetInv, TypeOK
<1>4. ASSUME NEW t \in Tables, NEW ok \in BOOLEAN, EndChunk(t, ok) PROVE BudgetInv'
  <2>1. /\ Holders' = Holders /\ running[t] > 0
        /\ running' = [running EXCEPT ![t] = running[t] - 1] /\ UNCHANGED <<asked, free>>
    BY <1>4 DEF EndChunk, Holders, budget
  <2>2. QED BY <1>0, <2>1, SameHolders DEF BudgetInv, TypeOK
<1>5. ASSUME NEW t \in Tables, Cancel(t) PROVE BudgetInv'
  <2>1. Holders' = Holders /\ UNCHANGED <<asked, free, running>>
    BY <1>5 DEF Cancel, Holders, TypeOK, budget
  <2>2. QED BY <2>1, SameHolders DEF BudgetInv
<1>6. ASSUME NEW t \in Tables, Release(t) PROVE BudgetInv'
  <2>1. /\ free' = free + Streams(t) /\ t \in Holders /\ running[t] = 0
        /\ thread' = [Notified EXCEPT ![t] = "done"] /\ UNCHANGED <<asked, running>>
    BY <1>6 DEF Release, CopyOver, copy, Holders
  <2>2. Holders' = Holders \ {t}
    BY <2>1, NotifiedKeepsHolders DEF Holders, Notified, TypeOK
  <2>3. \A u : Streams(u)' = Streams(u)
    BY <2>1 DEF Streams
  <2>4. Held' \cup Connections(t, Streams(t)) = Held /\ Held' \cap Connections(t, Streams(t)) = {}
    <3>1. \A c : c \in Held <=> \E u \in Holders : c \in Connections(u, Streams(u))
      BY DEF Held
    <3>2. \A c : c \in Held' <=> \E u \in Holders' : c \in Connections(u, Streams(u))
      BY <2>3 DEF Held, Connections
    <3>3. \A c : c \in Held' => c \notin Connections(t, Streams(t))
      BY <2>2, <3>2 DEF Connections
    <3>4. QED BY <2>1, <2>2, <3>1, <3>2, <3>3
  <2>5. IsFiniteSet(Held')
    BY <2>4, FS_Subset DEF BudgetInv
  <2>6. Cardinality(Held) = Cardinality(Held') + Streams(t)
    BY <1>0, <2>4, <2>5, DisjointBlocks
  <2>7. free' + Cardinality(Held') = MAX_STREAMS
    BY <1>0, <2>1, <2>5, <2>6, FS_CardinalityType, StreamsAssumption DEF BudgetInv, TypeOK
  <2>8. \A u \in Tables : u \in Holders /\ u # t => u \in Holders'
    BY <2>2
  <2>9. QED BY <1>0, <2>1, <2>3, <2>5, <2>7, <2>8 DEF BudgetInv
<1>7. CASE UNCHANGED budgetVars
  <2>1. Holders' = Holders /\ UNCHANGED <<asked, free, running>>
    BY <1>7 DEF budgetVars, budget, copy, Holders
  <2>2. QED BY <2>1, SameHolders DEF BudgetInv
<1>8. QED
  BY <1>1, <1>2, <1>3, <1>4, <1>5, <1>6, <1>7 DEF BudgetNext, TableStep

\* The streams of the tables that hold some and the free ones are MAX_STREAMS, and
\* the chunks read at one time, those of a cancelled copy included, never exceed the
\* streams held, whatever the tables ask for (_StreamBudget.acquire and release, _load).
THEOREM StreamsKept == BudgetSpec => []StreamsBounded
<1>1. ASSUME TypeOK, BudgetInv PROVE StreamsBounded
  <2>1. \A t \in Tables : Connections(t, running[t]) \subseteq Held
    <3> TAKE t \in Tables
    <3>1. running[t] \in Nat /\ Streams(t) \in Nat
      BY <1>1, StreamsTypes, StreamsAssumption DEF TypeOK
    <3>2. CASE running[t] = 0
      BY <3>2 DEF Connections
    <3>3. CASE running[t] > 0
      <4>1. t \in Holders /\ 1 .. running[t] \subseteq 1 .. Streams(t)
        BY <1>1, <3>1, <3>3 DEF BudgetInv
      <4>2. QED BY <4>1 DEF Held, Connections
    <3>4. QED BY <3>1, <3>2, <3>3
  <2>2. Reads \subseteq Held
    BY <2>1 DEF Reads
  <2>3. Cardinality(Reads) <= Cardinality(Held)
    BY <1>1, <2>2, FS_Subset DEF BudgetInv
  <2>4. Cardinality(Held) \in Nat
    BY <1>1, FS_CardinalityType DEF BudgetInv
  <2>5. Cardinality(Held) = MAX_STREAMS - free
    BY <1>1, <2>4, StreamsAssumption DEF BudgetInv, TypeOK
  <2>6. QED BY <1>1, <2>3, <2>5 DEF StreamsBounded, BudgetInv
<1>2. QED BY <1>1, BudgetInvInit, BudgetInvNext, TypeCorrect, TurnInvariance, PTL DEF BudgetSpec
-----------------------------------------------------------------------------
(* JobSetup: the tasks of a request. *)

\* The sequences over S in which nothing occurs twice.
Once(S) == {s \in Seq(S) : \A k, l \in DOMAIN s : s[k] = s[l] => k = l}

\* One after the other, two that have nothing in common are another.
LEMMA OnceJoined ==
  ASSUME NEW S, NEW T, S \cap T = {}, NEW s \in Once(S), NEW t \in Once(T)
  PROVE  s \o t \in Once(S \cup T)
<1>1. s \in Seq(S) /\ t \in Seq(T)
  BY DEF Once
<1>2. s \o t \in Seq(S \cup T)
  <2>1. s \in Seq(S \cup T) /\ t \in Seq(S \cup T)
    BY <1>1
  <2>2. QED BY <2>1
<1>3. ASSUME NEW k \in 1 .. Len(s) + Len(t), NEW l \in 1 .. Len(s) + Len(t), (s \o t)[k] = (s \o t)[l]
      PROVE  k = l
  <2>1. /\ k <= Len(s) => (s \o t)[k] = s[k] /\ k \in DOMAIN s /\ s[k] \in S
        /\ l <= Len(s) => (s \o t)[l] = s[l] /\ l \in DOMAIN s /\ s[l] \in S
    BY <1>1
  <2>2. /\ k > Len(s) => (s \o t)[k] = t[k - Len(s)] /\ k - Len(s) \in DOMAIN t /\ t[k - Len(s)] \in T
        /\ l > Len(s) => (s \o t)[l] = t[l - Len(s)] /\ l - Len(s) \in DOMAIN t /\ t[l - Len(s)] \in T
    BY <1>1
  <2>3. (k <= Len(s) /\ l <= Len(s)) \/ (k > Len(s) /\ l > Len(s))
    BY <1>1, <1>3, <2>1, <2>2
  <2>4. CASE k <= Len(s) /\ l <= Len(s)
    BY <1>3, <2>1, <2>4 DEF Once
  <2>5. CASE k > Len(s) /\ l > Len(s)
    <3>1. k - Len(s) = l - Len(s)
      BY <1>3, <2>2, <2>5 DEF Once
    <3>2. QED BY <1>1, <3>1
  <2>6. QED BY <2>3, <2>4, <2>5
<1>4. DOMAIN (s \o t) = 1 .. Len(s) + Len(t)
  BY <1>1
<1>5. QED BY <1>2, <1>3, <1>4 DEF Once

LEMMA OnceOne == ASSUME NEW x PROVE <<x>> \in Once({x}) /\ <<>> \in Once({x})
  BY DEF Once

\* What RUN_STATE_TASKS lists is the tasks of the notebooks, each once.
LEMMA TasksOnce ==
  ASSUME NEW r \in Requests
  PROVE  /\ RunTaskKeys(r) \in Once(TaskNames) /\ RunTaskKeys(r) # <<>>
         /\ Generate(r) = [i \in DOMAIN RunTaskKeys(r) |-> <<i, RunTaskKeys(r)[i]>>]
<1>1. \A kind : TaskOf(kind, r) \in Once({kind})
  BY OnceOne DEF TaskOf
<1>2. Phases(r) \in Once({"constraint", "index", "foreign_key", "trigger"})
  <2>1. Phases(r) = TaskOf("constraint", r) \o TaskOf("index", r) \o TaskOf("foreign_key", r)
                    \o TaskOf("trigger", r)
    BY DEF Phases, POST_LOAD_PHASES
  <2>2. TaskOf("constraint", r) \o TaskOf("index", r) \in Once({"constraint"} \cup {"index"})
    BY <1>1, OnceJoined
  <2>3. TaskOf("constraint", r) \o TaskOf("index", r) \o TaskOf("foreign_key", r)
          \in Once(({"constraint"} \cup {"index"}) \cup {"foreign_key"})
    <3>1. ({"constraint"} \cup {"index"}) \cap {"foreign_key"} = {}
      OBVIOUS
    <3>2. QED BY <1>1, <2>2, <3>1, OnceJoined
  <2>4. Phases(r) \in Once((({"constraint"} \cup {"index"}) \cup {"foreign_key"}) \cup {"trigger"})
    <3>1. (({"constraint"} \cup {"index"}) \cup {"foreign_key"}) \cap {"trigger"} = {}
      OBVIOUS
    <3>2. (TaskOf("constraint", r) \o TaskOf("index", r) \o TaskOf("foreign_key", r)) \o TaskOf("trigger", r)
            \in Once((({"constraint"} \cup {"index"}) \cup {"foreign_key"}) \cup {"trigger"})
      BY <1>1, <2>3, <3>1, OnceJoined
    <3>3. QED BY <2>1, <3>2
  <2>5. (({"constraint"} \cup {"index"}) \cup {"foreign_key"}) \cup {"trigger"}
          = {"constraint", "index", "foreign_key", "trigger"}
    OBVIOUS
  <2>6. QED BY <2>4, <2>5
<1> DEFINE loaded == <<"load">> \o Phases(r)
<1>3. loaded \in Once({"load", "constraint", "index", "foreign_key", "trigger"})
  <2>1. loaded \in Once({"load"} \cup {"constraint", "index", "foreign_key", "trigger"})
    <3>1. {"load"} \cap {"constraint", "index", "foreign_key", "trigger"} = {}
      OBVIOUS
    <3>2. QED BY <1>2, <3>1, OnceOne, OnceJoined
  <2>2. {"load"} \cup {"constraint", "index", "foreign_key", "trigger"}
          = {"load", "constraint", "index", "foreign_key", "trigger"}
    OBVIOUS
  <2>3. QED BY <2>1, <2>2
<1>4. loaded # <<>>
  <2>1. Phases(r) \in Seq({"constraint", "index", "foreign_key", "trigger"})
    BY <1>2 DEF Once
  <2>2. Len(loaded) = 1 + Len(Phases(r)) /\ Len(Phases(r)) \in Nat
    BY <2>1
  <2>3. QED BY <2>2
<1>5. loaded \in Seq({"load", "constraint", "index", "foreign_key", "trigger"})
  BY <1>3 DEF Once
<1>6. /\ RunTaskKeys(r) = IF r.maintain THEN loaded \o <<"maintenance">> ELSE loaded
      /\ Generate(r) = LET tasks == loaded \o (IF r.maintain THEN <<"maintenance">> ELSE <<>>)
                       IN  [i \in DOMAIN tasks |-> <<i, tasks[i]>>]
  <2>1. Append(loaded, "maintenance") = loaded \o <<"maintenance">>
    BY <1>5
  <2>2. QED BY <2>1 DEF RunTaskKeys, Generate
<1> HIDE DEF loaded
<1>7. CASE r.maintain
  <2>1. loaded \o <<"maintenance">> \in Once({"load", "constraint", "index", "foreign_key", "trigger"} \cup {"maintenance"})
    <3>1. {"load", "constraint", "index", "foreign_key", "trigger"} \cap {"maintenance"} = {}
      OBVIOUS
    <3>2. QED BY <1>3, <3>1, OnceOne, OnceJoined
  <2>2. {"load", "constraint", "index", "foreign_key", "trigger"} \cup {"maintenance"} = TaskNames
    BY DEF TaskNames
  <2>3. loaded \o <<"maintenance">> # <<>>
    <3>1. Len(loaded \o <<"maintenance">>) = Len(loaded) + 1 /\ Len(loaded) \in Nat
      BY <1>5
    <3>2. QED BY <3>1
  <2>4. /\ RunTaskKeys(r) = loaded \o <<"maintenance">>
        /\ Generate(r) = [i \in DOMAIN (loaded \o <<"maintenance">>) |-> <<i, (loaded \o <<"maintenance">>)[i]>>]
    BY <1>6, <1>7, Zenon
  <2>5. QED BY <2>1, <2>2, <2>3, <2>4, Zenon
<1>8. CASE ~r.maintain
  <2>1. loaded \in Once(TaskNames)
    BY <1>3 DEF Once, TaskNames
  <2>2. loaded \o <<>> = loaded
    BY <1>5
  <2>3. QED BY <1>4, <1>6, <1>8, <2>1, <2>2
<1>9. QED BY <1>7, <1>8
-----------------------------------------------------------------------------
(* JobSetup: types, and what a step of one set-up leaves alone. *)

\* A set-up begins with its notebooks in the order of their tasks, none uploaded.
LEMMA Requested ==
  ASSUME NEW r \in Requests, NEW p \in Owners, NEW n \in Nat, NEW s,
         s = [v |-> n, owner |-> p, auth |-> r.auth, mode |-> r.mode, tasks |-> RunTaskKeys(r),
              files |-> Generate(r), left |-> Generate(r), title |-> BaseName, id |-> 0]
  PROVE  s \in SetupRec /\ Chained(s) /\ s.left # <<>> /\ s.left = s.files /\ s.id = 0
<1> DEFINE tasks == RunTaskKeys(r)
<1>1. /\ tasks \in Seq(TaskNames) /\ tasks # <<>>
      /\ \A k, l \in DOMAIN tasks : tasks[k] = tasks[l] => k = l
  BY TasksOnce DEF Once
<1>2. Generate(r) = [i \in DOMAIN tasks |-> <<i, tasks[i]>>]
  BY TasksOnce
<1> HIDE DEF tasks
<1>3. DOMAIN tasks = 1 .. Len(tasks) /\ Len(tasks) \in Nat
  BY <1>1
<1>4. Generate(r) \in Seq(Files)
  <2>1. \A i \in 1 .. Len(tasks) : <<i, tasks[i]>> \in Files
    BY <1>1, <1>3 DEF Files
  <2>2. QED BY <1>2, <1>3, <2>1
<1>5. Generate(r) # <<>>
  <2>1. Len(tasks) # 0
    BY <1>1
  <2>2. 1 \in DOMAIN Generate(r)
    BY <1>2, <1>3, <2>1
  <2>3. QED BY <2>2
<1>6. r.auth \in Auths /\ r.mode \in Modes
  BY RequestsAssumption
<1>7. s \in SetupRec
  BY <1>1, <1>4, <1>6 DEF SetupRec, tasks
<1>8. Chained(s)
  BY <1>1, <1>2 DEF Chained, tasks
<1>9. QED BY <1>5, <1>7, <1>8

\* A step of one set-up leaves what the others know alone.
LEMMA OnlyOwn ==
  ASSUME JobTypeOK, NEW t \in Threads, Step(t), NEW u \in Threads, u # t
  PROVE  pc'[u] = pc[u] /\ setup'[u] = setup[u]
<1> USE DEF JobTypeOK, GoTo, Over, SetId, world
<1>1. ASSUME NEW p \in Owners, NEW r \in Requests, Begin(t, p, r) PROVE pc'[u] = pc[u] /\ setup'[u] = setup[u]
  BY <1>1 DEF Begin
<1>2. CASE Upload(t)
  BY <1>2 DEF Upload
<1>3. CASE FindByName(t)
  BY <1>3 DEF FindByName
<1>4. CASE FindByTag(t)
  BY <1>4 DEF FindByTag
<1>5. CASE EnsureJob(t)
  BY <1>5 DEF EnsureJob
<1>6. CASE RunAs(t) \/ Pause(t) \/ Trigger(t) \/ Recorded(t)
  BY <1>6 DEF RunAs, Pause, Trigger, Recorded
<1>7. QED
  BY <1>1, <1>2, <1>3, <1>4, <1>5, <1>6 DEF Step

\* It uploads to the folder of its project.
LEMMA OthersFolders ==
  ASSUME JobTypeOK, NEW t \in Threads, Step(t), NEW q \in Owners, pc[t] = "idle" \/ setup[t].owner # q
  PROVE  folder'[q] = folder[q]
<1>1. CASE Upload(t)
  <2>1. setup[t].owner # q
    BY <1>1 DEF Upload
  <2>2. QED BY <1>1, <2>1 DEF Upload, FolderOf, JobTypeOK
<1>2. QED
  BY <1>1 DEF Step, Begin, FindByName, FindByTag, EnsureJob, RunAs, Pause, Trigger, Recorded, world

\* Until it is over it is a set-up of the project it began with, and keeps its request.
LEMMA RequestKept ==
  ASSUME JobTypeOK, NEW t \in Threads, Step(t), pc[t] # "idle", pc'[t] # "idle"
  PROVE  /\ setup'[t].owner = setup[t].owner /\ setup'[t].v = setup[t].v /\ setup'[t].auth = setup[t].auth
         /\ setup'[t].tasks = setup[t].tasks /\ setup'[t].files = setup[t].files
         /\ pc[t] # "upload" => folder' = folder /\ pc'[t] # "upload"
<1> USE DEF JobTypeOK, GoTo, Over, SetId, world
<1>0. setup[t] \in SetupRec
  OBVIOUS
<1>1. CASE Upload(t)
  BY <1>0, <1>1 DEF Upload, SetupRec
<1>2. CASE FindByName(t)
  BY <1>0, <1>2 DEF FindByName, SetupRec
<1>3. CASE FindByTag(t)
  BY <1>0, <1>3 DEF FindByTag, SetupRec
<1>4. CASE EnsureJob(t)
  BY <1>0, <1>4 DEF EnsureJob, SetupRec
<1>5. CASE RunAs(t)
  BY <1>5 DEF RunAs, Provisioned
<1>6. CASE Pause(t) \/ Trigger(t) \/ Recorded(t)
  BY <1>6 DEF Pause, Trigger, Recorded
<1>7. QED
  BY <1>1, <1>2, <1>3, <1>4, <1>5, <1>6 DEF Step, Begin

\* What is still the only set-up of its project was so before, and the step was another project's.
LEMMA AloneBefore ==
  ASSUME JobTypeOK, BesideInv, NEW t \in Threads, Step(t), NEW u \in Threads \ beside', pc'[u] # "idle"
  PROVE  /\ pc[u] # "idle" => u \notin beside
         /\ u # t /\ pc[t] # "idle" => setup[t].owner # setup[u].owner
<1>1. CASE pc[t] = "idle"
  <2>1. PICK p \in Owners, r \in Requests : Begin(t, p, r)
    BY <1>1 DEF Step, Upload, FindByName, FindByTag, EnsureJob, RunAs, Pause, Trigger, Recorded
  <2>2. u # t => u \notin beside
    BY <2>1 DEF Begin
  <2>3. QED BY <1>1, <2>2
<1>2. CASE pc[t] # "idle"
  <2>1. beside' = beside
    BY <1>2 DEF Step, Begin, Upload, FindByName, FindByTag, EnsureJob, RunAs, Pause, Trigger, Recorded, world
  <2>2. u # t => pc[u] # "idle"
    BY OnlyOwn
  <2>3. QED BY <1>2, <2>1, <2>2 DEF BesideInv
<1>3. QED BY <1>1, <1>2

LEMMA BesideStep ==
  ASSUME JobTypeOK, BesideInv, NEW t \in Threads, Step(t)
  PROVE  BesideInv'
<1> SUFFICES ASSUME NEW u \in Threads, NEW w \in Threads, u # w, pc'[u] # "idle", pc'[w] # "idle",
                    setup'[u].owner = setup'[w].owner
             PROVE  u \in beside'
  BY DEF BesideInv
<1>1. CASE pc[t] = "idle"
  <2>1. PICK p \in Owners, r \in Requests : Begin(t, p, r)
    BY <1>1 DEF Step, Upload, FindByName, FindByTag, EnsureJob, RunAs, Pause, Trigger, Recorded
  <2>2. setup'[t].owner = p /\ \A x \in Threads : x # t => setup'[x] = setup[x] /\ pc'[x] = pc[x]
    BY <2>1, OnlyOwn DEF Begin, JobTypeOK
  <2>3. CASE u = t \/ w = t
    <3>1. \E x \in {u, w} : x # t /\ x \in SetupsOf(p)
      BY <2>2, <2>3 DEF SetupsOf
    <3>2. beside' = beside \cup SetupsOf(p) \cup {t}
      BY <2>1, <3>1 DEF Begin
    <3>3. QED BY <2>2, <2>3, <3>2 DEF SetupsOf
  <2>4. CASE u # t /\ w # t
    <3>1. u \in beside
      BY <2>2, <2>4 DEF BesideInv
    <3>2. QED BY <2>1, <2>4, <3>1 DEF Begin
  <2>5. QED BY <2>3, <2>4
<1>2. CASE pc[t] # "idle"
  <2>1. beside' = beside
    BY <1>2 DEF Step, Begin, Upload, FindByName, FindByTag, EnsureJob, RunAs, Pause, Trigger, Recorded, world
  <2>2. \A x \in {u, w} : pc[x] # "idle" /\ setup'[x].owner = setup[x].owner
    BY <1>2, OnlyOwn, RequestKept
  <2>3. QED BY <2>1, <2>2 DEF BesideInv
<1>3. QED BY <1>1, <1>2

\* What the workspace is told to make of a job is the settings of one.
LEMMA SettingsType ==
  ASSUME JobTypeOK, NEW t \in Threads, pc[t] # "idle"
  PROVE  /\ Settings(t) \in JobSettings /\ setup[t].owner \in Owners
         /\ Settings(t).tag = TagOf(setup[t].owner) /\ Settings(t).dir = setup[t].owner
         /\ Settings(t).tasks = setup[t].files /\ Settings(t).title = setup[t].title
  BY DEF JobTypeOK, SetupRec, Settings, JobSettings, TagOf, FolderOf, Owners

LEMMA TitleType ==
  ASSUME JobTypeOK, NEW p \in Owners
  PROVE  /\ Title(p) \in Names \cup {BaseName}
         /\ p = NoProject <=> Title(p) = BaseName
  BY NamesAssumption DEF JobTypeOK, Title, Owners

LEMMA JobTypeStep ==
  ASSUME JobTypeOK, FilesInv, IdInv, NEW t \in Threads, Step(t)
  PROVE  JobTypeOK'
<1> DEFINE Rest == /\ name' \in [Projects -> Names] /\ DOMAIN folder' = Owners
                   /\ DOMAIN setup' = Threads /\ setups' \in Nat
<1> DEFINE Own == /\ pc' \in [Threads -> Labels]
                  /\ pc'[t] # "idle" => setup'[t] \in SetupRec
<1> DEFINE JobOf == job' \in [Ids -> JobSettings \cup {NoJob}]
<1> DEFINE title == Title(setup[t].owner)
<1> USE DEF JobTypeOK, GoTo, Over, SetId, world, Labels
<1>1. ASSUME NEW p \in Owners, NEW r \in Requests, Begin(t, p, r) PROVE Rest /\ Own /\ JobOf
  <2>1. setup'[t] \in SetupRec
    <3>1. setup'[t] = [v |-> setups + 1, owner |-> p, auth |-> r.auth, mode |-> r.mode, tasks |-> RunTaskKeys(r),
                       files |-> Generate(r), left |-> Generate(r), title |-> BaseName, id |-> 0]
      BY <1>1 DEF Begin
    <3>2. setups + 1 \in Nat
      OBVIOUS
    <3>3. QED BY <3>1, <3>2, Requested
  <2>2. QED BY <1>1, <2>1 DEF Begin
<1>2. CASE Upload(t)
  <2>1. setup[t] \in SetupRec
    BY <1>2 DEF Upload
  <2>2. setup[t].left \in Seq(Files)
    BY <2>1 DEF SetupRec
  <2>3. CASE setup' = [setup EXCEPT ![t].left = Tail(setup[t].left)] /\ pc' = [pc EXCEPT ![t] = IF Len(setup[t].left) = 1 THEN "name" ELSE "upload"]
    <3>1. Tail(setup[t].left) \in Seq(Files)
      <4>1. setup[t].left # <<>>
        BY <1>2 DEF Upload, FilesInv
      <4>2. QED BY <2>2, <4>1
    <3>2. setup'[t] = [setup[t] EXCEPT !.left = Tail(setup[t].left)]
      BY <2>3
    <3>3. setup'[t] \in SetupRec
      BY <2>1, <3>1, <3>2 DEF SetupRec
    <3>4. QED BY <1>2, <2>3, <3>3 DEF Upload
  <2>4. CASE pc' = [pc EXCEPT ![t] = "idle"] /\ setup' = [setup EXCEPT ![t] = NoSetup]
    BY <1>2, <2>4 DEF Upload
  <2>5. QED BY <1>2, <2>3, <2>4 DEF Upload
<1>3. CASE FindByName(t)
  <2>1. setup[t] \in SetupRec /\ setup[t].owner \in Owners
    BY <1>3 DEF FindByName, SetupRec
  <2>2. title \in Names \cup {BaseName}
    BY <2>1, TitleType
  <2>3. ASSUME NEW i \in Ours(setup[t].owner, title), setup' = [setup EXCEPT ![t].title = title, ![t].id = i],
               pc' = [pc EXCEPT ![t] = "ensure"]
        PROVE  Rest /\ Own /\ JobOf
    <3>1. i \in Ids
      BY DEF Ours, Named, Jobs
    <3>2. setup'[t] \in SetupRec
      BY <2>1, <2>2, <2>3, <3>1 DEF SetupRec
    <3>3. QED BY <1>3, <2>3, <3>2 DEF FindByName
  <2>4. CASE /\ setup' = [setup EXCEPT ![t].title = title]
             /\ pc' = [pc EXCEPT ![t] = IF setup[t].owner = NoProject THEN "ensure" ELSE "tags"]
    <3>2. setup'[t] \in SetupRec
      BY <2>1, <2>2, <2>4 DEF SetupRec
    <3>3. QED BY <1>3, <2>4, <3>2 DEF FindByName
  <2>5. CASE pc' = [pc EXCEPT ![t] = "idle"] /\ setup' = [setup EXCEPT ![t] = NoSetup]
    BY <1>3, <2>5 DEF FindByName
  <2>6. QED BY <1>3, <2>3, <2>4, <2>5 DEF FindByName
<1>4. CASE FindByTag(t)
  <2>1. setup[t] \in SetupRec
    BY <1>4 DEF FindByTag
  <2>2. ASSUME NEW i \in ByTag(setup[t].owner), setup' = [setup EXCEPT ![t].id = i] PROVE setup'[t] \in SetupRec
    <3>1. i \in Ids
      BY DEF ByTag, Tagged, Jobs
    <3>2. QED BY <2>1, <2>2, <3>1 DEF SetupRec
  <2>3. QED BY <1>4, <2>1, <2>2 DEF FindByTag
<1>5. CASE EnsureJob(t)
  <2>1. setup[t] \in SetupRec /\ Settings(t) \in JobSettings
    BY <1>5, SettingsType DEF EnsureJob
  <2>2. ASSUME NEW new \in Ids, job' = [job EXCEPT ![new] = Settings(t)], setup' = [setup EXCEPT ![t].id = new],
               pc' = [pc EXCEPT ![t] = "runas"]
        PROVE  Rest /\ Own /\ JobOf
    <3>1. setup'[t] \in SetupRec
      BY <2>1, <2>2 DEF SetupRec
    <3>2. QED BY <1>5, <2>1, <2>2, <3>1 DEF EnsureJob
  <2>3. CASE /\ UNCHANGED setup /\ job' = [job EXCEPT ![setup[t].id] = Settings(t)] /\ pc' = [pc EXCEPT ![t] = "runas"]
    BY <1>5, <2>1, <2>3 DEF EnsureJob
  <2>4. CASE pc' = [pc EXCEPT ![t] = "idle"] /\ setup' = [setup EXCEPT ![t] = NoSetup] /\ UNCHANGED job
    BY <1>5, <2>4 DEF EnsureJob
  <2>5. QED BY <1>5, <2>2, <2>3, <2>4 DEF EnsureJob
<1>6. CASE RunAs(t)
  <2>1. job[setup[t].id] \in JobSettings
    BY <1>6 DEF RunAs, IdInv, Tagged, Jobs
  <2>2. [job[setup[t].id] EXCEPT !.as = "user"] \in JobSettings
    BY <2>1 DEF JobSettings
  <2>3. JobOf
    BY <1>6, <2>2 DEF RunAs
  <2>4. QED BY <1>6, <2>3 DEF RunAs, Provisioned
<1>7. CASE Pause(t)
  <2>1. job[setup[t].id] \in JobSettings
    BY <1>7 DEF Pause, IdInv, Tagged, Jobs
  <2>2. [job[setup[t].id] EXCEPT !.sched = "paused"] \in JobSettings
    BY <2>1 DEF JobSettings
  <2>3. JobOf
    BY <1>7, <2>2 DEF Pause
  <2>4. QED BY <1>7, <2>3 DEF Pause
<1>8. CASE Trigger(t) \/ Recorded(t)
  BY <1>8 DEF Trigger, Recorded
<1>9. Rest /\ Own /\ JobOf
  BY <1>1, <1>2, <1>3, <1>4, <1>5, <1>6, <1>7, <1>8 DEF Step
<1>10. \A u \in Threads : u # t /\ pc'[u] # "idle" => setup'[u] \in SetupRec
  BY OnlyOwn
<1>11. QED BY <1>9, <1>10
-----------------------------------------------------------------------------
(* JobSetup: what becomes of the jobs. *)

LEMMA TagsDiffer ==
  ASSUME NEW p \in Owners, NEW q \in Owners, TagOf(p) = TagOf(q)
  PROVE  p = q
  BY NamesAssumption DEF TagOf, Owners

\* A job that a set-up changes was free or its project's, and is its project's then.
LEMMA JobChange ==
  ASSUME JobTypeOK, TagInv, IdInv, NEW t \in Threads, Step(t), NEW i \in Ids, job'[i] # job[i]
  PROVE  /\ pc[t] \in {"ensure", "runas", "pause"} /\ pc'[t] # "idle"
         /\ i = setup'[t].id
         /\ i \in Jobs => i \in Tagged(TagOf(setup[t].owner))
         /\ i \in Jobs' /\ job'[i].tag = TagOf(setup[t].owner) /\ job'[i].dir = setup[t].owner
         /\ job'[i].tag = NoTag => job'[i].title = BaseName
<1> USE DEF JobTypeOK, GoTo, Over, SetId, world
<1> DEFINE p == setup[t].owner
           Goal == /\ pc[t] \in {"ensure", "runas", "pause"} /\ pc'[t] # "idle"
                   /\ i = setup'[t].id
                   /\ i \in Jobs => i \in Tagged(TagOf(p))
                   /\ i \in Jobs' /\ job'[i].tag = TagOf(p) /\ job'[i].dir = p
                   /\ job'[i].tag = NoTag => job'[i].title = BaseName
<1>1. CASE EnsureJob(t)
  <2>1. pc[t] = "ensure" /\ setup[t] \in SetupRec
    BY <1>1 DEF EnsureJob
  <2>2. /\ i = setup'[t].id /\ job'[i] = Settings(t) /\ pc'[t] = "runas"
        /\ i \in Jobs => i = setup[t].id /\ setup[t].id # 0
    <3>1. CASE setup[t].id # 0 /\ UNCHANGED setup /\ job' = [job EXCEPT ![setup[t].id] = Settings(t)] /\ GoTo(t, "runas")
      BY <3>1
    <3>2. ASSUME NEW new \in Ids \ Jobs, job' = [job EXCEPT ![new] = Settings(t)], SetId(t, new), GoTo(t, "runas")
          PROVE  /\ i = setup'[t].id /\ job'[i] = Settings(t) /\ pc'[t] = "runas"
                 /\ i \in Jobs => i = setup[t].id /\ setup[t].id # 0
      BY <2>1, <3>2 DEF SetupRec
    <3>3. CASE UNCHANGED job
      BY <3>3
    <3>4. QED BY <1>1, <3>1, <3>2, <3>3 DEF EnsureJob
  <2>3. i \in Jobs => i \in Tagged(TagOf(p))
    BY <2>1, <2>2 DEF IdInv
  <2>4. /\ Settings(t) \in JobSettings /\ Settings(t).tag = TagOf(p) /\ Settings(t).dir = p
        /\ Settings(t).title = setup[t].title /\ p \in Owners
    BY <2>1, SettingsType
  <2>5. job'[i].tag = NoTag => job'[i].title = BaseName
    <3>1. TagOf(p) = NoTag => p = NoProject
      BY <2>4, NamesAssumption DEF TagOf, Owners
    <3>2. QED BY <2>1, <2>2, <2>4, <3>1 DEF IdInv
  <2>6. i \in Jobs'
    BY <2>2, <2>4, NoJobAssumption DEF Jobs
  <2>7. QED BY <2>1, <2>2, <2>3, <2>4, <2>5, <2>6
<1>2. ASSUME /\ pc[t] \in {"runas", "pause"} /\ pc'[t] # "idle" /\ setup' = setup
             /\ \/ job' = [job EXCEPT ![setup[t].id].as = "user"]
                \/ job' = [job EXCEPT ![setup[t].id].sched = "paused"]
      PROVE  Goal
  <2>1. i = setup[t].id /\ i \in Tagged(TagOf(p)) /\ i \in Jobs
    BY <1>2 DEF IdInv, Tagged
  <2>2. job[i] \in JobSettings
    BY <2>1 DEF Jobs
  <2>3. /\ job'[i] \in JobSettings
        /\ job'[i].tag = job[i].tag /\ job'[i].dir = job[i].dir /\ job'[i].title = job[i].title
    BY <1>2, <2>1, <2>2 DEF JobSettings
  <2>4. job[i].dir = p
    <3>1. job[i].tag = TagOf(p) /\ job[i].tag = TagOf(job[i].dir) /\ job[i].dir \in Owners /\ p \in Owners
      BY <1>2, <2>1, <2>2, SettingsType DEF TagInv, Tagged, JobSettings
    <3>2. QED BY <3>1, TagsDiffer
  <2>5. i \in Jobs'
    BY <2>3, NoJobAssumption DEF Jobs
  <2>6. QED BY <1>2, <2>1, <2>3, <2>4, <2>5 DEF TagInv, Tagged
<1>3. CASE RunAs(t)
  <2>1. /\ pc[t] \in {"runas", "pause"} /\ setup' = setup
        /\ job' = job \/ job' = [job EXCEPT ![setup[t].id].as = "user"]
        /\ pc'[t] # "idle"
    BY <1>3 DEF RunAs, Provisioned
  <2>2. QED BY <1>2, <2>1
<1>4. CASE Pause(t)
  <2>1. /\ pc[t] \in {"runas", "pause"} /\ setup' = setup
        /\ job' = job \/ job' = [job EXCEPT ![setup[t].id].sched = "paused"]
        /\ pc'[t] # "idle"
    BY <1>4 DEF Pause
  <2>2. QED BY <1>2, <2>1
<1>5. CASE UNCHANGED job
  BY <1>5
<1>6. QED
  BY <1>1, <1>3, <1>4, <1>5 DEF Step, Begin, Upload, FindByName, FindByTag, Trigger, Recorded

\* The jobs of other projects are left alone.
LEMMA OthersJobs ==
  ASSUME JobTypeOK, TagInv, IdInv, NEW t \in Threads, Step(t),
         NEW q \in Owners, pc[t] = "idle" \/ q # setup[t].owner
  PROVE  /\ Tagged(TagOf(q))' = Tagged(TagOf(q))
         /\ \A i \in Tagged(TagOf(q)) : job'[i] = job[i]
<1>1. ASSUME NEW i \in Ids, job'[i] # job[i]
      PROVE  i \notin Tagged(TagOf(q)) /\ i \notin Tagged(TagOf(q))'
  <2>1. TagOf(setup[t].owner) # TagOf(q)
    <3>1. pc[t] # "idle"
      BY <1>1, JobChange
    <3>2. QED BY <3>1, SettingsType, TagsDiffer
  <2>2. (i \in Jobs => job[i].tag = TagOf(setup[t].owner)) /\ job'[i].tag = TagOf(setup[t].owner)
    BY <1>1, JobChange DEF Tagged
  <2>3. QED BY <2>1, <2>2 DEF Tagged, TagOf
<1>2. \A i \in Ids : job'[i] = job[i] => (i \in Tagged(TagOf(q)) <=> i \in Tagged(TagOf(q))')
  BY DEF Tagged, Jobs, TagOf
<1>3. Tagged(TagOf(q)) \subseteq Ids /\ Tagged(TagOf(q))' \subseteq Ids
  BY DEF Tagged, Jobs
<1>4. QED BY <1>1, <1>2, <1>3

\* No project loses a job, and gets one at most, when one is created.
LEMMA JobsStay ==
  ASSUME JobTypeOK, TagInv, IdInv, NEW t \in Threads, Step(t), NEW q \in Owners
  PROVE  /\ Tagged(TagOf(q)) \subseteq Tagged(TagOf(q))'
         /\ Tagged(TagOf(q))' \subseteq Tagged(TagOf(q)) \cup {setup'[t].id}
         /\ pc[t] # "ensure" => Tagged(TagOf(q))' = Tagged(TagOf(q))
<1>1. CASE pc[t] = "idle" \/ q # setup[t].owner
  BY <1>1, OthersJobs
<1>2. CASE pc[t] # "idle" /\ q = setup[t].owner
  <2>1. ASSUME NEW i \in Ids, job'[i] # job[i]
        PROVE  /\ i \in Tagged(TagOf(q))' /\ i = setup'[t].id
               /\ pc[t] # "ensure" => i \in Tagged(TagOf(q))
    <3>1. i \in Tagged(TagOf(q))' /\ i = setup'[t].id /\ pc[t] \in {"ensure", "runas", "pause"}
      BY <1>2, <2>1, JobChange DEF Tagged, TagOf
    <3>2. CASE pc[t] = "ensure"
      BY <3>1, <3>2
    <3>3. CASE pc[t] \in {"runas", "pause"}
      <4>1. setup' = setup
        BY <3>3 DEF Step, Begin, Upload, FindByName, FindByTag, EnsureJob, RunAs, Pause, Trigger, Recorded
      <4>2. QED BY <1>2, <3>1, <3>3, <4>1 DEF IdInv
    <3>4. QED BY <3>1, <3>2, <3>3
  <2>2. \A i \in Ids : job'[i] = job[i] => (i \in Tagged(TagOf(q)) <=> i \in Tagged(TagOf(q))')
    BY DEF Tagged, Jobs, TagOf
  <2>3. Tagged(TagOf(q)) \subseteq Ids /\ Tagged(TagOf(q))' \subseteq Ids
    BY DEF Tagged, Jobs
  <2>4. QED BY <2>1, <2>2, <2>3
<1>3. QED BY <1>1, <1>2
-----------------------------------------------------------------------------
(* JobSetup: the steps of the invariant. *)

LEMMA FilesStep ==
  ASSUME JobTypeOK, BesideInv, FilesInv, NEW t \in Threads, Step(t)
  PROVE  FilesInv'
<1> DEFINE There(u, file) ==
      LET s == setup'[u] IN file \in DOMAIN folder'[s.owner] /\ folder'[s.owner][file] = Notebook(s)
<1> DEFINE Kept(u) ==
      /\ Chained(setup'[u])
      /\ pc'[u] = "upload" => setup'[u].left # <<>>
      /\ u \notin beside' =>
           \A file \in ToSet(setup'[u].files) :
             There(u, file) \/ (pc'[u] = "upload" /\ file \in ToSet(setup'[u].left))
<1>1. ASSUME NEW u \in Threads, u # t, pc'[u] # "idle" PROVE Kept(u)
  <2>1. pc'[u] = pc[u] /\ setup'[u] = setup[u]
    BY <1>1, OnlyOwn
  <2>2. u \notin beside' => u \notin beside /\ folder'[setup[u].owner] = folder[setup[u].owner]
    <3>1. setup[u].owner \in Owners
      BY <1>1, <2>1, SettingsType
    <3>2. QED BY <1>1, <2>1, <3>1, AloneBefore, OthersFolders
  <2>3. QED BY <1>1, <2>1, <2>2 DEF FilesInv, Uploaded
<1>2. ASSUME NEW p \in Owners, NEW r \in Requests, Begin(t, p, r) PROVE Kept(t)
  <2>1. setup'[t] = [v |-> setups + 1, owner |-> p, auth |-> r.auth, mode |-> r.mode, tasks |-> RunTaskKeys(r),
                     files |-> Generate(r), left |-> Generate(r), title |-> BaseName, id |-> 0]
    BY <1>2 DEF Begin, JobTypeOK
  <2>2. setups + 1 \in Nat
    BY DEF JobTypeOK
  <2>3. Chained(setup'[t]) /\ setup'[t].left # <<>> /\ setup'[t].left = setup'[t].files
    BY <2>1, <2>2, Requested
  <2>4. pc'[t] = "upload"
    BY <1>2 DEF Begin, GoTo, JobTypeOK
  <2>5. QED BY <2>3, <2>4
<1>3. ASSUME Upload(t), pc'[t] # "idle" PROVE Kept(t)
  <2> DEFINE s == setup[t]
             nb == Head(s.left)
             d == s.owner
  <2>1. /\ pc[t] = "upload" /\ s \in SetupRec /\ d \in Owners /\ Chained(s) /\ s.left # <<>>
        /\ folder' = [folder EXCEPT ![d] = Put(folder[d], nb, Notebook(s))]
        /\ setup' = [setup EXCEPT ![t].left = Tail(s.left)] /\ beside' = beside
        /\ pc'[t] = IF Len(s.left) = 1 THEN "name" ELSE "upload"
    BY <1>3, SettingsType DEF Upload, FolderOf, Over, GoTo, FilesInv, JobTypeOK
  <2>2. /\ setup'[t] = [s EXCEPT !.left = Tail(s.left)] /\ setup'[t].owner = d
        /\ setup'[t].files = s.files /\ setup'[t].tasks = s.tasks /\ setup'[t].left = Tail(s.left)
        /\ Notebook(setup'[t]) = Notebook(s)
    BY <2>1 DEF JobTypeOK, SetupRec, Notebook
  <2>3. Chained(setup'[t])
    BY <2>1, <2>2 DEF Chained
  <2>4. s.left \in Seq(Files)
    BY <2>1 DEF SetupRec
  <2>5. ASSUME pc'[t] = "upload" PROVE Tail(s.left) # <<>>
    <3>1. Len(s.left) # 1 /\ Len(s.left) # 0 /\ Len(s.left) \in Nat
      BY <2>1, <2>4, <2>5
    <3>2. Len(Tail(s.left)) = Len(s.left) - 1
      BY <2>1, <2>4
    <3>3. Len(Tail(s.left)) # 0
      BY <3>1, <3>2
    <3>4. Len(<<>>) = 0
      OBVIOUS
    <3>5. QED BY <3>3, <3>4, Zenon
  <2>6. /\ DOMAIN folder'[d] = DOMAIN folder[d] \cup {nb}
        /\ folder'[d][nb] = Notebook(s)
        /\ \A k \in DOMAIN folder[d] : k # nb => folder'[d][k] = folder[d][k]
    BY <2>1 DEF Put, JobTypeOK
  <2>7. ASSUME NEW file \in ToSet(s.left), file # nb
        PROVE  file \in ToSet(Tail(s.left)) /\ Len(s.left) # 1
    <3>1. PICK k \in 1 .. Len(s.left) : s.left[k] = file
      BY <2>4, <2>7 DEF ToSet
    <3>2. k # 1
      BY <2>4, <2>1, <2>7, <3>1
    <3>3. k - 1 \in 1 .. Len(s.left) - 1 /\ Tail(s.left)[k - 1] = file /\ Len(s.left) # 1
      BY <2>1, <2>4, <3>1, <3>2
    <3>4. DOMAIN Tail(s.left) = 1 .. Len(s.left) - 1
      BY <2>1, <2>4
    <3>5. QED BY <3>3, <3>4 DEF ToSet
  <2>8. ASSUME NEW file \in ToSet(s.files), t \notin beside
        PROVE  \/ file \in DOMAIN folder'[d] /\ folder'[d][file] = Notebook(s)
               \/ pc'[t] = "upload" /\ file \in ToSet(Tail(s.left))
    <3>1. Uploaded(s, file) \/ file \in ToSet(s.left)
      BY <2>1, <2>8 DEF FilesInv
    <3>2. CASE file = nb
      BY <2>6, <3>2
    <3>3. CASE file # nb /\ Uploaded(s, file)
      BY <2>6, <3>3 DEF Uploaded
    <3>4. CASE file # nb /\ file \in ToSet(s.left)
      BY <2>1, <2>7, <3>4
    <3>5. QED BY <3>1, <3>2, <3>3, <3>4
  <2>9. QED BY <2>1, <2>2, <2>3, <2>5, <2>8
<1>4. ASSUME pc[t] \notin {"idle", "upload"}, pc'[t] # "idle" PROVE Kept(t)
  <2>1. /\ setup'[t].tasks = setup[t].tasks /\ setup'[t].files = setup[t].files /\ setup'[t].owner = setup[t].owner
        /\ folder' = folder /\ pc'[t] # "upload" /\ Notebook(setup'[t]) = Notebook(setup[t])
    BY <1>4, RequestKept DEF Notebook
  <2>2. Chained(setup'[t])
    BY <1>4, <2>1 DEF FilesInv, Chained
  <2>3. t \notin beside' => t \notin beside
    BY <1>4, AloneBefore
  <2>4. t \notin beside' => \A file \in ToSet(setup[t].files) : Uploaded(setup[t], file)
    BY <1>4, <2>3 DEF FilesInv
  <2>5. QED BY <2>1, <2>2, <2>4 DEF Uploaded
<1>5. ASSUME pc'[t] # "idle" PROVE Kept(t)
  <2>1. CASE pc[t] = "idle"
    BY <1>2, <2>1 DEF Step, Upload, FindByName, FindByTag, EnsureJob, RunAs, Pause, Trigger, Recorded
  <2>2. CASE pc[t] = "upload"
    BY <1>3, <1>5, <2>2 DEF Step, Begin, FindByName, FindByTag, EnsureJob, RunAs, Pause, Trigger, Recorded
  <2>3. QED BY <1>4, <1>5, <2>1, <2>2
<1>6. \A u \in Threads : pc'[u] # "idle" => Kept(u)
  BY <1>1, <1>5
<1>7. QED
  BY <1>6 DEF FilesInv, Uploaded, Notebook, Chained

LEMMA TagStep ==
  ASSUME JobTypeOK, TagInv, IdInv, NEW t \in Threads, Step(t)
  PROVE  TagInv'
<1> SUFFICES ASSUME NEW i \in Jobs'
             PROVE  job'[i].tag = TagOf(job'[i].dir) /\ (job'[i].tag = NoTag => job'[i].title = BaseName)
  BY DEF TagInv, TagOf
<1>1. i \in Ids
  BY DEF Jobs
<1>2. CASE job'[i] = job[i]
  BY <1>1, <1>2 DEF TagInv, Jobs
<1>3. CASE job'[i] # job[i]
  BY <1>1, <1>3, JobChange
<1>4. QED BY <1>2, <1>3

LEMMA IdStep ==
  ASSUME JobTypeOK, BesideInv, FilesInv, TagInv, IdInv, NEW t \in Threads, Step(t)
  PROVE  IdInv'
<1> DEFINE Its(i, q) == i \in Jobs' /\ job'[i].tag = TagOf(q)
<1> DEFINE Kept(u) ==
      /\ pc'[u] \in {"upload", "name", "tags"} => setup'[u].id = 0
      /\ pc'[u] = "tags" => setup'[u].owner # NoProject
      /\ pc'[u] \in {"tags", "ensure"} => (setup'[u].owner = NoProject <=> setup'[u].title = BaseName)
      /\ pc'[u] = "ensure" /\ setup'[u].id # 0 => Its(setup'[u].id, setup'[u].owner)
      /\ pc'[u] \in {"runas", "pause", "trigger", "record"} =>
           /\ Its(setup'[u].id, setup'[u].owner)
           /\ u \notin beside' => job'[setup'[u].id].tasks = setup'[u].files
<1>0. \A i, q : i \in Tagged(TagOf(q)) /\ job'[i] = job[i] => Its(i, q)
  BY DEF Tagged, Jobs
<1>1. ASSUME NEW u \in Threads, u # t PROVE Kept(u)
  <2>1. pc'[u] = pc[u] /\ setup'[u] = setup[u]
    BY <1>1, OnlyOwn
  <2>2. CASE pc[u] = "idle"
    BY <2>1, <2>2
  <2>3. CASE pc[u] # "idle"
    <3>1. setup[u].owner \in Owners
      BY <2>3, SettingsType
    <3>2. \A i \in Tagged(TagOf(setup[u].owner)) : Its(i, setup[u].owner)
      <4>1. \A q \in Owners : \A i \in Tagged(TagOf(q)) : i \in Tagged(TagOf(q))'
        BY JobsStay
      <4>2. \A q \in Owners : \A i \in Tagged(TagOf(q)) : Its(i, q)
        BY <4>1 DEF Tagged, TagOf
      <4>3. QED BY <3>1, <4>2
    <3>3. ASSUME u \notin beside'
          PROVE  u \notin beside /\ \A i \in Tagged(TagOf(setup[u].owner)) : job'[i] = job[i]
      <4>1. u \notin beside /\ (pc[t] # "idle" => setup[t].owner # setup[u].owner)
        BY <1>1, <2>1, <2>3, <3>3, AloneBefore
      <4>2. QED BY <3>1, <4>1, OthersJobs
    <3>4. QED BY <2>1, <3>2, <3>3 DEF IdInv
  <2>4. QED BY <2>2, <2>3
<1> USE DEF JobTypeOK, GoTo, Over, SetId, world
<1> DEFINE p == setup[t].owner
<1>2. ASSUME NEW q \in Owners, NEW r \in Requests, Begin(t, q, r) PROVE Kept(t)
  BY <1>2 DEF Begin
<1>3. ASSUME Upload(t) PROVE Kept(t)
  <2>1. pc[t] = "upload" /\ setup[t] \in SetupRec /\ setup[t].id = 0
    BY <1>3 DEF Upload, IdInv
  <2>2. CASE pc'[t] = "idle"
    BY <2>2
  <2>3. CASE setup' = [setup EXCEPT ![t].left = Tail(setup[t].left)] /\ pc'[t] \in {"name", "upload"}
    BY <2>1, <2>3 DEF SetupRec
  <2>4. QED BY <1>3, <2>2, <2>3 DEF Upload
<1>4. ASSUME FindByName(t) PROVE Kept(t)
  <2>1. pc[t] = "name" /\ setup[t] \in SetupRec /\ setup[t].id = 0 /\ job' = job /\ p \in Owners
    BY <1>4, SettingsType DEF FindByName, IdInv
  <2>2. Title(p) \in Names \cup {BaseName} /\ (p = NoProject <=> Title(p) = BaseName)
    BY <2>1, TitleType
  <2>3. \A i \in Ours(p, Title(p)) : i \in Tagged(TagOf(p))
    <3>1. CASE p = NoProject
      BY <3>1 DEF Ours, TagOf
    <3>2. CASE p # NoProject
      <4>1. TagOf(p) = p /\ Title(p) # BaseName
        BY <2>2, <3>2 DEF TagOf
      <4>2. Named(Title(p)) \cap Tagged(NoTag) = {}
        BY <4>1 DEF TagInv, Named, Tagged
      <4>3. QED BY <4>1, <4>2 DEF Ours
    <3>3. QED BY <3>1, <3>2
  <2>4. \A i \in Tagged(TagOf(p)) : Its(i, p)
    BY <1>0, <2>1
  <2>5. ASSUME NEW i \in Ours(p, Title(p)), setup' = [setup EXCEPT ![t].title = Title(p), ![t].id = i],
               pc'[t] = "ensure"
        PROVE  Kept(t)
    <3>1. setup'[t].title = Title(p) /\ setup'[t].id = i /\ setup'[t].owner = p
      BY <2>1, <2>5 DEF SetupRec
    <3>2. QED BY <2>2, <2>3, <2>4, <2>5, <3>1
  <2>6. CASE setup' = [setup EXCEPT ![t].title = Title(p)] /\ pc'[t] = IF p = NoProject THEN "ensure" ELSE "tags"
    <3>1. setup'[t].title = Title(p) /\ setup'[t].id = 0 /\ setup'[t].owner = p
      BY <2>1, <2>6 DEF SetupRec
    <3>2. QED BY <2>2, <2>6, <3>1
  <2>7. CASE pc'[t] = "idle"
    BY <2>7
  <2>8. QED BY <1>4, <2>5, <2>6, <2>7 DEF FindByName
<1>5. ASSUME FindByTag(t) PROVE Kept(t)
  <2>1. /\ pc[t] = "tags" /\ setup[t] \in SetupRec /\ setup[t].id = 0 /\ job' = job /\ pc'[t] = "ensure"
        /\ p \in Owners /\ p # NoProject /\ setup[t].title # BaseName
    BY <1>5, SettingsType DEF FindByTag, IdInv
  <2>2. setup'[t].title = setup[t].title /\ setup'[t].owner = p
    BY <1>5, <2>1 DEF FindByTag, SetupRec
  <2>3. \A i \in Tagged(TagOf(p)) : Its(i, p)
    BY <1>0, <2>1
  <2>4. setup'[t].id = 0 \/ setup'[t].id \in Tagged(p)
    BY <1>5, <2>1 DEF FindByTag, SetupRec, ByTag
  <2>5. QED BY <2>1, <2>2, <2>3, <2>4 DEF TagOf
<1>6. ASSUME EnsureJob(t), pc'[t] # "idle" PROVE Kept(t)
  <2>1. pc[t] = "ensure" /\ setup[t] \in SetupRec /\ pc'[t] = "runas"
    BY <1>6 DEF EnsureJob
  <2>2. setup'[t].files = setup[t].files /\ setup'[t].owner = p
    BY <1>6, <2>1 DEF EnsureJob, SetupRec
  <2>3. setup'[t].id \in Ids /\ job'[setup'[t].id] = Settings(t)
    <3>1. CASE setup[t].id # 0 /\ UNCHANGED setup /\ job' = [job EXCEPT ![setup[t].id] = Settings(t)]
      BY <2>1, <3>1 DEF IdInv, Tagged, Jobs
    <3>2. ASSUME NEW new \in Ids \ Jobs, job' = [job EXCEPT ![new] = Settings(t)], setup' = [setup EXCEPT ![t].id = new]
          PROVE  setup'[t].id \in Ids /\ job'[setup'[t].id] = Settings(t)
      BY <2>1, <3>2 DEF SetupRec
    <3>3. QED BY <1>6, <2>1, <3>1, <3>2 DEF EnsureJob
  <2>4. Settings(t) \in JobSettings /\ Settings(t).tag = TagOf(p) /\ Settings(t).tasks = setup[t].files
    BY <2>1, SettingsType
  <2>5. Its(setup'[t].id, setup'[t].owner)
    BY <2>2, <2>3, <2>4, NoJobAssumption DEF Jobs
  <2>6. QED BY <2>1, <2>2, <2>3, <2>4, <2>5
<1>7. ASSUME pc[t] \in {"runas", "pause", "trigger", "record"}, pc'[t] # "idle" PROVE Kept(t)
  <2>1. setup' = setup /\ pc'[t] \in {"runas", "pause", "trigger", "record"} /\ p \in Owners
    BY <1>7, SettingsType
    DEF Step, Begin, Upload, FindByName, FindByTag, EnsureJob, RunAs, Pause, Trigger, Recorded, Provisioned
  <2>2. \A i \in Tagged(TagOf(p)) : Its(i, p)
    <3>1. \A q \in Owners : \A i \in Tagged(TagOf(q)) : i \in Tagged(TagOf(q))'
      BY JobsStay
    <3>2. \A q \in Owners : \A i \in Tagged(TagOf(q)) : Its(i, q)
      BY <3>1 DEF Tagged, TagOf
    <3>3. QED BY <2>1, <3>2
  <2>3. /\ setup[t].id \in Tagged(TagOf(p)) /\ job[setup[t].id] \in JobSettings
        /\ t \notin beside => job[setup[t].id].tasks = setup[t].files
    BY <1>7 DEF IdInv, Tagged, Jobs
  <2>4. job'[setup[t].id].tasks = job[setup[t].id].tasks
    <3>1. \/ job' = job
          \/ job' = [job EXCEPT ![setup[t].id].as = "user"]
          \/ job' = [job EXCEPT ![setup[t].id].sched = "paused"]
      BY <1>7 DEF Step, Begin, Upload, FindByName, FindByTag, EnsureJob, RunAs, Pause, Trigger, Recorded
    <3>2. setup[t].id \in Ids
      BY <2>3 DEF Tagged, Jobs
    <3>3. QED BY <2>3, <3>1, <3>2 DEF JobSettings
  <2>5. t \notin beside' => t \notin beside
    BY <1>7, AloneBefore
  <2>6. QED BY <2>1, <2>2, <2>3, <2>4, <2>5
<1>8. ASSUME pc'[t] = "idle" PROVE Kept(t)
  BY <1>8
<1>9. Kept(t)
  BY <1>2, <1>3, <1>4, <1>5, <1>6, <1>7, <1>8 DEF Step, RunAs, Pause, Trigger, Recorded
<1>10. \A u \in Threads : Kept(u)
  BY <1>1, <1>9
<1>11. QED
  BY <1>10 DEF IdInv, Tagged, TagOf

LEMMA AsStep ==
  ASSUME JobTypeOK, BesideInv, TagInv, IdInv, AsInv, NEW t \in Threads, Step(t)
  PROVE  AsInv'
<1> SUFFICES ASSUME NEW u \in Threads \ beside', pc'[u] = "trigger"
             PROVE  setup'[u].auth = "password" \/ job'[setup'[u].id].as = "user"
  BY DEF AsInv
<1>1. CASE u # t
  <2>1. pc'[u] = pc[u] /\ setup'[u] = setup[u]
    BY <1>1, OnlyOwn
  <2>2. u \notin beside /\ (pc[t] # "idle" => setup[t].owner # setup[u].owner)
    BY <1>1, <2>1, AloneBefore
  <2>3. setup[u].id \in Tagged(TagOf(setup[u].owner)) /\ setup[u].owner \in Owners
    BY <2>1, SettingsType DEF IdInv
  <2>4. job'[setup[u].id] = job[setup[u].id]
    BY <2>2, <2>3, OthersJobs
  <2>5. QED BY <2>1, <2>2, <2>4 DEF AsInv
<1>2. CASE u = t
  <2>1. RunAs(t) /\ setup' = setup
    BY <1>2 DEF Step, Begin, Upload, FindByName, FindByTag, EnsureJob, RunAs, Pause, Trigger, Recorded,
                GoTo, Over, JobTypeOK
  <2>2. setup[t].id \in Ids /\ job[setup[t].id] \in JobSettings
    BY <2>1 DEF RunAs, IdInv, Tagged, Jobs, JobTypeOK
  <2>3. CASE setup[t].auth = "password"
    BY <1>2, <2>1, <2>3
  <2>4. CASE job' = [job EXCEPT ![setup[t].id].as = "user"]
    <3>1. job'[setup[t].id] = [job[setup[t].id] EXCEPT !.as = "user"]
      BY <2>2, <2>4 DEF JobTypeOK
    <3>2. QED BY <1>2, <2>1, <2>2, <3>1 DEF JobSettings
  <2>5. CASE pc' = [pc EXCEPT ![t] = IF setup[t].mode = "schedule" THEN "pause" ELSE Provisioned(setup[t].mode, TRUE)]
    BY <1>2, <2>5 DEF Provisioned, JobTypeOK
  <2>6. QED BY <2>1, <2>3, <2>4, <2>5 DEF RunAs, GoTo
<1>3. QED BY <1>1, <1>2

\* Whoever comes to be about to create a job of a project has searched in vain while nobody else was.
LEMMA Creators ==
  ASSUME JobTypeOK, IdInv, NEW t \in Threads, Step(t), NEW q \in Projects \ missed'
  PROVE  \/ Creating(q)' \subseteq Creating(q) \ (IF pc[t] = "ensure" THEN {t} ELSE {})
         \/ pc[t] = "tags" /\ Tagged(q) = {} /\ Creating(q) = {} /\ Creating(q)' \subseteq {t}
<1>1. \A u \in Threads : u # t => (u \in Creating(q)' <=> u \in Creating(q))
  BY OnlyOwn DEF Creating, SetupsOf
<1>2. t \in Creating(q)' <=> pc'[t] = "ensure" /\ setup'[t].owner = q /\ setup'[t].id = 0
  BY DEF Creating, SetupsOf
<1>3. Creating(q) \subseteq Threads /\ Creating(q)' \subseteq Threads
  BY DEF Creating, SetupsOf
<1>4. CASE t \notin Creating(q)'
  BY <1>1, <1>3, <1>4
<1>5. CASE t \in Creating(q)'
  <2>1. FindByName(t) \/ FindByTag(t)
    BY <1>2, <1>5 DEF Step, Begin, Upload, FindByName, FindByTag, EnsureJob, RunAs, Pause, Trigger, Recorded,
                      GoTo, Over, JobTypeOK, Provisioned
  <2>2. setup[t] \in SetupRec /\ setup[t].owner = q /\ q # NoProject
    <3>1. pc[t] # "idle"
      BY <2>1 DEF FindByName, FindByTag
    <3>2. QED BY <1>2, <1>5, <3>1, RequestKept, NamesAssumption DEF JobTypeOK
  <2>3. CASE FindByName(t)
    <3>1. PICK i \in Ours(q, Title(q)) : setup' = [setup EXCEPT ![t].title = Title(q), ![t].id = i]
      BY <1>2, <1>5, <2>2, <2>3 DEF FindByName, GoTo, Over, JobTypeOK
    <3>2. setup'[t].id = i /\ i \in Ids
      BY <2>2, <3>1 DEF SetupRec, JobTypeOK, Ours, Named, Jobs
    <3>3. QED BY <1>2, <1>5, <3>2, IdsAssumption
  <2>4. CASE FindByTag(t)
    <3>1. ASSUME NEW i \in ByTag(q), SetId(t, i) PROVE FALSE
      <4>1. setup'[t].id = i /\ i \in Ids
        BY <2>2, <3>1 DEF SetupRec, JobTypeOK, ByTag, Tagged, Jobs, SetId
      <4>2. QED BY <1>2, <1>5, <4>1, IdsAssumption
    <3>2. pc[t] = "tags" /\ Tagged(q) = {} /\ Creating(q) = {}
      BY <2>2, <2>4, <3>1 DEF FindByTag, ByTag
    <3>3. QED BY <1>1, <1>3, <3>2
  <2>5. QED BY <2>1, <2>3, <2>4
<1>6. QED BY <1>4, <1>5

LEMMA OneStep ==
  ASSUME JobTypeOK, TagInv, IdInv, OneInv, NEW t \in Threads, Step(t)
  PROVE  OneInv'
<1> SUFFICES ASSUME NEW q \in Projects \ missed'
             PROVE  /\ \A i, j \in Tagged(q)' : i = j
                    /\ \A u \in Creating(q)' : Tagged(q)' = {} /\ \A w \in Creating(q)' : w = u
  BY DEF OneInv
<1>1. q \in Owners /\ TagOf(q) = q /\ TagOf(q)' = q
  BY NamesAssumption DEF TagOf, Owners
<1>2. /\ \A i, j \in Tagged(q) : i = j
      /\ \A u \in Creating(q) : Tagged(q) = {} /\ \A w \in Creating(q) : w = u
  <2>1. missed \subseteq missed'
    BY DEF Step, Begin, Upload, FindByName, FindByTag, EnsureJob, RunAs, Pause, Trigger, Recorded, world
  <2>2. QED BY <2>1 DEF OneInv
<1>3. /\ Tagged(q)' \subseteq Tagged(q) \cup {setup'[t].id}
      /\ pc[t] # "ensure" \/ setup[t].owner # q => Tagged(q)' = Tagged(q)
  <2>1. Tagged(TagOf(q))' = Tagged(q)'
    BY <1>1 DEF Tagged
  <2>2. QED BY <1>1, <2>1, JobsStay, OthersJobs
<1>4. CASE pc[t] # "ensure" \/ setup[t].owner # q
  BY <1>2, <1>3, <1>4, Creators
<1>5. CASE pc[t] = "ensure" /\ setup[t].owner = q
  <2>1. Creating(q)' \subseteq Creating(q) \ {t}
    BY <1>5, Creators
  <2>2. CASE setup[t].id = 0
    <3>1. t \in Creating(q)
      BY <1>5, <2>2 DEF Creating, SetupsOf
    <3>2. QED BY <1>2, <1>3, <2>1, <3>1
  <2>3. CASE setup[t].id # 0
    <3>1. setup[t].id \in Tagged(q)
      BY <1>1, <1>5, <2>3 DEF IdInv
    <3>2. setup'[t].id = setup[t].id \/ job' = job
      BY <1>5, <2>3 DEF Step, Begin, Upload, FindByName, FindByTag, EnsureJob, RunAs, Pause, Trigger, Recorded
    <3>3. Tagged(q)' \subseteq Tagged(q)
      <4>1. CASE setup'[t].id = setup[t].id
        BY <1>3, <3>1, <4>1
      <4>2. CASE job' = job
        BY <4>2 DEF Tagged, Jobs
      <4>3. QED BY <3>2, <4>1, <4>2
    <3>4. QED BY <1>2, <2>1, <3>1, <3>3
  <2>4. QED BY <2>2, <2>3
<1>6. QED BY <1>4, <1>5

\* Initially there are no set-ups and, without Legacy, no jobs.
LEMMA JobInvInit == ~Legacy /\ Init => JobInv
<1> SUFFICES ASSUME ~Legacy, Init PROVE JobInv
  OBVIOUS
<1>1. /\ job = [i \in Ids |-> NoJob]
      /\ name \in [Projects -> Names] /\ setups = 0 /\ setup = [t \in Threads |-> NoSetup]
      /\ folder = [p \in Owners |-> <<>>] /\ pc = [t \in Threads |-> "idle"]
  BY DEF Init
<1>2. Jobs = {} /\ \A p : Creating(p) = {}
  BY <1>1 DEF Jobs, Creating, SetupsOf
<1>3. JobTypeOK
  BY <1>1 DEF JobTypeOK, Labels
<1>4. BesideInv /\ FilesInv /\ IdInv /\ AsInv
  BY <1>1 DEF BesideInv, FilesInv, IdInv, AsInv
<1>5. TagInv /\ OneInv
  BY <1>1, <1>2 DEF TagInv, OneInv, Tagged
<1>6. QED BY <1>3, <1>4, <1>5 DEF JobInv

\* A renaming, or no step at all, touches no job, folder or set-up.
LEMMA JobInvIdle ==
  ASSUME JobInv, UNCHANGED <<job, folder, pc, setup, missed, beside, setups>>, name' \in [Projects -> Names]
  PROVE  JobInv'
<1>1. JobTypeOK' /\ BesideInv'
  BY DEF JobInv, JobTypeOK, BesideInv
<1>2. FilesInv'
  BY DEF JobInv, FilesInv, Uploaded, Notebook, Chained
<1>3. TagInv' /\ IdInv' /\ AsInv'
  BY DEF JobInv, TagInv, IdInv, AsInv, Tagged, Jobs, TagOf
<1>4. OneInv'
  BY DEF JobInv, OneInv, Tagged, Jobs, Creating, SetupsOf
<1>5. QED BY <1>1, <1>2, <1>3, <1>4 DEF JobInv

LEMMA JobInvNext == JobInv /\ [Next]_vars => JobInv'
<1> SUFFICES ASSUME JobInv, [Next]_vars PROVE JobInv'
  OBVIOUS
<1>1. ASSUME NEW t \in Threads, Step(t) PROVE JobInv'
  <2>1. JobTypeOK /\ BesideInv /\ FilesInv /\ TagInv /\ IdInv /\ AsInv /\ OneInv
    BY DEF JobInv
  <2>2. JobTypeOK' /\ BesideInv' /\ FilesInv' /\ TagInv' /\ IdInv' /\ AsInv' /\ OneInv'
    BY <1>1, <2>1, JobTypeStep, BesideStep, FilesStep, TagStep, IdStep, AsStep, OneStep
  <2>3. QED BY <2>2 DEF JobInv
<1>2. ASSUME NEW p \in Projects, NEW new \in Names, Rename(p, new) PROVE JobInv'
  <2>1. UNCHANGED <<job, folder, pc, setup, missed, beside, setups>> /\ name' \in [Projects -> Names]
    BY <1>2 DEF Rename, JobInv, JobTypeOK
  <2>2. QED BY <2>1, JobInvIdle
<1>3. CASE UNCHANGED vars
  <2>1. UNCHANGED <<job, folder, pc, setup, missed, beside, setups>> /\ name' \in [Projects -> Names]
    BY <1>3 DEF vars, JobInv, JobTypeOK
  <2>2. QED BY <2>1, JobInvIdle
<1>4. QED BY <1>1, <1>2, <1>3 DEF Next

\* Every set-up deals with a job of its own project, whose notebooks are those it has
\* uploaded unless another one of the project runs beside it (setup_async, _ensure_job).
THEOREM JobInvariance == ASSUME ~Legacy PROVE Spec => []JobInv
<1>1. Init => JobInv
  BY JobInvInit
<1>2. QED BY <1>1, JobInvNext, PTL DEF Spec

\* A project has one job, however often it is renamed and set up and however many
\* set-ups run at once, of one project or of several, unless a search by tag has failed
\* or two of them had both searched before either created the job (_find_job, _ensure_job).
THEOREM OneJob == ASSUME ~Legacy PROVE Spec => []OneJobPerProject
<1>1. ASSUME JobInv PROVE OneJobPerProject
  <2>1. ASSUME NEW p \in Projects \ missed PROVE Cardinality(Tagged(p)) <= 1
    <3>1. \A i, j \in Tagged(p) : i = j
      BY <1>1 DEF JobInv, OneInv
    <3>2. CASE Tagged(p) = {}
      BY <3>2, FS_EmptySet
    <3>3. CASE Tagged(p) # {}
      <4>1. PICK i : Tagged(p) = {i}
        BY <3>1, <3>3
      <4>2. QED BY <4>1, FS_Singleton
    <3>4. QED BY <3>2, <3>3
  <2>2. QED BY <2>1 DEF OneJobPerProject
<1>2. QED BY <1>1, JobInvariance, PTL

\* What a set-up is about to start, when none ran beside it: its notebooks, and it runs
\* as the user or connects with a password.
LEMMA Triggered ==
  ASSUME JobInv, NEW t \in Threads \ beside, Triggers(t)
  PROVE  LET i == setup[t].id IN
         /\ Chained(setup[t]) /\ job[i].tasks = setup[t].files
         /\ Runs(i) = [k \in DOMAIN setup[t].files |-> Notebook(setup[t])]
         /\ setup[t].auth = "password" \/ job[i].as = "user"
<1> DEFINE i == setup[t].id
           p == setup[t].owner
<1>1. pc[t] = "trigger"
  BY DEF Triggers
<1>2. i \in Tagged(TagOf(p)) /\ job[i].tasks = setup[t].files
  BY <1>1 DEF JobInv, IdInv
<1>3. job[i].dir = p
  <2>1. job[i] \in JobSettings /\ job[i].tag = TagOf(p) /\ job[i].tag = TagOf(job[i].dir)
    BY <1>2 DEF JobInv, JobTypeOK, TagInv, Tagged, Jobs
  <2>2. p \in Owners
    BY <1>1, SettingsType DEF JobInv
  <2>3. QED BY <2>1, <2>2, TagsDiffer DEF JobSettings
<1>4. Chained(setup[t]) /\ \A file \in ToSet(setup[t].files) : Uploaded(setup[t], file)
  BY <1>1 DEF JobInv, FilesInv
<1>5. \A k \in DOMAIN setup[t].files : Uploaded(setup[t], setup[t].files[k])
  BY <1>4 DEF ToSet
<1>6. Runs(i) = [k \in DOMAIN setup[t].files |-> Notebook(setup[t])]
  BY <1>2, <1>3, <1>5 DEF Runs, Uploaded
<1>7. QED BY <1>1, <1>2, <1>4, <1>6 DEF JobInv, AsInv

\* Whichever tasks are asked for and whatever other projects do meanwhile, a run executes
\* the notebooks of the set-up that starts it, and its last task, and no other, reports
\* it as over; unless another set-up of the project ran beside this one
\* (upload_notebooks, _ensure_job, run_task_keys).
THEOREM OwnNotebooksRun == ASSUME ~Legacy PROVE Spec => []RunsItsOwn
<1>1. ASSUME JobInv PROVE RunsItsOwn
  <2> SUFFICES ASSUME NEW t \in Threads \ beside, Triggers(t)
               PROVE  /\ \A c \in Content(setup[t].id) : c.v = setup[t].v
                      /\ \A k \in DOMAIN job[setup[t].id].tasks :
                           SaysOver(setup[t].id, k) <=> k = Len(job[setup[t].id].tasks)
    BY DEF RunsItsOwn
  <2> DEFINE s == setup[t]
             i == s.id
  <2>1. /\ Chained(s) /\ job[i].tasks = s.files
        /\ Runs(i) = [k \in DOMAIN s.files |-> Notebook(s)]
    BY <1>1, Triggered
  <2>2. \A c \in Content(i) : c = Notebook(s)
    BY <2>1 DEF Content, ToSet
  <2>3. \A c \in Content(i) : c.v = s.v
    BY <2>2 DEF Notebook
  <2>4. s.tasks \in Seq(TaskNames) /\ s.files \in Seq(Files)
    BY <1>1 DEF JobInv, JobTypeOK, SetupRec, Triggers
  <2>5. Len(s.files) = Len(s.tasks) /\ Len(s.tasks) \in DOMAIN s.tasks /\ DOMAIN s.files = DOMAIN s.tasks
    <3>1. DOMAIN s.tasks = 1 .. Len(s.tasks) /\ DOMAIN s.files = 1 .. Len(s.files)
      BY <2>4
    <3>2. Len(s.tasks) # 0 /\ DOMAIN s.files = DOMAIN s.tasks
      BY <2>1, <2>4 DEF Chained
    <3>3. QED BY <2>4, <3>1, <3>2
  <2>6. ASSUME NEW k \in DOMAIN s.files
        PROVE  SaysOver(i, k) <=> k = Len(s.files)
    <3>1. Runs(i)[k].tasks = s.tasks /\ s.tasks # <<>>
      BY <2>1 DEF Notebook, Chained
    <3>2. TaskKey(job[i].tasks[k]) = s.tasks[k]
      BY <2>1, <2>5 DEF TaskKey, Chained
    <3>3. s.tasks[k] = s.tasks[Len(s.tasks)] <=> k = Len(s.tasks)
      BY <2>1, <2>5 DEF Chained
    <3>4. QED BY <2>5, <3>1, <3>2, <3>3 DEF SaysOver, Last
  <2>7. QED BY <2>1, <2>3, <2>6
<1>2. QED BY <1>1, JobInvariance, PTL

\* The app never starts a run of notebooks that connect as the user unless the job runs
\* as the user or another set-up of the project runs beside (ensure_run_as_user,
\* create_job_and_run).
THEOREM AsTheUser == ASSUME ~Legacy PROVE Spec => []NeverAsTheApp
<1>1. ASSUME JobInv PROVE NeverAsTheApp
  <2> SUFFICES ASSUME NEW t \in Threads \ beside, Triggers(t), NEW c \in Content(setup[t].id), c.auth = "databricks"
               PROVE  job[setup[t].id].as = "user"
    BY DEF NeverAsTheApp
  <2>1. /\ Runs(setup[t].id) = [k \in DOMAIN setup[t].files |-> Notebook(setup[t])]
        /\ setup[t].auth = "password" \/ job[setup[t].id].as = "user"
    BY <1>1, Triggered
  <2>2. c = Notebook(setup[t])
    BY <2>1 DEF Content, ToSet
  <2>3. QED BY <2>1, <2>2 DEF Notebook
<1>2. QED BY <1>1, JobInvariance, PTL
=============================================================================
