--------------------------- MODULE ProjectsProofs ---------------------------
(***************************************************************************)
(* What is proved of Credentials and Projects, for any number of workers,  *)
(* requests, passwords, references and restarts: the value of a reference  *)
(* is never stored, workers that agree on a key go on doing so, and a      *)
(* project that is deleted leaves no credentials behind.                   *)
(***************************************************************************)
EXTENDS Projects, Integers, TLAPS

\* A request never carries the value of a reference without the reference, and one
\* that is about to write to the table encrypts with a key that was generated.
ReqOK(t) ==
  pc[t] # "idle" =>
    /\ req[t] \in Request
    /\ req[t].password \in Refs => req[t].ref # None
    /\ req[t].read.secret \notin Refs
    /\ At(t, "write") /\ Durable(t) /\ req[t].ref = None => req[t].key \in 1 .. keysMade

\* The key in the scope is the last one generated; nothing goes by a later one.
KeyInv ==
  /\ scopeKey = keysMade
  /\ \A w \in Workers : cachedKey[w] <= keysMade
  /\ row.secret # None => row.key \in 1 .. keysMade

\* What the table holds while a project is deleted was written after it was cleared.
RowInv == \A t \in Cleared : row = NoRow \/ t \in late

IInv == TypeOK /\ KeyInv /\ RowInv /\ SecretValuesStayOut /\ \A t \in Threads : ReqOK(t)

Labels == {"idle", "resolve", "stored", "key", "newkey", "login", "write", "save", "clear", "runs", "drop"}

\* A step of one request.
Touches(t) ==
  /\ pc' \in [Threads -> Labels] /\ req' \in ReqType
  /\ \A u \in Threads \ {t} : pc'[u] = pc[u] /\ req'[u] = req[u]

\* One that clears nothing.
Moves(t) == Touches(t) /\ (t \in Cleared' => t \in Cleared)

DocsTyped == doc \in Doc \cup {NoDoc} /\ tab \in Doc \cup {NoDoc} /\ body \in [Threads -> Doc \cup {NoDoc}]

\* What one request does leaves the others sound.
LEMMA OthersOK ==
  ASSUME IInv, NEW t \in Threads, Touches(t), backend' = backend, keysMade' \in Nat, keysMade' >= keysMade
  PROVE  \A u \in Threads \ {t} : ReqOK(u)'
<1> SUFFICES ASSUME NEW u \in Threads \ {t} PROVE ReqOK(u)'
  OBVIOUS
<1>1. pc'[u] = pc[u] /\ req'[u] = req[u] /\ keysMade \in Int
  BY BoundsAssumption DEF Touches, IInv, TypeOK, CredTypeOK, Keys
<1>2. ReqOK(u)
  BY DEF IInv
<1>3. req[u] \in Request => req[u].key \in Int
  BY BoundsAssumption DEF Request, Keys
<1>4. QED BY <1>1, <1>2, <1>3 DEF ReqOK, At, Durable

\* A step of one request that only changes it and the keys.
LEMMA RequestMoves ==
  ASSUME IInv, NEW t \in Threads, Moves(t), ReqOK(t)', DocsTyped',
         UNCHANGED <<storeVars, starts>>,
         scopeKey' \in Keys, keysMade' \in Keys, cachedKey' \in [Workers -> Keys],
         scopeKey' = keysMade', keysMade' >= keysMade, \A w \in Workers : cachedKey'[w] <= keysMade'
  PROVE  IInv'
<1>1. TypeOK'
  BY DEF IInv, TypeOK, CredTypeOK, storeVars, Moves, Touches, DocsTyped, Labels
<1>2. KeyInv'
  BY BoundsAssumption DEF IInv, KeyInv, TypeOK, CredTypeOK, storeVars, Keys, Row
<1>3. RowInv' /\ SecretValuesStayOut'
  BY DEF IInv, RowInv, SecretValuesStayOut, storeVars, Moves, Touches, Cleared
<1>4. keysMade' \in Nat /\ backend' = backend
  BY BoundsAssumption DEF storeVars, Keys
<1>5. QED BY <1>1, <1>2, <1>3, <1>4, OthersOK DEF IInv, Moves

\* The same when the keys stay what they are.
LEMMA RequestGoesOn ==
  ASSUME IInv, NEW t \in Threads, Moves(t), ReqOK(t)', DocsTyped', UNCHANGED credVars
  PROVE  IInv'
<1>1. UNCHANGED <<scopeKey, keysMade, cachedKey>> /\ UNCHANGED <<storeVars, starts>>
  BY DEF credVars, keyVars
<1>2. /\ scopeKey' \in Keys /\ keysMade' \in Keys /\ cachedKey' \in [Workers -> Keys]
      /\ scopeKey' = keysMade' /\ keysMade' >= keysMade /\ \A w \in Workers : cachedKey'[w] <= keysMade'
  BY <1>1, BoundsAssumption DEF IInv, TypeOK, CredTypeOK, KeyInv, Keys
<1>3. QED BY <1>1, <1>2, RequestMoves

LEMMA DocsKept == ASSUME IInv, UNCHANGED projVars PROVE DocsTyped'
  BY DEF projVars, IInv, TypeOK, DocsTyped

LEMMA OverMoves ==
  ASSUME IInv, NEW t \in Threads, Over(t)
  PROVE  Moves(t) /\ ReqOK(t)'
  BY DEF Over, GoTo, Moves, Touches, Cleared, ReqOK, IInv, TypeOK, CredTypeOK, ReqType, Labels

LEMMA NewIsRequest ==
  ASSUME NEW w \in Workers, NEW typed \in Typed \cup {None}, NEW sent \in Refs \cup {None}
  PROVE  /\ NewRequest(w, typed, sent) \in Request /\ NoRow \in Row
         /\ NewRequest(w, typed, sent).password = None
         /\ NewRequest(w, typed, sent).read.secret = None
  BY BoundsAssumption DEF NewRequest, Request, NoRow, Row, Keys, Secrets

\* A request that begins carries neither a password nor a row.
LEMMA BeginMoves ==
  ASSUME IInv, NEW t \in Threads, NEW label \in Labels, label \notin {"write", "runs", "drop"},
         NEW w \in Workers, NEW typed \in Typed \cup {None}, NEW sent \in Refs \cup {None},
         GoTo(t, label), req' = [req EXCEPT ![t] = NewRequest(w, typed, sent)]
  PROVE  Moves(t) /\ ReqOK(t)'
<1> DEFINE n == NewRequest(w, typed, sent)
<1>1. n \in Request /\ n.password = None /\ n.read.secret = None
  BY NewIsRequest
<1> HIDE DEF n
<1>2. req' = [req EXCEPT ![t] = n]
  BY DEF n
<1>3. Moves(t) /\ pc'[t] = label /\ req'[t] = n
  BY <1>1, <1>2 DEF GoTo, Moves, Touches, Cleared, IInv, TypeOK, CredTypeOK, ReqType, Labels
<1>4. QED BY <1>1, <1>3, NoneAssumption DEF ReqOK, At

\* A password without a reference is not a reference's value.
LEMMA ResolvedMoves ==
  ASSUME IInv, NEW t \in Threads, pc[t] # "idle", NEW password \in Secrets \cup {None}, NEW ref \in Refs \cup {None},
         password \in Refs => ref # None, Resolved(t, password, ref)
  PROVE  Moves(t) /\ ReqOK(t)'
<1> DEFINE n == NewRequest(req[t].w, None, None)
           r == [n EXCEPT !.password = password, !.ref = ref]
<1>1. req[t] \in Request /\ req[t].w \in Workers
  BY DEF IInv, ReqOK, Request
<1>2. n \in Request /\ n.read.secret = None
  BY <1>1, BoundsAssumption DEF NewRequest, Request, NoRow, Row, Keys, Secrets
<1>3. r \in Request /\ r.password = password /\ r.ref = ref /\ r.read.secret = None
  BY <1>2 DEF Request
<1>4. pc' = [pc EXCEPT ![t] = "login"] /\ req' = [req EXCEPT ![t] = r]
  BY DEF Resolved, GoTo
<1> HIDE DEF r, n
<1>5. Moves(t) /\ pc'[t] = "login" /\ req'[t] = r
  BY <1>3, <1>4 DEF Moves, Touches, Cleared, IInv, TypeOK, CredTypeOK, ReqType, Labels
<1>6. QED BY <1>3, <1>5, NoneAssumption DEF ReqOK, At

\* A step of a request that leaves its parameters alone.
LEMMA GoToMoves ==
  ASSUME IInv, NEW t \in Threads, pc[t] # "idle", NEW label \in Labels, GoTo(t, label),
         req' = req, backend' = backend, label = "write" => ~Durable(t) \/ req[t].ref # None
  PROVE  /\ Touches(t) /\ ReqOK(t)'
         /\ label \notin {"runs", "drop"} \/ t \in Cleared => Moves(t)
  BY DEF GoTo, Moves, Touches, Cleared, ReqOK, At, Durable, IInv, TypeOK, CredTypeOK, ReqType, Labels

LEMMA ResolveKeeps ==
  ASSUME IInv, NEW t \in Threads, Resolve(t), UNCHANGED projVars
  PROVE  IInv'
<1>1. pc[t] # "idle" /\ UNCHANGED credVars /\ backend' = backend
  BY DEF Resolve, At, credVars, storeVars
<1>2. req[t] \in Request /\ Stored(t) \in Row
  BY <1>1 DEF IInv, ReqOK, TypeOK, CredTypeOK, Stored, Request
<1>3. ASSUME NEW ref \in Refs, UseRef(t, ref) PROVE Moves(t) /\ ReqOK(t)'
  <2>1. ref \in Secrets \cup {None} /\ ref \in Refs \cup {None} /\ ref # None
    BY NoneAssumption DEF Secrets
  <2>2. QED BY <1>1, <1>3, <2>1, ResolvedMoves, OverMoves DEF UseRef
<1>4. ASSUME req[t].typed # None, Resolved(t, req[t].typed, None) PROVE Moves(t) /\ ReqOK(t)'
  <2>1. req[t].typed \in Secrets \cup {None} /\ req[t].typed \notin Refs /\ None \in Refs \cup {None}
    BY <1>2, <1>4, SecretsAssumption DEF Request, Secrets
  <2>2. QED BY <1>1, <1>4, <2>1, ResolvedMoves
<1>5. ASSUME GoTo(t, "stored"), req' = req PROVE Moves(t) /\ ReqOK(t)'
  <2>1. "stored" \in Labels
    BY DEF Labels
  <2>2. QED BY <1>1, <1>5, <2>1, GoToMoves
<1>6. Moves(t) /\ ReqOK(t)'
  BY <1>2, <1>3, <1>4, <1>5 DEF Resolve, Request, Row
<1>7. QED BY <1>1, <1>6, RequestGoesOn, DocsKept

LEMMA ReadPasswordKeeps ==
  ASSUME IInv, NEW t \in Threads, ReadPassword(t), UNCHANGED projVars
  PROVE  IInv'
<1>1. pc[t] # "idle" /\ UNCHANGED credVars /\ backend' = backend
  BY DEF ReadPassword, At, credVars, storeVars
<1>2. req[t] \in Request /\ Stored(t) \in Row /\ Stored(t).secret \notin Refs /\ row \in Row
  BY <1>1 DEF IInv, ReqOK, TypeOK, CredTypeOK, Stored, Request, SecretValuesStayOut
<1>3. ASSUME req' = [req EXCEPT ![t].read = row], GoTo(t, "key"), Durable(t) PROVE Moves(t) /\ ReqOK(t)'
  <2> DEFINE r == [req[t] EXCEPT !.read = row]
  <2>1. r \in Request /\ r.read = row /\ r.password = req[t].password /\ r.ref = req[t].ref
    BY <1>2 DEF Request
  <2>2. req' = [req EXCEPT ![t] = r]
    BY <1>3
  <2> HIDE DEF r
  <2>3. Moves(t) /\ pc'[t] = "key" /\ req'[t] = r
    BY <1>3, <2>1, <2>2 DEF GoTo, Moves, Touches, Cleared, IInv, TypeOK, CredTypeOK, ReqType, Labels
  <2>4. row.secret \notin Refs /\ (req[t].password \in Refs => req[t].ref # None)
    BY <1>1 DEF IInv, SecretValuesStayOut, ReqOK
  <2>5. QED BY <2>1, <2>3, <2>4 DEF ReqOK, At
<1>4. ASSUME Resolved(t, Stored(t).secret, None) PROVE Moves(t) /\ ReqOK(t)'
  <2>1. Stored(t).secret \in Secrets \cup {None} /\ None \in Refs \cup {None}
    BY <1>2 DEF Row
  <2>2. QED BY <1>1, <1>2, <1>4, <2>1, ResolvedMoves
<1>5. Moves(t) /\ ReqOK(t)'
  BY <1>3, <1>4, OverMoves DEF ReadPassword
<1>6. QED BY <1>1, <1>5, RequestGoesOn, DocsKept

\* Whatever a request does with a key that was generated leaves it sound.
LEMMA UseKeyMoves ==
  ASSUME IInv, NEW t \in Threads, pc[t] # "idle", NEW k \in Keys, k \in 1 .. keysMade', UseKey(t, k)
  PROVE  Moves(t) /\ ReqOK(t)'
<1>1. req[t] \in Request /\ (req[t].password \in Refs => req[t].ref # None) /\ req[t].read.secret \notin Refs
  BY DEF IInv, ReqOK
<1>2. ASSUME req' = [req EXCEPT ![t].key = k], GoTo(t, "write") PROVE Moves(t) /\ ReqOK(t)'
  <2> DEFINE r == [req[t] EXCEPT !.key = k]
  <2>1. r \in Request /\ r.key = k /\ r.read = req[t].read /\ r.password = req[t].password /\ r.ref = req[t].ref
    BY <1>1 DEF Request
  <2>2. req' = [req EXCEPT ![t] = r]
    BY <1>2
  <2> HIDE DEF r
  <2>3. Moves(t) /\ pc'[t] = "write" /\ req'[t] = r
    BY <1>2, <2>1, <2>2 DEF GoTo, Moves, Touches, Cleared, IInv, TypeOK, CredTypeOK, ReqType, Labels
  <2>4. QED BY <1>1, <2>1, <2>3 DEF ReqOK, At
<1>3. ASSUME Resolved(t, req[t].read.secret, None) PROVE Moves(t) /\ ReqOK(t)'
  <2>1. req[t].read.secret \in Secrets \cup {None} /\ None \in Refs \cup {None}
    BY <1>1 DEF Request, Row
  <2>2. QED BY <1>1, <1>3, <2>1, ResolvedMoves
<1>4. QED BY <1>2, <1>3, OverMoves DEF UseKey

LEMMA GetKeyKeeps ==
  ASSUME IInv, NEW t \in Threads, GetKey(t), UNCHANGED projVars
  PROVE  IInv'
<1> DEFINE w == req[t].w
<1>1. pc[t] # "idle" /\ backend' = backend
      /\ UNCHANGED <<scopeKey, keysMade>> /\ UNCHANGED <<storeVars, starts>>
  BY DEF GetKey, At, storeVars
<1>2. w \in Workers /\ cachedKey[w] \in Keys /\ scopeKey \in Keys /\ keysMade \in Keys
      /\ cachedKey[w] <= keysMade /\ scopeKey = keysMade /\ cachedKey \in [Workers -> Keys]
  BY <1>1 DEF IInv, ReqOK, Request, TypeOK, CredTypeOK, KeyInv
<1>3. ASSUME cachedKey[w] # 0, UseKey(t, cachedKey[w]), cachedKey' = cachedKey
      PROVE  Moves(t) /\ ReqOK(t)' /\ cachedKey' \in [Workers -> Keys] /\ \A v \in Workers : cachedKey'[v] <= keysMade'
  <2>1. cachedKey[w] \in 1 .. keysMade'
    BY <1>1, <1>2, <1>3, BoundsAssumption DEF Keys
  <2>2. QED BY <1>1, <1>2, <1>3, <2>1, UseKeyMoves DEF IInv, KeyInv
<1>4. ASSUME scopeKey # 0, UseKey(t, scopeKey), cachedKey' = [cachedKey EXCEPT ![w] = scopeKey]
      PROVE  Moves(t) /\ ReqOK(t)' /\ cachedKey' \in [Workers -> Keys] /\ \A v \in Workers : cachedKey'[v] <= keysMade'
  <2>1. scopeKey \in 1 .. keysMade'
    BY <1>1, <1>2, <1>4, BoundsAssumption DEF Keys
  <2>2. Moves(t) /\ ReqOK(t)'
    BY <1>1, <1>2, <1>4, <2>1, UseKeyMoves
  <2>3. QED BY <1>1, <1>2, <1>4, <2>1, <2>2, BoundsAssumption DEF IInv, KeyInv, Keys
<1>5. ASSUME GoTo(t, "newkey"), cachedKey' = cachedKey, req' = req
      PROVE  Moves(t) /\ ReqOK(t)' /\ cachedKey' \in [Workers -> Keys] /\ \A v \in Workers : cachedKey'[v] <= keysMade'
  <2>1. "newkey" \in Labels
    BY DEF Labels
  <2>2. Moves(t) /\ ReqOK(t)'
    BY <1>1, <1>5, <2>1, GoToMoves
  <2>3. QED BY <1>1, <1>2, <1>5, <2>2 DEF IInv, KeyInv
<1>6. Moves(t) /\ ReqOK(t)' /\ cachedKey' \in [Workers -> Keys] /\ \A v \in Workers : cachedKey'[v] <= keysMade'
  BY <1>3, <1>4, <1>5 DEF GetKey
<1>7. scopeKey' \in Keys /\ keysMade' \in Keys /\ scopeKey' = keysMade' /\ keysMade' >= keysMade
  BY <1>1, <1>2, BoundsAssumption DEF Keys
<1>8. QED BY <1>1, <1>6, <1>7, RequestMoves, DocsKept

\* A new key goes into the scope as it comes into being.
LEMMA PutKeyKeeps ==
  ASSUME IInv, NEW t \in Threads, PutKey(t), UNCHANGED projVars
  PROVE  IInv'
<1> DEFINE w == req[t].w
           k == keysMade + 1
<1>1. /\ pc[t] # "idle" /\ keysMade < MaxKeys /\ keysMade' = k /\ scopeKey' = k
      /\ cachedKey' = [cachedKey EXCEPT ![w] = IF @ = 0 THEN k ELSE @]
      /\ UseKey(t, k) /\ UNCHANGED <<storeVars, starts>>
  BY DEF PutKey, At
<1>2. w \in Workers /\ keysMade \in Keys /\ cachedKey \in [Workers -> Keys]
      /\ \A v \in Workers : cachedKey[v] <= keysMade
  BY <1>1 DEF IInv, ReqOK, Request, TypeOK, CredTypeOK, KeyInv
<1>3. k \in Keys /\ k \in 1 .. keysMade' /\ keysMade' >= keysMade
  BY <1>1, <1>2, BoundsAssumption DEF Keys
<1>4. Moves(t) /\ ReqOK(t)'
  BY <1>1, <1>3, UseKeyMoves
<1>5. cachedKey' \in [Workers -> Keys] /\ \A v \in Workers : cachedKey'[v] <= keysMade'
  BY <1>1, <1>2, <1>3, BoundsAssumption DEF Keys
<1>6. QED BY <1>1, <1>3, <1>4, <1>5, RequestMoves, DocsKept

\* Only a password that goes to the table needs a key, and it gets one first.
LEMMA LoginKeeps ==
  ASSUME IInv, NEW t \in Threads, Login(t), UNCHANGED projVars
  PROVE  IInv'
<1>1. pc[t] # "idle" /\ UNCHANGED credVars /\ backend' = backend
  BY DEF Login, At, credVars, storeVars
<1> DEFINE label == IF req[t].ref = None /\ Durable(t) THEN "key" ELSE "write"
<1>2. ASSUME GoTo(t, label), req' = req PROVE Moves(t) /\ ReqOK(t)'
  <2>1. label \in Labels /\ (label = "write" => ~Durable(t) \/ req[t].ref # None)
    BY DEF Labels
  <2>. label \notin {"runs", "drop"}
    OBVIOUS
  <2> HIDE DEF label
  <2>2. QED BY <1>1, <1>2, <2>1, GoToMoves
<1>3. Moves(t) /\ ReqOK(t)'
  BY <1>2, OverMoves DEF Login
<1>4. QED BY <1>1, <1>3, RequestGoesOn, DocsKept

\* What is written is the reference, or a password that did not come from one.
LEMMA WriteKeeps ==
  ASSUME IInv, NEW t \in Threads, Write(t), UNCHANGED projVars
  PROVE  IInv'
<1>1. pc[t] # "idle" /\ At(t, "write") /\ Over(t) /\ UNCHANGED <<keyVars, backend, starts>>
  BY DEF Write, At
<1>2. req[t] \in Request /\ (req[t].password \in Refs => req[t].ref # None)
      /\ (Durable(t) /\ req[t].ref = None => req[t].key \in 1 .. keysMade)
  BY <1>1 DEF IInv, ReqOK
<1>3. /\ NewRow(t) \in Row /\ NewRow(t).secret \notin Refs
      /\ Durable(t) /\ NewRow(t).secret # None => NewRow(t).key \in 1 .. keysMade
  <2>1. CASE req[t].ref # None
    <3>1. NewRow(t) = [secret |-> None, key |-> 0, ref |-> req[t].ref]
      BY <2>1 DEF NewRow, RefRow, NoRow
    <3>2. QED BY <1>2, <3>1, BoundsAssumption, NoneAssumption DEF Row, Request, Keys
  <2>2. CASE req[t].ref = None
    <3>1. NewRow(t) = [secret |-> req[t].password, key |-> req[t].key, ref |-> None]
      BY <2>2 DEF NewRow, NoRow
    <3>2. QED BY <1>2, <2>2, <3>1 DEF Row, Request
  <2>3. QED BY <2>1, <2>2
<1>4. /\ (row' = row /\ late' = late) \/ (row' = NewRow(t) /\ late' = Cleared /\ Durable(t))
      /\ memory' = memory \/ memory' = [memory EXCEPT ![req[t].w] = NewRow(t)]
  BY DEF Write
<1>5. Moves(t) /\ ReqOK(t)' /\ DocsTyped'
  BY <1>1, OverMoves, DocsKept
<1>6. TypeOK'
  BY <1>1, <1>3, <1>4, <1>5 DEF IInv, TypeOK, CredTypeOK, keyVars, Moves, Touches, Cleared, DocsTyped, Labels
<1>7. KeyInv'
  BY <1>1, <1>3, <1>4 DEF IInv, KeyInv, keyVars
<1>8. RowInv'
  BY <1>4, <1>5 DEF IInv, RowInv, Cleared, Moves, Touches
<1>9. SecretValuesStayOut'
  BY <1>3, <1>4 DEF IInv, TypeOK, CredTypeOK, SecretValuesStayOut
<1>10. keysMade' \in Nat /\ keysMade' >= keysMade /\ backend' = backend
  BY <1>1, BoundsAssumption DEF keyVars, IInv, TypeOK, CredTypeOK, Keys
<1>11. QED BY <1>5, <1>6, <1>7, <1>8, <1>9, <1>10, OthersOK DEF IInv, Moves

\* A worker's restart takes its requests with it, and leaves those of the others alone.
LEMMA RestartKeeps ==
  ASSUME IInv, NEW w \in Workers, NEW choice \in Backends, RestartWorker(w, choice), UNCHANGED projVars
  PROVE  IInv'
<1>1. /\ starts < MaxStarts /\ starts' = starts + 1
      /\ cachedKey' = [cachedKey EXCEPT ![w] = 0]
      /\ backend' = [backend EXCEPT ![w] = choice]
      /\ memory' = [memory EXCEPT ![w] = NoRow]
      /\ pc' = [t \in Threads |-> IF req[t] # None /\ req[t].w = w THEN "idle" ELSE pc[t]]
      /\ req' = [t \in Threads |-> IF req[t] # None /\ req[t].w = w THEN None ELSE req[t]]
      /\ UNCHANGED <<scopeKey, keysMade, row, late>>
  BY DEF RestartWorker
<1>2. NoRow \in Row /\ NoRow.secret = None /\ 0 \in Keys
  BY BoundsAssumption DEF NoRow, Row, Keys
<1>3. DocsTyped'
  BY DocsKept
<1>4. TypeOK'
  <2>1. CredTypeOK'
    BY <1>1, <1>2, BoundsAssumption DEF IInv, TypeOK, CredTypeOK, ReqType
  <2>2. pc' \in [Threads -> Labels]
    BY <1>1 DEF IInv, TypeOK, Labels
  <2>3. QED BY <1>3, <2>1, <2>2 DEF TypeOK, DocsTyped, Labels
<1>5. KeyInv'
  BY <1>1, BoundsAssumption DEF IInv, KeyInv, TypeOK, CredTypeOK, Keys
<1>6. RowInv' /\ SecretValuesStayOut'
  BY <1>1, <1>2, NoneAssumption DEF IInv, RowInv, SecretValuesStayOut, TypeOK, CredTypeOK, Cleared
<1>7. ASSUME NEW t \in Threads PROVE ReqOK(t)'
  <2>1. CASE req[t] # None /\ req[t].w = w
    BY <1>1, <2>1 DEF ReqOK
  <2>2. CASE ~(req[t] # None /\ req[t].w = w)
    <3>1. pc'[t] = pc[t] /\ req'[t] = req[t] /\ ReqOK(t)
      BY <1>1, <2>2 DEF IInv
    <3>2. req[t] \in Request => backend'[req[t].w] = backend[req[t].w]
      BY <1>1, <2>2, RequestAssumption DEF IInv, TypeOK, CredTypeOK, Request
    <3>3. QED BY <1>1, <3>1, <3>2 DEF ReqOK, At, Durable
  <2>3. QED BY <2>1, <2>2
<1>8. QED BY <1>4, <1>5, <1>6, <1>7 DEF IInv

LEMMA ConnectKeeps ==
  ASSUME IInv, NEW t \in Threads, NEW w \in Workers, NEW typed \in Typed \cup {None}, NEW sent \in Refs \cup {None},
         Connect(t, w, typed, sent), UNCHANGED projVars
  PROVE  IInv'
<1>1. GoTo(t, "resolve") /\ req' = [req EXCEPT ![t] = NewRequest(w, typed, sent)] /\ UNCHANGED credVars
  BY DEF Connect
<1>2. "resolve" \in Labels /\ "resolve" \notin {"write", "runs", "drop"}
  BY DEF Labels
<1>3. QED BY <1>1, <1>2, BeginMoves, RequestGoesOn, DocsKept

LEMMA BeginIs ==
  ASSUME IInv, NEW t \in Threads, NEW w \in Workers, NEW label \in {"save", "clear"}, Begin(t, w, label)
  PROVE  Moves(t) /\ ReqOK(t)'
<1>1. GoTo(t, label) /\ req' = [req EXCEPT ![t] = NewRequest(w, None, None)]
  BY DEF Begin
<1>2. label \in Labels /\ label \notin {"write", "runs", "drop"} /\ None \in Typed \cup {None} /\ None \in Refs \cup {None}
  BY DEF Labels
<1>3. QED BY <1>1, <1>2, BeginMoves

LEMMA PutKeeps ==
  ASSUME IInv, NEW t \in Threads, NEW w \in Workers, NEW e \in Edits(tab), tab # NoDoc, Put(t, w, e)
  PROVE  IInv'
<1>1. Begin(t, w, "save") /\ UNCHANGED <<credVars, doc, tab>>
      /\ body' = [body EXCEPT ![t] = IF e.case # doc.case THEN [e EXCEPT !.plan = None] ELSE e]
  BY DEF Put
<1>2. tab \in Doc
  BY DEF IInv, TypeOK
<1>3. e \in Doc
  BY <1>2 DEF Edits, Doc
<1>4. [e EXCEPT !.plan = None] \in Doc
  BY <1>3 DEF Doc
<1>5. DocsTyped'
  BY <1>1, <1>3, <1>4 DEF DocsTyped, IInv, TypeOK
<1>6. Moves(t) /\ ReqOK(t)'
  BY <1>1, BeginIs
<1>7. QED BY <1>1, <1>5, <1>6, RequestGoesOn

LEMMA SaveKeeps ==
  ASSUME IInv, NEW t \in Threads, Save(t)
  PROVE  IInv'
<1>1. Over(t) /\ UNCHANGED <<credVars, tab>>
      /\ doc' \in {body[t], doc} /\ body' = [body EXCEPT ![t] = NoDoc]
  BY DEF Save
<1>2. DocsTyped'
  BY <1>1 DEF DocsTyped, IInv, TypeOK
<1>3. QED BY <1>1, <1>2, OverMoves, RequestGoesOn

\* The table is emptied as its rows are forgotten.
LEMMA ClearKeeps ==
  ASSUME IInv, NEW t \in Threads, ClearProject(t)
  PROVE  IInv'
<1>1. pc[t] # "idle" /\ UNCHANGED <<keyVars, backend, starts, projVars>>
  BY DEF ClearProject, At
<1>2. DocsTyped' /\ UNCHANGED <<scopeKey, keysMade, cachedKey>>
  BY <1>1, DocsKept DEF keyVars
<1>3. CASE Over(t) /\ UNCHANGED <<row, late, memory>>
  <2>1. UNCHANGED credVars
    BY <1>1, <1>3 DEF credVars, storeVars
  <2>2. QED BY <1>2, <1>3, <2>1, OverMoves, RequestGoesOn
<1>4. CASE row' = NoRow /\ memory' = memory /\ late' = {} /\ GoTo(t, "runs") /\ req' = req
  <2>1. Touches(t) /\ ReqOK(t)'
    <3>1. "runs" \in Labels /\ backend' = backend
      BY <1>1 DEF Labels
    <3>2. QED BY <1>1, <1>4, <3>1, GoToMoves
  <2>2. NoRow \in Row /\ NoRow.secret = None
    BY BoundsAssumption DEF NoRow, Row, Keys
  <2>3. TypeOK'
    BY <1>1, <1>2, <1>4, <2>1, <2>2 DEF IInv, TypeOK, CredTypeOK, Touches, DocsTyped, Labels
  <2>4. KeyInv' /\ RowInv' /\ SecretValuesStayOut'
    BY <1>2, <1>4, <2>2, NoneAssumption DEF IInv, KeyInv, RowInv, SecretValuesStayOut
  <2>5. keysMade' \in Nat /\ keysMade' >= keysMade /\ backend' = backend
    BY <1>1, <1>2, BoundsAssumption DEF IInv, TypeOK, CredTypeOK, Keys
  <2>6. QED BY <2>1, <2>3, <2>4, <2>5, OthersOK DEF IInv
<1>5. QED BY <1>3, <1>4 DEF ClearProject, CanClear

LEMMA ClearRunsKeeps ==
  ASSUME IInv, NEW t \in Threads, ClearRuns(t)
  PROVE  IInv'
<1>1. pc[t] # "idle" /\ t \in Cleared /\ GoTo(t, "drop") /\ req' = req /\ UNCHANGED <<credVars, tab, doc, body>>
  BY DEF ClearRuns, At, Cleared
<1>2. "drop" \in Labels /\ backend' = backend /\ DocsTyped'
  BY <1>1 DEF Labels, credVars, storeVars, DocsTyped, IInv, TypeOK
<1>3. QED BY <1>1, <1>2, GoToMoves, RequestGoesOn

LEMMA DropKeeps ==
  ASSUME IInv, NEW t \in Threads, DropProject(t)
  PROVE  IInv'
<1>1. Over(t) /\ UNCHANGED <<credVars, tab, body>> /\ doc' \in {NoDoc, doc}
  BY DEF DropProject
<1>2. DocsTyped'
  BY <1>1 DEF DocsTyped, IInv, TypeOK
<1>3. QED BY <1>1, <1>2, OverMoves, RequestGoesOn

\* A step that moves no request, no key and no credentials.
LEMMA StillKeeps ==
  ASSUME IInv, UNCHANGED <<credVars, pc, req>>, DocsTyped'
  PROVE  IInv'
<1>1. UNCHANGED <<scopeKey, keysMade, cachedKey, backend, memory, row, late, starts, pc, req>>
  BY DEF credVars, keyVars, storeVars
<1>2. TypeOK'
  BY <1>1 DEF IInv, TypeOK, CredTypeOK, DocsTyped
<1>3. QED
  BY <1>1, <1>2 DEF IInv, KeyInv, RowInv, Cleared, SecretValuesStayOut, ReqOK, At, Durable

LEMMA IInvInit == Init => IInv
<1> SUFFICES ASSUME Init PROVE IInv
  OBVIOUS
<1>1. NoRow \in Row /\ NoRow.secret = None /\ 0 \in Keys
  BY BoundsAssumption DEF NoRow, Row, Keys
<1>2. TypeOK
  BY <1>1, BoundsAssumption DEF Init, CredInit, TypeOK, CredTypeOK, ReqType, Doc
<1>3. KeyInv
  BY <1>1 DEF Init, CredInit, KeyInv, Keys
<1>4. RowInv /\ SecretValuesStayOut
  BY <1>1, NoneAssumption DEF Init, CredInit, RowInv, SecretValuesStayOut
<1>5. \A t \in Threads : ReqOK(t)
  BY DEF Init, CredInit, ReqOK
<1>6. QED BY <1>2, <1>3, <1>4, <1>5 DEF IInv

LEMMA IInvNext == IInv /\ [Next]_vars => IInv'
<1> SUFFICES ASSUME IInv, [Next]_vars PROVE IInv'
  OBVIOUS
<1>1. ASSUME NEW t \in Threads, CredStep(t), UNCHANGED projVars PROVE IInv'
  <2>1. ASSUME PutKeyFails(t) PROVE IInv'
    BY <1>1, <2>1, OverMoves, RequestGoesOn, DocsKept DEF PutKeyFails
  <2>2. QED
    BY <1>1, <2>1, ConnectKeeps, ResolveKeeps, ReadPasswordKeeps, GetKeyKeeps, PutKeyKeeps, LoginKeeps, WriteKeeps
    DEF CredStep
<1>2. ASSUME NEW t \in Threads, NEW w \in Workers, Delete(t, w) PROVE IInv'
  <2>1. Moves(t) /\ ReqOK(t)'
    BY <1>2, BeginIs DEF Delete
  <2>2. UNCHANGED credVars /\ UNCHANGED projVars
    BY <1>2 DEF Delete
  <2>3. QED BY <2>1, <2>2, RequestGoesOn, DocsKept
<1>3. ASSUME Fetch \/ RecordRun \/ UNCHANGED vars PROVE IInv'
  <2>1. DocsTyped' /\ UNCHANGED <<credVars, pc, req>>
    BY <1>3 DEF Fetch, RecordRun, vars, projVars, DocsTyped, IInv, TypeOK
  <2>2. QED BY <2>1, StillKeeps
<1>4. ASSUME Restart PROVE IInv'
  BY <1>4, RestartKeeps DEF Restart
<1>5. ASSUME NEW t \in Threads, Step(t) PROVE IInv'
  BY <1>1, <1>2, <1>5, PutKeeps, SaveKeeps, ClearKeeps, ClearRunsKeeps, DropKeeps DEF Step
<1>6. QED BY <1>3, <1>4, <1>5 DEF Next

\* The inductive invariant, for any number of workers and requests.
THEOREM Invariance == Spec => []IInv
<1>1. QED BY IInvInit, IInvNext, PTL DEF Spec

\* Every variable keeps its type.
THEOREM TypeCorrect == Spec => []TypeOK
<1>1. IInv => TypeOK
  BY DEF IInv
<1>2. QED BY <1>1, Invariance, PTL

\* The value of a reference is never stored as a password.
THEOREM ValuesStayOut == Spec => []SecretValuesStayOut
<1>1. IInv => SecretValuesStayOut
  BY DEF IInv
<1>2. QED BY <1>1, Invariance, PTL

-----------------------------------------------------------------------------
(* The workers that agree on a key. *)

\* A step of one request that neither leaves it without a key nor brings another one in.
LEMMA AgreedMoves ==
  ASSUME IInv, AgreedOnKey, NEW t \in Threads, NEW label, label # "newkey", GoTo(t, label), NEW r,
         req' = [req EXCEPT ![t] = r], label # "idle" => r.key \in {0, scopeKey},
         UNCHANGED <<scopeKey, row>>, \A w \in Workers : cachedKey'[w] \in {0, scopeKey}
  PROVE  AgreedOnKey'
  BY DEF AgreedOnKey, At, GoTo, IInv, TypeOK, CredTypeOK, ReqType

\* One that leaves its parameters alone.
LEMMA AgreedGoesTo ==
  ASSUME IInv, AgreedOnKey, NEW t \in Threads, pc[t] # "idle", NEW label, label # "newkey",
         GoTo(t, label), req' = req, UNCHANGED <<scopeKey, row, cachedKey>>
  PROVE  AgreedOnKey'
<1>1. req' = [req EXCEPT ![t] = req[t]]
  BY DEF IInv, TypeOK, CredTypeOK, ReqType
<1>2. req[t].key \in {0, scopeKey} /\ \A w \in Workers : cachedKey'[w] \in {0, scopeKey}
  BY DEF AgreedOnKey, At
<1>3. QED BY <1>1, <1>2, AgreedMoves

LEMMA AgreedOver ==
  ASSUME IInv, AgreedOnKey, NEW t \in Threads, Over(t), UNCHANGED <<scopeKey, row>>,
         \A w \in Workers : cachedKey'[w] \in {0, scopeKey}
  PROVE  AgreedOnKey'
  BY AgreedMoves DEF Over

LEMMA NewHasNoKey ==
  ASSUME NEW w, NEW typed, NEW sent, NEW password, NEW ref
  PROVE  /\ NewRequest(w, typed, sent).key = 0
         /\ [NewRequest(w, typed, sent) EXCEPT !.password = password, !.ref = ref].key = 0
  BY DEF NewRequest

LEMMA AgreedResolved ==
  ASSUME IInv, AgreedOnKey, NEW t \in Threads, NEW password, NEW ref, Resolved(t, password, ref),
         UNCHANGED <<scopeKey, row>>, \A w \in Workers : cachedKey'[w] \in {0, scopeKey}
  PROVE  AgreedOnKey'
<1> DEFINE r == [NewRequest(req[t].w, None, None) EXCEPT !.password = password, !.ref = ref]
<1>1. GoTo(t, "login") /\ req' = [req EXCEPT ![t] = r]
  BY DEF Resolved
<1>2. r.key = 0
  BY NewHasNoKey
<1> HIDE DEF r
<1>3. QED BY <1>1, <1>2, AgreedMoves

\* A request goes on with the key of the scope, or reads a row without needing any.
LEMMA AgreedUseKey ==
  ASSUME IInv, AgreedOnKey, NEW t \in Threads, pc[t] # "idle", UseKey(t, scopeKey),
         UNCHANGED <<scopeKey, row>>, \A w \in Workers : cachedKey'[w] \in {0, scopeKey}
  PROVE  AgreedOnKey'
<1>1. ASSUME req' = [req EXCEPT ![t].key = scopeKey], GoTo(t, "write") PROVE AgreedOnKey'
  <2> DEFINE r == [req[t] EXCEPT !.key = scopeKey]
  <2>1. req[t] \in Request
    BY DEF IInv, ReqOK
  <2>2. r.key = scopeKey /\ req' = [req EXCEPT ![t] = r]
    BY <1>1, <2>1 DEF Request
  <2> HIDE DEF r
  <2>3. QED BY <1>1, <2>2, AgreedMoves
<1>2. QED BY <1>1, AgreedResolved, AgreedOver DEF UseKey

\* A worker without a key takes the one in the scope, if it can be read.
LEMMA AgreedGetKey ==
  ASSUME IInv, AgreedOnKey, ~ReadFails, NEW t \in Threads, GetKey(t)
  PROVE  AgreedOnKey'
<1> DEFINE w == req[t].w
<1>1. pc[t] # "idle" /\ UNCHANGED <<scopeKey, row>>
  BY DEF GetKey, At, storeVars
<1>2. scopeKey # 0 /\ \A v \in Workers : cachedKey[v] \in {0, scopeKey}
  BY DEF AgreedOnKey
<1>3. w \in Workers /\ cachedKey \in [Workers -> Keys]
  BY <1>1 DEF IInv, ReqOK, Request, TypeOK, CredTypeOK
<1>4. ASSUME cachedKey[w] # 0, UseKey(t, cachedKey[w]), cachedKey' = cachedKey PROVE AgreedOnKey'
  <2>1. cachedKey[w] = scopeKey
    BY <1>2, <1>3, <1>4
  <2>2. QED BY <1>1, <1>2, <1>4, <2>1, AgreedUseKey
<1>5. ASSUME UseKey(t, scopeKey), cachedKey' = [cachedKey EXCEPT ![w] = scopeKey] PROVE AgreedOnKey'
  <2>1. \A v \in Workers : cachedKey'[v] \in {0, scopeKey}
    BY <1>2, <1>3, <1>5
  <2>2. QED BY <1>1, <1>5, <2>1, AgreedUseKey
<1>6. QED BY <1>2, <1>4, <1>5 DEF GetKey

\* What is written to the table was encrypted with the key of the scope.
LEMMA AgreedWrite ==
  ASSUME IInv, AgreedOnKey, NEW t \in Threads, Write(t)
  PROVE  AgreedOnKey'
<1>1. /\ pc[t] = "write" /\ Over(t) /\ UNCHANGED <<scopeKey, cachedKey>>
      /\ row' = row \/ (row' = NewRow(t) /\ Durable(t))
  BY DEF Write, At, keyVars
<1>2. CASE row' = row
  BY <1>1, <1>2, AgreedOver DEF AgreedOnKey
<1>3. CASE row' = NewRow(t) /\ Durable(t)
  <2>1. row'.secret # None => row'.key = scopeKey
    <3>1. CASE req[t].ref # None
      BY <1>3, <3>1 DEF NewRow, RefRow, NoRow
    <3>2. CASE req[t].ref = None
      <4>1. req[t].key \in 1 .. keysMade /\ keysMade \in Int
        BY <1>1, <1>3, <3>2, BoundsAssumption DEF IInv, ReqOK, At, TypeOK, CredTypeOK, Keys
      <4>2. req[t].key = scopeKey
        BY <1>1, <4>1 DEF AgreedOnKey, At
      <4>3. QED BY <1>3, <3>2, <4>2 DEF NewRow, NoRow
    <3>3. QED BY <3>1, <3>2
  <2>2. QED BY <1>1, <2>1 DEF AgreedOnKey, Over, GoTo, At, IInv, TypeOK, CredTypeOK, ReqType
<1>4. QED BY <1>1, <1>2, <1>3

\* A worker that starts has no key and no requests.
LEMMA AgreedRestart ==
  ASSUME IInv, AgreedOnKey, NEW w \in Workers, NEW choice, RestartWorker(w, choice)
  PROVE  AgreedOnKey'
<1>1. /\ UNCHANGED <<scopeKey, row>> /\ cachedKey' = [cachedKey EXCEPT ![w] = 0]
      /\ \A t \in Threads : pc'[t] = "idle" \/ (pc'[t] = pc[t] /\ req'[t] = req[t])
  BY DEF RestartWorker
<1>2. \A v \in Workers : cachedKey'[v] \in {0, scopeKey}
  BY <1>1 DEF AgreedOnKey, IInv, TypeOK, CredTypeOK
<1>3. QED BY <1>1, <1>2 DEF AgreedOnKey, At

LEMMA AgreedStep ==
  ASSUME IInv, AgreedOnKey, ~ReadFails, [Next]_vars
  PROVE  AgreedOnKey'
<1>0. \A w \in Workers : cachedKey[w] \in {0, scopeKey}
  BY DEF AgreedOnKey
<1>k. UNCHANGED credVars =>
        UNCHANGED <<scopeKey, row, cachedKey>> /\ \A w \in Workers : cachedKey'[w] \in {0, scopeKey}
  BY <1>0 DEF credVars, keyVars, storeVars
<1>1. CASE RecordRun \/ Fetch \/ UNCHANGED vars
  BY <1>1 DEF RecordRun, Fetch, vars, credVars, keyVars, storeVars, AgreedOnKey, At
<1>2. CASE Restart
  BY <1>2, AgreedRestart DEF Restart
<1>3. ASSUME NEW t \in Threads, NEW w \in Workers, NEW typed, NEW sent, NEW label,
             label # "newkey", UNCHANGED credVars, GoTo(t, label),
             req' = [req EXCEPT ![t] = NewRequest(w, typed, sent)]
      PROVE  AgreedOnKey'
  <2> DEFINE r == NewRequest(w, typed, sent)
  <2>1. r.key = 0 /\ req' = [req EXCEPT ![t] = r]
    BY <1>3, NewHasNoKey
  <2> HIDE DEF r
  <2>2. QED BY <1>3, <1>k, <2>1, AgreedMoves
<1>4. ASSUME NEW t \in Threads, CredStep(t) PROVE AgreedOnKey'
  <2>1. ASSUME NEW w \in Workers, NEW typed, NEW sent, Connect(t, w, typed, sent) PROVE AgreedOnKey'
    BY <1>3, <2>1 DEF Connect
  <2>2. ASSUME Resolve(t) PROVE AgreedOnKey'
    BY <1>k, <2>2, AgreedResolved, AgreedOver, AgreedGoesTo DEF Resolve, UseRef, At
  <2>3. ASSUME ReadPassword(t) PROVE AgreedOnKey'
    <3>1. UNCHANGED credVars /\ pc[t] # "idle"
      BY <2>3 DEF ReadPassword, At
    <3>2. ASSUME req' = [req EXCEPT ![t].read = row], GoTo(t, "key") PROVE AgreedOnKey'
      <4> DEFINE r == [req[t] EXCEPT !.read = row]
      <4>1. req[t] \in Request /\ req[t].key \in {0, scopeKey}
        BY <3>1 DEF IInv, ReqOK, AgreedOnKey, At
      <4>2. r.key \in {0, scopeKey} /\ req' = [req EXCEPT ![t] = r]
        BY <3>2, <4>1 DEF Request
      <4> HIDE DEF r
      <4>3. QED BY <1>k, <3>1, <3>2, <4>2, AgreedMoves
    <3>3. QED BY <1>k, <2>3, <3>1, <3>2, AgreedResolved, AgreedOver DEF ReadPassword
  <2>4. ASSUME PutKey(t) \/ PutKeyFails(t) PROVE FALSE
    BY <2>4 DEF PutKey, PutKeyFails, AgreedOnKey
  <2>5. ASSUME Login(t) PROVE AgreedOnKey'
    BY <1>k, <2>5, AgreedOver, AgreedGoesTo DEF Login, At
  <2>6. QED BY <1>4, <2>1, <2>2, <2>3, <2>4, <2>5, AgreedGetKey, AgreedWrite DEF CredStep
<1>5. ASSUME NEW t \in Threads, Step(t) PROVE AgreedOnKey'
  <2>1. ASSUME NEW w \in Workers, Delete(t, w) \/ (tab # NoDoc /\ \E e \in Edits(tab) : Put(t, w, e))
        PROVE  AgreedOnKey'
    BY <1>3, <2>1 DEF Delete, Put, Begin
  <2>2. ASSUME Save(t) \/ DropProject(t) PROVE AgreedOnKey'
    BY <1>k, <2>2, AgreedOver DEF Save, DropProject
  <2>3. ASSUME ClearRuns(t) PROVE AgreedOnKey'
    BY <1>k, <2>3, AgreedGoesTo DEF ClearRuns, At
  <2>4. ASSUME ClearProject(t) PROVE AgreedOnKey'
    <3>1. /\ UNCHANGED <<scopeKey, cachedKey>> /\ pc[t] # "idle"
          /\ Over(t) \/ (GoTo(t, "runs") /\ req' = req)
          /\ row' = row \/ row' = NoRow
      BY <2>4 DEF ClearProject, At, keyVars
    <3>2. row'.secret # None => row'.key = scopeKey
      BY <3>1 DEF NoRow, AgreedOnKey
    <3>3. QED BY <3>1, <3>2 DEF AgreedOnKey, Over, GoTo, At, IInv, TypeOK, CredTypeOK, ReqType
  <2>5. QED BY <1>4, <1>5, <2>1, <2>2, <2>3, <2>4 DEF Step
<1>6. QED BY <1>1, <1>2, <1>5 DEF Next

\* Workers that agree on a key go on doing so, where the scope can be read.
THEOREM AgreedKeyLasts == Spec => KeyAgreementLasts
<1>1. IInv /\ [Next]_vars => [AgreedOnKey /\ ~ReadFails => AgreedOnKey']_<<credVars, pc, req>>
  BY AgreedStep
<1>2. QED BY <1>1, Invariance, PTL DEF Spec, KeyAgreementLasts

\* A project is only deleted when its credentials are.
THEOREM DeleteIsClean == Spec => DeletedLeavesNothing
<1>1. IInv => [\A t \in Threads : DropProject(t) /\ doc # NoDoc /\ doc' = NoDoc => row = NoRow \/ t \in late]_vars
  BY DEF IInv, RowInv, Cleared, DropProject, At
<1>2. QED BY <1>1, Invariance, PTL DEF Spec, DeletedLeavesNothing
=============================================================================
