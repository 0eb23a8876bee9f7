---------------------------- MODULE Credentials ----------------------------
(***************************************************************************)
(* backend/connectors/credential_store.py and credentials.py: what is      *)
(* remembered of a connection that worked, and how the next request that   *)
(* brings no password gets one.                                            *)
(*                                                                         *)
(* There is one project with one connection.  Its secret is a password     *)
(* somebody typed, encrypted with a key that lives in the workspace's      *)
(* secret scope, or a reference to an entry of a secret manager; the value *)
(* such an entry holds is written as the reference itself.  Each worker    *)
(* process caches the key and the store it has chosen: a worker that       *)
(* cannot get the store's own password at its first use keeps secrets in   *)
(* its memory until it is restarted.                                       *)
(*                                                                         *)
(* A request resolves a password, logs in with it, and stores what it      *)
(* logged in with.  The table, the scope and the secret manager can fail   *)
(* at every call.                                                          *)
(***************************************************************************)
EXTENDS Naturals

CONSTANTS
  Workers,    \* processes that serve the API
  Threads,    \* requests that can be under way at a time
  Typed,      \* passwords users type
  Refs,       \* references to entries of a secret manager
  None,       \* no password, no reference
  ReadFails,  \* whether reading the key from the secret scope can fail
  MaxKeys,    \* bound: encryption keys ever generated
  MaxStarts   \* bound: restarts of workers

ASSUME NoneAssumption == None \notin Typed \cup Refs
ASSUME SecretsAssumption == Typed \cap Refs = {}
ASSUME BoundsAssumption == {MaxKeys, MaxStarts} \subseteq Nat

VARIABLES
  scopeKey,   \* the key in the secret scope, 0 when there is none
  keysMade,   \* the last key generated
  cachedKey,  \* _fernet.cache of each worker, 0 when it is empty
  backend,    \* class of get_credential_store() in each worker
  memory,     \* MemoryCredentialStore of each worker
  row,        \* the connection's row of the credentials table
  late,       \* history: the deletes under way that had cleared the row before it was written
  pc,         \* where each request is
  req,        \* its parameters and local variables
  starts      \* restarts so far

keyVars == <<scopeKey, keysMade, cachedKey>>
storeVars == <<backend, memory, row, late>>
credVars == <<keyVars, storeVars, starts>>

Keys == 0 .. MaxKeys
Secrets == Typed \cup Refs
Backends == {"postgres", "memory"}
Row == [secret : Secrets \cup {None}, key : Keys, ref : Refs \cup {None}]
NoRow == [secret |-> None, key |-> 0, ref |-> None]
RefRow(ref) == [NoRow EXCEPT !.ref = ref]

\* The worker, the request's own password and reference; the row it has read,
\* the password it goes by, the reference that gave it, and its Fernet key.
Request == [w : Workers, typed : Typed \cup {None}, sent : Refs \cup {None}, read : Row,
            password : Secrets \cup {None}, ref : Refs \cup {None}, key : Keys]
NewRequest(w, typed, sent) ==
  [w |-> w, typed |-> typed, sent |-> sent, read |-> NoRow,
   password |-> None, ref |-> None, key |-> 0]
ReqType == [Threads -> Request \cup {None}]
ASSUME RequestAssumption == None \notin Request

CredInit ==
  /\ scopeKey \in {0, 1} \cap Keys /\ keysMade = scopeKey
  /\ cachedKey = [w \in Workers |-> 0]
  /\ backend \in [Workers -> Backends]
  /\ memory = [w \in Workers |-> NoRow]
  /\ row = NoRow /\ late = {}
  /\ pc = [t \in Threads |-> "idle"]
  /\ req = [t \in Threads |-> None]
  /\ starts = 0

At(t, label) == pc[t] = label
GoTo(t, label) == pc' = [pc EXCEPT ![t] = label]
Over(t) == GoTo(t, "idle") /\ req' = [req EXCEPT ![t] = None]
Durable(t) == backend[req[t].w] = "postgres"

\* What the worker's credential store holds for the connection.
Stored(t) == IF Durable(t) THEN row ELSE memory[req[t].w]

\* test_connection(), scan() and every other request that logs in.
Connect(t, w, typed, sent) ==
  /\ At(t, "idle")
  /\ req' = [req EXCEPT ![t] = NewRequest(w, typed, sent)]
  /\ GoTo(t, "resolve")
  /\ UNCHANGED credVars

\* The password to log in with, and the reference that gave it.
Resolved(t, password, ref) ==
  /\ GoTo(t, "login")
  /\ req' = [req EXCEPT ![t] = [NewRequest(@.w, None, None) EXCEPT !.password = password,
                                                                  !.ref = ref]]

\* Mutant: the reference does not go along with the password it gave.
UseRefValue(t, ref) ==
  \/ Resolved(t, ref, None)
  \/ Over(t)

\* A reference is read from the secret manager, or cannot be: then the request
\* is refused.  The reference goes along with the password.
UseRef(t, ref) ==
  \/ Resolved(t, ref, ref)
  \/ Over(t)

\* resolve_effective_password(): what the user typed comes first, then the
\* reference sent along, then a stored reference.  A table that cannot be read
\* has none.
Resolve(t) ==
  /\ At(t, "resolve")
  /\ \/ req[t].typed # None /\ Resolved(t, req[t].typed, None)
     \/ req[t].typed = None /\ req[t].sent # None /\ UseRef(t, req[t].sent)
     \/ /\ req[t].typed = None /\ req[t].sent = None
        /\ \/ Stored(t).ref # None /\ UseRef(t, Stored(t).ref)
           \/ /\ Stored(t).ref = None \/ Durable(t)
              /\ GoTo(t, "stored") /\ UNCHANGED req
  /\ UNCHANGED credVars

\* CredentialStore.resolve(): a second look at the store, which may have changed.
ReadPassword(t) ==
  /\ At(t, "stored")
  /\ \/ (Stored(t).secret = None \/ Durable(t)) /\ Over(t)
     \/ /\ Stored(t).secret # None
        /\ IF Durable(t)
           THEN req' = [req EXCEPT ![t].read = row] /\ GoTo(t, "key")
           ELSE Resolved(t, Stored(t).secret, None)
  /\ UNCHANGED credVars

\* The request has its Fernet key.  One that reads a password decrypts it: the
\* ciphertext of another key is a miss.  One that has logged in encrypts.
UseKey(t, k) ==
  \/ /\ req[t].password # None
     /\ req' = [req EXCEPT ![t].key = k] /\ GoTo(t, "write")
  \/ req[t].password = None /\ req[t].read.key = k /\ Resolved(t, req[t].read.secret, None)
  \/ req[t].password = None /\ req[t].read.key # k /\ Over(t)

\* Mutant: a worker without a key makes one and does not look into the scope.
GetKeyAnew(t) ==
  LET w == req[t].w IN
  /\ At(t, "key")
  /\ \/ cachedKey[w] # 0 /\ UseKey(t, cachedKey[w])
     \/ cachedKey[w] = 0 /\ GoTo(t, "newkey") /\ UNCHANGED req
  /\ UNCHANGED credVars

\* _fernet(): the cached key, or the one in the scope.  An error reading the
\* scope is taken for the absence of a key.
GetKey(t) ==
  LET w == req[t].w IN
  /\ At(t, "key")
  /\ \/ /\ cachedKey[w] # 0
        /\ UseKey(t, cachedKey[w]) /\ UNCHANGED cachedKey
     \/ /\ cachedKey[w] = 0 /\ scopeKey # 0
        /\ UseKey(t, scopeKey) /\ cachedKey' = [cachedKey EXCEPT ![w] = scopeKey]
     \/ /\ cachedKey[w] = 0 /\ (scopeKey = 0 \/ ReadFails)
        /\ GoTo(t, "newkey") /\ UNCHANGED <<cachedKey, req>>
  /\ UNCHANGED <<scopeKey, keysMade, storeVars, starts>>

\* secrets.put_secret(): the new key replaces whatever is in the scope.  The cache keeps the key that was first to enter it; this request goes on with
\* its own.
PutKey(t) ==
  LET w == req[t].w  k == keysMade + 1 IN
  /\ At(t, "newkey") /\ keysMade < MaxKeys
  /\ keysMade' = k /\ scopeKey' = k
  /\ cachedKey' = [cachedKey EXCEPT ![w] = IF @ = 0 THEN k ELSE @]
  /\ UseKey(t, k)
  /\ UNCHANGED <<storeVars, starts>>

\* put_secret() raises: nothing is resolved, or nothing is stored.
PutKeyFails(t) == At(t, "newkey") /\ Over(t) /\ UNCHANGED credVars

\* The connection is accepted, or refused: what did not work is not remembered.
\* A password bound for the table is encrypted first.
Login(t) ==
  /\ At(t, "login")
  /\ \/ /\ GoTo(t, IF req[t].ref = None /\ Durable(t) THEN "key" ELSE "write")
        /\ UNCHANGED req
     \/ Over(t)
  /\ UNCHANGED credVars

\* remember_effective(): the reference, when one gave the password, or the
\* password; each replaces the other.
NewRow(t) == IF req[t].ref # None THEN RefRow(req[t].ref)
             ELSE [NoRow EXCEPT !.secret = req[t].password, !.key = req[t].key]

\* The deletes of the project that have cleared its credentials (Projects).
Cleared == {t \in Threads : pc[t] \in {"runs", "drop"}}

Write(t) ==
  /\ At(t, "write")
  /\ \/ Durable(t) /\ row' = NewRow(t) /\ late' = Cleared /\ UNCHANGED memory
     \/ ~Durable(t) /\ memory' = [memory EXCEPT ![req[t].w] = NewRow(t)] /\ UNCHANGED <<row, late>>
     \/ Durable(t) /\ UNCHANGED <<row, late, memory>>
  /\ Over(t)
  /\ UNCHANGED <<keyVars, backend, starts>>

\* A worker is restarted: its requests, its memory and its caches are gone, and
\* the store is chosen anew.
RestartWorker(w, choice) ==
  /\ starts < MaxStarts /\ starts' = starts + 1
  /\ cachedKey' = [cachedKey EXCEPT ![w] = 0]
  /\ backend' = [backend EXCEPT ![w] = choice]
  /\ memory' = [memory EXCEPT ![w] = NoRow]
  /\ LET Lost(t) == req[t] # None /\ req[t].w = w IN
     /\ pc' = [t \in Threads |-> IF Lost(t) THEN "idle" ELSE pc[t]]
     /\ req' = [t \in Threads |-> IF Lost(t) THEN None ELSE req[t]]
  /\ UNCHANGED <<scopeKey, keysMade, row, late>>

CredStep(t) ==
  \/ \E w \in Workers, typed \in Typed \cup {None}, sent \in Refs \cup {None} :
       Connect(t, w, typed, sent)
  \/ Resolve(t) \/ ReadPassword(t) \/ GetKey(t) \/ PutKey(t) \/ PutKeyFails(t)
  \/ Login(t) \/ Write(t)

\* Type invariant of the keys, the stores and the requests.
CredTypeOK ==
  /\ {scopeKey, keysMade} \subseteq Keys /\ cachedKey \in [Workers -> Keys]
  /\ backend \in [Workers -> Backends]
  /\ memory \in [Workers -> Row] /\ row \in Row /\ late \subseteq Threads
  /\ req \in ReqType /\ starts \in 0 .. MaxStarts

\* The scope has a key, no request is about to replace it, and no other key is in a
\* worker's cache, in the table, or with a request.
AgreedOnKey ==
  /\ scopeKey # 0
  /\ \A w \in Workers : cachedKey[w] \in {0, scopeKey}
  /\ \A t \in Threads : ~At(t, "newkey") /\ (~At(t, "idle") => req[t].key \in {0, scopeKey})
  /\ row.secret # None => row.key = scopeKey

\* However many keys the workers made before, once they agree on one it lasts, through
\* restarts, fallbacks to memory and requests under way: from then on every worker can
\* decrypt what any of them stores.  Not where reading the scope may fail, which _fernet()
\* takes for the absence of a key.
KeyAgreementLasts ==
  [][AgreedOnKey /\ ~ReadFails => AgreedOnKey']_<<credVars, pc, req>>

\* A password that survives a restart (credentials.py: "so it survives an App
\* restart"): the table never holds one that a worker which starts now, and
\* reads the scope, cannot decrypt.
StoredSurvivesRestart == row.secret # None => row.key = scopeKey

\* The value behind a reference to a secret manager is used to log in and never
\* stored as a password, in the table or in the memory of a worker, by whatever
\* way the reference came.
SecretValuesStayOut ==
  /\ row.secret \notin Refs
  /\ \A w \in Workers : memory[w].secret \notin Refs
=============================================================================
