----------------------------- MODULE DurableRun -----------------------------
(***************************************************************************)
(* What the run registry promises the rest of the application about the    *)
(* stored row of a run, with no locks, versions or threads in sight.       *)
(*                                                                         *)
(* A run goes through a history of statuses, one entry per mutation of its *)
(* state.  Its row in the run store points at one entry of that history    *)
(* and the pointer only moves forward: the row may lag behind the run, and *)
(* it may stay behind for good when the process is lost, but it never      *)
(* shows an older state after a newer one.                                 *)
(***************************************************************************)
EXTENDS Naturals, Sequences

CONSTANT Runs

VARIABLES
  hist,   \* hist[r]: the statuses run r has had, oldest first; <<>> before it exists
  row     \* row[r]: the index in hist[r] that the store shows; 0 when there is no row

vars == <<hist, row>>

TERMINAL == {"success", "failed", "partial"}
FINISHED == TERMINAL \cup {"gave_up"}
Status == {"running"} \cup FINISHED

\* The statuses a caller may leave a run in: a finished run is never reopened,
\* it only sees mutations of other fields (a last heartbeat, an error text).
Successors(s) == IF s \in FINISHED THEN {s} ELSE Status

Init ==
  /\ hist = [r \in Runs |-> <<>>]
  /\ row = [r \in Runs |-> 0]

Start(r) ==
  /\ hist[r] = <<>>
  /\ hist' = [hist EXCEPT ![r] = <<"running">>]
  /\ UNCHANGED row

Advance(r, s) ==
  /\ hist[r] # <<>>
  /\ s \in Successors(hist[r][Len(hist[r])])
  /\ hist' = [hist EXCEPT ![r] = Append(hist[r], s)]
  /\ UNCHANGED row

Record(r, i) ==
  /\ i \in row[r] .. Len(hist[r])
  /\ row' = [row EXCEPT ![r] = i]
  /\ UNCHANGED hist

Next ==
  \E r \in Runs :
    \/ Start(r)
    \/ \E s \in Status : Advance(r, s)
    \/ \E i \in 1 .. Len(hist[r]) : Record(r, i)

Spec == Init /\ [][Next]_vars
=============================================================================
