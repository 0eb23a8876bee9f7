----------------------------- MODULE MCJobSetup -----------------------------
(* Two projects that may share a name, and requests that carry no project; two set-ups,
   which overlap or not. *)
EXTENDS JobSetup, TLC

Request(auth, mode, post, maintain) == [auth |-> auth, mode |-> mode, post |-> post, maintain |-> maintain]
RequestsDef ==
  {Request("databricks", "run", {}, FALSE), Request("databricks", "schedule", {"trigger"}, FALSE),
   Request("password", "run", {}, TRUE), Request("password", "create", {"constraint", "index"}, TRUE)}
Symmetry == Permutations(Projects) \cup Permutations(Names) \cup Permutations(Threads)
=============================================================================
