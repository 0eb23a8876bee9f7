----------------------------- MODULE MCProjects -----------------------------
(* Two workers that two threads' requests reach; either worker may serve either thread. *)
EXTENDS Projects, TLC

Symmetry == Permutations(Workers) \cup Permutations(Threads)
=============================================================================
