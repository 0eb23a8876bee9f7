---------------------------- MODULE MCRunRegistry ----------------------------
(* A small instance of RunRegistry for TLC. *)
EXTENDS RunRegistry
=============================================================================
