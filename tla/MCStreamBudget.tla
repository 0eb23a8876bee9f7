--------------------------- MODULE MCStreamBudget ---------------------------
(* A small instance of StreamBudget for TLC. *)
EXTENDS StreamBudget
=============================================================================
