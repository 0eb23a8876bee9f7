--------------------------- MODULE MCRepairAgent ----------------------------
(* Small instance of RepairAgent for TLC. *)
EXTENDS RepairAgent

\* Items 1 and 2 both need item 3.  Item 1 is of a later kind, so that one round can
\* do for both; item 2 is of the same kind and earlier in the plan.
Kinds == <<2, 1, 1>>
Needs == <<{3}, {3}, {}>>

\* The statement for item 3 allows for its object to be there.
Repeatable == {3}
=============================================================================
