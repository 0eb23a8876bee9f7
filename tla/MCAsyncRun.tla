------------------------------ MODULE MCAsyncRun ------------------------------
(* Small instances of AsyncRun for TLC. *)
EXTENDS AsyncRun

ChildToParent == {<<2, 1>>}
NoFks == {}
FirstTable == {1}
=============================================================================
