------------------------------ MODULE MCSyncRun ------------------------------
(* Small instances of SyncRun for TLC. *)
EXTENDS SyncRun, TLC

ChildToParent == {<<2, 1>>}
SelfRef == {<<1, 1>>}
NoTables == {}

\* The workers are alike.
WorkerSymmetry == Permutations(Workers)
=============================================================================
