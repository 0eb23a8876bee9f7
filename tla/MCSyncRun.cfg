\* Two runs of two tables, which may overlap, resume each other and be lost.
\* The bounded number of runs lets the system stop: no deadlock check.
SPECIFICATION Spec
CONSTANTS
  NTables = 2
  Fks <- ChildToParent
  Keyed <- NoTables
  Skippable = {1}
  Workers = {w1, w2}
  NoWorker = NoWorker
  TruncateFirst = TRUE
  LostAcks = FALSE
  DB_ATTEMPTS = 1
  LOAD_ATTEMPTS = 1
  MaxRuns = 2
  MaxCrashes = 1
SYMMETRY WorkerSymmetry
INVARIANTS
  CheckpointSound
  SuccessIsComplete
  FkConserved
CHECK_DEADLOCK FALSE
