\* Two runs of two tables, retried and resumed; the run-state table answers.
\* The bounded number of runs lets the system stop: no deadlock check.
SPECIFICATION Spec
CONSTANTS
  NTables = 2
  Fks <- ChildToParent
  PlanFks <- ChildToParent
  Triggered <- FirstTable
  Parallel = 2
  Maintenance = TRUE
  StoreFails = FALSE
  RetryResumes = FALSE
  ResumeAny = FALSE
  MaxRuns = 2
  MaxAttempts = 2
INVARIANTS
  AlreadyLoadedIsExact
  FkConserved
  SuccessIsComplete
  
CHECK_DEADLOCK FALSE
