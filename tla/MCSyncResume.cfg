\* Two runs of one table that references itself, loaded without truncating it: the
\* end of a loader and the offer to resume it.
\* The bounded number of runs lets the system stop: no deadlock check.
SPECIFICATION FairSpec
CONSTANTS
  NTables = 1
  Fks <- SelfRef
  Keyed <- NoTables
  Skippable = {1}
  Workers = {w1}
  NoWorker = NoWorker
  TruncateFirst = FALSE
  LostAcks = FALSE
  DB_ATTEMPTS = 2
  LOAD_ATTEMPTS = 2
  MaxRuns = 2
  MaxCrashes = 1
PROPERTIES
  LoadersEnd
  InterruptedIsOffered
CHECK_DEADLOCK FALSE
