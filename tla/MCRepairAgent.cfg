\* Three items, two of which depend on the third.
\* A repair run ends: no deadlock check.
SPECIFICATION FairSpec
CONSTANTS
  NItems = 3
  Kind <- Kinds
  Requires <- Needs
  Guarded <- Repeatable
  DB_ATTEMPTS = 2
  MaxOutages = 2
  max_attempts = 2
INVARIANTS
  ResultsAreTrue
  ChainsResolve
PROPERTIES
  FailuresAreIsolated
  RunEnds
CHECK_DEADLOCK FALSE
