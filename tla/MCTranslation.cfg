SPECIFICATION FairSpec
CONSTANTS
  N = 3
  Workers = {w1, w2}
  Attempts = 2
  MaxCont = 1
INVARIANTS SuccessIsWhole RefusalsAreRemembered
PROPERTIES ProgressNeverGoesBack BuildEnds
CHECK_DEADLOCK FALSE
