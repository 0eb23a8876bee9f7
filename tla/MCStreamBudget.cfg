\* Three tables, two threads, two streams; a table may ask for none and for too many.
\* The copy ends when every table has settled: no deadlock check.
SPECIFICATION BudgetFair
CONSTANTS
  N = 3
  MAX_STREAMS = 2
  Parallel = 2
  MaxAsked = 3
  MaxChunks = 2
INVARIANTS
  StreamsBounded
  InOrder
PROPERTIES
  EveryTableSettles
CHECK_DEADLOCK FALSE
