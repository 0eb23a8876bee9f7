\* One run, its creator and its two updaters (the run's thread, its heartbeat).
\* The bounded number of mutations lets the system stop: no deadlock check.
SPECIFICATION FairSpec
CONSTANTS
  Runs = {r1}
  Threads = {t1, t2, t3}
  NoThread = NoThread
  FLUSH_SECONDS = 2
  MaxHist = 5
  MaxTime = 2
INVARIANTS
  QuiescentRowHasStatus
  AuditAgreesWithRow
PROPERTIES
  ImplementsDurableRun
  FinishedIsStored
CHECK_DEADLOCK FALSE
