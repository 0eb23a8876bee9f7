SPECIFICATION Spec
CONSTANTS
  r1 = r1
  r2 = r2
  r3 = r3
  r4 = r4
  Rows <- MCRows
  Key <- MCKey
  Globes <- MCGlobes
  Described <- MCDescribed
  Tables <- MCTables
  TargetReads <- MCTargetReads
  SourceReads <- MCSourceReads
  OverridesSet <- MCOverrides
  MaxAttempts = 2
  MaxChanges = 2
  CHUNK_BYTES = 2
  CHUNK_ROWS = 2
  MAX_CHUNKS = 4
  DEFAULT_CHUNKS = 2
  MAX_TABLE_STREAMS = 2
  MAX_TABLES = 2
  DEFAULT_STREAMS = 3
  MAX_STREAMS = 6
  FETCH_BYTES = 8
  FETCH_MIN = 1
  FETCH_MAX = 9
  FETCH_DEFAULT = 4
  FETCH_STEP = 2
INVARIANTS CopiedOnce LoadedIsWhole TriggersSleep PlanFits
CHECK_DEADLOCK FALSE
