SPECIFICATION ValidationSpec
CONSTANTS
  Lower <- MCLower
  Dbo <- MCDbo
  Public <- MCPublic
  MAX_IDENTIFIER = 4
  Tolerance = 2
  VALUE_SAMPLE = 2
  TOP = 2
  Jobs <- MCJobs
  Strays <- MCStrays
  Flags <- MCFlags
  Provides <- MCProvides
  MaxScans = 3
INVARIANTS FixKeepsMatched
CHECK_DEADLOCK FALSE
