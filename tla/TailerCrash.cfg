CONSTANTS
  MaxFiles = 3
  Chunk = 2
  MaxLine = 1
  Backfill = 2
  BatchMax = 2
  MaxRate = 1
  MaxRetries = 1
  MaxCells = 2
  MaxChanges = 3
SPECIFICATION Spec
INVARIANTS AgentSurvives
CHECK_DEADLOCK FALSE
