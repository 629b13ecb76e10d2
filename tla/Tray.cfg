SPECIFICATION Spec
CONSTANTS
  Monitors <- MCMonitors
  Slots = {s1, s2}
  MaxRuns = 2
  MaxChanges = 4
  MaxRows = 1
  Threshold = 1
INVARIANTS TypeOK StreamIsTold
PROPERTIES TraySettles
CHECK_DEADLOCK FALSE
