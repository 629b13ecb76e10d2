SPECIFICATION RendererSpec
CONSTANTS
  Monitors <- MCMonitors
  Slots = {s1, s2}
  MaxRuns = 2
  MaxChanges = 5
  Ring = 2
INVARIANTS RendererTypeOK ListFollows LinesUnbroken
CHECK_DEADLOCK FALSE
SYMMETRY SlotSymmetry
