CONSTANTS
  a1 = a1
  a2 = a2
  a3 = a3
  Adds <- MCAdds
  MaxWatches = 2
  MaxStarts = 2
  Clicks = 2
  Slots = {r1, r2}
  MaxChanges = 3
SPECIFICATION MCSpec
INVARIANT FailedExportsLeaveNothing
CHECK_DEADLOCK FALSE
