CONSTANTS
  m1 = m1
  m2 = m2
  Ids <- TwoMonitors
  Thresholds <- SomeThresholds
  MaxMonitors = 1
  ResultHistory = 2
  MaxUpdates = 2
SPECIFICATION SafeSpec
INVARIANT AtMostOneProbe
