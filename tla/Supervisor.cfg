CONSTANTS
  c1 = c1
  c2 = c2
  c3 = c3
  Children <- ThreeChildren
  NoChild = NoChild
  MaxRestarts = 1
  MaxClicks = 2
SPECIFICATION Spec
INVARIANTS TypeOK NoStrays Attended QuitSignalsUnlessOverlap
PROPERTIES ImplementsLifecycle Progress
CHECK_DEADLOCK FALSE
