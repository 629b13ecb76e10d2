CONSTANTS
  k1 = k1
  k2 = k2
  k3 = k3
  None = None
  Chains <- TwoChains
  RingSize = 2
  MaxConnections = 1
  DropAt = 0
  CloseAt = 2
  MaxEvents = 4
  MaxIds = 7
  MaxTroubles = 2
SPECIFICATION Spec
CHECK_DEADLOCK FALSE
INVARIANTS TypeOK OneDriver
PROPERTIES HandedOn CatchesUp
