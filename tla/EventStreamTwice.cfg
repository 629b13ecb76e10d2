CONSTANTS
  k1 = k1
  k2 = k2
  k3 = k3
  None = None
  Chains <- ThreeChains
  RingSize = 2
  MaxConnections = 2
  DropAt = 0
  CloseAt = 2
  MaxEvents = 3
  MaxIds = 6
  MaxTroubles = 1
SPECIFICATION Spec
CHECK_DEADLOCK FALSE
PROPERTY HandedOnce
