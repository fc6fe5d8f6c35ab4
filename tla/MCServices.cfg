SPECIFICATION PageSpec
CONSTANTS
  i1 = i1
  i2 = i2
  IPs = {i1, i2}
  Ports = {80, 443}
  Blank = Blank
  Items <- MCItems
  MaxList = 2
  MaxSubsets = 2
  MaxPorts = 2
  MaxReady = 2
  Ages <- MCAges
INVARIANTS ShownIsFloor ServiceShown EndpointsShown
PROPERTY NeverYounger
CHECK_DEADLOCK FALSE
