SPECIFICATION ConfigFairSpec
CONSTANTS
  a = a
  bad = bad
  Updates = {a, bad}
  Bad = {bad}
  Default = Default
  Torn = Torn
  Broken = Broken
  NoConfig = NoConfig
  NoFile = NoFile
  Empty = Empty
  Garbage = Garbage
  MaxInFlight = 2
  MaxCrashes = 2
INVARIANTS ConfigTypeOK AloneInstalls NeverMixed
PROPERTIES Restarts Answered
CHECK_DEADLOCK FALSE
