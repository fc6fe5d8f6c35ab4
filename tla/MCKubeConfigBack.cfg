SPECIFICATION ConfigFairSpec
CONSTANTS
  a = a
  bad = bad
  Updates = {a, bad}
  Bad = {bad}
  Default = Default
  Torn = Torn
  Broken = Broken
  NoConfig = NoConfig
  NoFile = NoFile
  Empty = Empty
  Garbage = Garbage
  MaxInFlight = 2
  MaxCrashes = 1
PROPERTY ComesBack
CHECK_DEADLOCK FALSE
