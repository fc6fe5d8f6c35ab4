SPECIFICATION Spec
CONSTANTS
  a = a
  b = b
  v1 = v1
  v2 = v2
  Pods = {1, 2}
  Labelled = {1}
  Hosts = {h}
  NoHost = NoHost
  Names = {a, b}
  Tags = {v1, v2}
  PauseImage = pause
  Lists <- MCLists
  Reports <- MCReports
  First <- MCFirst
  Blank = Blank
  MaxChanges = 1
  MaxClicks = 4
INVARIANTS TypeOK ChoicesFind FirstTells
PROPERTIES RedirectShowsActed UpgradeKeepsName
CHECK_DEADLOCK FALSE
