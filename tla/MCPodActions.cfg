SPECIFICATION FairSpec
CONSTANTS
  p1 = p1
  a = a
  b = b
  Pods = {p1}
  RCs = {rc}
  NoRC = NoRC
  Requests = {r1, r2}
  Names = {a, b}
  PrivateRepoPrefix = prefix
  PauseImage = pause
  NoImage = blank
  NoPod = NoPod
  NoRequest = NoRequest
  MaxWidth = 2
  MaxVersion = 1
  Templates <- MCTemplates
  Posts <- MCPosts
INVARIANTS TypeOK SavedImages ReadCoherent NoSilentStop
PROPERTIES ActionsAreAtomic Responds
