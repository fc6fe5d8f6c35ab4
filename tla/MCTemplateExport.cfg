SPECIFICATION ExportSpec
CONSTANTS
  p1 = p1
  a = a
  b = b
  Pods = {p1}
  RCs = {rc}
  NoRC = NoRC
  Requests = {r1, r2, r3}
  Exports = {x}
  Names = {a, b}
  PrivateRepoPrefix = prefix
  PauseImage = pause
  NoImage = blank
  NoPod = NoPod
  NoRequest = NoRequest
  MaxWidth = 1
  MaxVersion = 0
  Templates <- MCTemplates
  Posts <- MCPosts
INVARIANT StartsWhatRan
SYMMETRY AnyRequest
