SPECIFICATION Spec
CONSTANTS
  s1 = s1
  s2 = s2
  w = w
  x1 = x1
  x2 = x2
  d = d
  Names = {rc}
  Clusters = {c1}
  Scales = {s1, s2}
  Rewrites = {w}
  Exports = {x1, x2}
  Deletes = {d}
  Sizes = {0, 1}
  MaxVersion = 3
INVARIANT DeletedEmpty
CHECK_DEADLOCK FALSE
