SPECIFICATION Spec
CONSTANTS
  a = a
  b = b
  n1 = n1
  n2 = n2
  p = p
  q = q
  Clusters = {c1, c2}
  Namespaces <- MCNamespaces
  Nodes <- MCNodes
  Project <- MCProject
  Pods = {p, q}
  PodNamespace <- MCPodNamespace
  Absent = Absent
  Worlds <- MCWorlds
  MaxChanges = 2
INVARIANTS OverviewWasTrue OverviewComplete NodesShowOneMoment HidesOnly
PROPERTY Answered
CHECK_DEADLOCK FALSE
