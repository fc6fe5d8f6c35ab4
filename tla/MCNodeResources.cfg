SPECIFICATION Spec
CONSTANTS
  n1 = n1
  n2 = n2
  cpu = cpu
  memory = memory
  Nodes <- MCNodes
  Kinds = {cpu, memory}
  Containers <- MCContainers
  MaxPods = 2
  MaxInPod = 2
  Capacity <- MCCapacity
  PodCapacity <- MCPodCapacity
INVARIANTS TotalsRight HiddenErrorsAreTerminated FullShowsFull
CHECK_DEADLOCK FALSE
