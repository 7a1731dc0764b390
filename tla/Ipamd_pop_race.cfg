SPECIFICATION Spec
CONSTANTS
  n1 = n1
  n2 = n2
  p1 = p1
  p2 = p2
  NoNode = NoNode
  NoPod = NoPod
  Node <- MCNode
  Pod <- MCPod
  PodNode <- MCPodNode
  IP <- MCIP
  InitPool <- MCInitPool
  HighWatermark = 1
  FaultKinds = {}
  MaxFaults = 0
INVARIANTS UniquePodIP
