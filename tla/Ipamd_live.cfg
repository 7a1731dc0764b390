SPECIFICATION FairSpec
CONSTANTS
  n1 = n1
  n2 = n2
  p1 = p1
  p2 = p2
  NoNode = NoNode
  NoPod = NoPod
  Node <- MCNode
  Pod <- MCBorrower
  PodNode <- MCBorrowerNode
  IP <- MCOneIP
  InitPool <- MCOneIPPool
  HighWatermark = 0
  FaultKinds = {"api", "db", "timeout", "crash"}
  MaxFaults = 1
PROPERTIES AddAnswered CooldownRecycled SurplusReleased
