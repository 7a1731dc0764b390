SPECIFICATION Spec
CONSTANTS
  n1 = n1
  n2 = n2
  p1 = p1
  p2 = p2
  NoNode = NoNode
  NoPod = NoPod
  Node <- MCNode
  Pod <- MCBorrower
  PodNode <- MCBorrowerNode
  IP <- MCIP
  InitPool <- MCInitPool
  HighWatermark = 1
  FaultKinds = {"api", "lost", "db", "timeout", "reply"}
  MaxFaults = 3
INVARIANTS LeakBound
CONSTRAINT NoHazardYet
