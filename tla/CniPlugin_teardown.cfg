SPECIFICATION FairSpec
CONSTANTS
  p1 = p1 p2 = p2
  s1 = s1 s2 = s2
  i1 = i1 i2 = i2
  NoIP = NoIP NoSandbox = NoSandbox
  Pod = {p1, p2}
  Sandbox = {s1, s2}
  PodOf <- MCPodOf
  NatPod = {p1}
  IP = {i1}
  InitPool = {i1}
  FaultKinds = {"api", "lost", "db", "host", "kill"}
  MaxFaults = 2
PROPERTY TeardownEnds
CHECK_DEADLOCK FALSE
