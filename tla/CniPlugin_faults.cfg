SPECIFICATION Spec
CONSTANTS
  p1 = p1 p2 = p2
  s1 = s1 s2 = s2
  i1 = i1 i2 = i2
  NoIP = NoIP NoSandbox = NoSandbox
  Pod = {p1, p2}
  Sandbox = {s1, s2}
  PodOf <- MCPodOf
  NatPod = {p1}
  IP = {i1, i2}
  InitPool = {i1}
  FaultKinds = {"api", "lost", "db", "host", "ipset", "kill", "force", "redel"}
  MaxFaults = 2
INVARIANTS TypeOK UniqueUse RecordKept LeakBound NatMatches
CONSTRAINT NoHazardYet
CHECK_DEADLOCK FALSE
