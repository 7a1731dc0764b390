SPECIFICATION Spec
CONSTANTS
  p1 = p1 p2 = p2
  s1 = s1 s2 = s2 s3 = s3
  u1 = u1 u2 = u2
  a1 = a1 a2 = a2
  Master = Master
  None = None
  Pod = {p1, p2}
  Sandbox = {s1, s2, s3}
  Uni = {u1, u2}
  Addr = {a1, a2}
  PodOf <- MCPodOf
  NicOf <- MCNicOf
  PortMaps <- MCPortMaps
  Multiport = 1
  FaultKinds = {"netlink", "link", "assign", "host", "release", "db", "lookup", "iptables", "kill", "gc", "reboot"}
  MaxFaults = 1
INVARIANTS TypeOK Delivers UniReady PodRouted LeftoverBound
PROPERTIES NoCapture
SYMMETRY Symmetry
CHECK_DEADLOCK FALSE
