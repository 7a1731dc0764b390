SPECIFICATION Spec
CONSTANTS
  p1 = p1 p2 = p2 p3 = p3
  n1 = n1 n2 = n2
  i1 = i1 i2 = i2
  NoIP = NoIP NoPod = NoPod
  Pod = {p1, p2, p3}
  PodNetworking = {n1, n2}
  NetOf <- MCNetOf
  Legacy = {p1}
  LegacyIP <- MCLegacyIP
  IP = {i1, i2}
  Cidrs <- MCCidrs
  FaultKinds = {"ipt", "ipset", "k8s", "db", "host", "kill", "reboot", "api", "reconcile"}
  MaxFaults = 1
  MaxEdits = 1
INVARIANTS ReturnsFirst AttachedReady BypassExact
CHECK_DEADLOCK FALSE
