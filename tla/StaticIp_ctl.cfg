SPECIFICATION FairSpec
CONSTANTS
  n1 = n1 n2 = n2
  ip1 = ip1 ip2 = ip2
  None = None
  Nodes = {n1, n2}
  IPs = {ip1, ip2}
  Limit = 2
  FaultKinds = {"list", "ctl", "api", "k8s", "lookup"}
  MaxReplicas = 1
  MaxStart = 2
  MaxScale = 1
  MaxFaults = 1
INVARIANTS Exclusive RunningReachable StaticLeakBound
PROPERTIES KeepsPromise ScaleDownDetaches Reclaimed
CHECK_DEADLOCK FALSE
