SPECIFICATION Spec
CONSTANTS
  n1 = n1 n2 = n2
  ip1 = ip1 ip2 = ip2
  None = None
  Nodes = {n1, n2}
  IPs = {ip1, ip2}
  Limit = 2
  FaultKinds = {"api", "reject", "ambiguous", "conflict", "annotate", "lookup", "lostdelete", "crash", "k8s", "list", "force", "ctl"}
  MaxReplicas = 2
  MaxStart = 3
  MaxScale = 0
  MaxFaults = 1
INVARIANTS TypeOK Exclusive
SYMMETRY Symmetry
CHECK_DEADLOCK FALSE
