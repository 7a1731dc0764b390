SPECIFICATION FairSpec
CONSTANTS
  a = a b = b
  u1 = u1 u2 = u2
  NoUni = NoUni NoSubnet = NoSubnet
  SubnetIds <- MCSubnetIds
  Uni = {u1, u2}
  Cpus = {2, 4}
  Strategy = {"sequential", "balanced", "random"}
  MaxAvail = 2
  MaxAdds = 2
  FaultKinds = {"api", "lost", "delete", "kill"}
  MaxFaults = 1
INVARIANTS OneUniPerSubnet WithinLimit UniLeakBound
PROPERTY CallEnds
CHECK_DEADLOCK FALSE
