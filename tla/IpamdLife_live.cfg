SPECIFICATION FairSpec
CONSTANTS
  a1 = a1 a2 = a2
  t1 = t1 t2 = t2 t3 = t3 t4 = t4
  None = None
  Addr = {a1, a2}
  Name = {t1, t2, t3, t4}
  FaultKinds = {"db", "crash", "unlink", "listen"}
  MaxFaults = 2
  MaxRestarts = 2
INVARIANTS TypeOK WatchSuffices ServesMigrated
PROPERTIES Registered
CHECK_DEADLOCK FALSE
