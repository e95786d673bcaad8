CONSTANTS
  s1 = s1
  s2 = s2
  p1 = p1
  p2 = p2
  na = na
  nb = nb
  hid = hid
  None = None
  Bad = Bad
  Stores <- TwoStores
  Procs <- TwoProcs
  ProcOf <- Apart
  Closers <- TwoStores
  Faults = {}
  MaxInodes = 2
  MaxRecords = 1
  MaxDeaths = 0
SPECIFICATION FileSpec
CHECK_DEADLOCK FALSE
INVARIANT OneWriter
