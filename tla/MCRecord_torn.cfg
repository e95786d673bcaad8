CONSTANTS
  s1 = s1
  s2 = s2
  p1 = p1
  p2 = p2
  na = na
  nb = nb
  hid = hid
  None = None
  Bad = Bad
  Stores <- OneStore
  Procs <- OneProc
  ProcOf <- Together
  Closers <- NoStores
  Faults = {"torn"}
  MaxInodes = 1
  MaxRecords = 2
  MaxDeaths = 1
SPECIFICATION FileSpec
CHECK_DEADLOCK FALSE
INVARIANT NoInteriorCorruption
