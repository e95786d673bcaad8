CONSTANTS
  s1 = s1
  s2 = s2
  p1 = p1
  p2 = p2
  na = na
  nb = nb
  hid = hid
  None = None
  Bad = Bad
  Stores <- TwoStores
  Procs <- OneProc
  ProcOf <- Together
  Closers <- TwoStores
  Faults = {"torn", "failed", "power"}
  MaxInodes = 2
  MaxRecords = 2
  MaxDeaths = 2
SPECIFICATION MCSpec
SYMMETRY AnyName
INVARIANT WriterHoldsTheRecord
INVARIANT EveryNameIsAnswered
INVARIANT KeptInTrust
INVARIANT PortsServeTheRecord
PROPERTY AcceptedBytesStay
CHECK_DEADLOCK FALSE
