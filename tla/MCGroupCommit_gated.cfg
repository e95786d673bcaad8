CONSTANTS
  t1 = t1
  t2 = t2
  t3 = t3
  None = None
  Threads <- ThreeThreads
  Direct <- NoThreads
  Width = 2
  Audited = {FALSE}
  Faults = {"barrier", "echo"}
  MaxActs = 1
  MaxPubs = 1
  MaxCrashes = 1
SPECIFICATION MCSpec
INVARIANT TypeOK
INVARIANT ReplyImpliesDurable
INVARIANT AckedActIsWhole
INVARIANT DecidesAreSerial
PROPERTY CallersAreServed
PROPERTY ImplementsRecordLog
PROPERTY RipeIsFired
