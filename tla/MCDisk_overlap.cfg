CONSTANTS
  None = None
  Names = {a, b, k}
  Locks = {k}
  Slots = 4
  PerDir = 2
  Total = 7
  PerSector = 2
  Lengths = {1, 2}
  FixedRecord = rec
  RecCap = 1
  MaxActs = 4
  MaxCrashes = 1
  MaxUnheeded = 0
SPECIFICATION Spec
INVARIANT BytesAreKept
CHECK_DEADLOCK FALSE
