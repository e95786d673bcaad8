CONSTANTS
  Bodies = {"chip", "estate"}
  Damages = {"views"}
  Deeds = {"root-key", "anchor", "system-revoke"}
  MaxRec = 6
  MaxDamage = 1
  None = None
SPECIFICATION Spec
INVARIANT EveryBoundRecordIsMarked
CHECK_DEADLOCK FALSE
