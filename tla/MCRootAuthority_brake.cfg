SPECIFICATION FreeSpec
CONSTANTS
  owner = owner
  system = system
  alice = alice
  bob = bob
  carol = carol
  k1 = k1
  k2 = k2
  None = None
  Owner = owner
  System = system
  Classes <- HumanOrAi
  Covered <- Everyone
  Keys = {k1, k2}
  HolderOf <- TwoHolders
  Accounts <- Two
  Ops <- WithBrakes
  Targets <- Untargeted
  Ids <- JustAlice
  MaxChecks = 1
  MaxBrakes = 2
PROPERTY ResolveLasts
