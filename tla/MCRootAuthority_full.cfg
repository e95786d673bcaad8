SPECIFICATION MCSpec
CONSTANTS
  owner = owner
  system = system
  alice = alice
  bob = bob
  carol = carol
  k1 = k1
  k2 = k2
  None = None
  Owner = owner
  System = system
  Classes <- HumanOrAi
  Covered <- AllButBob
  Keys = {k1, k2}
  HolderOf <- RootAndAlice
  Accounts <- Two
  Ops <- OpNames
  Targets <- Reclassed
  Ids <- AliceAndOwner
  MaxChecks = 2
  MaxBrakes = 1
INVARIANT TypeOK
INVARIANT CeremonyIsWhole
PROPERTY KeyedAuthorityStaysKeyed
PROPERTY LawfulTransfer
PROPERTY FoundingRootNeverReturns
