SPECIFICATION MCSpec
CONSTANTS
  alice = alice
  bob = bob
  clerk = clerk
  doc = doc
  mother = mother
  a = a
  b = b
  open = open
  g1 = g1
  g2 = g2
  Root = root
  Everyone = Everyone
  AnyOther = AnyOther
  None = None
  Accounts = {alice, bob}
  RoleIds = {clerk}
  SpaceIds = {mother, a, b}
  Mother = mother
  GrantIds = {open, g1}
  Openness = open
  Actions <- ActionNames
  Infos <- InfoNames
  Covers <- Proposals
  Grantees = {alice, bob, clerk, Everyone}
SYMMETRY Interchangeable
INVARIANT TypeOK
INVARIANT EveryChainEndsAtMother
INVARIANT PowerDescends
INVARIANT SweepIsExact
INVARIANT LawIsWhatIsRecorded
INVARIANT DoorIsSound
CHECK_DEADLOCK FALSE
