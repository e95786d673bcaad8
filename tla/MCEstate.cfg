CONSTANTS
  None = None
  Objects = {"o", "q"}
  Values = {"v", "w"}
  Budget = 1
  Claims = {}
  MaxRec = 6
  fa = fa
  fb = fb
  lk = lk
  file = file
SPECIFICATION MCSpec
INVARIANT RowsMeanTheRecord
INVARIANT RowsMeanWhatTheySay
INVARIANT StandingIsDerived
INVARIANT AnswersAreFresh
INVARIANT CrossingsAreGrounded
INVARIANT BoardIsItsLog
INVARIANT ViewsAreTheRecord
INVARIANT BodyKeepsItsOwn
INVARIANT BootIsHonest
CHECK_DEADLOCK FALSE
PROPERTY SettledStaysSettled
