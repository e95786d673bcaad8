SPECIFICATION FairSpec
CONSTANTS
  NSlots = 3
  SyncWords = {w}
  TidWords = {c1, c2}
  Timespecs = {t1}
  RealTimespecs = {t1}
  Base = 5
  Delays = {0, 1}
  MayShare = FALSE
  Horizon = 2
  MaxTid = 4
  None = None
INVARIANT TypeOK
INVARIANT NeverIdlesOverWork
INVARIANT WakesAreAnswered
INVARIANT JoinsAreOwed
INVARIANT TimesOutOnItsDeadline
PROPERTY RunnableGetsItsTurn
PROPERTY TimedWaitsEnd
