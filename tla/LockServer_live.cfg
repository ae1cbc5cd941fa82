SPECIFICATION FairSpec
CONSTANTS
  Names = {n1}
  Keys = {k1, k2}
  Sizes = {1}
  Sessions = {s1}
  None = None
  NoClearSettings = {TRUE, FALSE}
  Timeouts = {TRUE, FALSE}
  ReuseUnlocked = TRUE
  MaxCrashes = 1
CHECK_DEADLOCK FALSE
PROPERTIES OnlyAskedReleases TimedLocksEnd
