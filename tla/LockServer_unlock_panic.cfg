SPECIFICATION Spec
CONSTANTS
  Names = {n1}
  Keys = {k1}
  Sizes = {1}
  Sessions = {s1, s2}
  None = None
  NoClearSettings = {FALSE}
  Timeouts = {TRUE, FALSE}
  ReuseUnlocked = FALSE
  MaxCrashes = 0
CHECK_DEADLOCK FALSE
INVARIANTS NoHandlerPanic
