SPECIFICATION ProcSpec
CONSTANTS
  Names = {n1}
  Keys = {k1}
  Sizes = {1}
  Sessions = {g1, r1}
  RestSessions = {r1}
  None = None
  NoClearSettings = {FALSE}
  Timeouts = {FALSE}
  ReuseUnlocked = FALSE
  MaxCrashes = 0
  MaxStops = 1
  MaxRequests = 2
CHECK_DEADLOCK FALSE
PROPERTIES ShutdownKeepsLocks
