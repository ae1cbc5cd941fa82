SPECIFICATION FairProcSpec
CONSTANTS
  Names = {n1}
  Keys = {k1, k2}
  Sizes = {1}
  Sessions = {g1, r1}
  RestSessions = {r1}
  None = None
  NoClearSettings = {FALSE}
  Timeouts = {TRUE}
  ReuseUnlocked = FALSE
  MaxCrashes = 1
  MaxStops = 1
  MaxRequests = 2
CHECK_DEADLOCK FALSE
INVARIANTS ProcTypeOK  CleanStop
PROPERTIES  StopEnds
