SPECIFICATION FairSpec
CONSTANTS
  Names = {n1}
  Keys = {k1, k2}
  Threads = {t1, t2}
  None = None
  MaxRetries = 1
  Scenarios = {{"break"}, {"cancel", "untimed"}, {"close", "untimed"}, {"close", "late"}}
  MaxBreaks = 1
\* A panic of the library ends the program.
CHECK_DEADLOCK FALSE
INVARIANTS TypeOK KeptWhileRenewed PanicsHaveCause OneRenewerPerName
PROPERTIES UnlocksReturn
