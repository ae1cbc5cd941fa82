SPECIFICATION FairSpec
CONSTANTS
  Ids = {i1, i2}
  Threads = {t1, t2}
  None = None
  Closes = TRUE
INVARIANTS TypeOK ServedInLiveSession EndsOnce SessionsWillEnd
PROPERTIES IdleSessionsEnd RequestsReturn
\* Once the gateway is closed nothing need happen.
CHECK_DEADLOCK FALSE
