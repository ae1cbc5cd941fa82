SPECIFICATION FairCloseSpec
CONSTANTS
  Names = {n1}
  Keys = {k1, k2}
  Sizes = {1}
  Threads = {t1, t2, t3}
  Objs = {o1}
  NoObj = NoObj
  NoCall = NoCall
  MinIdleCoversCalls = TRUE

PROPERTIES
  
  ShutdownCompletes
