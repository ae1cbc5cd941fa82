SPECIFICATION Spec
CONSTANTS
  Names = {n1}
  Keys = {k1, k2, k3}
  Sizes = {1}
  Threads = {t1, t2, t3}
  Objs = {o1, o2}
  NoObj = NoObj
  NoCall = NoCall
  MinIdleCoversCalls = FALSE
SYMMETRY Symmetry
INVARIANTS
  TokensMatchKeys
  NoLostWakeUp
\* A panic ends the process.
CHECK_DEADLOCK FALSE
