SPECIFICATION Spec
CONSTANTS
  Names = {n1}
  Keys = {k1, k2, k3}
  Sizes <- SizesRequested
  Threads = {t1, t2, t3}
  Objs = {o1, o2}
  NoObj = NoObj
  NoCall = NoCall
  MinIdleCoversCalls = TRUE
SYMMETRY Symmetry
INVARIANTS
  TypeOK
  IndInv
  TokensMatchKeys
  NoLostWakeUp
  MutualExclusion
  NoPanic
PROPERTIES
  UnlockFindsHeldLock
  ShutdownIsFinal
  ImplementsLockService
