CONSTANTS
  c1 = c1
  c2 = c2
  c3 = c3
  w1 = w1
  k1 = k1
  k2 = k2
  p1 = p1
  p2 = p2
  Keys = {k1, k2}
  Conns = {c1, w1}
  Warmers = {w1}
  KeyOf <- KeyEach
  Procs = {p1, p2}
  KeyAt <- AtEach
  NumLocks = 2
  None = None
  MaxBackends = 1
  SpawnRetries = 0
  MaxDrains = 1
  MayStop = FALSE
SPECIFICATION FairSpec
INVARIANTS TypeOK
PROPERTIES InUseKept DrainReaped
