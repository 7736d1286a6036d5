CONSTANTS
  c1 = c1
  c2 = c2
  c3 = c3
  w1 = w1
  k1 = k1
  k2 = k2
  p1 = p1
  p2 = p2
  Keys = {k1}
  Conns = {c1, c2, c3}
  Warmers = {}
  KeyOf <- SharedKey
  Procs = {p1, p2}
  KeyAt <- SharedAt
  NumLocks = 2
  None = None
  MaxBackends = 2
  SpawnRetries = 1
  MaxDrains = 1
  MayStop = TRUE
SPECIFICATION Spec
SYMMETRY SharedSymmetry
INVARIANTS NoLostBackend ReservedMatches NoStaleActive
PROPERTIES InUseKept
