SPECIFICATION Spec
CONSTANTS
  p1 = p1
  p2 = p2
  p3 = p3
  c1 = c1
  c2 = c2
  None = None
  Procs = {p1, p2, p3}
  Callers = {c1}
  PoolSize = 2
  StartSlots = 2
  MaxTasks = 1
  ModelSwitch = FALSE
  SlowStart = FALSE
  Faults = {"die", "startfail", "cancel", "reload", "drain"}
INVARIANTS TypeOK KillsOrphansOnly OneOwner PoolBounded NoStaleSpare
SYMMETRY PoolSymmetry
