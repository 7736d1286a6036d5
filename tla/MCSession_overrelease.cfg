SPECIFICATION Spec
CONSTANTS
  k1 = k1
  k2 = k2
  c1 = c1
  c2 = c2
  c3 = c3
  p1 = p1
  p2 = p2
  p3 = p3
  None = None
  Keys = {k1}
  Alias <- NoAliases
  TaskKeys = {}
  Callers = {c1, c2}
  Gated = {}
  Unguarded = {}
  Provs = {p1, p2}
  Faults = {"force"}
  MaxRetries = 1
  MaxPermits = 2
CHECK_DEADLOCK TRUE
INVARIANT TurnMutex
