SPECIFICATION Spec
CONSTANTS
  k1 = k1
  k2 = k2
  c1 = c1
  c2 = c2
  c3 = c3
  p1 = p1
  p2 = p2
  p3 = p3
  None = None
  Keys = {k1, k2}
  Alias <- NoAliases
  TaskKeys = {k2}
  Callers = {c1, c2}
  Gated = {c1}
  Unguarded = {c2}
  Provs = {p1, p2}
  Faults = {"force", "crash", "cancel", "close", "startfail"}
  MaxRetries = 1
  MaxPermits = 2
CHECK_DEADLOCK FALSE
INVARIANTS TypeOK  RegisteredNotReaped DrainCoversGated
SYMMETRY ProvSymmetry
