CONSTANTS
  s1 = s1
  s2 = s2
  r1 = r1
  r2 = r2
  Stubs = {s1, s2}
  Calls = {r1, r2}
  CallerOf <- CallEach
  SlowStubs = {}
  Handshake = Handshake
SPECIFICATION Spec
INVARIANT WaiterRejected
CHECK_DEADLOCK FALSE
