CONSTANTS
  s1 = s1
  s2 = s2
  r1 = r1
  r2 = r2
  Stubs = {s1, s2}
  Calls = {r1, r2}
  CallerOf <- CallEach
  SlowStubs = {s1}
  Handshake = Handshake
SPECIFICATION FairSpec
INVARIANTS TypeOK OneHandshake GoneIsFinal PendingOwned CallNotLost
PROPERTIES  CallEnds
CHECK_DEADLOCK FALSE
