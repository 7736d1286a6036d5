CONSTANTS
  j1 = j1
  Jobs = {j1}
  KindsOf <- AnyKind
  Features = {"busy"}
  MaxTime = 2
  MaxEdits = 2
  MaxRuns = 2
  Api = Api
  None = None
SPECIFICATION FairSpec
INVARIANTS NoOverlap
PROPERTIES RemovalMade DueFires
