CONSTANTS
  j1 = j1
  Jobs = {j1}
  KindsOf <- Recurring
  Features = {"trigger"}
  MaxTime = 1
  MaxEdits = 1
  MaxRuns = 2
  Api = Api
  None = None
SPECIFICATION Spec
INVARIANTS NoOverlap
