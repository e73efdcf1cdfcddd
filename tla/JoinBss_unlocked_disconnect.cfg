SPECIFICATION Spec
CONSTANTS
  MaxRoam = 1
  RoamMod = 3
  Limit = 1
  MaxCalls = 2
  MaxLoss = 1
  MaxInputs = 3
INVARIANT ReportedIsTrue
CHECK_DEADLOCK FALSE
