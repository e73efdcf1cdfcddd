SPECIFICATION FairSpec
CONSTANTS
  MaxRoam = 1
  RoamMod = 3
  Limit = 1
  MaxCalls = 2
  MaxLoss = 0
  MaxInputs = 2
PROPERTY CancelEnds
CHECK_DEADLOCK FALSE
