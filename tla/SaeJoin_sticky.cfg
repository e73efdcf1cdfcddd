SPECIFICATION SaeSpec
CONSTANTS
  MaxRoam = 1
  RoamMod = 3
  Limit = 1
  MaxCalls = 3
  MaxLoss = 0
  MaxInputs = 3
  MaxAsks = 1
  MaxEvents = 4
INVARIANT OnlySaeAsks
CHECK_DEADLOCK FALSE
