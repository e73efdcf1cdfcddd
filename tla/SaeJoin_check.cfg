SPECIFICATION FairSaeSpec
CONSTANTS
  MaxRoam = 1
  RoamMod = 3
  Limit = 1
  MaxCalls = 3
  MaxLoss = 1
  MaxInputs = 3
  MaxAsks = 2
  MaxEvents = 3
INVARIANTS TypeOK LinkingHasTimer ReportedIsLinked RoamWithinLimit
           SaeTypeOK LinkedIsReported ConnectedOnPurpose
PROPERTY ConnectAnswered
CHECK_DEADLOCK FALSE
