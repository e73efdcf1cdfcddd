SPECIFICATION Spec
CONSTANTS
  Cfg = "cfg"
  Procs = {"proc"}
  MaxCalls = 3
  MaxQueue = 2
INVARIANTS WakeupDefersIps LinkedHasRadio
PROPERTY IdleSleeps
CHECK_DEADLOCK FALSE
