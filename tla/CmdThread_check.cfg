SPECIFICATION FairSpec
CONSTANTS
  c1 = c1
  c2 = c2
  Cmds <- MCCmds
  WaitCmds <- MCWait
  NoIoCmds <- MCNoIo
  NoCmd = NoCmd
  MaxOpen = 2
INVARIANTS TypeOK CompletesLiveWaiter WaiterFindsObject StopWaitsForThread
PROPERTIES StopReturns QueuedCmdTaken
CHECK_DEADLOCK FALSE
