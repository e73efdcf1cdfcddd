SPECIFICATION FairSpec
CONSTANTS
  SN = 16
  WSIZE = 2
  NR_RECVFRAME = 4
  FrameKinds = {"msdu", "amsdu"}
  FirstSeq = 14
  LastSeq = 17
  MaxCtrl = 2
INVARIANTS TypeOK HeldFrameHasTimer FramesAccounted BufferWithinWindow InOrderWithinSession
PROPERTIES NewestAcceptedInSession HeldFrameLeaves RecvReturns
CHECK_DEADLOCK FALSE
