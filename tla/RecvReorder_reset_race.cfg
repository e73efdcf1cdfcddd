SPECIFICATION Spec
CONSTANTS
  SN = 16
  WSIZE = 3
  NR_RECVFRAME = 4
  FrameKinds = {"msdu"}
  FirstSeq = 14
  LastSeq = 18
  MaxCtrl = 2
PROPERTY NewestAccepted
CHECK_DEADLOCK FALSE
