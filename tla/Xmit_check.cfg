SPECIFICATION FairSpec
CONSTANTS
    b1 = b1  b2 = b2  be = be  s1 = s1
    Pkt = {b1, b2}
    Queue = {be}
    Sta = {s1}
    BE = be
    PktQueue <- MCPktQueue
    PktSta <- MCPktSta
    Rank <- MCRank
    UapsdChoices <- MCUapsd
    NrXmitFrame = 2
    FrameLow = 1
    wifi_spec = FALSE
    WmmThreshold = 1
    NrXmitBuf = 1
    LenMod = 3
    None = None
INVARIANTS
    TypeOK FramesAccounted BufsAccounted StoppedHasPacket KickPending
    SleepqHasSleeper NotPolledCounted NotPolledTold
PROPERTIES
    ImplementsContract PacketReturned
CHECK_DEADLOCK FALSE
