SPECIFICATION FairSpec
CONSTANTS
    a = a
    b = b
    d = d
    sw = sw
    popup = popup
    NoCaller = NoCaller
    Caller <- MCPair
    Frame <- MCFrame
    FrameOf <- MCPairFrames
    MaxEpoch = 2
    MaxDeaths = 1
    AuthMidOpen = FALSE
    StorageMayFail = FALSE
PROPERTIES
    LockFreed
    WaitEnds
CHECK_DEADLOCK FALSE
