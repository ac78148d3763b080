SPECIFICATION Spec
CONSTANTS
    a = a
    b = b
    d = d
    sw = sw
    popup = popup
    NoCaller = NoCaller
    Caller <- MCCaller
    Frame <- MCFrame
    FrameOf <- MCFrameOf
    MaxEpoch = 2
    MaxDeaths = 1
    AuthMidOpen = FALSE
    StorageMayFail = TRUE
INVARIANTS
    Exclusive
    NoStaleObject
    AckedDurable
    OnlyRelicsReturn
PROPERTIES
    WritesFenced
    RefinesRegister
CHECK_DEADLOCK FALSE
