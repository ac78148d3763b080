SPECIFICATION Spec
CONSTANTS
    w1 = w1
    w2 = w2
    s1 = s1
    s2 = s2
    p1 = p1
    p2 = p2
    Window <- MCOneWindow
    Store <- MCOneStore
    Phrase <- MCOnePhrase
    NonceMod = 3
    MaxGen = 1
    MaxSalt = 1
    MaxCode = 2
    MaxWrites = 1
    MayCrash = TRUE
    SplitsBase = TRUE
    UpgradeMidway = FALSE
    MayReset = FALSE
    ResetMidLogin = FALSE
PROPERTIES
    RightPhraseAccepted
CHECK_DEADLOCK FALSE
