SPECIFICATION Spec
CONSTANTS
    w1 = w1
    w2 = w2
    s1 = s1
    s2 = s2
    p1 = p1
    p2 = p2
    Window <- MCTwoWindows
    Store <- MCOneStore
    Phrase <- MCTwoPhrases
    NonceMod = 2
    MaxGen = 2
    MaxSalt = 2
    MaxCode = 1
    MaxWrites = 1
    MayCrash = FALSE
    SplitsBase = FALSE
    UpgradeMidway = FALSE
    MayReset = TRUE
    ResetMidLogin = TRUE
PROPERTIES
    OnlyRightPhraseOpens
SYMMETRY
    MCAnyWindow
CHECK_DEADLOCK FALSE
