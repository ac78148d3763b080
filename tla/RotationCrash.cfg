SPECIFICATION Spec
CONSTANTS
    w1 = w1
    w2 = w2
    s1 = s1
    s2 = s2
    p1 = p1
    p2 = p2
    Window <- MCOneWindow
    Store <- MCTwoStores
    Phrase <- MCTwoPhrases
    NonceMod = 3
    MaxGen = 2
    MaxSalt = 2
    MaxCode = 2
    MaxWrites = 3
    MayCrash = TRUE
    SplitsBase = FALSE
    UpgradeMidway = FALSE
    MayReset = TRUE
    ResetMidLogin = FALSE
INVARIANTS
    Recoverable
    NothingOrphaned
    UnlockedReads
    RecryptKeepsData
    ResetIsFinal
PROPERTIES
    RightPhraseAccepted
    RecryptNeverAborts
CHECK_DEADLOCK FALSE
