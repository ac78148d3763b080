SPECIFICATION FairSpec
CONSTANTS
    r1 = r1
    r2 = r2
    r3 = r3
    r4 = r4
    a = a
    b = b
    c = c
    None = None
    NoIntent = NoIntent
    Request <- MCThree
    Conditional <- MCSecond
    Intent <- MCThreeIntents
    TabEvents = TRUE
    LateQueue = FALSE
    Strands = FALSE
    MayFail = TRUE
INVARIANTS
    BusyShows
    ListenersFollowLane
    OneFlowPerTab
PROPERTIES
    QueuedGetTurn
CHECK_DEADLOCK FALSE
