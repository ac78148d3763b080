SPECIFICATION FairFeedsSpec
CONSTANTS
    w1 = w1
    w2 = w2
    Waker <- MCWaker
    Chains = 2
    MaxFeeds = 6
    MaxChecks = 2
    MaxTroubles = 1
INVARIANTS
    OneListedPerChain
    Reachable
    WakeHeals
PROPERTIES
    WorkEnds
CHECK_DEADLOCK FALSE
