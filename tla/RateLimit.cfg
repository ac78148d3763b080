SPECIFICATION FairSpec
CONSTANTS
    c1 = c1
    c2 = c2
    c3 = c3
    c4 = c4
    c5 = c5
    Call <- MCFive
    Capacity = 3
    Concurrency = 1
INVARIANTS
    SlotsCapThePool
PROPERTIES
    NoOvertaking
    EveryCallRuns
CHECK_DEADLOCK FALSE
