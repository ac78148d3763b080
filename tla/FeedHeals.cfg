SPECIFICATION FairSpec
CONSTANTS
    blocks = blocks
    alice = alice
    bob = bob
    None = None
    Sub <- MCThree
    PerClient = 1
    MaxSockets = 3
    MaxId = 5
    MaxLosses = 1
    MaxPings = 1
    MaxInbox = 2
    LateCalls = FALSE
    Rejected <- MCOne
INVARIANTS
    RightReceiver
PROPERTIES
    KeepsFollowing
    CallsEnd
CHECK_DEADLOCK FALSE
