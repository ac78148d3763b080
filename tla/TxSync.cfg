SPECIFICATION Spec
CONSTANTS
    t1 = t1
    t2 = t2
    ca = ca
    cb = cb
    None = None
    Tx <- MCTxs
    Chain <- MCChains
    ChainOf <- MCChainOf
    Out <- MCOut
    Failing <- MCFailing
    Probe = 1
    Limit = 1
    MaxTroubles = 2
INVARIANTS
    SyncCovers
    OrderKnown
    
CHECK_DEADLOCK FALSE
