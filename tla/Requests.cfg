SPECIFICATION FairSpec
CONSTANTS
    r1 = r1
    r2 = r2
    r3 = r3
    t1 = t1
    t2 = t2
    ca = ca
    cb = cb
    x = x
    y = y
    all = all
    None = None
    Request <- MCRequests
    Tab <- MCTabs
    Chain <- MCChains
    Account <- MCAccount
    Slow <- MCSlow
    TabOf <- MCTabOf
    Wants <- MCWants
    MaxLocks = 1
    MaxRetries = 1
INVARIANTS
    AuthOnce
PROPERTIES
    RequestsEnd
CHECK_DEADLOCK FALSE
