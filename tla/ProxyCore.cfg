CONSTANTS
    t1 = t1  t2 = t2
    Client = {a, b}
    Target = {t1, t2}
    Lists <- MCLists
    DialMaxRetries = 2
    MaxUpdates = 2
    MaxFails = 1
SPECIFICATION FairSpec
INVARIANTS TypeOK NoWaitWithTargets
PROPERTIES ConnectionsKept Released
CHECK_DEADLOCK FALSE
