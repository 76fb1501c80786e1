CONSTANTS
    Watcher = {w}
    Poller = {}
    Caster = {k1, k2}
    Conn = {c1, c2}
    NoConn = NoConn
    Nobody = Nobody
    MaxRevision = 2
    MaxBreaks = 1
    MaxFails = 0
    MaxExits = 1
SPECIFICATION FairSpec
INVARIANTS TypeOK NoGhostClients NoLostWakeup
PROPERTY WakesUp
CHECK_DEADLOCK FALSE
