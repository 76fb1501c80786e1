CONSTANTS
    Service = {s1, s2}
    Port = {p1, p2}
    Free = Free
    Conn = {c1, c2}
    NoConn = NoConn
    Goroutine = {poll}
    MaxChanges = 2
    MaxBreaks = 0
    MaxRefusals = 0
    MaxExits = 1
SPECIFICATION FairSpec
INVARIANT NoGhostConnections
PROPERTIES HandshakeEnds Settles
CHECK_DEADLOCK FALSE
