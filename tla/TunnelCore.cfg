CONSTANTS
    Service = {s1}
    Port = {p1}
    Free = Free
    Conn = {c1, c2, c3}
    NoConn = NoConn
    Goroutine = {poll, ws}
    MaxChanges = 2
    MaxBreaks = 1
    MaxRefusals = 1
    MaxExits = 1
SPECIFICATION Spec
SYMMETRY Names
INVARIANTS TypeOK NoLostDrain ConnectionWatched
PROPERTY NeverDropsLive
CHECK_DEADLOCK FALSE
