CONSTANTS
    Watcher = {w}
    Poller = {w}
    Caster = {k1}
    Conn = {c1}
    NoConn = NoConn
    Nobody = Nobody
    MaxRevision = 2
    MaxBreaks = 1
    MaxFails = 1
    MaxExits = 0
SPECIFICATION PollSpec
PROPERTIES CatchesUp FeedKept
