CONSTANTS
    Window = 1
    quicStreamOpenRetries = 3
    MaxRequest = 2
    MaxResponse = 2
    MaxChanges = 2
SPECIFICATION FairSpec
INVARIANTS TypeOK NoTruncation
PROPERTIES ResponseDelivered Released LingReleased Answered
CHECK_DEADLOCK FALSE
