CONSTANTS
    Kings = {k1, k2}
    Lings = {l1}
    None = None
    NoState = NoState
    Events = {"stop", "restart", "lose", "break"}
    MaxEvents = 2
SPECIFICATION MCSpec
INVARIANTS TypeOK NoLostTrigger
PROPERTIES ConnectedBecomesTarget DrainEnds Listed
CHECK_DEADLOCK FALSE
