CONSTANTS
    Kings = {k1, k2}
    Lings = {l1}
    None = None
    NoState = NoState
    Events = {"restart"}
    MaxEvents = 1
SPECIFICATION FlowingSpec
PROPERTY TrafficReturns
CHECK_DEADLOCK FALSE
