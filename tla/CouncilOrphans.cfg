CONSTANTS
    ka = ka  kb = kb  la = la  lb = lb
    ta = ta  tb = tb  tb2 = tb2  s1 = s1  s2 = s2
    Nobody = Nobody  NoNode = NoNode  NoTunnel = NoTunnel
    Handler = {h1, h2}
    KingNode = {ka, kb}
    LingNode = {la}
    Tunnel = {ta, tb}
    Name = {s1}
    KingTunnels <- MCKingTunnels
    LingTunnels <- MCLingTunnels
    Addr <- MCAddr
    Key <- MCKey
    Ports <- MCPorts
    Location <- MCLocation
    Preferred <- NearY
    Certs = {c}
    Downs = {TRUE, FALSE}
    Capacity <- MCCapacity
    StaleAfter = 1
    MaxArrays = 3
    MaxRequests = 4
    MaxReady = 1
    MaxClock = 2
SPECIFICATION Spec
PROPERTY OrphansLeaveWithKing
