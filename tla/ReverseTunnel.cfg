\* Two edges, one of each policy, share a hop with one global permit; fair.
SPECIFICATION FairSpec
CONSTANTS
    e1 = e1
    e2 = e2
    Edge = {e1, e2}
    Conn = {c1, c2}
    Stream = {s1, s2}
    None = None
    Duplicate <- Mixed
    EdgeCap = 1
    PerEdge = 1
    Global = 1
    MaxLost = 1
INVARIANTS
    SessionsSound
PROPERTIES
    Reregistered
    HopLetsGo
