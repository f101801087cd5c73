\* Two nodes, one that can be served and one that is refused, two connections at a
\* time, one fault; fair.  A node that serves and has no timer running waits.
CHECK_DEADLOCK FALSE
SPECIFICATION FairSpec
CONSTANTS
    n1 = n1
    n2 = n2
    Node = {n1, n2}
    Sid = {s1, s2}
    None = None
    Port = {1, 2, 3}
    Targets <- Configured
    Grant <- Granted
    MaxLeases <- Uneven
    Grace = 2
    ReconnectMin = 1
    ReconnectMax = 2
    MaxFaults = 1
INVARIANTS
    LeasesSound
PROPERTIES
    PortRestored
    Restored
