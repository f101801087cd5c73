\* Two connections of one user, all four frontends, two hot swaps, a chain that
\* exceeds its time; fair.  A stopped node has nothing left to do.
CHECK_DEADLOCK FALSE
SPECIFICATION FairSpec
CONSTANTS
    Conn = {"c1", "c2"}
    Protocol <- Mixed
    User = {"u"}
    Host = {"ip", "name"}
    Target <- Targets
    AddressBits = 2
    Origin = {"name"}
    Identity = "u"
    Upstream = {"p1", "p2", "p3"}
    Snapshot <- Published
    None = None
    AttemptTimeout = 2
    TotalTimeout = 3
INVARIANTS
    Balanced
    EgressByDecision
PROPERTIES
    ChainSettles
    Drained
