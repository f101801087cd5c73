\* Two commands, two connections, a broker that comes and goes; fair.
\* A node without traffic and commands waits.
CHECK_DEADLOCK FALSE
SPECIFICATION FairChannelSpec
CONSTANTS
    c1 = c1
    c2 = c2
    Conns = {c1, c2}
    Commands <- Script
    Candidates <- Ends
    MaxSessions = 2
    MaxSessionsPerUser = 1
    DefaultTtl = 1
    MaxTtl = 1
    ProbeDefaultTtl = 1
    ProbeMaxTtl = 1
    DiagCap = 1
    TraceCap = 1
    RequestCap = 2
    ThrottleSecs = 1
    MaxCommands = 2
    MaxTime = 1
INVARIANTS
    SummaryExact
    ProbeOnce
PROPERTIES
    HeldOnlyWhenStuck
    SessionEnds
