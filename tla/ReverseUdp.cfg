\* Two associations, one table slot, one contacted address; ids do not wrap.
\* A connection that is closed and cleaned up has nothing left to do.
CHECK_DEADLOCK FALSE
SPECIFICATION FairSpec
CONSTANTS
    MaxAssoc = 2
    Host = {"a", "b"}
    Addr = {1, 2}
    Resolve <- TwoAddresses
    IdSpace = 4
    MaxSessions = 1
    MaxContacted = 1
    QueueCap = 1
    MaxPackets = 2
    MaxFlight = 1
INVARIANTS
    AssociationsSound
PROPERTIES
    Reclaimed
