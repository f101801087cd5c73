\* Two clients of one lease, two flow ids, two loopback addresses that are
\* reused, two sessions, one flow at a time on either side and one registration;
\* or two TCP connections with one permit and one registration.  A connector that is out of sessions stops.
CHECK_DEADLOCK FALSE
SPECIFICATION FairDataSpec
CONSTANTS
    Client = {"c1", "c2"}
    Lease = {"l1"}
    LeaseOf <- OneLease
    Source = {"s1", "s2"}
    None = None
    MaxFlow = 2
    MaxRelayFlows = 1
    MaxLocalFlows = 1
    MaxMetadata = 1
    MaxFlight = 1
    MaxSessions = 2
    Public = {"p1", "p2"}
    TcpLeaseOf <- TcpLease
    Stranger = "stranger"
    MaxTcp = 1
    MaxPending = 1
INVARIANTS
    DataSound
    ClientsTold
PROPERTIES
    DataSettles
