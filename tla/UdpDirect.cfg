\* A host that goes through a hop and one that goes directly.
CHECK_DEADLOCK FALSE
SPECIFICATION Spec
CONSTANTS
    User = {"u"}
    Host = {"x", "y"}
    AssocId = {"a1"}
    Uni = {"s1"}
    Relay = {r1, r2}
    Hop = {"h1", "h2"}
    Policy <- Mixed
    None = None
    MaxSwaps = 0
    MaxPackets = 2
INVARIANTS
    OnlyReverseCarriesUdp
