\* One association id, one uni-stream beside the datagram loop, one hot swap; fair.
\* Connections that are over have nothing left to do.
CHECK_DEADLOCK FALSE
SPECIFICATION FairSpec
CONSTANTS
    User = {"u"}
    Host = {"x", "y"}
    AssocId = {"a1"}
    Uni = {"s1"}
    Relay = {r1, r2, r3}
    Hop = {"h1", "h2"}
    Policy <- Swapped
    None = None
    MaxSwaps = 1
    MaxPackets = 3
INVARIANTS
    TableSound
    PerPacketPolicy
PROPERTIES
    Released
