SPECIFICATION Spec
CONSTANTS
    Configs <- MCConfigs
    Datagrams <- MCDatagrams
    HostPackets <- MCHostPackets
    Dialled <- MCDialled
    ChannelDepth = 1
    MinMtu = 2
    MaxMtu = 3
    Flows = {1, 2}
    Backlog = 1
    MaxListen = 2
    AcceptDepth = 1
    SockBuf = 1
    ConnCap = 1
    MaxWritten = 2
    MaxSegments = 5
INVARIANTS
    EndpointVouched
    RelayedRight
    SynFindsListener
    StreamIntact
CHECK_DEADLOCK FALSE
