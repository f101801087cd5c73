\* Two connections against each of the listeners with room for one record in the channel and
\* one line in the appender, and a TCP collector that may do anything; four doctor requests.
\* A process that was refused, or has no traffic, does nothing.
CHECK_DEADLOCK FALSE
SPECIFICATION FairNodeSpec
CONSTANTS
    Commands <- MCCommands
    Presented <- MCPresented
    Requests <- MCRequests
    Worlds <- MCWorlds
    Conns = {c1, c2}
    Rows <- Order
    LogCap = 1
    AppendCap = 1
    Protocol = "tcp"
    ChanCap = 1
    Bytes = {0, 1}
    MinQuicMtu = 1200
    MaxQuicMtu = 1500
    MaxHops = 64
    DefaultStreams = 256
INVARIANTS
    Admitted
    LogAccounts
PROPERTIES
    LogDrains
    DoctorAnswered
