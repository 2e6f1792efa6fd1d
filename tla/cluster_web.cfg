\* The web backend on one member: a web caller, by name, and the revive loop.
CONSTANTS
    n1 = n1  n2 = n2  w1 = w1  w2 = w2
    Nodes <- MCOneNode
    Worker <- MCOneWorker
    Threads = {w1, u1, r}
    Users = {u1}
    Reviver = r
    NoThread = NoThread
    UnknownName = UnknownName
    UseBootstrap = FALSE
    Pids <- MCPids
    LimitInterval <- MCLimitInterval
    FlagsMayFail = FALSE
    LaunchMayFail = FALSE
    FastShutdown = TRUE
SPECIFICATION ClusterSpec
PROPERTY ClusterRevives
