\* Shutdown: Terminate returns once SIGTERM is sent, then Clean runs.
CONSTANTS
    n1 = n1  n2 = n2  w1 = w1  w2 = w2
    Nodes <- MCNodes
    Worker <- MCWorker
    Threads = {w1, w2}
    Users = {}
    Reviver = NoThread
    NoThread = NoThread
    UnknownName = UnknownName
    UseBootstrap = TRUE
    Pids <- MCPids
    LimitInterval <- MCLimitInterval
    FlagsMayFail = FALSE
    LaunchMayFail = FALSE
    FastShutdown = TRUE
SPECIFICATION ClusterSpec
PROPERTY CleanOnlyDeadData
