CONSTANTS
    Nodes = {n1, n2}
    Threads = {u1, u2}
    NoThread = NoThread
    Pids <- MCPids
    LimitInterval <- MCLimitInterval
    FlagsMayFail = FALSE
    LaunchMayFail = FALSE
    FastShutdown = TRUE
SPECIFICATION Spec
INVARIANT AtMostOneRunning
