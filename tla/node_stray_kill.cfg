CONSTANTS
    Nodes = {n1, n2}
    Threads = {u1}
    NoThread = NoThread
    Pids <- MCPids
    LimitInterval <- MCLimitInterval
    FlagsMayFail = FALSE
    LaunchMayFail = FALSE
    FastShutdown = TRUE
SPECIFICATION Spec
PROPERTY NoStrayKill
