\* One web caller at a time, so that no race between calls is involved;
\* etcd exits promptly on SIGTERM.
CONSTANTS
    Nodes = {n1, n2}
    Threads = {u1}
    NoThread = NoThread
    Pids <- MCPids
    LimitInterval <- MCLimitInterval
    FlagsMayFail = FALSE
    LaunchMayFail = FALSE
    FastShutdown = TRUE
SPECIFICATION Spec
PROPERTY ImplementsLifecycle
