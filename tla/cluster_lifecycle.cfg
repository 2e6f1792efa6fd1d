\* The etcd-play command: Bootstrap, SIGINT, Shutdown; no web callers.
\* A launch may fail, and Flags() may fail and leave pmu locked, so that
\* Bootstrap meets a failed Start while another Start blocks for good.
CONSTANTS
    n1 = n1  n2 = n2  w1 = w1  w2 = w2
    Nodes <- MCNodes
    Worker <- MCWorker
    Threads = {w1, w2}
    Users = {}
    Reviver = NoThread
    NoThread = NoThread
    UnknownName = UnknownName
    UseBootstrap = TRUE
    Pids <- MCPids
    LimitInterval <- MCLimitInterval
    FlagsMayFail = TRUE
    LaunchMayFail = TRUE
    FastShutdown = TRUE
SPECIFICATION ClusterSpec
INVARIANT ClusterTypeOK
INVARIANT BootstrapStartsAll
PROPERTY ShutdownStopsAll
PROPERTY BootstrapFailsFast
