\* Does a call without a name go to an active member when there is one?
CONSTANTS
    n1 = n1  n2 = n2
    Nodes <- MCNodes
    Watchers <- MCWatchers
    Unnamed = Unnamed
    UnknownName = UnknownName
    NoNode = NoNode
SPECIFICATION KVSpec
PROPERTY UnnamedReachesActive
