\* One handler calling Put, Get, Delete, WatchPut and Leader by any name
\* while the members go up and down.
CONSTANTS
    n1 = n1  n2 = n2
    Nodes <- MCNodes
    Watchers <- MCWatchers
    Unnamed = Unnamed
    UnknownName = UnknownName
    NoNode = NoNode
SPECIFICATION KVSpec
INVARIANT WatchPutQuiesces
PROPERTY CallsReturn
