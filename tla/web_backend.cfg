\* One user with two requests in flight, streams of capacity 1, one tick
\* per second, two per hour.
CONSTANTS
    u1 = u1  h1 = h1  h2 = h2
    Users <- MCUsers
    Handlers <- MCHandlers
    UserOf <- MCUserOf
    Cap = 1
    Second = 1
    Hour = 2
    MaxChans = 2
    NoHolder = NoHolder
    NoChan = NoChan
SPECIFICATION WebSpec
INVARIANT LinesReachReader
PROPERTY RequestsReturn
