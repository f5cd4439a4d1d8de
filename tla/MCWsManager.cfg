SPECIFICATION FairSpec
CONSTANTS
    Users = {u1}
    Conns = {c1, c2}
    NoConn = noconn
    Services = {gs}
    MaxSends = 1
    MaxBroadcasts = 1
    BufCap = 1
INVARIANTS EntriesAlive
PROPERTIES ClosedLeavesMap PumpsEnd
CHECK_DEADLOCK FALSE
