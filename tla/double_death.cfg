SPECIFICATION TimedSpec
CONSTANTS
    c1 = c1
    c2 = c2
    n1 = n1
    n2 = n2
    None = None
    WrongVersion = WrongVersion
    Malformed = Malformed
    Conn = {c1}
    Name = {n1}
    Topic = {}
    Method = {}
    JoinArgs <- OneName
    Requests <- NoRequests
    MaxConnections = 3
    FdLimit = 3
    MaxDead = 4
    MaxUnread = 2
    Second = 10
    LoopSleep = 1
SYMMETRY Symmetry
INVARIANT GoneIsHarmless
\* The model follows the system until the master's process ends.
CHECK_DEADLOCK FALSE
