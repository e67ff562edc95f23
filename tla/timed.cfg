SPECIFICATION TimedSpec
CONSTANTS
    c1 = c1
    c2 = c2
    n1 = n1
    n2 = n2
    None = None
    WrongVersion = WrongVersion
    Malformed = Malformed
    Conn = {c1, c2}
    Name = {n1, n2}
    Topic = {}
    Method = {}
    JoinArgs <- TwoNames
    Requests <- NoRequests
    MaxConnections = 3
    FdLimit = 3
    MaxDead = 4
    MaxUnread = 2
    Second = 6
    LoopSleep = 1
SYMMETRY Symmetry
INVARIANTS
    KeptAlive
    QueuedInTime
    DeclaredInTime
    RemovedInTime
\* The model follows the system until the master's process ends.
CHECK_DEADLOCK FALSE
