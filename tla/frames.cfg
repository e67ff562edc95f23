SPECIFICATION FairSpec
CONSTANTS
    c1 = c1
    c2 = c2
    n1 = n1
    n2 = n2
    t1 = t1
    m1 = m1
    None = None
    WrongVersion = WrongVersion
    Malformed = Malformed
    Conn = {c1}
    Name = {n1}
    Topic = {t1}
    Method = {}
    JoinArgs <- OneName
    Requests <- EventRequests
    MaxConnections = 2
    FdLimit = 2
    MaxDead = 2
    MaxUnread = 2
INVARIANTS
    TypeOK
    OneAnswerPerCall
    NoReadFailsMidFrame
PROPERTIES
    CallsEnd
    LeaversAreForgotten
\* The model follows the system until the master's process ends.
CHECK_DEADLOCK FALSE
