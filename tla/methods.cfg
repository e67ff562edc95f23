SPECIFICATION Spec
CONSTANTS
    c1 = c1
    c2 = c2
    n1 = n1
    n2 = n2
    t1 = t1
    m1 = m1
    None = None
    WrongVersion = WrongVersion
    Malformed = Malformed
    Conn = {c1, c2}
    Name = {n1, n2}
    Topic = {}
    Method = {m1}
    JoinArgs <- AnyJoiner
    Requests <- MethodRequests
    MaxConnections = 2
    FdLimit = 2
    MaxDead = 2
    MaxUnread = 0
SYMMETRY PairSymmetry
INVARIANTS
    RegistryInvariant
    ClientsAgree
PROPERTIES
    AnswersAreFresh
    ImplementsDirectory
\* The model follows the system until the master's process ends.
CHECK_DEADLOCK FALSE
