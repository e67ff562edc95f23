SPECIFICATION FairSpec
CONSTANTS
    p1 = p1
    p2 = p2
    p3 = p3
    n1 = n1
    n2 = n2
    t1 = t1
    t2 = t2
    m1 = m1
    m2 = m2
    None = None
    Proc = {p1, p2}
    Name = {n1, n2}
    Topic = {}
    Method = {m1, m2}
    NameOf <- SharedName
    Wishes <- Mutual
    Nested <- NestedBoth
    Mortal = {p1}
    Forgettable = {p1}
    MaxLinks = 3
    Capacity = 6
    MaxEvents = 0
    MaxConnections = 1
PROPERTIES
    CallsAreRequests
    
\* Applications may stop calling, and processes may all end.
CHECK_DEADLOCK FALSE
