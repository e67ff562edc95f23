SPECIFICATION EndedForgottenSpec
CONSTANTS
    p1 = p1
    p2 = p2
    p3 = p3
    n1 = n1
    n2 = n2
    t1 = t1
    t2 = t2
    m1 = m1
    m2 = m2
    None = None
    Proc = {p1, p2, p3}
    Name = {n1, n2}
    Topic = {t1}
    Method = {}
    NameOf <- SharedName
    Wishes <- OwnSubscriber
    Nested <- NotNested
    Mortal = {p2}
    Forgettable = {p2}
    MaxLinks = 2
    Capacity = 6
    MaxEvents = 2
    MaxConnections = 1
INVARIANTS
    TypeOK
    PolledLinksWhole
PROPERTIES
    LiveStayListed
    DeliversEvents
\* Applications may stop calling, and processes may all end.
CHECK_DEADLOCK FALSE
