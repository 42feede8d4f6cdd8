CONSTANTS
    n1 = n1
    n2 = n2
    c1 = c1
    c2 = c2
    l1 = l1
    l2 = l2
    Node = {n1, n2}
    Conn = {c1, c2}
    NoConn = NoConn
    NodeOf <- MCNodeOf
    Offline = Offline
    Absent = Absent
    Lookup = {l1, l2}
    CacheTime = 2
    Delay = 1
SPECIFICATION Spec
SYMMETRY MCSymmetry
INVARIANTS CacheInv CachesSettle SeesOwnConnection
PROPERTIES ImplementsWhereabouts
