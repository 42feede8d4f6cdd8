CONSTANTS
    h1 = h1
    h2 = h2
    n1 = n1
    n2 = n2
    c1 = c1
    c2 = c2
    c3 = c3
    Openhab = {h1, h2}
    Node = {n1, n2}
    Conn = {c1, c2, c3}
    NoConn = NoConn
    NodeOf <- MCNodeOf
    OpenhabOf <- MCOpenhabOf
    Heartbeat <- MCMixed
    LockTime = 2
    PingDeadline = 1
    Delay = 1
SPECIFICATION Spec
PROPERTIES DeletesOwnLock
