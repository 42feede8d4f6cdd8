CONSTANTS
    h1 = h1
    n1 = n1
    n2 = n2
    c1 = c1
    c2 = c2
    Openhab = {h1}
    Node = {n1, n2}
    Conn = {c1, c2}
    NoConn = NoConn
    NodeOf <- MCNodeOf
    OpenhabOf <- MCOpenhabOf
    Heartbeat <- MCHeartbeat
    LockTime = 2
    PingDeadline = 3
    Delay = 3
SPECIFICATION FairSpec
PROPERTIES SplitBrainHeals LeakedLockExpires
