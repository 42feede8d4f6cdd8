CONSTANTS
    r1 = r1
    r2 = r2
    r3 = r3
    Run = {r1, r2, r3}
    LockTime = 2
    JobTime = 5
    MaxTime = 8
    None = None
    Socket = {}
    Stranger = {}
    Block = 1
    Saves = 1
SPECIFICATION JobSpec
CHECK_DEADLOCK FALSE
INVARIANTS RunsApart
PROPERTIES StatsForward
