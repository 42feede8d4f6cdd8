CONSTANTS
    None = None
    User = {u1, u2}
    Openhab = {"h1", "h2"}
    Home <- MCHome
    Device = {d1}
    Reg = {g1, g2}
    Request = {r1, r2, r3}
    Path = {p1}
    Uuid = {i1, i2}
    Serving = {c1, c2}
    Ttl = 3
    Delay = 1
SYMMETRY Alike
SPECIFICATION AllSpec
INVARIANTS PushedIsSaved ReachesAll KeptAlive GoneForGood
CHECK_DEADLOCK FALSE
