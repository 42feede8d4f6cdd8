CONSTANTS
    None = None
    Node = {n1}
    Password = {p1, p2}
    Call = {k1, k2}
    Code = {c1}
    Ttl = 2
    Delay = 1
    User = {u1, u2}
    Client = {a1, a2}
    Grant = {g1}
    Token = {t1, t2}
    Request = {r1, r2}
SYMMETRY Alike
SPECIFICATION AllSpec
INVARIANTS PasswordsHold CodeSpent GrantsHold
CHECK_DEADLOCK FALSE
