CONSTANTS
    None = None
    Socket = {s1, s2}
    Stranger = {x1}
    Block = 2
    Saves = 2
SPECIFICATION Spec
INVARIANTS EventsBalance
PROPERTIES GetsIn
