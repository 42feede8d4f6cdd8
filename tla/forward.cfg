CONSTANTS
    n1 = n1
    n2 = n2
    h1 = h1
    h2 = h2
    h3 = h3
    Node = {n1, n2}
    Entry = {n1}
    Offline = Offline
    Lookup = {h1, h2, h3}
    First = h1
    NoHop = NoHop
SPECIFICATION FairSpec
INVARIANTS ForwardedOnce OfflineIsTrue GivenOnce
PROPERTIES ForwardedIsAnswered ImplementsClientRequest
