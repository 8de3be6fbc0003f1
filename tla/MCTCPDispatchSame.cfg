\* Violation: two peers that chose the same source port.
SPECIFICATION DispatchFairSpec
CONSTANTS
    Threads = {t1, t2}
    Own = own
    p1 = p1
    p2 = p2
    Peers = {p1, p2}
    Ports = {1, 2}
    Uses <- Same
    Keys <- Endpoints
    W16 = 5
    MinPort = 2
    MaxChoices = {1, 2}
    CreateMax = 2
    LongUp = TRUE
    NoKey = NoKey
INVARIANT OnePeerPerConnection
