\* Three endpoints, none on a port of another; four local ports, of which 0 is
\* privileged.
SPECIFICATION DispatchFairSpec
CONSTANTS
    Threads = {t1, t2}
    Own = own
    p1 = p1
    p2 = p2
    Peers = {p1, p2}
    Ports = {1, 2, 3}
    Uses <- Distinct
    Keys <- Endpoints
    W16 = 4
    MinPort = 1
    MaxChoices = {1, 2}
    CreateMax = 2
    LongUp = TRUE
    NoKey = NoKey
INVARIANTS TableInv UniquePorts OnePeerPerConnection
PROPERTIES AllocationEnds PortsAreKept
