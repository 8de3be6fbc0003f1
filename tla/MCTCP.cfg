\* Either side opens, packets may be handled inside connect(), the peer
\* acknowledges duplicates and closes.
SPECIFICATION Spec
CONSTANTS
    SeqMod = 8
    W16 = 16
    MSS = 3
    InitSsthresh = 4
    LocalISN = 6
    PeerISN = 7
    StreamLen = 3
    SendSizes = {1, 4}
    MaxBytes = 4
    PeerDoes = {"open", "ack", "fin"}
    AppConnects = TRUE
    AtomicConnect = FALSE
INVARIANTS StreamPrefix SegmentsTile CwndBounded ConnectionInv
PROPERTIES CloseIsFinal DeliversStream
\* Both sides may have finished.
CHECK_DEADLOCK FALSE
