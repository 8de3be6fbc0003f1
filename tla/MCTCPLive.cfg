\* Active open with a peer that retransmits; a send() of less than W16 bytes and
\* one of more.
SPECIFICATION PeerFairSpec
CONSTANTS
    SeqMod = 8
    W16 = 5
    MSS = 3
    InitSsthresh = 4
    LocalISN = 6
    PeerISN = 7
    StreamLen = 2
    SendSizes = {4, 6}
    MaxBytes = 6
    PeerDoes = {}
    AppConnects = TRUE
    AtomicConnect = TRUE
PROPERTIES HandshakeCompletes StreamDelivered SendReturns
\* Both sides may have finished.
CHECK_DEADLOCK FALSE
