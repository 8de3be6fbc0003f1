\* Three threads calling start() and stop() in any order, two frames, and an
\* interface that keeps delivering.
SPECIFICATION LiveInterfaceSpec
CONSTANTS
    Callers = {c1, c2, c3}
    MaxFrames = 2
INVARIANTS StopWaitsForReceiver ReceiverOwned
PROPERTY StopReturns
\* The process may have called std::terminate.
CHECK_DEADLOCK FALSE
