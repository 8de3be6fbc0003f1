\* Three bytes in segments of one or two, sequence numbers away from their wrap;
\* the bounds of the timeout in the order the code compares them: 120, 200, 1000.
SPECIFICATION Spec
CONSTANTS
    SeqMod = 16
    ISN = 3
    Sizes = {1, 2}
    MaxBytes = 3
    RtoMin = 2
    RtoMax = 1
    RtoInit = 3
    Estimates = {1, 4}
    MaxAge = 11
INVARIANTS UnackedKept AckedLeave BackoffPaces
PROPERTY HoldsBytes
