\* Three threads in run(), two that call stop(), three posts.
SPECIFICATION FairSpec
CONSTANTS
    Loopers = {l1, l2, l3}
    Stoppers = {s1, s2}
    MaxPosts = 3
INVARIANTS LoopInv NoLostTask
PROPERTIES SafePop Fifo TaskRuns
\* Nobody has to stop the loop, and an undefined pop ends it.
CHECK_DEADLOCK FALSE
