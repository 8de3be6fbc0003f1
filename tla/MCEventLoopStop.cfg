\* Violation: stop() returns and the loop never ends.
SPECIFICATION FairSpec
CONSTANTS
    Loopers = {l1}
    Stoppers = {s1}
    MaxPosts = 1
PROPERTY StopEndsRun
