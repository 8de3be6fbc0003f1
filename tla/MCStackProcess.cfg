SPECIFICATION FairSpec
CONSTANTS
    Threads = {r1, r2}
    MaxFd = 2
    Kinds = {"tun", "tap", "nonblocking"}
    Timeouts = {500, 1000}
    MaxServers = 1
INVARIANTS NothingLeaks DescriptorsOwned AnswersAreOwn
PROPERTIES ResolveReturns
