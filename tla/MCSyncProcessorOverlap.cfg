SPECIFICATION FairSpec
CONSTANTS
    o1 = o1
    o2 = o2
    o3 = o3
    Ops = {o1}
    Runs = {a, b}
    Priority <- MCPriority
    Dependencies <- MCDependencies
    BatchSizes = {5}
    MaxConcurrent = 2
    MaxRetries = 1
    MaxReloads = 1
    MaxFailures = 1
    SendCap = 0
    Networks = {"good"}
    Forcing = TRUE
    Stopping = TRUE
INVARIANT NothingLost
PROPERTY RunsEnd
