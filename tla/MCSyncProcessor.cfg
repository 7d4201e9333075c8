SPECIFICATION Spec
CONSTANTS
    o1 = o1
    o2 = o2
    o3 = o3
    Ops = {o1, o2, o3}
    Runs = {a, b}
    Priority <- MCPriority
    Dependencies <- MCDependencies
    BatchSizes = {1, 2}
    MaxConcurrent = 2
    MaxRetries = 1
    MaxReloads = 0
    MaxFailures = 0
    SendCap = 4
    Networks = {"offline", "good", "failing", "weak"}
    Forcing = FALSE
    Stopping = FALSE
SYMMETRY RunSymmetry
INVARIANTS SingleRun AttemptsAccounted DependenciesNotLater
PROPERTY ImplementsOutbox
