SPECIFICATION FairSpec
CONSTANTS
    r1 = r1
    r2 = r2
    power = power
    skyward = skyward
    Requests = {r1, r2}
    Waiters = {r1}
    Workers = {w1, w2}
    NoRequest = NoRequest
    Providers = {power, skyward}
    Provider <- MCProvider
    Priority <- MCPriority
    Strategy = "round_robin"
    MaxSize = 1
    MaxRetries = 2
INVARIANTS Tracked OneHand TwoReportsAtMost
PROPERTIES WantedOnly ImplementsLifecycle EveryRequestSettles
