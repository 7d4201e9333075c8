SPECIFICATION FairSpec
CONSTANTS
    Tasks = {t1, t2, t3}
    NoTask = NoTask
    FailureThreshold = 2
    SuccessThreshold = 2
    FailureCap = 2
    MaxCalls = 2
INVARIANT MetricsOverrunByOne
PROPERTIES ImplementsBreaker NobodyStarves
