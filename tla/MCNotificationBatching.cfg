SPECIFICATION BatchingSpec
CONSTANTS
    n1 = n1
    n2 = n2
    n3 = n3
    Notices = {n1, n2, n3}
    Expirable = {n1}
    Passes = {cron, admin}
    MaxBatchSize = 3
    MaxErrors = 1
SYMMETRY Interchangeable
INVARIANTS BatchingTypeOK NoneDropped CombinedOnce AllReported
CHECK_DEADLOCK FALSE
