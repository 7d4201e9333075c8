SPECIFICATION FairSpec
CONSTANTS
    Requests = {r1, r2, r3}
    Capacity = 3
    Cost = 2
    MaxQueueSize = 1
    Timeout = 2
    MaxTime = 6
INVARIANTS Remembered WasteExplained
PROPERTIES ImplementsBucket EveryCallerAnswered
