SPECIFICATION FairSpec
CONSTANTS
    Sockets = {s1, s2}
    NoSocket = NoSocket
    MaxReconnectAttempts = 1
    Page = page
    Class = math
    User = ann
    MaxPerClass = 1
    MaxInFlight = 1
INVARIANTS ShownIsReal LossIsRepaired FirstSocketServed
PROPERTY PageForgotten
