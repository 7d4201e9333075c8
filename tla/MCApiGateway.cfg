SPECIFICATION FairSpec
CONSTANTS
    Clients = {c1, c2}
    NoClient = NoClient
    NumEndpoints = 2
    MaxRetries = 2
    FailureThreshold = 2
    SuccessThreshold = 2
    FailureCap = 2
PROPERTIES ImplementsBreakers EveryRequestAnswered
