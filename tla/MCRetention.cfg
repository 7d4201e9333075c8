SPECIFICATION RetentionFairSpec
CONSTANTS
    ann = ann
    bob = bob
    e1 = e1
    e2 = e2
    Records = {ann, bob}
    MaxSchedules = 2
    Engines = {e1, e2}
    Daemons = {e1}
    Ages = {"near"}
    Policies <- MCPolicies
    MaxFailures = 1
PROPERTY DueIsTakenUp
INVARIANTS RetentionTypeOK ExemptionHolds OneLostPerFailure
