SPECIFICATION FairSpec
CONSTANTS
    Workers = {w1}
    Keys = {k1}
    Coordinators = {c1, c2}
    Runs = {1}
    Routes <- AnyRoute
    Priority <- OnePriority
    Capped = {}
    Limit = 1
    MaxDeliveries = 2
    MaxTasks = 3
    MaxClaims = 6
    Capacity = 1
    StepRetries = 0
    MaxFaults = 1
    MaxStops = 0
PROPERTY WaitEnds
CHECK_DEADLOCK FALSE
