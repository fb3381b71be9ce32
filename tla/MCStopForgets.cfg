SPECIFICATION Spec
CONSTANTS
    Workers = {w1}
    Keys = {k1}
    Coordinators = {c1}
    Runs = {1}
    Routes <- AnyRoute
    Priority <- OnePriority
    Capped = {}
    Limit = 1
    MaxDeliveries = 3
    MaxTasks = 1
    MaxClaims = 3
    Capacity = 2
    StepRetries = 0
    MaxFaults = 0
    MaxStops = 1
INVARIANT StopWaitsForEveryTask
CHECK_DEADLOCK FALSE
