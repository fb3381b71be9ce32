SPECIFICATION Spec
CONSTANTS
    Workers = {w1}
    Keys = {k1}
    Coordinators = {c1, c2}
    Runs = {1, 2}
    Routes <- AnyRoute
    Priority <- OnePriority
    Capped = {}
    Limit = 1
    MaxDeliveries = 2
    MaxTasks = 3
    MaxClaims = 3
    Capacity = 1
    StepRetries = 1
    MaxFaults = 2
    MaxStops = 1
SYMMETRY Clients
INVARIANTS
    RowComesFromItsRun
    RedoneOncePerFault
    StopWaitsForEveryTask
CHECK_DEADLOCK FALSE
