SPECIFICATION QueueSpec
CONSTANTS
    w1 = w1
    w2 = w2
    k1 = k1
    k2 = k2
    k3 = k3
    Workers = {w1, w2}
    Keys = {k1, k2, k3}
    Runs = {1}
    Routes <- MCRoutes
    Priority <- MCPriority
    Capped = {k1, k2}
    Limit = 1
    MaxDeliveries = 2
    MaxTasks = 3
    MaxClaims = 3
INVARIANTS
    OneTaskPerStep
    DeliveriesBounded
    ConcurrencyCap
    OneClaimPerToken
PROPERTY SettledIsFinal
CHECK_DEADLOCK FALSE
