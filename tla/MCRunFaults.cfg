\* Plain steps beside a signal wait: a fault, a retry, a rollback, two calls, one forced.
CONSTANTS
    Drivers = {d1, d2}
    Steps <- ForkSteps
    DependsOn <- ForkDeps
    Kind <- WorkSignalWork
    CanFail = {"c"}
    Compensable = {"a", "b"}
    Timed = {}
    MaxRetries = 1
    MaxRuns = 1
    MaxCalls = 2
    MaxForce = 1
    MaxFaults = 1
    MaxCancels = 0
CHECK_DEADLOCK FALSE
SPECIFICATION Spec
SYMMETRY DriverSymmetry
INVARIANTS HolderKnowsTheRun RollbackIsWhole UndoneInOrder LetsGoOfNoLiveRun
