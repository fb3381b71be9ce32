\* A cancel that lands while a sleep step parks the run.
CONSTANTS
    Drivers = {d1, d2}
    Steps <- ChainSteps
    DependsOn <- ChainDeps
    Kind <- SleepWork
    CanFail = {}
    Compensable = {}
    Timed = {}
    MaxRetries = 0
    MaxRuns = 1
    MaxCalls = 1
    MaxForce = 0
    MaxFaults = 0
    MaxCancels = 1
CHECK_DEADLOCK FALSE
SPECIFICATION Spec
PROPERTIES EndedStaysEnded
