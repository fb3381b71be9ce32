\* A driver dies between the checkpoint of a fired tripwire and the end of the run.
CONSTANTS
    Drivers = {d1, d2}
    Steps <- ChainSteps
    DependsOn <- ChainDeps
    Kind <- TripwireWork
    CanFail = {}
    Compensable = {}
    Timed = {}
    MaxRetries = 0
    MaxRuns = 1
    MaxCalls = 1
    MaxForce = 0
    MaxFaults = 1
    MaxCancels = 0
CHECK_DEADLOCK FALSE
SPECIFICATION Spec
INVARIANTS TripwireStops
