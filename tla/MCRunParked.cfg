\* Liveness of a parked run: sleeps, signals, timeouts, a tripwire, a chain of two runs.
CONSTANTS
    Drivers = {d1, d2}
    Steps <- ParkSteps
    DependsOn <- ParkDeps
    Kind <- ParkKind
    CanFail = {}
    Compensable = {}
    Timed = {"b"}
    MaxRetries = 0
    MaxRuns = 2
    MaxCalls = 1
    MaxForce = 0
    MaxFaults = 0
    MaxCancels = 0
CHECK_DEADLOCK FALSE
SPECIFICATION FairSpec
INVARIANTS TripwireStops
PROPERTIES RunEnds
