\* Plain steps: two faults, a cancel, a rollback that may be interrupted, a forced call.
CONSTANTS
    Drivers = {d1, d2}
    Steps <- ChainSteps
    DependsOn <- ChainDeps
    Kind <- WorkWork
    CanFail = {"b"}
    Compensable = {"a"}
    Timed = {}
    MaxRetries = 0
    MaxRuns = 1
    MaxCalls = 1
    MaxForce = 1
    MaxFaults = 2
    MaxCancels = 1
CHECK_DEADLOCK FALSE
SPECIFICATION FairSpec
INVARIANT AnswerIsStored
PROPERTIES RunEnds EndedStaysEnded
