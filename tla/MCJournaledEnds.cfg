\* Liveness: a signal wait with a timeout, an activity and a child, one fault.
CONSTANTS
    Drivers = {d1, d2}
    Nobody = Nobody
    ChildDriver = ChildDriver
    Body <- Waits
    Kind <- WaitsKind
    Idempotent = {}
    Compensable = {"pay"}
    Caught = {}
    CanFail = {"child"}
    UndoCanFail = {}
    MaxRetries = 0
    MaxFaults = 1
    MaxChildRuns = 2
CHECK_DEADLOCK FALSE
SPECIFICATION FairSpec
PROPERTY RunEnds
