CONSTANTS
    Drivers = {d1, d2}
    Nobody = Nobody
    ChildDriver = ChildDriver
    Body <- Shipping
    Kind <- ShippingKind
    Idempotent = {}
    Compensable = {"book"}
    Caught = {"book"}
    CanFail = {"book", "ship"}
    UndoCanFail = {}
    MaxRetries = 1
    MaxFaults = 0
    MaxChildRuns = 2
CHECK_DEADLOCK FALSE
SPECIFICATION Spec
INVARIANTS OneEffect
