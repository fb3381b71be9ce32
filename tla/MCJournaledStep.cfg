CONSTANTS
    Drivers = {d1, d2}
    Nobody = Nobody
    ChildDriver = ChildDriver
    Body <- Order
    Kind <- OrderKind
    Idempotent = {"notify"}
    Compensable = {"book", "pay"}
    Caught = {}
    CanFail = {"book", "child"}
    UndoCanFail = {"book"}
    MaxRetries = 1
    MaxFaults = 1
    MaxChildRuns = 2
CHECK_DEADLOCK FALSE
SPECIFICATION Spec
SYMMETRY DriverSymmetry
INVARIANTS OneEffect EffectIsRemembered RollbackIsWhole LiveAgreesWithJournal NoRunIsForgotten
PROPERTIES UndoneInReverse
