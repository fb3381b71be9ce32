CONSTANTS
    Instances = {i1, i2}
    NoOne = NoOne
    Ttl = 1
    MaxTime = 3
    Schedules = {s1}
    Intervals = {1}
    StartAt = 0
    EndAt = 4
    CatchUp = 1
    Jitter = 0
    BatchSize = 1
    Backoff = 1
    MaxEvents = 1
CHECK_DEADLOCK FALSE
SPECIFICATION Spec
SYMMETRY InstanceSymmetry
INVARIANT RecordedTickRan
