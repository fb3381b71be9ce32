\* Safety and liveness: one fault or operator call anywhere.
CONSTANTS
    Instances = {i1, i2}
    NoOne = NoOne
    Ttl = 1
    MaxTime = 3
    Schedules = {s1}
    Intervals = {1}
    StartAt = 0
    EndAt = 4
    CatchUp = 2
    Jitter = 1
    BatchSize = 1
    Backoff = 1
    MaxEvents = 1
CHECK_DEADLOCK FALSE
SPECIFICATION FairSpec
INVARIANTS NumbersAreGapless RecordedWasStarted FiresInOrder
PROPERTIES WritesInEpochOrder DueFires
