\* One run, two workers, three claims alive at once, any two faults, one operator call.
SPECIFICATION Spec
CONSTANTS
    Runs = {r1}
    Workers = {w1, w2}
    Tokens = {c1, c2, c3}
    NoToken = none
    NoOne = noone
    Server = server
    Hosted <- AllHosted
    Steps <- SleepThenSignal
    Concurrency = 1
    Operators = 1
    MaxOperations = 1
    MaxFaults = 2
SYMMETRY Symmetry
INVARIANTS WakeupNotLost LiveRunIsQueued EndedRunIsWhole
CHECK_DEADLOCK FALSE
