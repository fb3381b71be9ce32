\* Liveness: work, a sleep and a signal wait, one fault of any kind.
SPECIFICATION FairSpec
CONSTANTS
    Runs = {r1}
    Workers = {w1, w2}
    Tokens = {c1, c2}
    NoToken = none
    NoOne = noone
    Server = server
    Hosted <- AllHosted
    Steps <- WorkSleepSignal
    Concurrency = 1
    Operators = 1
    MaxOperations = 0
    MaxFaults = 1
PROPERTY DrivableRunIsDriven
CHECK_DEADLOCK FALSE
