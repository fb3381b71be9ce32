\* A drive that loses its run after the parked step is stored.
SPECIFICATION Spec
CONSTANTS
    Runs = {r1}
    Workers = {w1, w2}
    Tokens = {c1, c2}
    NoToken = none
    NoOne = noone
    Server = server
    Hosted <- AllHosted
    Steps <- WorkSleepSignal
    Concurrency = 1
    Operators = 1
    MaxOperations = 0
    MaxFaults = 1
INVARIANT NeverForgotten
CHECK_DEADLOCK FALSE
