\* Two rerun calls for one ended run.
SPECIFICATION Spec
CONSTANTS
    Runs = {r1}
    Workers = {w1, w2}
    Tokens = {c1, c2}
    NoToken = none
    NoOne = noone
    Server = server
    Hosted <- AllHosted
    Steps <- TwoOfWork
    Concurrency = 1
    Operators = 2
    MaxOperations = 2
    MaxFaults = 0
INVARIANT EndedRunIsWhole
CHECK_DEADLOCK FALSE
