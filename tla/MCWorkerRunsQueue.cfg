\* The server and its workers take only steps of the start queue: what is proved of it holds here.
SPECIFICATION Spec
CONSTANTS
    Runs = {r1}
    Workers = {w1, w2}
    Tokens = {c1, c2, c3}
    NoToken = none
    NoOne = noone
    Server = server
    Hosted <- AllHosted
    Steps <- SleepThenSignal
    Concurrency = 1
    Operators = 1
    MaxOperations = 1
    MaxFaults = 1
PROPERTY QueueSpec
CHECK_DEADLOCK FALSE
