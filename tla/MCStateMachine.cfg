\* Two overlapping calls, one lock that expires under its holder.
CONSTANTS
    States <- DoorStates
    Initial = "a"
    Events <- DoorEvents
    To <- DoorTo
    OnError <- DoorOnError
    TimeoutTarget <- DoorTimeouts
    NoState = "nowhere"
    Calls = {x1, x2}
    NoCall = nobody
    MaxTransitions = 2
    Retries = 1
    MaxSends = 3
    MaxExpiries = 1
CHECK_DEADLOCK FALSE
SPECIFICATION FairSpec
INVARIANTS NoLostUpdate TimeoutIsDue
PROPERTIES AnswersTruly TimeoutFires
