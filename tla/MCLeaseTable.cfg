\* One run and two callers: a lease of two ticks can be extended, lapse, be
\* taken over and lapse again before the clock stops.  Leases of different
\* runs share only the token counter; the proofs cover any number of runs.
CONSTANTS
    Workflows = {w1}
    Clients = {c1, c2}
    LockDuration = 2
    MaxTime = 5
    MaxToken = 4
    MaxAttempt = 5
SPECIFICATION Spec
INVARIANT AtMostOneWriter
PROPERTIES LiveLeaseLostOnlyByItsHolder ImplementsFencedLock
