\* A worker dies during the last attempt.
SPECIFICATION Spec
CONSTANTS
    Actions = {i1}
    Workers = {w1, w2}
    NoWorker = NoWorker
    MaxAttempts = 2
    MaxGeneration = 2
CHECK_DEADLOCK FALSE
INVARIANTS
    ExpiredLeaseReclaimable
