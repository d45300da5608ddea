\* Two workers on one action, leases that expire at any step, crashes and lost
\* acknowledgements.
SPECIFICATION FairSpec
CONSTANTS
    Actions = {i1}
    Workers = {w1, w2}
    NoWorker = NoWorker
    MaxAttempts = 3
    MaxGeneration = 2
CHECK_DEADLOCK FALSE
INVARIANTS
    TypeOK
    ExecutionOwnsRow
PROPERTIES
    EffectFenced
    ImplementsAtMostOnce
    ActionSettles
