\* One pair: breakup, restore and the deletion of both members, every
\* interleaving with late workers and stale timestamps.
SPECIFICATION Spec
CONSTANTS
    Accounts = {a1, a2}
    Partnerships = {p1}
    NoAccount = NoAccount
    CancelWindow = 1
    BaseWindow = 2
    ExtendedWindow = 4
    RecoveryWindow = 2
    BreakupCooldown = 2
    DeletionCooldown = 1
    MaxLag = 1
    MaxGeneration = 4
    MaxDeletions = 2
    Horizon = 5
SYMMETRY Symmetric
CHECK_DEADLOCK FALSE
INVARIANTS
    TypeOK
    BreakupMatchesLifecycle
    DeletionArmed
    FinalizerArmed
    BreakupNeverOrphaned
PROPERTIES
    EarliestDeadlineWins
    DeletionFreezes
    GenerationFences
