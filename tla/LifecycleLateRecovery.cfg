\* A recovery that began before the recovery deadline and commits after the
\* breakup's finalizer yielded to the deletion.
SPECIFICATION Spec
CONSTANTS
    Accounts = {a1, a2}
    Partnerships = {p1}
    NoAccount = NoAccount
    CancelWindow = 1
    BaseWindow = 2
    ExtendedWindow = 4
    RecoveryWindow = 2
    BreakupCooldown = 2
    DeletionCooldown = 1
    MaxLag = 2
    MaxGeneration = 2
    MaxDeletions = 1
    Horizon = 6
SYMMETRY Symmetric
CHECK_DEADLOCK FALSE
INVARIANTS
    BreakupNeverOrphaned
