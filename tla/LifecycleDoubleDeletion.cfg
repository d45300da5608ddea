\* Both members are being deleted and the later deadline is finalized first.
SPECIFICATION Spec
CONSTANTS
    Accounts = {a1, a2}
    Partnerships = {p1}
    NoAccount = NoAccount
    CancelWindow = 1
    BaseWindow = 2
    ExtendedWindow = 4
    RecoveryWindow = 2
    BreakupCooldown = 2
    DeletionCooldown = 1
    MaxLag = 0
    MaxGeneration = 2
    MaxDeletions = 2
    Horizon = 6
SYMMETRY Symmetric
CHECK_DEADLOCK FALSE
PROPERTIES
    EarliestDeadlineAlwaysWins
