\* Breakups and deletions end, under the worker's fairness.
SPECIFICATION FairSpec
CONSTANTS
    Accounts = {a1, a2}
    Partnerships = {p1}
    NoAccount = NoAccount
    CancelWindow = 1
    BaseWindow = 2
    ExtendedWindow = 3
    RecoveryWindow = 2
    BreakupCooldown = 1
    DeletionCooldown = 1
    MaxLag = 0
    MaxGeneration = 2
    MaxDeletions = 2
    Horizon = 4
CHECK_DEADLOCK FALSE
PROPERTIES
    BreakupResolves
    DeletionResolves
