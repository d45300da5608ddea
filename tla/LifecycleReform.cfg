\* Three accounts that part and pair again: cooldowns, slots and blocks over
\* two partnerships.
SPECIFICATION Spec
CONSTANTS
    Accounts = {a1, a2, a3}
    Partnerships = {p1, p2}
    NoAccount = NoAccount
    CancelWindow = 1
    BaseWindow = 2
    ExtendedWindow = 4
    RecoveryWindow = 1
    BreakupCooldown = 2
    DeletionCooldown = 1
    MaxLag = 1
    MaxGeneration = 2
    MaxDeletions = 1
    Horizon = 6
SYMMETRY Symmetric
CHECK_DEADLOCK FALSE
INVARIANTS
    SlotsFollowLifecycle
    NoCooldownCollision
    CooldownEnforced
    BlockedPairApart
