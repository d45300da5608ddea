\* A transaction older than requests that have come and gone since its BEGIN.
SPECIFICATION Spec
CONSTANTS
    Accounts = {a1, a2}
    NoAccount = NoAccount
    RequestLifetime = 2
    DeclineCooldown = 1
    RollingMonth = 3
    MonthlyLimit = 2
    PartnerCooldown = 1
    MaxLag = 1
    MaxRequests = 3
    Horizon = 3
SYMMETRY Symmetric
CHECK_DEADLOCK FALSE
INVARIANT
    MonthlyLimitAlwaysEnforced
