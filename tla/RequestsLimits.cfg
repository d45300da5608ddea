\* Two accounts and more requests than the limit of a month.
SPECIFICATION Spec
CONSTANTS
    Accounts = {a1, a2}
    NoAccount = NoAccount
    RequestLifetime = 2
    DeclineCooldown = 1
    RollingMonth = 2
    MonthlyLimit = 2
    PartnerCooldown = 1
    MaxLag = 1
    MaxRequests = 3
    Horizon = 2
SYMMETRY Symmetric
CHECK_DEADLOCK FALSE
INVARIANTS
    DeclineCooldownEnforced
    MonthlyLimitEnforced
