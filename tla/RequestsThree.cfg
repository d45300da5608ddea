\* Three accounts, so that one may have requests from and to two others.
SPECIFICATION Spec
CONSTANTS
    Accounts = {a1, a2, a3}
    NoAccount = NoAccount
    RequestLifetime = 2
    DeclineCooldown = 1
    RollingMonth = 3
    MonthlyLimit = 2
    PartnerCooldown = 1
    MaxLag = 1
    MaxRequests = 2
    Horizon = 2
SYMMETRY Symmetric
CHECK_DEADLOCK FALSE
INVARIANTS
    TypeOK
    PendingAcceptable
    NoCrossedRequests
