SPECIFICATION Spec
CONSTANTS
    MaxChanges = 2
    MaxMishaps = 1
    MaxOperations = 4
    Media = {m1}
    MaxUploads = 2
    MaxRollBacks = 1
    Alice = {a1}
    Bob = {b1, b2}
    NoSession = NoSession
    MaxCalls = 1
    MaxRequests = 2
    MaxOpens = 2
    MaxFrames = 2
    MaxReplies = 1
    MaxBacklog = 1
    Members = {a, b}
    Readers = {a}
    Subjects = {b}
    NoMember = NoMember
    MaxMessages = 2
    MaxMutations = 3
    MaxNickname = 1
    Partners = {a, b}
    Letters = {i1}
    Albums = {i2}
    Photos = {p1}
    Illustrated = {i2}
    Uploader = a
    Author = a
    Leavers = {a, b}
    MaxWrites = 3
    MaxTime = 2
    Grace = 1
    AliceDevices = {a1,a2}
    BobDevices = {b1}
    Enrolled = {a1,b1}
    KeyOwners = {"alice","bob"}
    Revocable = {a2}
    Online = {a2,b1}
    Rotating = {a2}
    Packages = 2
    MaxVersion = 2
    MaxSteps = 3
    MaxAbandoned = 1
    MaxSealed = 1
    Browsers = {b1}
    Slots = {r1, r2}
    Emails = {e1}
    MaxSessions = 2
    MaxDevices = 2
    MaxSignOuts = 1
    MaxBegun = 3
    MaxAttempts = 1
    LoginLimit = 1
    Intents = {i1, i2}
    Names = {n1, n2}
    Addresses = {e1, e2}
    MaxWrong = 1
    MaxRenames = 1
    Tabs = {t1, t2}
    Players = {s1, s2}
    NoPlayer = NoPlayer
    Couple = {a, b}
    CancelTicks = 1
    BreakupTicks = 2
    ExtendedTicks = 3
    RecoveryTicks = 2
    EditTicks = 1
    MaxTicks = 3
    MaxTransitions = 4
    MaxSent = 1
    Pages = {t1, t2}
    Writers = {t1}
    Drafts = {f1}
    MaxGrants = 2
    MaxTexts = 1
    MaxKeys = 2
    MaxSetbacks = 1
    MaxVersions = 3
    MaxActs = 2
    MaxTroubles = 1
    Listed = {"created_desc", "requests", "former", "calls", "messages"}
    MaxRows = 3
    PageRows = 1
    MaxRowChanges = 1
    MaxReloads = 1
    StartDates = {20200229, 20230131, 20231130, 20240229, 20250130}
    Openings = {20231229, 20240227, 20250129, 20250226, 20280227}
    Occurrences = {20240229, 20250130}
    MaxDays = 4
    MaxKept = 1
    Panels = {t1, t2}
    MaxThread = 2
    MaxAbsences = 1
    MaxLosses = 1
    MaxNames = 3
    MaxRefreshes = 2
    MaxFaults = 1
    Payloads = {"first", "second"}
    MaxRepeats = 3
    MaxAge = 1
    MaxTurns = 1
CHECK_DEADLOCK FALSE
INVARIANTS
    TypeOK
    LiveFeed
    MediaCorrect
    CallsCorrect
    MessagesCorrect
    ViewsCorrect
    CryptoCorrect
    AccountsAccounted
PROPERTIES
    SpaceCorrect
