SPECIFICATION Spec
CONSTANTS
    Events = {e1}
    Consumers = {w1, w2}
    NoConsumer = NoConsumer
    Devices = {d1}
    MaxDeliveries = 2
    ContentTarget = ContentTarget
    MediaTarget = MediaTarget
    Erasers = {w1, w2}
    NoEraser = NoEraser
    Tables = {"conversations"}
    Objects = {o1}
    MaxFaults = 1
    ChatOps = {c1}
    SpaceOps = {s1}
    Tabs = {t1, t2}
    NoTab = NoTab
    MaxQueued = 1
    MaxClaims = 2
    MaxLapses = 1
CHECK_DEADLOCK FALSE
INVARIANTS
    TypeOK
    ManifestMatchesTargets
    QueueReflectsServer
PROPERTIES
    ImplementsAtLeastOnce
    EventSettles
    TargetSettles
    QueueSettles
