SPECIFICATION FairSpec
CONSTANTS
    Channels = {c1, c2}
    Shows = {s1}
    Offline = Offline
    Checks = {k1, k2}
    NoCheck = NoCheck
    MaxEvents = 6
INVARIANTS
    PendingAlive
PROPERTIES
    OnlyFreshApplied
    CheckEnds
CHECK_DEADLOCK FALSE
