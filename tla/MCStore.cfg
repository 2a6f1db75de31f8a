SPECIFICATION FairSpec
CONSTANTS
    k1 = k1
    k2 = k2
    w1 = w1
    w2 = w2
    Stores = {"progress", "rewards", "cookies", "state"}
    Keys = {k1, k2}
    Expirable = {k1}
    Writers = {w1, w2}
    MaxVersion = 1
    NoWriter = NoWriter
    NoFile = NoFile
    Damaged = Damaged
    Refused = Refused
    Unreadable = Unreadable
    MaxFaults = 2
INVARIANTS
    AckedKept
    DurableKept
    MemorySaved
PROPERTIES
    IsAtomic
    ComesUp
CHECK_DEADLOCK FALSE
