SPECIFICATION FairSpec
CONSTANTS
    Topics = {t1, t2}
    ShardTopicLimit = 2
    ListenBatchSize = 2
    EventBuffer = 1
    MaxEvents = 4
INVARIANTS
    InFlightOnce
    Confirmed
PROPERTIES
    Converges
    SilentLeft
CHECK_DEADLOCK FALSE
