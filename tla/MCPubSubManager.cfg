SPECIFICATION Spec
CONSTANTS
    Topics = {t1, t2, t3, t4, t5}
    Refusable = {t4}
    ShardTopicLimit = 2
    MaxShards = 2
    Shards = {s1, s2, s3, s4}
    MaxCalls = 4
INVARIANTS
    OneShardEach
    Served
PROPERTIES
    IsTopicSet
CHECK_DEADLOCK FALSE
