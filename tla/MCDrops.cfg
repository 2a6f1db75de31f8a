SPECIFICATION Spec
CONSTANTS
    MaxExtraMinutes = 2
    ClaimGrace = 1
    NoChannel = NoChannel
    Hour = 2
    DefaultSafety = 2
    Plans <- MCPlans
    Silent = {1, 4}
    Channel <- MCChannel
    Settings <- MCSettings
    Reporters = {"push"}
    RewardGrace = 1
    MaxClock = 2
    Announced = {4, 6}
    MaxFaults = 2
INVARIANTS
    NeverOverstated
    ClaimedTruly
    RewardSaved
    OrderIrrelevant
    PriorityProtected
    UnfinishableExact
    EarnableWanted
PROPERTIES
    RewardKept
    RecordedObserved
    EarnedIsClaimed
CHECK_DEADLOCK FALSE
