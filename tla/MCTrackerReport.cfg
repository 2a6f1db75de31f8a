SPECIFICATION FairSpec
CONSTANTS
    Channels = {c1}
    Shows = {s1}
    Offline = Offline
    Checks = {k1, k2}
    NoCheck = NoCheck
    MaxEvents = 4
PROPERTY ReportFollowed
CHECK_DEADLOCK FALSE
