SPECIFICATION Spec
CONSTANTS
    a = a
    b = b
    d = d
    p = p
    q = q
    NoChannel = NoChannel
    NoMaint = NoMaint
    Offline = Offline
    Channels = {a}
    Games = {1}
    SpecialGames = {}
    Campaigns = {p}
    GameOf <- OneGame
    Allowed <- OnlyA
    Rewards = {}
    Streams <- Plain
    Inventories <- AllNow
    SmartBalance = FALSE
    MaxChannels = 2
    Callbacks = {k1}
    Outsiders = {}
    StallDetection = FALSE
    MaxEvents = 1
    Fallible = {}
    Triggers = FALSE
    Maint = {m1, m2}
INVARIANTS
    NotIdleWhenWatchable
CHECK_DEADLOCK FALSE
