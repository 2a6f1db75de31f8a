SPECIFICATION FairSpec
CONSTANTS
    a = a
    b = b
    d = d
    p = p
    q = q
    NoChannel = NoChannel
    NoMaint = NoMaint
    Offline = Offline
    Channels = {a}
    Games = {1}
    SpecialGames = {}
    Campaigns = {p}
    GameOf <- OneGame
    Allowed <- AnyChannel
    Rewards = {}
    Streams <- Plain
    Inventories <- AllNow
    SmartBalance = FALSE
    MaxChannels = 2
    Callbacks = {k1}
    Outsiders = {"api"}
    StallDetection = FALSE
    MaxEvents = 2
    Fallible = {"ChannelsFetch"}
    Triggers = FALSE
    Maint = {m1, m2}
PROPERTY OfflineLeft
CHECK_DEADLOCK FALSE
