SPECIFICATION Spec
CONSTANTS
    a = a
    b = b
    d = d
    p = p
    q = q
    NoChannel = NoChannel
    NoMaint = NoMaint
    Offline = Offline
    Channels = {a, b}
    Games = {1}
    SpecialGames = {}
    Campaigns = {p, q}
    GameOf <- OneGame
    Allowed <- NamesA
    Rewards = {}
    Streams <- Plain
    Inventories <- AllNow
    SmartBalance = FALSE
    MaxChannels = 2
    Callbacks = {k1}
    Outsiders = {"events"}
    StallDetection = TRUE
    MaxEvents = 2
    Fallible = {"InventoryFetch", "ChannelsFetch"}
    Triggers = TRUE
    Maint = {m1, m2}
SYMMETRY MaintAlike
INVARIANTS
    KnownAlike
    TopicsComplete
PROPERTIES
    StalledAvoided
CHECK_DEADLOCK FALSE
