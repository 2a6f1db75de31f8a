SPECIFICATION Spec
CONSTANTS
    a = a
    b = b
    d = d
    p = p
    q = q
    NoChannel = NoChannel
    NoMaint = NoMaint
    Offline = Offline
    Channels = {a, b, d}
    Games = {1, 2}
    SpecialGames = {2}
    Campaigns = {p, q}
    GameOf <- TwoGames
    Allowed <- NamesA
    Rewards = {}
    Streams <- Plain
    Inventories <- TwoInventories
    SmartBalance = FALSE
    MaxChannels = 2
    Callbacks = {k1}
    Outsiders = {"api"}
    StallDetection = FALSE
    MaxEvents = 1
    Fallible = {}
    Triggers = FALSE
    Maint = {m1, m2}
SYMMETRY OthersAlike
INVARIANTS
    BestWatched
    SelectedWatched
CHECK_DEADLOCK FALSE
