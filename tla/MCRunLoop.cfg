CONSTANTS
    Clients = {c1, c2}
    Requestable = {"InventoryFetch", "ChannelSwitch"}
    Fallible = {"InventoryFetch", "ChannelsFetch"}
    Triggers = TRUE
    Maint = {m1, m2}
    NoMaint = NoMaint
SPECIFICATION FairSpec
CHECK_DEADLOCK FALSE
INVARIANTS
    NoLostWakeup
PROPERTIES
    ShutdownTerminates
    PipelineSettles
