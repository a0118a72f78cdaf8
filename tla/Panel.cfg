SPECIFICATION MCSpec
CONSTANTS
    Players = {p, q}
    HistoryLines = 3
    ChannelCapacity = 2
    MaxChanges = 2
    MaxRestarts = 1
    MaxLists = 1
    MaxCommands = 2
    Permissions <- AllPermissions
    Catalog <- MCCatalog
    Defaults <- MCDefaults
    Editors = {e1, e2}
    MaxEdits = 2
    Settings = {s1, s2}
    Workers = {w1, w2}
    None = None
INVARIANTS
     CaughtUp
    NoEditIsLost EffectiveHoldsTogether
    OneListener
PROPERTIES  SilenceIsNoticed
CHECK_DEADLOCK FALSE
