SPECIFICATION Spec
CONSTANTS
    ClientLimit = 2
    TabLimit = 1
    Url = {u, v}
    Label = {a, b}
    Blank = blank
    SyncUpdates = TRUE
    DiskFaults = TRUE
INVARIANTS
    OwnersAreConnected
    BrowsersAreUncontrolled
    ReplacementsAreLive
    RestoredOnlyBeforeWindows
    CacheIsCoherent
PROPERTIES
    ConversionIsAcknowledged
