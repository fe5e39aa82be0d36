SPECIFICATION FairSpec
CONSTANTS
    ClientLimit = 1
    TabLimit = 2
    Url = {u}
    Label = {a}
    Blank = blank
    SyncUpdates = TRUE
    DiskFaults = FALSE
INVARIANTS
    TabsAscend
    FallbackExists
PROPERTIES
    IdsAreFresh
    EndedTabsLeave
