SPECIFICATION Spec
CONSTANTS
    ClientLimit = 2
    TabLimit = 1
    Url = {u}
    Label = {a}
    Blank = blank
    SyncUpdates = FALSE
    DiskFaults = FALSE
INVARIANTS
    RecoveryFollowsTabs
