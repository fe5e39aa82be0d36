SPECIFICATION Spec
CONSTANTS
    Window = {w1}
    None = None
    FirstLaunch = {"attach"}
    KeyLimit = 3
    OutBound = 5
    Work = 3
CHECK_DEADLOCK FALSE
INVARIANTS
    NoTabsKeyWorks
