SPECIFICATION FairSpec
CONSTANTS
    Window = {w1, w2}
    None = None
    FirstLaunch = {"hello"}
    KeyLimit = 3
    OutBound = 5
    Work = 3
CHECK_DEADLOCK FALSE
INVARIANTS
    OneView
    LiveIsControlled
    KeysStayInOrder
PROPERTIES
    WindowsSettle
