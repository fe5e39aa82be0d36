SPECIFICATION FairSpec
CONSTANTS
    a = a
    b = b
    Cell = {a, b}
    Columns = 1
    Hash <- MCHash
    Blank <- MCBlank
    Client = {c1}
    None = None
    Heights = {1, 2}
    FrameHead = {0, 1}
    Scrolled = {1}
    Negotiated = {"copy", "span"}
    FrameBacklog = 2
    ResyncBacklog = 1
    QueueBound = 3
    Work = 4
INVARIANTS
    DamageIsRetained
PROPERTIES
    WindowCatchesUp
    ScrollIsAnswered
