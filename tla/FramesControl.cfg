SPECIFICATION Spec
CONSTANTS
    a = a
    b = b
    Cell = {a, b}
    Columns = 2
    Hash <- MCHash
    Blank <- MCBlank
    Client = {c1, c2}
    None = None
    Heights = {1}
    FrameHead = {0, 1, 2}
    Scrolled = {2}
    Negotiated = {"copy", "span"}
    FrameBacklog = 2
    ResyncBacklog = 1
    QueueBound = 3
    Work = 5
SYMMETRY Symmetric
INVARIANTS
    BaselineIsQueued
PROPERTIES
    FrameIsOwed
