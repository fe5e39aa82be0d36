SPECIFICATION Spec
CONSTANTS
    a = a
    b = b
    Cell = {a, b}
    Columns = 1
    Hash <- MCHash
    Height = 2
    Blank <- MCBlank
    History = 1
    Copies = TRUE
    Spans = TRUE
INVARIANTS
    DeltaReconstructsViewport
