SPECIFICATION Spec
CONSTANTS
    a = a
    b = b
    Cell = {a, b, c}
    Columns = 1
    Hash <- MCHash
    Height = 4
    Blank <- MCBlank
    History = 1
    Copies = TRUE
    Spans = FALSE
INVARIANTS
    WindowShowsBaseline
    UnmarkedRowsAreCurrent
