SPECIFICATION Spec
CONSTANTS
    p1 = p1
    p2 = p2
    Posts = {p1, p2}
    NoPost = NoPost
    day = day
    night = night
    Payloads = {day, night}
    Corrected = Corrected
    Blank = Blank
    Staff = {}
    Csvs <- EvenCsvs
    None = None
    Chunk = 1
    MaxBatches = 2
    SlowReads = TRUE
    Clears = FALSE
INVARIANTS
    OneRowPerKey
CHECK_DEADLOCK FALSE
SYMMETRY PostSymmetry
