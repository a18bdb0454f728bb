SPECIFICATION LiveSpec
CONSTANTS
    p1 = p1
    p2 = p2
    Posts = {p1, p2}
    NoPost = NoPost
    day = day
    night = night
    Payloads = {day, night}
    Corrected = Corrected
    Blank = Blank
    Staff = {"delete"}
    Csvs <- HoledCsvs
    None = None
    Chunk = 1
    MaxBatches = 2
    SlowReads = FALSE
    Clears = FALSE
INVARIANTS
    OneRowPerKey
PROPERTIES
    UnknownsKept
    ImportEnds
    ReconcileEnds
CHECK_DEADLOCK FALSE
