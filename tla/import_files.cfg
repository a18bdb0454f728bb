SPECIFICATION Spec
CONSTANTS
    p1 = p1
    p2 = p2
    Posts = {p1, p2}
    NoPost = NoPost
    day = day
    night = night
    Payloads = {day, night}
    Corrected = Corrected
    Blank = Blank
    Staff = {}
    Csvs <- TwoCsvs
    None = None
    Chunk = 1
    MaxBatches = 2
    SlowReads = TRUE
    Clears = TRUE
INVARIANTS
    TypeOK
    SuccessCommitted
PROPERTIES
    NoBlindRetry
CHECK_DEADLOCK FALSE
SYMMETRY PostSymmetry
