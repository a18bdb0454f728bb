SPECIFICATION Spec
CONSTANTS
    p1 = p1
    p2 = p2
    p3 = p3
    Posts = {p1, p2, p3}
    NoPost = NoPost
    k1 = k1
    Keys = {k1}
    day = day
    night = night
    Payloads = {day, night}
    Corrected = Corrected
    Blank = Blank
    Staff = {"delete", "correct"}
INVARIANTS
    TypeOK
    OneActive
    AnswersTruthful
PROPERTIES
    ImplementsStore
CHECK_DEADLOCK FALSE
SYMMETRY PostSymmetry
