SPECIFICATION Spec
CONSTANTS
    k1 = k1
    k2 = k2
    r1 = r1
    r2 = r2
    Rows <- MCRows
    InvalidRows <- MCInvalidRows
    Runs <- MCRuns
    MaxSequence = 3
    HotelWrites = 2
    PostdatedRows <- MCPostdatedRows
SYMMETRY MCSymmetry
INVARIANTS
    TypeOK
    NoGap
    NothingSkipped
CHECK_DEADLOCK FALSE
