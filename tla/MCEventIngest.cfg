SPECIFICATION Spec
CONSTANTS
    Events = {e1}
    Malformed = {bad}
    Handlers = {g1, g2}
    Consumers = {c1, c2}
    MaxAttempts = 3
    MaxRequests = 3
    MaxHour = 1
    e1 = e1
    bad = bad
    g1 = g1
    g2 = g2
    c1 = c1
    c2 = c2
SYMMETRY MCSymmetry
INVARIANTS
    TypeOK
    LandingAccounted
    AnswersHold
CHECK_DEADLOCK FALSE
