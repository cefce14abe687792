SPECIFICATION Spec
CONSTANTS
    c1 = c1
    c2 = c2
    Events <- MCEvents
    Consumers <- MCConsumers
    MaxDeliveries = 3
SYMMETRY MCSymmetry
INVARIANTS
    TypeOK
    MergedAtMostOnce
    NewestVersionStays
    AckedIsMerged
CHECK_DEADLOCK FALSE
