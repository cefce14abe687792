SPECIFICATION Spec
CONSTANTS
    Envelopes <- MCEnvelopes
    MaxBatch = 2
    MaxCalls = 3
    MaxTime = 1
INVARIANTS
    TypeOK
    RowsAreNewest
    CountsMatchStore
    BalancedMeansAccounted
CHECK_DEADLOCK FALSE
