SPECIFICATION Spec
CONSTANTS
    Envelopes <- MCFewEnvelopes
    MaxBatch = 2
    MaxCalls = 2
    MaxTime = 1
INVARIANT
    NoSilentLoss
CHECK_DEADLOCK FALSE
