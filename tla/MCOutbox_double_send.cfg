SPECIFICATION Spec
CONSTANTS
    e1 = e1
    e2 = e2
    w1 = w1
    w2 = w2
    Events <- MCEvents
    Workers <- MCWorkers
    ContractFailures <- MCContractFailures
    MaxAttempts = 2
    MaxRows = 2
    MaxRetryCount = 1
INVARIANT
    NoDoubleSend
CHECK_DEADLOCK FALSE
