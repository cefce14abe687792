SPECIFICATION FairSpec
CONSTANTS
    e1 = e1
    e2 = e2
    w1 = w1
    w2 = w2
    Events <- MCEvents
    Workers <- MCWorkers
    ContractFailures <- MCContractFailures
    MaxAttempts = 2
    MaxRows = 1
    MaxRetryCount = 1
PROPERTY
    EventuallySettled
CHECK_DEADLOCK FALSE
