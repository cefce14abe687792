SPECIFICATION Spec
CONSTANTS
    Messages <- MCMessages
    Refused <- MCRefused
    Lists <- MCLists
    MaxTries = 3
    MaxMessages = 3
    Streams <- MCStreams
    Instances <- MCInstances
    i1 = i1
    i2 = i2
    MaxAttempts = 2
    MaxRestarts = 2
    MaxSeeks = 1
    Modes <- MCModes
    WindowSeconds = 2
    PeriodSeconds = 1
    SessionGap = 2
    AllowedLateness = 1
    MaxTime = 6
SYMMETRY Symmetry
INVARIANTS
    TypeOK
    ConfirmedIsPublished
    RunsAreBounded
    AckedIsHandledOrRaised
    TakenIsAccounted
    RowIsLatest
    SecondRowIsLate
PROPERTIES
    ImplementsTopic
CHECK_DEADLOCK FALSE
