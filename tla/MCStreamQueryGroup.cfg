SPECIFICATION Spec
CONSTANTS
    Fields <- MCFields
    RequiredFields <- MCFields
    QueryGroups <- MCQueryGroups
    MaxLives = 2
    MaxFailures = 1
    Rows <- MCRows
    Streams <- MCStreams
    FirstOffsets = {0}
    Observed <- MCObserved
    Delay = 1
    MaxExpired = 1
INVARIANTS
    TypeOK
    PromisedStop
    AppendedOnce
    SplitIsTotal
    CurrentIsInHistory
    NewestSurvives
    HistoryUnderOneBatch
    RepeatsAreWhole
CHECK_DEADLOCK FALSE
