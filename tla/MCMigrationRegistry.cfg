SPECIFICATION Spec
CONSTANTS
    Workloads = {"hotel_reservation", "reward_activity"}
    Strangers = {"unregistered"}
    dependency_ids <- MCDependencies
    Evidences <- MCEvidences
    MaxEvidence = 3
INVARIANTS
    TypeOK
    CutoverHasEvidence
    StartedAfterDependencies
CHECK_DEADLOCK FALSE
