CONSTANTS
    Calls = {c1, c2, c3}
    MaxTargets = 4
    MaxSets = 1
    None = None
SPECIFICATION Spec
INVARIANTS
    FailedTargetAbandoned
PROPERTY
    HealthyTargetKept
CHECK_DEADLOCK FALSE
