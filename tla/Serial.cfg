\* One update at a time, the judge as shipped, the operator only rolls back
\* and unlocks.
SPECIFICATION Spec
CONSTANTS
    None = None
    MaxVersion = 3
    MaxBuilds = 3
    MaxFailures = 2
    MaxArchived = 2
    Verdicts <- ShippedVerdicts
    AdminOps <- RecoveryOps
    Overlap = FALSE
    MaxAttempts = 3
    FailureCap = 3
    MaxQueue = 2
INVARIANTS TypeOK NoWorktreeLeak SwapMatchesRepo PendingBuildable
PROPERTY OnlyPassedBuildsSwitch
