\* The pipeline of Serial: which build runs after a rejection?
SPECIFICATION Spec
CONSTANTS
    None = None
    MaxVersion = 3
    MaxBuilds = 3
    MaxFailures = 2
    MaxArchived = 2
    Verdicts <- ShippedVerdicts
    AdminOps <- RecoveryOps
    Overlap = FALSE
    MaxAttempts = 3
    FailureCap = 3
    MaxQueue = 2
INVARIANT NeverRunsRejectedBuild
