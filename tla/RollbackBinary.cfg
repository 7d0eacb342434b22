\* The pipeline of Serial: which build does a rollback install?
SPECIFICATION Spec
CONSTANTS
    None = None
    MaxVersion = 3
    MaxBuilds = 3
    MaxFailures = 2
    MaxArchived = 2
    Verdicts <- ShippedVerdicts
    AdminOps <- RecoveryOps
    Overlap = FALSE
    MaxAttempts = 3
    FailureCap = 3
    MaxQueue = 2
PROPERTY RollbackRestoresBinary
