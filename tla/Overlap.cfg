\* Submissions and every admin operation at any moment of an update in flight,
\* every verdict: two versions, one build, queues of one message.
SPECIFICATION Spec
CONSTANTS
    None = None
    MaxVersion = 2
    MaxBuilds = 1
    MaxFailures = 2
    MaxArchived = 2
    Verdicts <- AllVerdicts
    AdminOps <- AllAdminOps
    Overlap = TRUE
    MaxAttempts = 2
    FailureCap = 2
    MaxQueue = 1
INVARIANTS RepoSafe LockedAtThreshold RestartRestores
PROPERTY LockHolds
