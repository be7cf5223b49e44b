SPECIFICATION Spec
CONSTANTS
    o1 = o1
    o2 = o2
    Workers = {w1, w2}
    Ops = {o1, o2}
    OwnerIds = {w1, w2}
    NoOwner = NoOwner
    NoOp = NoOp
    WorkerId <- OwnId
    Kind <- RestartAndOther
    MaxAttempts <- OnceAndTwice
    MaxRetries = 1
    MaxAborts = 1
SYMMETRY WorkerSymmetry
INVARIANTS
    TypeOK
    LeasedIffRunning
    OwnerRunsNewestClaim
    RestartRunsAtMostOnce
    QueueTimeoutMeansNotRun
    AttemptsBounded
PROPERTIES
    SuccessIsFinal
    ClosedByNewestClaim
