SPECIFICATION Spec
CONSTANTS
    o1 = o1
    o2 = o2
    Workers = {w1, w2}
    Ops = {o1}
    OwnerIds = {w1, w2}
    NoOwner = NoOwner
    NoOp = NoOp
    WorkerId <- OwnId
    Kind <- OneDeployment
    MaxAttempts <- Twice
    MaxRetries = 1
    MaxAborts = 2
INVARIANTS
    ExecutionExclusive
