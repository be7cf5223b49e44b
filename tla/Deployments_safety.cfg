SPECIFICATION Spec
CONSTANTS
    Apps = {a1, a2}
    Workers = {w1, w2}
    MaxVersion = 3
    MaxRevision = 2
    MaxAborts = 1
    Attempts = {1, 2}
    NoOwner = NoOwner
    NoJob = NoJob
    NoRequest = NoRequest
    Mixed = Mixed
CONSTRAINT Small
SYMMETRY Symmetries
INVARIANTS
    TypeOK
    RestorePointsSucceeded
    ErrorIsRepairable
    StackIsCurrent
    OneStackWriter
    OperationTellsOutcome
PROPERTIES
    OutcomeIsFinal
CHECK_DEADLOCK FALSE
