SPECIFICATION Spec
CONSTANTS
    Apps = {a1}
    Workers = {w1}
    MaxVersion = 2
    MaxRevision = 3
    MaxAborts = 0
    Attempts = {1}
    NoOwner = NoOwner
    NoJob = NoJob
    NoRequest = NoRequest
    Mixed = Mixed
INVARIANTS
    NoPendingChangesMeansDeployed
CHECK_DEADLOCK FALSE
