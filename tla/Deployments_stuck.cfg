SPECIFICATION FairSpec
CONSTANTS
    Apps = {a1}
    Workers = {w1, w2}
    MaxVersion = 1
    MaxRevision = 1
    MaxAborts = 1
    Attempts = {1}
    NoOwner = NoOwner
    NoJob = NoJob
    NoRequest = NoRequest
    Mixed = Mixed
PROPERTIES
    EveryDeploymentSettles
CHECK_DEADLOCK FALSE
