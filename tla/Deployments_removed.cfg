SPECIFICATION Spec
CONSTANTS
    Apps = {a1, a2}
    Workers = {w1}
    MaxVersion = 2
    MaxRevision = 3
    MaxAborts = 0
    Attempts = {1}
    NoOwner = NoOwner
    NoJob = NoJob
    NoRequest = NoRequest
    Mixed = Mixed
PROPERTIES
    RemovedAppsAreDown
CHECK_DEADLOCK FALSE
