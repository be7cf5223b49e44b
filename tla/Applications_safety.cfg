SPECIFICATION SystemSpec
CONSTANTS
    None = None
    a1 = a1
    a2 = a2
    b1 = b1
    c1 = c1
    c2 = c2
    Apps = {a1, a2}
    Gpus = {"gpu"}
    Quota = 1
    MaxDeploys = 2
    MaxEvents = 0
    MaxAttempts = 1
    Windows = {}
    Ids = {"app", "si"}
    KindOf <- KindOfClient
    Actors = {"u1", "u2"}
    MaxCalls = 3
    MaxFaults = 2
INVARIANTS
    RuntimeSafety
    VolumeSafety
    GpuSafety
PROPERTIES
    ClientSafety
    DraftSafety
SYMMETRY Symmetry
CHECK_DEADLOCK FALSE
