SPECIFICATION SystemSpec
CONSTANTS
    None = None
    n1 = n1
    n2 = n2
    Nets = {n1, n2}
    Apps = {"a1", "a2"}
    Devices = {"d1"}
    Blocks = {{1, 2}, {2, 3}}
    PoolSize = 2
    Callers = {"c1", "c2"}
    Cases = {}
    MaxCalls = 3
    MaxFailures = 0
    Targets = {2, 3}
    Tested <- RestoresOnUndo
    SupportedFrom <- ReachedFrom
    MaxAttempts = 1
    MaxRetries = 1
    MaxFaults = 2
    MaxCrashes = 1
    MaxRows = 1
    MaxStamp = 4
    MaxRuns = 5
    MaxEvents = 1
    Users = {"u"}
    Via <- ViaOf
    ToolCalls = {"c"}
    Members = {"u", "v"}
    Clients = {"k"}
    Admins = {"adm"}
    MaxChanges = 2
    McpFaults = 1
    Jobs = {1}
    FlowActions = {"x"}
    Registered = {"r", "q"}
    Addresses = {"a", "b"}
    Histories = {"fresh", "old"}
    MaxMade = 2
    Attempts = 2
    IdentityFaults = 2
    IdentityRuns = 3
INVARIANTS
    ReleaseSafety
    NetworkSafety
PROPERTIES
    
    LanSafety
    GatewaySafety
CHECK_DEADLOCK FALSE
