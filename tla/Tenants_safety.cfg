SPECIFICATION SystemSpec
CONSTANTS
    None = None
    Users = {"u1", "u2"}
    Founder = "u1"
    TeamGroups = {"team"}
    Callers = {"c1", "c2"}
    MaxInvitations = 2
    MaxCalls = 4
    RequestIds = {"q1", "q2"}
    Executions = {"e1", "e2"}
    Reserve1 = 2
    Reserve2 = 3
    Costs = {1, 4}
    InitialBalance = 5
    MaxActive = 4
    Ttl = 2
    MaxReserves = 2
    MaxEvents = 1
    Keys = {"k1", "k2"}
    Models = {"m1", "m2"}
    MaxRequests = 4
    BotAdmins = {"adm1", "adm2"}
PROPERTIES
    
    BotSafety
    MemberSafety
CHECK_DEADLOCK FALSE
