SPECIFICATION SystemFairSpec
CONSTANTS
    Moving = {"Deployments", "Billing", "Account", "TenantOidc", "Storage", "Networks"}
    None = None
    NoOwner = NoOwner
    NoJob = NoJob
    NoRequest = NoRequest
    Mixed = Mixed
    NoTx = NoTx
    r1 = r1
    r2 = r2
    voucher1 = voucher1
    Apps = {"app"}
    Volumes = {"vol"}
    Workers = {"w1", "w2"}
    Requests = {}
    Vouchers = {}
    ComputeCost = 2
    StorageCost = 1
    VoucherValue = 2
    Amounts = {1}
    InitialBalance = 3
    MaxBackfill = 2
    MaxMinute = 3
    MaxCrashes = 1
INVARIANTS
    LedgerSafety
    NoMinuteSkipped
PROPERTIES
    EveryDeploymentSettles
    EventuallyEnabled
    AccountsAreBilled
    NothingIsStuck
    NetworksConverge
CHECK_DEADLOCK FALSE
