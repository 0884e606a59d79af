SPECIFICATION FairSpec
CONSTANTS
    r1 = r1
    r2 = r2
    t1 = t1
    t2 = t2
    p1 = p1
    c1 = c1
    none = none
    Runs <- TwoRuns
    Tenants <- TwoTenants
    NoTenant = none
    DefaultTenant = t1
    NoRun = none
    Replicas <- OneReplica
    Cancels <- OneCancel
    Expirable <- NoRuns
    KillMayFail = TRUE
    MaxCrashes = 1
    MaxFaults = 0
    MaxDay = 1
    MaxConcurrent = 1
    MaxDaily = 2
CHECK_DEADLOCK FALSE
PROPERTIES
    Settles
    ImplementsLifecycle
