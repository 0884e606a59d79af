SPECIFICATION FairSpec
CONSTANTS
    t1 = t1
    none = none
    N = 2
    Cap = 1
    Me = t1
    Attempts = 2
    StoreAttempts = 3
    NoResult = none
    Tenants <- OneTenant
    NoTenant = none
    Days <- OneDay
    Runs <- AllRuns
    Expirable <- FirstRun
    MaxConcurrent = 1
    MaxDaily = 4
CHECK_DEADLOCK FALSE
INVARIANTS
    TypeOK
    ResultEarned
    AloneIsNeverRefused
    StoredOnce
PROPERTIES
    WorkflowEnds
