SPECIFICATION StoreSpec
CONSTANTS
    r1 = r1
    r2 = r2
    t1 = t1
    t2 = t2
    none = none
    Runs <- MCRuns
    Tenants <- MCTenants
    NoTenant = none
    DefaultTenant = t2
    MaxConcurrent = 1
    MaxDaily = 1
    MaxDay = 2
    Expirable <- MCExpirable
CHECK_DEADLOCK FALSE
INVARIANTS
    StoreTypeOK
    QuotaCap
    DailyExact
    CancelWins
    HandedOutOnce
PROPERTIES
    CanceledSticky
