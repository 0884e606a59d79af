SPECIFICATION Spec
CONSTANTS
    r1 = r1
    r2 = r2
    t1 = t1
    t2 = t2
    p1 = p1
    c1 = c1
    none = none
    Runs <- TwoRuns
    Tenants <- OneTenant
    NoTenant = none
    DefaultTenant = t1
    NoRun = none
    Replicas <- OneReplica
    Cancels <- OneCancel
    Expirable <- SecondRun
    KillMayFail = TRUE
    MaxCrashes = 1
    MaxFaults = 1
    MaxDay = 1
    MaxConcurrent = 2
    MaxDaily = 2
CHECK_DEADLOCK FALSE
INVARIANTS
    RunnerTypeOK
    CancelHonoured
    CanceledInQueueNeverRuns
    SlotIffActive
    NothingLost
    RunningHasWorker
PROPERTIES
    TerminalFinal
    NoLaunchAfterEnd
