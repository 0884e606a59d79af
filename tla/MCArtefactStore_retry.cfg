SPECIFICATION Spec
CONSTANTS
    q1 = q1
    q2 = q2
    q3 = q3
    q4 = q4
    t1 = t1
    t2 = t2
    a1 = a1
    a2 = a2
    a3 = a3
    pol = pol
    k1 = k1
    k2 = k2
    Requests <- ThreeRequests
    Menu <- RetryMenu
    FreshIds <- TwoFresh
    Ids <- PolicyAndTwo
    Tenants <- TwoTenants
    Keys <- TwoKeys
    Types <- SomeTypes
    TypeOf <- TypesOfIds
    PolicyOf <- Policies
    Generated = Generated
    NoKey = NoKey
    None = None
CHECK_DEADLOCK FALSE
INVARIANTS
    SameKeySameArtefact
