SPECIFICATION Spec
CONSTANTS
    s1 = s1
    listed = listed
    other = other
    star = star
    none = none
    Sandboxes <- OneSandbox
    Urls <- TwoUrls
    Patterns <- OnePattern
    Fnmatch <- ListedOnly
    NoUrl = none
    Requests <- SomeRequests
    Ttl = 3
INVARIANTS
    SandboxTypeOK
    EgressByList
    PassEarned
