SPECIFICATION FairSpec
CONSTANTS
    Procs = {p1, p2}
    Conns = {c1, c2}
    Cancellable = {p1}
    a = a
    b = b
    Configs <- MCConfigs
    Lists <- MCLists
    MaxOpen = 1
    MaxIdle = 1
    MaxRetries = 1
    MaxFaults = 2
    None = None
INVARIANTS
    CopiesCounted
    CopiesIdentical
PROPERTIES
    SendReturns
CHECK_DEADLOCK FALSE
