SPECIFICATION FairSpec
CONSTANTS
    Procs = {p1, p2, p3}
    CancelModes = {{}, {p1, p2, p3}}
    Conns = {c1, c2, c3}
    MaxIdle = 1
    MaxOpen = 2
    WaitModes = {TRUE, FALSE}
    Faults = TRUE
    None = None
    Wake = Wake
INVARIANTS
    Accounting
    SendNeverBlocks
    NobodyForgotten
    WakeupKept
PROPERTIES
    ImplementsLease
    GetReturns
    DrainsAfterClose
