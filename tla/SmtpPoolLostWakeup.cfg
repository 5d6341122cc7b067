SPECIFICATION Spec
CONSTANTS
    Procs = {p1, p2, p3, p4}
    CancelModes = {{p1, p2, p3, p4}}
    Conns = {c1, c2, c3, c4}
    MaxIdle = 2
    MaxOpen = 2
    WaitModes = {TRUE}
    Faults = TRUE
    None = None
    Wake = Wake
SYMMETRY Symmetry
INVARIANTS
    NoLostWakeup
