SPECIFICATION FairSpec
CONSTANTS
    Producers = {p1, p2}
    Workers = {w1, w2}
    Graceful = {s1}
    Abrupt = {s2}
    Emails = {e1, e2, e3}
    BufferSizes = {0, 1, 2}
    StartFirst = TRUE
    None = None
INVARIANTS
    GracefulStop
    NoPanic
PROPERTIES
    ImplementsOutbox
    StopReturns
    AcceptedIsAttempted
