SPECIFICATION SendSpec
CONSTANTS
    Callers = {c1, c2}
    Interval = 2
    BurstGiven = 2
    MaxTime = 1
    MaxGrants = 4
    Askers = {c1, c2}
    Answers = {"fresh", "short", "empty", "error"}
    MaxExpiries = 1
    None = None
INVARIANTS
    RateBound
PROPERTIES
    NoNeedlessRefusal
    ImplementsFilling
    SingleFlight
    CallsReturn
CHECK_DEADLOCK FALSE
