SPECIFICATION FairHealthSpec
CONSTANTS
    Selectors = {s1, None}
    NoSelector = None
    Zones <- MCZones
INVARIANTS
    Complete
PROPERTIES
    NoGoroutineLeak
CHECK_DEADLOCK FALSE
