SPECIFICATION FairSpec
CONSTANTS
    Workers = {w1, w2}
    Unreadable = {1}
    Modes = {"idle", "receive", "search", "unseen"}
    Waiting = {1}
    MaxMail = 3
    Limit = 2
    UpdateCap = 3
    EmailCap = 1
    MaxRetries = 1
    MaxFaults = 1
INVARIANTS
    OneCommandAtATime
    NothingForgotten
    NewestOrError
PROPERTIES
    HeardIsHanded
    CallEnds
CHECK_DEADLOCK FALSE
