SPECIFICATION PollSpec
CONSTANTS
    MaxMessages = 3
    Unreadable = {}
    Limit = 2
    DeleteAfterRetrieve = TRUE
    MaxRetries = 1
    MayRefuse = TRUE
    MaxFaults = 1
INVARIANTS
    NoMailLost
