SPECIFICATION FairPollSpec
CONSTANTS
    MaxMessages = 4
    Unreadable = {3}
    Limit = 2
    DeleteAfterRetrieve = TRUE
    MaxRetries = 1
    MayRefuse = FALSE
    MaxFaults = 2
INVARIANTS
    NoMailLost
PROPERTIES
    EveryMailHanded
