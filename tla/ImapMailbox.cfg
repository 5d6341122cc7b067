SPECIFICATION MailboxSpec
CONSTANTS
    Callers = {c1, c2}
    Messages = {1, 2, 3}
    Calls <- MCCalls
    MoveModes = {TRUE, FALSE}
    MaxRetries = 2
    MaxFaults = 2
INVARIANTS
    NothingLost
    DoneMeansGone
CHECK_DEADLOCK FALSE
