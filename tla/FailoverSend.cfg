SPECIFICATION Spec
CONSTANTS
    p1 = p1
    p2 = p2
    p3 = p3
    Nil = Nil
    Groups <- Nested
    ServerDelay = 5
    Config <- Short
    NewConfig <- None
    ApiChoices <- MCApis
    Emails <- MCEmails
    Outcomes = {"plain", "permanent", "badRequest", "unavailable", "throttled", "timeout"}
INVARIANTS
    NothingDropped
    FailureSaysAll
    TransientIsRetried
PROPERTIES
    RejectionEndsGroup
    CancelIsFinal
CHECK_DEADLOCK FALSE
