SPECIFICATION LoopSpec
CONSTANTS
    Senders = {s1}
    Addresses <- MCAddresses
    Mailbox <- MCMailbox
    Lists <- MCLists
    Envelopes <- MCEnvelopes
    MayFail = TRUE
    Configured = {"mailgun", "sendgrid", "postmark"}
    Tolerance = 0
    TopicARNs = {"ours"}
    SNSUrls = {"c1", "c2"}
    Handlers = {h1}
    Requests <- MCRequests
    maxCachedSigningCerts = 1
INVARIANTS
    EveryoneServed
    Withheld
    OnlyTheDead
    AllRecorded
