------------------------------ MODULE Receiver ------------------------------
(***************************************************************************)
(* What the receivers of POP3 and IMAP have in common: the mail that comes *)
(* in, the call of Receive and the attempt that Retry makes of it.         *)
(***************************************************************************)
EXTENDS RetryBounds

CONSTANTS
    Limit,       \* the limit given to Receive or Search
    Unreadable   \* the messages that ParseRawEmail refuses

\* CheckLimit refuses all others.
ASSUME LimitAssumption == Limit \in Nat \ {0}

VARIABLES
    arrived,     \* how many messages have arrived so far, which are numbered so
    handed,      \* what the caller has got
    emails,      \* the emails of the call
    err,         \* the error it returns
    attempt,     \* attempt number in Retry
    ctxDone,     \* is the caller's context done?
    faults       \* faults so far
=============================================================================
