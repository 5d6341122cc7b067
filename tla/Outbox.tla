------------------------------- MODULE Outbox -------------------------------
(***************************************************************************)
(* What a BackgroundSender promises the goroutines that use it, without    *)
(* saying how: an email it accepts is offered to the provider once, and    *)
(* after it has been stopped it accepts nothing more.                      *)
(***************************************************************************)
CONSTANT Emails

VARIABLES
    accepting,   \* are emails still taken?
    pending,     \* accepted, not yet offered to the provider to the end
    attempted    \* offered to the provider, which answered

outboxVars == <<accepting, pending, attempted>>

Init ==
    /\ accepting = TRUE
    /\ pending = {}
    /\ attempted = {}

Accept(e) ==
    /\ accepting
    /\ e \notin pending \cup attempted
    /\ pending' = pending \cup {e}
    /\ UNCHANGED <<accepting, attempted>>

Attempt(e) ==
    /\ e \in pending
    /\ pending' = pending \ {e}
    /\ attempted' = attempted \cup {e}
    /\ UNCHANGED accepting

Shut ==
    /\ accepting
    /\ accepting' = FALSE
    /\ UNCHANGED <<pending, attempted>>

Next ==
    \/ \E e \in Emails : Accept(e) \/ Attempt(e)
    \/ Shut

Spec == Init /\ [][Next]_outboxVars
=============================================================================
