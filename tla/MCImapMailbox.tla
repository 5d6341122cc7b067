--------------------------- MODULE MCImapMailbox ---------------------------
(* Instances of ImapMailbox for TLC. *)
EXTENDS ImapMailbox

\* Delete, Move, MarkDeleted, MarkSeen, and two changes that take a flag back, on overlapping messages, on none
\* and on one without a UID.
MCCalls ==
    {[kind |-> kind, uids |-> uids] : kind \in {"delete", "move"}, uids \in {<<1>>, <<2, 1>>, <<0>>}}
        \cup {[kind |-> "add", uids |-> <<1>>, flag |-> "deleted"],
              [kind |-> "add", uids |-> <<2, 0>>, flag |-> "seen"],
              [kind |-> "remove", uids |-> <<1>>, flag |-> "deleted"],
              [kind |-> "remove", uids |-> <<1>>, flag |-> "seen"]}
=============================================================================
