---------------------------- MODULE ImapMailbox ----------------------------
(***************************************************************************)
(* The operations of imap/ops.go that change a mailbox: concurrent callers *)
(* delete, move and flag messages, each on connections of its own and      *)
(* under Retry, while commands are refused and answers lost.               *)
(*                                                                         *)
(* A command is atomic at the server.  Of the flags only \Deleted and      *)
(* \Seen are told apart; a UID names the same message throughout.          *)
(***************************************************************************)
EXTENDS RetryBounds, Integers, SequencesExt

CONSTANTS
    Callers,     \* goroutines, each making one call
    Messages,    \* UIDs of the messages in the mailbox, positive numbers
    Calls,       \* the calls a goroutine may make: records [kind, uids] and
                 \* for a change of flags [kind, uids, flag]
    MoveModes    \* may the server offer the MOVE extension?

CallRecords ==
    [kind : {"delete", "move"}, uids : Seq(Messages \cup {0})]
        \cup [kind : {"add", "remove"}, uids : Seq(Messages \cup {0}), flag : {"deleted", "seen"}]

ASSUME UIDsAssumption  == Messages \subseteq Nat \ {0}
ASSUME CallsAssumption == Calls \subseteq CallRecords
ASSUME MoveAssumption  == MoveModes \subseteq BOOLEAN

VARIABLES
    hasMove,   \* does the server offer MOVE?  It never changes.
    source,    \* the messages in the selected mailbox
    dest,      \* how many copies of each the destination of Move holds
    flags,     \* the flags of each message
    call,      \* the call a goroutine makes
    stage,     \* "out", "connect", "run", "decide", "ok" or "failed"
    step,      \* in fn, the position of the next command
    retried,   \* retries so far
    failures   \* commands that failed so far, per goroutine

mailboxVars == <<hasMove, source, dest, flags, call, stage, step, retried, failures>>

NoCall == [kind |-> "delete", uids |-> <<>>]

\* The values the server and the callers hold.
MailboxTypeOK ==
    /\ hasMove \in BOOLEAN
    /\ source \subseteq Messages
    /\ dest \in [Messages -> Nat]
    /\ flags \in [Messages -> SUBSET {"deleted", "seen"}]
    /\ call \in [Callers -> CallRecords]
    /\ stage \in [Callers -> {"out", "connect", "run", "decide", "ok", "failed"}]
    /\ step \in [Callers -> 1..3]
    /\ retried \in [Callers -> 0..MaxRetries]
    /\ failures \in [Callers -> 0..MaxFaults]

MailboxInit ==
    /\ hasMove \in MoveModes
    /\ source = Messages
    /\ dest = [m \in Messages |-> 0]
    /\ flags = [m \in Messages |-> {}]
    /\ call = [p \in Callers |-> NoCall]
    /\ stage = [p \in Callers |-> "out"]
    /\ step = [p \in Callers |-> 1]
    /\ retried = [p \in Callers |-> 0]
    /\ failures = [p \in Callers |-> 0]

-----------------------------------------------------------------------------
(* The commands *)

\* UIDsOf keeps the UIDs the server has given, POP3 messages have none.
UIDsOf(uids) == SelectSeq(uids, LAMBDA uid : uid # 0)

\* uidSet refuses a set that is empty or names UID 0, for good.
uidSet(uids) == uids # <<>> /\ 0 \notin ToSet(uids)

\* The messages a command with these UIDs acts on: an empty set means all.
Named(p) == source \cap (IF call[p].uids = <<>> THEN Messages ELSE ToSet(call[p].uids))

\* Mutant of Script: a move marks the message before it is copied.
ScriptMarksFirst(c) ==
    CASE c.kind = "delete" -> <<"store", "expunge">>
      [] c.kind = "move"   -> IF hasMove THEN <<"move">> ELSE <<"store", "copy", "expunge">>
      [] OTHER             -> <<"store">>

\* Mutant of Script: a delete sets the flag and leaves the message.
ScriptMarksOnly(c) ==
    CASE c.kind = "delete" -> <<"store">>
      [] c.kind = "move"   -> IF hasMove THEN <<"move">> ELSE <<"copy", "store", "expunge">>
      [] OTHER             -> <<"store">>

\* The commands of Delete, of Move with and without the extension, of storeFlags.
Script(c) ==
    CASE c.kind = "delete" -> <<"store", "expunge">>
      [] c.kind = "move"   -> IF hasMove THEN <<"move">> ELSE <<"copy", "store", "expunge">>
      [] OTHER             -> <<"store">>

\* STORE +FLAGS or -FLAGS; Delete and Move add \Deleted.
Store(p) ==
    /\ flags' = [m \in Messages |->
          IF m \notin Named(p) THEN flags[m]
          ELSE CASE call[p].kind = "add"    -> flags[m] \cup {call[p].flag}
                 [] call[p].kind = "remove" -> flags[m] \ {call[p].flag}
                 [] OTHER                   -> flags[m] \cup {"deleted"}]
    /\ UNCHANGED <<source, dest>>

\* COPY puts one more copy of each message into the destination.
Copied(p) == dest' = [m \in Messages |-> IF m \in Named(p) THEN dest[m] + 1 ELSE dest[m]]

\* What a command does at the server.  EXPUNGE takes no UIDs: it removes every
\* message that carries \Deleted, whoever marked it.
Execute(p, command) ==
    CASE command = "store"   -> Store(p)
      [] command = "copy"    -> Copied(p) /\ UNCHANGED <<source, flags>>
      [] command = "expunge" -> /\ source' = {m \in source : "deleted" \notin flags[m]}
                                /\ UNCHANGED <<dest, flags>>
      [] command = "move"    -> /\ Copied(p) /\ source' = source \ Named(p)
                                /\ UNCHANGED flags

-----------------------------------------------------------------------------
(* withMailbox, under Retry *)

Enters(p, to) == stage' = [stage EXCEPT ![p] = to] /\ UNCHANGED <<hasMove, call>>
Untouched == UNCHANGED <<source, dest, flags>>

\* A caller makes a call, with the UIDs it has or with what UIDsOf leaves of them.
Call(p, c) ==
    /\ stage[p] = "out"
    /\ \E uids \in {c.uids, UIDsOf(c.uids)} : call' = [call EXCEPT ![p] = [c EXCEPT !.uids = uids]]
    /\ stage' = [stage EXCEPT ![p] = "connect"]
    /\ Untouched /\ UNCHANGED <<hasMove, step, retried, failures>>

\* connect, authenticate and SELECT; then fn, which builds its set of UIDs first.
ConnectMailbox(p) ==
    /\ stage[p] = "connect"
    /\ Enters(p, IF uidSet(call[p].uids) THEN "run" ELSE "failed")
    /\ step' = [step EXCEPT ![p] = 1]
    /\ Untouched /\ UNCHANGED <<retried, failures>>

\* The next command of fn succeeds.
Command(p) ==
    /\ stage[p] = "run"
    /\ Execute(p, Script(call[p])[step[p]])
    /\ IF step[p] < Len(Script(call[p]))
       THEN Enters(p, "run") /\ step' = [step EXCEPT ![p] = @ + 1]
       ELSE Enters(p, "ok") /\ UNCHANGED step
    /\ UNCHANGED <<retried, failures>>

\* The connection, or a command, fails: the server has refused it, or it has
\* executed it and the answer was lost.
Fails(p) ==
    /\ stage[p] \in {"connect", "run"}
    /\ failures[p] < MaxFaults
    /\ failures' = [failures EXCEPT ![p] = @ + 1]
    /\ Enters(p, "decide")
    /\ Untouched \/ (stage[p] = "run" /\ Execute(p, Script(call[p])[step[p]]))
    /\ UNCHANGED <<step, retried>>

\* Retry runs the whole sequence again, on a new connection.
RetryAgain(p) ==
    /\ stage[p] = "decide"
    /\ retried[p] < MaxRetries
    /\ retried' = [retried EXCEPT ![p] = @ + 1]
    /\ Enters(p, "connect")
    /\ Untouched /\ UNCHANGED <<step, failures>>

\* It gives up when its retries are used up or the context is done.
GiveUp(p) ==
    /\ stage[p] = "decide"
    /\ Enters(p, "failed")
    /\ Untouched /\ UNCHANGED <<step, retried, failures>>

MailboxNext ==
    \E p \in Callers :
        \/ \E c \in Calls : Call(p, c)
        \/ ConnectMailbox(p) \/ Command(p) \/ Fails(p) \/ RetryAgain(p) \/ GiveUp(p)

MailboxSpec == MailboxInit /\ [][MailboxNext]_mailboxVars

-----------------------------------------------------------------------------
(* Properties *)

\* Callers whose call is of one of these kinds, and names the message.
Naming(m, kinds) == {p \in Callers : call[p].kind \in kinds /\ m \in ToSet(call[p].uids)}

\* Does somebody want the message gone: a Delete, or a MarkDeleted that leaves it to
\* the EXPUNGE of whoever comes next?
Condemned(m) ==
    \E p \in Naming(m, {"delete", "add"}) : call[p].kind = "add" => call[p].flag = "deleted"

\* Does somebody take \Deleted back?
TakenBack(m) == \E p \in Naming(m, {"remove"}) : call[p].flag = "deleted"

\* Move's "failure between the two leaves the message in both mailboxes, which is the
\* safer direction to fail": whatever fails and whoever expunges, a message nobody
\* wants deleted is in the mailbox or in the destination, and one nobody named at all
\* is where it was.
NothingLost ==
    \A m \in Messages : ~Condemned(m) =>
        m \in source \/ (dest[m] > 0 /\ Naming(m, {"move"}) # {})

\* "Setting the flag alone leaves the message in place on most servers, so this does
\* both": when Delete or Move reports success, the messages it names are gone from the
\* mailbox, unless somebody takes \Deleted back.
DoneMeansGone ==
    \A p \in Callers : stage[p] = "ok" /\ call[p].kind \in {"delete", "move"} =>
        \A m \in ToSet(call[p].uids) : m \in source => TakenBack(m)
=============================================================================
