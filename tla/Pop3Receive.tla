----------------------------- MODULE Pop3Receive -----------------------------
(***************************************************************************)
(* Polling a POP3 mailbox with pop3.Receiver.Receive (pop3/pop3.go) under  *)
(* gsmail.Retry, by a caller that polls again and again.                   *)
(*                                                                         *)
(* The server keeps a maildrop: the messages, numbered by arrival.  A      *)
(* session sees the maildrop as it was when the session started, numbers   *)
(* its messages from 1, marks those DELE names, and removes the marked     *)
(* ones when it gets QUIT; without QUIT it forgets the marks.  Every       *)
(* command of the client library, with the server's answer, is one action. *)
(* handed has what any Receive returned, and err is what the attempt will  *)
(* return: "nil", "retryable" or "ctx".  Cancellations count as faults.    *)
(***************************************************************************)
EXTENDS Receiver, Integers, SequencesExt

CONSTANTS
    MaxMessages,         \* bound on the messages that ever arrive
    DeleteAfterRetrieve,
    MayRefuse            \* may the server answer DELE with -ERR?

ASSUME MessagesAssumption == MaxMessages \in Nat
ASSUME FlagAssumption     == {DeleteAfterRetrieve, MayRefuse} \subseteq BOOLEAN

Mails == 1..MaxMessages

VARIABLES
    maildrop,   \* the messages on the server, oldest first
    gone,       \* those the server removed
    session,    \* the maildrop as this session sees it
    marked,     \* the messages DELE marked in it
    alive,      \* does the connection still work?
    pc,         \* where Receive is: see PollLocations
    i,          \* the loop's message number
    retrieved   \* message numbers still to DELE

server == <<maildrop, arrived, gone>>
caller == <<ctxDone, handed>>
pollVars == <<server, session, marked, alive, pc, attempt, i, emails, retrieved, err,
          caller, faults>>

\* idle: the caller is not in Receive; attempt: in Retry, waiting or about to
\* check the context; loop, dele: in receive; quit: in its deferred QUIT;
\* decide: back in Retry.
PollLocations == {"idle", "attempt", "loop", "dele", "quit", "decide"}

\* The values the mailbox, the session and the locals of Receive hold.
PollTypeOK ==
    /\ maildrop \in Seq(Mails) /\ session \in Seq(Mails)
    /\ arrived \in 0..MaxMessages
    /\ gone \subseteq Mails /\ marked \subseteq Mails /\ handed \subseteq Mails
    /\ alive \in BOOLEAN /\ ctxDone \in BOOLEAN
    /\ pc \in PollLocations
    /\ attempt \in 0..MaxRetries
    /\ i \in 0..Len(session)
    /\ emails \in Seq(Mails)
    /\ retrieved \in Seq(DOMAIN session)
    /\ err \in {"nil", "retryable", "ctx"}
    /\ faults \in 0..MaxFaults

PollInit ==
    /\ maildrop = <<>> /\ arrived = 0 /\ gone = {}
    /\ session = <<>> /\ marked = {} /\ alive = FALSE
    /\ pc = "idle" /\ attempt = 0
    /\ i = 0 /\ emails = <<>> /\ retrieved = <<>> /\ err = "nil"
    /\ ctxDone = FALSE /\ handed = {} /\ faults = 0

PollFault == faults < MaxFaults /\ faults' = faults + 1

-----------------------------------------------------------------------------
(* The environment *)

\* Another message is delivered to the mailbox.
Arrive ==
    /\ arrived < MaxMessages
    /\ arrived' = arrived + 1
    /\ maildrop' = Append(maildrop, arrived + 1)
    /\ UNCHANGED <<gone, session, marked, alive, pc, attempt, i, emails, retrieved,
                   err, caller, faults>>

\* The caller polls; Retry begins.
Poll ==
    /\ pc = "idle"
    /\ pc' = "attempt"
    /\ attempt' = 0
    /\ emails' = <<>>
    /\ ctxDone' = FALSE
    /\ UNCHANGED <<server, session, marked, alive, i, retrieved, err, handed, faults>>

\* The context is cancelled while Receive runs.
CancelPoll ==
    /\ pc # "idle"
    /\ ~ctxDone
    /\ PollFault
    /\ ctxDone' = TRUE
    /\ UNCHANGED <<server, session, marked, alive, pc, attempt, i, emails, retrieved,
                   err, handed>>

-----------------------------------------------------------------------------
(* receive *)

\* Dial, authentication or STAT fail; nothing is marked.
OpenFails ==
    /\ pc = "attempt"
    /\ ~ctxDone
    /\ PollFault
    /\ emails' = <<>>
    /\ err' = "retryable"
    /\ pc' = "decide"
    /\ UNCHANGED <<server, session, marked, alive, attempt, i, retrieved, caller>>

\* A session starts; an empty maildrop ends it at once.
OpenSession ==
    /\ pc = "attempt"
    /\ ~ctxDone
    /\ session' = maildrop
    /\ marked' = {}
    /\ alive' = TRUE
    /\ i' = Len(maildrop)
    /\ emails' = <<>>
    /\ retrieved' = <<>>
    /\ err' = "nil"
    /\ pc' = IF maildrop = <<>> THEN "quit" ELSE "loop"
    /\ UNCHANGED <<server, attempt, caller, faults>>

\* The oldest message number of the batch.
End == IF Len(session) - Limit + 1 < 1 THEN 1 ELSE Len(session) - Limit + 1

\* The select at the top of the loop.
LoopCancelled ==
    /\ pc = "loop"
    /\ i >= End
    /\ ctxDone
    /\ err' = "ctx"
    /\ pc' = "quit"
    /\ UNCHANGED <<server, session, marked, alive, attempt, i, emails, retrieved,
                   caller, faults>>

\* Mutant of Retr: what cannot be parsed is to be deleted as well.
RetrAll ==
    /\ pc = "loop"
    /\ i >= End
    /\ ~ctxDone
    /\ emails' = IF session[i] \in Unreadable THEN emails ELSE Append(emails, session[i])
    /\ retrieved' = Append(retrieved, i)
    /\ i' = i - 1
    /\ UNCHANGED <<server, session, marked, alive, pc, attempt, err, caller, faults>>

\* RETR i; a message that cannot be parsed is skipped.
Retr ==
    /\ pc = "loop"
    /\ i >= End
    /\ ~ctxDone
    /\ IF session[i] \in Unreadable
       THEN UNCHANGED <<emails, retrieved>>
       ELSE /\ emails' = Append(emails, session[i])
            /\ retrieved' = Append(retrieved, i)
    /\ i' = i - 1
    /\ UNCHANGED <<server, session, marked, alive, pc, attempt, err, caller, faults>>

\* -ERR, or the connection drops.
RetrFails ==
    /\ pc = "loop"
    /\ i >= End
    /\ ~ctxDone
    /\ PollFault
    /\ alive' \in BOOLEAN
    /\ err' = "retryable"
    /\ pc' = "quit"
    /\ UNCHANGED <<server, session, marked, attempt, i, emails, retrieved, caller>>

\* The batch is complete: delete it, if that was asked for.
LoopEnds ==
    /\ pc = "loop"
    /\ i < End
    /\ pc' = IF DeleteAfterRetrieve /\ retrieved # <<>> THEN "dele" ELSE "quit"
    /\ UNCHANGED <<server, session, marked, alive, attempt, i, emails, retrieved,
                   err, caller, faults>>

\* conn.Dele(retrieved...) sends one DELE after the other.
Dele ==
    /\ pc = "dele"
    /\ marked' = marked \cup {session[Head(retrieved)]}
    /\ retrieved' = Tail(retrieved)
    /\ pc' = IF Len(retrieved) = 1 THEN "quit" ELSE "dele"
    /\ UNCHANGED <<server, session, alive, attempt, i, emails, err, caller, faults>>

\* One of them fails: the rest is not sent, the earlier ones stay marked.
DeleFails ==
    /\ pc = "dele"
    /\ PollFault
    /\ alive' \in IF MayRefuse THEN BOOLEAN ELSE {FALSE}
    /\ err' = "retryable"
    /\ pc' = "quit"
    /\ UNCHANGED <<server, session, marked, attempt, i, emails, retrieved, caller>>

\* Mutant of QuitSession: the server never commits, as if QUIT were not sent.
QuitNotSent ==
    /\ pc = "quit"
    /\ alive
    /\ pc' = "decide"
    /\ UNCHANGED <<server, session, marked, alive, attempt, i, emails, retrieved,
                   err, caller, faults>>

\* The deferred QUIT, whatever receive returns: the server commits the marks.
QuitSession ==
    /\ pc = "quit"
    /\ alive
    /\ maildrop' = SelectSeq(maildrop, LAMBDA m : m \notin marked)
    /\ gone' = gone \cup marked
    /\ pc' = "decide"
    /\ UNCHANGED <<arrived, session, marked, alive, attempt, i, emails, retrieved,
                   err, caller, faults>>

\* Its error is ignored; the server drops the marks with the connection.
QuitFails ==
    /\ pc = "quit"
    /\ IF alive THEN PollFault ELSE UNCHANGED faults
    /\ alive' = FALSE
    /\ pc' = "decide"
    /\ UNCHANGED <<server, session, marked, attempt, i, emails, retrieved, err, caller>>

-----------------------------------------------------------------------------
(* Retry and Receive *)

\* Receive returns emails, with whatever error.
Return ==
    /\ handed' = handed \cup ToSet(emails)
    /\ pc' = "idle"

\* The context is done before an attempt, or while Retry waits for the next.
RetryCancelled ==
    /\ pc = "attempt"
    /\ ctxDone
    /\ Return
    /\ UNCHANGED <<server, session, marked, alive, attempt, i, emails, retrieved, err,
                   ctxDone, faults>>

\* The attempt is over: return what it returned, or make another.
DecidePoll ==
    /\ pc = "decide"
    /\ IF err = "retryable" /\ attempt < MaxRetries
       THEN /\ attempt' = attempt + 1
            /\ pc' = "attempt"
            /\ UNCHANGED handed
       ELSE Return /\ UNCHANGED attempt
    /\ UNCHANGED <<server, session, marked, alive, i, emails, retrieved, err, ctxDone,
                   faults>>

-----------------------------------------------------------------------------

Step ==
    \/ OpenSession \/ LoopCancelled \/ Retr \/ LoopEnds \/ Dele \/ QuitSession
    \/ RetryCancelled \/ DecidePoll

Faulty == OpenFails \/ RetrFails \/ DeleFails \/ QuitFails

PollNext == Arrive \/ Poll \/ CancelPoll \/ Step \/ Faulty

PollSpec == PollInit /\ [][PollNext]_pollVars

\* The caller keeps polling, and the server answers.
FairPollSpec == PollSpec /\ WF_pollVars(Poll \/ Step \/ Faulty)

-----------------------------------------------------------------------------
(* Properties *)

\* "A failure mid-poll cannot lose mail": a message leaves the server only if a
\* Receive has returned it, or will, as its attempt left it in emails.
NoMailLost == gone \subseteq handed \cup ToSet(emails)

\* "So the next poll sees only new mail": with deletion on, polling gets to
\* every readable message, however few a poll may fetch.
EveryMailHanded ==
    \A m \in Mails \ Unreadable : arrived >= m ~> m \in handed
=============================================================================
