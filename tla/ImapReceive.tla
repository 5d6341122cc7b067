---------------------------- MODULE ImapReceive ----------------------------
(***************************************************************************)
(* One call of Receive, Search or Idle of the IMAP receiver, against a     *)
(* server whose mailbox grows (imap/imap.go).                              *)
(*                                                                         *)
(* Messages are numbered by arrival, as their sequence numbers are.  Dial, *)
(* TLS, authentication and SELECT are one step that fails or not.  Idle    *)
(* alternates IDLE, which a goroutine of its own holds open, and commands  *)
(* on the same connection, while go-imap's reader pushes updates into a    *)
(* channel that a third goroutine drains into poke.  An answer is read     *)
(* after the updates sent before it: wire must be empty.  Updates other    *)
(* than MailboxUpdate are drained and ignored, and left out.               *)
(*                                                                         *)
(* emails are those fetched and not yet sent if the call is Idle, and else *)
(* what it returns; handed is what the caller has received from emailChan, *)
(* and err says whether an error was sent to errChan or returned.          *)
(***************************************************************************)
EXTENDS ImapFetch

CONSTANTS
    Modes,        \* which of "idle", "receive", "search" and "unseen" is called
    Waiting,      \* how many messages may be in the mailbox at first
    MaxMail,      \* bound on the messages that ever arrive
    UpdateCap,    \* updateBufferSize
    EmailCap      \* capacity of emailChan

ASSUME ModesAssumption   == Modes \subseteq {"idle", "receive", "search", "unseen"}
ASSUME NumbersAssumption == /\ MaxMail \in Nat /\ Waiting \subseteq 0..MaxMail
                            /\ UpdateCap \in Nat \ {0} /\ EmailCap \in Nat \ {0}

VARIABLES
    mode,       \* the call, which never changes; "unseen" is Search with options.Unseen
    initial,    \* how many messages were there when it was made
    loc,        \* where the call is: see Locations
    idler,      \* is an IDLE goroutine on the connection?
    idleDone,   \* its channel done: "none", "nil" or "error"
    wire,       \* updates the server has sent and the reader has not delivered
    updates,    \* how many the channel c.Updates holds
    poke,       \* the channel poke, of capacity 1
    heard,      \* messages whose arrival the server announced to this Idle
    emailChan   \* emailChan

idleVars == <<idler, idleDone, wire, updates, poke, heard, emailChan, handed>>
vars == <<ctxDone, conn, seen, fetchVars, mode, initial, arrived, loc, idleVars,
          emails, err, attempt, faults>>

\* connect: about to dial; round: about to start IDLE; waiting: in the select;
\* ending, leaving: in endIdle, after a poke and after ctx.Done; search, fetch:
\* a command is in flight; deliver: sending to emailChan; logout: the deferred
\* LOGOUT, quit being closed; decide: in Retry, after an attempt; ended.
Locations == {"connect", "round", "waiting", "ending", "leaving", "search", "fetch",
              "deliver", "logout", "decide", "ended"}

\* The values the state of the call, of its goroutines and of the server hold.
TypeOK ==
    /\ mode \in Modes /\ initial \in Waiting /\ arrived \in 0..MaxMail
    /\ loc \in Locations
    /\ conn \in {"up", "down", "wedged"} /\ ctxDone \in BOOLEAN
    /\ seen \subseteq 1..arrived /\ heard \subseteq 1..arrived
    /\ idler \in BOOLEAN /\ idleDone \in {"none", "nil", "error"}
    /\ wire \in 0..MaxMail /\ updates \in 0..UpdateCap /\ poke \in BOOLEAN
    /\ {emails, emailChan, handed} \subseteq Seq(1..arrived)
    /\ err \in BOOLEAN /\ attempt \in 0..MaxRetries /\ faults \in 0..MaxFaults
    /\ taken \in 0..forwarded /\ forwarded \in 0..read /\ read \in 0..got
    /\ got \in 0..Len(batch) /\ collected \subseteq 1..taken

Init ==
    /\ mode \in Modes /\ initial \in Waiting /\ arrived = initial
    /\ ctxDone = FALSE /\ conn = "down" /\ seen = {}
    /\ FetchInit
    /\ loc = "connect"
    /\ idler = FALSE /\ idleDone = "none"
    /\ wire = 0 /\ updates = 0 /\ poke = FALSE /\ heard = {}
    /\ emails = <<>> /\ emailChan = <<>> /\ handed = <<>>
    /\ err = FALSE /\ attempt = 0 /\ faults = 0

\* 1, 2, ..., n, and the last limit of a sequence.
UpTo(n) == [i \in 1..n |-> i]
LastOf(s, limit) == SubSeq(s, Max({1, Len(s) - limit + 1}), Len(s))

\* What SEARCH answers: all messages, or those without \Seen.
Matching == {m \in 1..arrived : mode \in {"idle", "unseen"} => m \notin seen}
Found == AtPositions(UpTo(arrived), Matching)
-----------------------------------------------------------------------------
(* connect, authenticate, SELECT *)

UnchangedIdle == UNCHANGED <<idleVars, mode, initial, arrived>>

\* The attempt fails: Idle reports it, Receive and Search leave it to Retry.
ConnectFails ==
    /\ loc = "connect"
    /\ ctxDone \/ faults < MaxFaults
    /\ faults' = IF ctxDone THEN faults ELSE faults + 1
    /\ err' = TRUE
    /\ loc' = IF mode = "idle" THEN "ended" ELSE "decide"
    /\ UNCHANGED <<ctxDone, conn, seen, fetchVars, emails, attempt>> /\ UnchangedIdle

\* Receive knows the number of messages from SELECT and fetches the last ones.
Connect ==
    /\ loc = "connect" /\ ~ctxDone
    /\ conn' = "up"
    /\ err' = FALSE
    /\ IF mode = "receive" /\ arrived > 0
       THEN StartFetch(LastOf(UpTo(arrived), Limit), Limit) ELSE UNCHANGED fetchVars
    /\ emails' = IF mode = "receive" /\ arrived = 0 THEN <<>> ELSE emails
    /\ loc' = CASE mode = "idle" -> "round"
                [] mode = "receive" -> IF arrived = 0 THEN "logout" ELSE "fetch"
                [] OTHER -> "search"
    /\ UNCHANGED <<ctxDone, seen, attempt, faults>> /\ UnchangedIdle

-----------------------------------------------------------------------------
(* Idle: the goroutines beside it *)

\* quit is closed first of all when the call returns.
Quit == loc \in {"logout", "ended"}

\* go-imap's reader delivers an update, and blocks while the channel is full.
ReadUpdate ==
    /\ wire > 0 /\ updates < UpdateCap
    /\ wire' = wire - 1
    /\ updates' = updates + 1
    /\ UNCHANGED <<ctxDone, conn, seen, fetchVars, mode, initial, arrived, loc, idler, idleDone,
                   poke, heard, emails, emailChan, handed, err, attempt, faults>>

\* Mutant of Drain: poke has no buffer, so a signal nobody waits for is dropped.
DrainUnbuffered ==
    /\ updates > 0 /\ ~Quit
    /\ updates' = updates - 1
    /\ poke' = (poke \/ loc = "waiting")
    /\ UNCHANGED <<ctxDone, conn, seen, fetchVars, mode, initial, arrived, loc, idler, idleDone,
                   wire, heard, emails, emailChan, handed, err, attempt, faults>>

\* The drain goroutine coalesces updates into one pending signal.
Drain ==
    /\ updates > 0 /\ ~Quit
    /\ updates' = updates - 1
    /\ poke' = TRUE
    /\ UNCHANGED <<ctxDone, conn, seen, fetchVars, mode, initial, arrived, loc, idler, idleDone,
                   wire, heard, emails, emailChan, handed, err, attempt, faults>>

\* A new IDLE in a goroutine of its own.
StartIdle ==
    /\ loc = "round"
    /\ idler' = TRUE /\ idleDone' = "none"
    /\ loc' = "waiting"
    /\ UNCHANGED <<ctxDone, conn, seen, fetchVars, mode, initial, arrived, wire, updates, poke,
                   heard, emails, emailChan, handed, err, attempt, faults>>

\* stop is closed by endIdle.
Stopped == loc \in {"ending", "leaving"}

IdleReturns(outcome) ==
    /\ idler
    /\ idler' = FALSE /\ idleDone' = outcome
    /\ UNCHANGED <<ctxDone, conn, seen, fetchVars, mode, initial, arrived, loc, wire, updates, poke,
                   heard, emails, emailChan, handed, err, attempt, faults>>

\* DONE is answered, or the connection broke.
IdleEnds ==
    \/ Stopped /\ conn = "up" /\ wire = 0 /\ IdleReturns("nil")
    \/ conn = "down" /\ IdleReturns("error")

\* The refresh interval has elapsed.
IdleElapses == conn = "up" /\ wire = 0 /\ IdleReturns("nil")

-----------------------------------------------------------------------------
(* Idle: the select, endIdle and delivery *)

\* A step of the call that leaves the server, the fetch and the mailbox alone.
Goes(to, failed) ==
    /\ loc' = to
    /\ err' = failed
    /\ UNCHANGED <<ctxDone, conn, seen, fetchVars, mode, initial, arrived, idler, wire, updates,
                   heard, handed, attempt, faults>>

\* case <-ctx.Done(): close(stop)
SelectDone == loc = "waiting" /\ ctxDone /\ Goes("leaving", err)
                  /\ UNCHANGED <<idleDone, poke, emails, emailChan>>

\* case <-poke: close(stop)
SelectPoke == loc = "waiting" /\ poke /\ poke' = FALSE /\ Goes("ending", err)
                  /\ UNCHANGED <<idleDone, emails, emailChan>>

\* Mutant of OwnsConnection: endIdle sends DONE and does not wait.
OwnsConnectionEarly == loc = "ending" \/ (loc = "waiting" /\ idleDone # "none")

\* done has been received, by the select or by endIdle.
OwnsConnection == loc \in {"waiting", "ending"} /\ idleDone # "none"

\* Search, or report the error.
RoundGoesOn == OwnsConnection /\ idleDone' = "none"
                   /\ (IF idleDone = "error" THEN Goes("logout", TRUE) ELSE Goes("search", err))
                   /\ UNCHANGED <<poke, emails, emailChan>>

\* case <-time.After(idleShutdownTimeout), or the end of IDLE after ctx.Done.
EndIdleTimesOut == loc = "ending" /\ idleDone = "none" /\ Goes("logout", TRUE)
                       /\ UNCHANGED <<idleDone, poke, emails, emailChan>>
LeaveIdle == loc = "leaving" /\ Goes("logout", err) /\ UNCHANGED <<idleDone, poke, emails, emailChan>>

\* Mutant of Deliver: a full channel drops the email.
DeliverOrDrop ==
    /\ loc = "deliver" /\ emails # <<>>
    /\ emailChan' = IF Len(emailChan) < EmailCap THEN Append(emailChan, Head(emails)) ELSE emailChan
    /\ emails' = Tail(emails)
    /\ Goes("deliver", err) /\ UNCHANGED <<idleDone, poke>>

\* emailChan <- e
Deliver ==
    /\ loc = "deliver" /\ emails # <<>> /\ Len(emailChan) < EmailCap
    /\ emailChan' = Append(emailChan, Head(emails))
    /\ emails' = Tail(emails)
    /\ Goes("deliver", err) /\ UNCHANGED <<idleDone, poke>>

Delivered == loc = "deliver" /\ emails = <<>> /\ Goes("round", err)
                 /\ UNCHANGED <<idleDone, poke, emails, emailChan>>
DeliverCancelled == loc = "deliver" /\ emails # <<>> /\ ctxDone /\ Goes("logout", err)
                        /\ UNCHANGED <<idleDone, poke, emails, emailChan>>

\* The caller reads a message from the channel.
Take ==
    /\ emailChan # <<>>
    /\ handed' = Append(handed, Head(emailChan))
    /\ emailChan' = Tail(emailChan)
    /\ UNCHANGED <<ctxDone, conn, seen, fetchVars, mode, initial, arrived, loc, idler, idleDone, wire,
                   updates, poke, heard, emails, err, attempt, faults>>

-----------------------------------------------------------------------------
(* SEARCH and FETCH *)

\* SEARCH is answered: fetch the last messages, all of them in Idle.
SearchAnswered ==
    /\ loc = "search" /\ conn = "up" /\ wire = 0
    /\ LET limit == IF mode = "idle" THEN Max({1, Len(Found)}) ELSE Limit
       IN  IF Found = <<>>
           THEN /\ loc' = IF mode = "idle" THEN "round" ELSE "logout"
                /\ emails' = <<>>
                /\ UNCHANGED fetchVars
           ELSE /\ loc' = "fetch"
                /\ StartFetch(LastOf(Found, limit), limit)
                /\ UNCHANGED emails
    /\ UNCHANGED <<ctxDone, conn, seen, err, attempt, faults>> /\ UnchangedIdle

\* The connection broke.
SearchFails == loc = "search" /\ conn = "down" /\ Goes("logout", TRUE)
                   /\ UNCHANGED <<idleDone, poke, emails, emailChan>>

\* fetch, while it runs.
Fetching ==
    /\ loc = "fetch" /\ FetchStep
    /\ UNCHANGED <<loc, emails, err, attempt, faults>> /\ UnchangedIdle

\* fetch returns: Idle forgets what an error came with, and its own cancellation.
FetchReturns ==
    /\ loc = "fetch" /\ Finished
    /\ IF mode # "idle" THEN Goes("logout", FetchErr) /\ emails' = Fetched
       ELSE IF FetchErr THEN Goes("logout", ~ctxDone) /\ UNCHANGED emails
                        ELSE Goes("deliver", err) /\ emails' = Fetched
    /\ UNCHANGED <<idleDone, poke, emailChan>>

\* LOGOUT is answered, or fails at once; the channels are closed, Retry goes on.
Logout ==
    /\ loc = "logout"
    /\ conn = "down" \/ (conn = "up" /\ wire = 0)
    /\ conn' = "down"
    /\ loc' = IF mode = "idle" THEN "ended" ELSE "decide"
    /\ UNCHANGED <<ctxDone, seen, fetchVars, emails, err, attempt, faults>> /\ UnchangedIdle

\* Retry: once more after an error, unless the context is done.
Decide ==
    /\ loc = "decide"
    /\ IF err /\ ~ctxDone /\ attempt < MaxRetries
       THEN attempt' = attempt + 1 /\ loc' = "connect"
       ELSE UNCHANGED attempt /\ loc' = "ended"
    /\ UNCHANGED <<ctxDone, conn, seen, fetchVars, emails, err, faults>> /\ UnchangedIdle

-----------------------------------------------------------------------------
(* The environment *)

\* A message arrives; a session that listens is told so.
NewMail ==
    /\ arrived < MaxMail
    /\ arrived' = arrived + 1
    /\ IF mode = "idle" /\ conn = "up"
       THEN wire' = wire + 1 /\ heard' = heard \cup {arrived + 1}
       ELSE UNCHANGED <<wire, heard>>
    /\ UNCHANGED <<ctxDone, conn, seen, fetchVars, mode, initial, loc, idler, idleDone, updates, poke,
                   emails, emailChan, handed, err, attempt, faults>>

\* The connection breaks, or nothing more is heard of the server.
Fault ==
    /\ conn = "up" /\ faults < MaxFaults
    /\ conn' \in {"down", "wedged"}
    /\ faults' = faults + 1
    /\ UNCHANGED <<ctxDone, seen, fetchVars, loc, emails, err, attempt>> /\ UnchangedIdle

Cancel ==
    /\ ~ctxDone
    /\ ctxDone' = TRUE
    /\ UNCHANGED <<conn, seen, fetchVars, loc, emails, err, attempt, faults>> /\ UnchangedIdle

\* The steps of the call itself.
CallStep ==
    \/ Connect \/ ConnectFails \/ StartIdle \/ SelectDone \/ SelectPoke \/ RoundGoesOn
    \/ EndIdleTimesOut \/ LeaveIdle \/ Deliver \/ Delivered \/ DeliverCancelled
    \/ SearchAnswered \/ SearchFails \/ FetchReturns \/ Logout \/ Decide

Next == CallStep \/ ReadUpdate \/ Drain \/ IdleEnds \/ IdleElapses \/ Fetching \/ Take
            \/ NewMail \/ Fault \/ Cancel

Spec == Init /\ [][Next]_vars

\* Goroutines are scheduled, the caller reads the channel, and a server that is
\* not silent answers.  IDLE is not obliged to end by itself.  The select picks among
\* the ready cases at random, so it does not overlook ctx.Done for ever.
FairSpec ==
    /\ Spec
    /\ WF_vars(CallStep) /\ SF_vars(SelectDone) /\ WF_vars(ReadUpdate) /\ WF_vars(Drain) /\ WF_vars(IdleEnds)
    /\ WF_vars(Fetching) /\ WF_vars(Take)

-----------------------------------------------------------------------------
(* Properties *)

\* "Searching or fetching while the IDLE goroutine still holds the connection is
\* both a data race on the go-imap writer and a protocol violation": a SEARCH or a
\* FETCH is in flight only when the IDLE of the round is over.  The LOGOUT that
\* tears down a connection whose IDLE does not end in time is not one of them.
OneCommandAtATime == loc \in {"search", "fetch"} => ~idler

\* FETCH marks a message \Seen, so that no later round of Idle looks at it again:
\* as long as the call goes on, every readable message it has marked is with the
\* caller, in the channel, or on its way there, and none twice.
NothingForgotten ==
    mode = "idle" /\ ~Quit =>
        LET ahead == handed \o emailChan \o emails
        IN  /\ IsInjective(ahead)
            /\ seen \subseteq ToSet(ahead) \cup Unreadable
                                 \cup (IF loc = "fetch" THEN ToSet(batch) ELSE {})

\* A call of Receive or Search that reports no error returns the newest messages,
\* every readable one among the last Limit that it found, and none that was there
\* at first is missed: newest first, whichever worker was last and whenever the
\* context was done.  (A retried Search for unseen messages has lost what a failed
\* attempt marked.)
NewestOrError ==
    loc = "ended" /\ mode # "idle" /\ ~err /\ (mode = "unseen" => attempt = 0) =>
        LET n == IF batch = <<>> THEN 0 ELSE Last(batch)
        IN  /\ n >= initial
            /\ ToSet(emails) = {m \in 1..n : m > n - Limit /\ m \notin Unreadable}
            /\ \A i, j \in DOMAIN emails : i < j => emails[i] > emails[j]

\* "Idle waits for new emails and sends them to the returned channel": a message
\* announced at whatever moment of a round is handed over, unless the call ends
\* or the server is gone.
HeardIsHanded == <>[](heard \subseteq ToSet(handed) \cup Unreadable \/ Quit \/ conn # "up")

\* fetch "always wait[s] for FETCH to finish. The watchdog above guarantees this
\* terminates", even if the server is silent; and every call ends once its
\* context is done, unless it is.
CallEnds ==
    /\ ctxDone /\ loc = "fetch" ~> loc # "fetch"
    /\ ctxDone ~> loc = "ended" \/ conn = "wedged"
=============================================================================
