--------------------------- MODULE FailoverSender ---------------------------
(***************************************************************************)
(* One Send through a FailoverSender whose members are FailoverSenders     *)
(* themselves (compose.go), over providers that run gsmail.Retry           *)
(* (provider.go) around each attempt, or are refused by the provider       *)
(* before that.  A plain FailoverSender is one group.                      *)
(*                                                                         *)
(* The call is sequential; what interleaves with it is the caller's        *)
(* context, cancelled at any moment, and the timer of the backoff.  The    *)
(* outcome of an attempt is the environment's choice.                      *)
(***************************************************************************)
EXTENDS Integers, HttpProviders

CONSTANTS
    Groups,      \* the senders of each group, in order: a sequence of sequences
    Config,      \* the RetryConfig every provider has at first
    NewConfig,   \* the one SetRetryConfig is called with meanwhile
    ServerDelay, \* the delay a throttled answer asks for
    Outcomes,    \* the kinds of error an attempt can end with
    Nil,         \* a nil Sender in a list
    ApiChoices,  \* the APIs the providers can be of: functions from Providers to Apis
    Emails       \* the emails that are sent

Providers == (UNION {ToSet(Groups[g]) : g \in DOMAIN Groups}) \ {Nil}

ASSUME GroupsAssumption  == Groups # <<>> /\ Groups \in Seq(Seq(Providers \cup {Nil}))
ASSUME SetupAssumption   == ApiChoices \subseteq [Providers -> Apis] /\ Emails \subseteq Email
ASSUME OutcomeAssumption == Outcomes \subseteq Kinds \ {"canceled"}
ASSUME ConfigAssumption  == {Config.MaxRetries, NewConfig.MaxRetries} \subseteq Int
ASSUME DelayAssumption   == ServerDelay \in Nat \ {0}

VARIABLES
    api, email, \* the choice of ApiChoices and Emails, which never changes
    phase,     \* see Phases
    g, i,      \* the group and the sender in it that is being tried
    configured, \* how many senders failoverSender.SetRetryConfig has been through
    config,    \* Retry's configuration
    allowed,   \* the attempts each provider's Retry may make
    n,         \* attempt number in Retry
    interval,  \* Retry's backoff interval
    wait,      \* what the current backoff waits for
    err,       \* Retry's lastErr, then the error a sender or a group returned
    inner,     \* the group's errs
    outer,     \* the outermost sender's errs
    ctxDone,   \* is the caller's context cancelled?
    tries,     \* attempts made at each provider
    answers,   \* the providers' answers so far, and who gave them
    result,    \* "none", "sent" or "failed"
    received   \* what the message that was accepted holds

setup == <<api, email>>

retry == <<config, allowed, n, interval>>

vars == <<setup, phase, g, i, configured, retry, wait, err, inner, outer, ctxDone, tries,
          answers, result, received>>

\* prepare: in the provider's Send, before Retry; attempt: top of Retry's loop;
\* calling: inside fn; backoff: in the second select; senderFailed, groupFailed:
\* back in the Send of the group, of the outermost sender, with an error.
Phases == {"prepare", "attempt", "calling", "backoff", "senderFailed", "groupFailed", "done"}

\* DefaultRetryConfig, in milliseconds.
DefaultRetryConfig ==
    [MaxRetries |-> 3, InitialInterval |-> 500, MaxInterval |-> 5000, Multiplier |-> 2]

\* RetryConfig.normalize
normalize(c) ==
    [MaxRetries      |-> IF c.MaxRetries < 0 THEN 0 ELSE c.MaxRetries,
     InitialInterval |-> IF c.InitialInterval <= 0
                         THEN DefaultRetryConfig.InitialInterval ELSE c.InitialInterval,
     MaxInterval     |-> IF c.MaxInterval <= 0
                         THEN DefaultRetryConfig.MaxInterval ELSE c.MaxInterval,
     Multiplier      |-> IF c.Multiplier < 1
                         THEN DefaultRetryConfig.Multiplier ELSE c.Multiplier]

\* The providers in the order in which SetRetryConfig reaches them.
AllProviders == SelectSeq(FlattenSeq(Groups), LAMBDA p : p # Nil)

\* GetRetryConfig
GetRetryConfig(p) ==
    normalize(IF p \in ToSet(SubSeq(AllProviders, 1, configured)) THEN NewConfig ELSE Config)

MinOf(a, b) == IF a <= b THEN a ELSE b

\* The positions of the senders of group h that are not nil, from k on.
Remaining(h, k) == {j \in k..Len(Groups[h]) : Groups[h][j] # Nil}

\* The group and position at which Retry starts when group h takes over; a
\* group that has nobody to send with is left at position 0.
First(h) == IF Remaining(h, 1) = {} THEN 0 ELSE Min(Remaining(h, 1))

\* Its Send returns NonRetryable(ErrNoSenders) before anybody is asked.
EntryPhase(h) == IF First(h) = 0 THEN "groupFailed" ELSE "prepare"
EntryErr(h)   == IF First(h) = 0 THEN NonRetryable(<<"plain">>) ELSE <<>>

\* The values the variables hold.
TypeOK ==
    /\ api \in ApiChoices /\ email \in Emails
    /\ phase \in Phases
    /\ g \in DOMAIN Groups /\ i \in 0..Len(Groups[g])
    /\ configured \in 0..Len(AllProviders)
    /\ config \in {normalize(Config), normalize(NewConfig)}
    /\ allowed \in [Providers -> Nat]
    /\ n \in 0..config.MaxRetries
    /\ interval \in Nat /\ wait \in Nat
    /\ {err, inner, outer} \subseteq Seq(Kinds)
    /\ ctxDone \in BOOLEAN
    /\ tries \in [Providers -> Nat]
    /\ answers \subseteq Providers \X Kinds
    /\ result \in {"none", "sent", "failed"}

\* The outermost Send has just been called.
Init ==
    /\ api \in ApiChoices /\ email \in Emails
    /\ received = <<>>
    /\ g = 1 /\ i = First(1)
    /\ phase = EntryPhase(1)
    /\ err = EntryErr(1)
    /\ configured = 0
    /\ config = normalize(Config)
    /\ allowed = [p \in Providers |-> 0]
    /\ n = 0
    /\ interval = config.InitialInterval
    /\ wait = 0
    /\ inner = <<>> /\ outer = <<>>
    /\ ctxDone = FALSE
    /\ tries = [p \in Providers |-> 0]
    /\ answers = {}
    /\ result = "none"

Provider == Groups[g][i]

-----------------------------------------------------------------------------
(* The provider's Send *)

\* It renders the email once; what it refuses is nobody's to retry.  Retry keeps
\* the configuration it is called with.
Prepare ==
    /\ phase = "prepare"
    /\ IF Refuses(api[Provider], email)
       THEN /\ phase' = "senderFailed"
            /\ err' = NonRetryable(<<"plain">>)
            /\ answers' = answers \cup {<<Provider, "permanent">>}
            /\ UNCHANGED retry
       ELSE /\ phase' = "attempt"
            /\ n' = 0
            /\ config' = GetRetryConfig(Provider)
            /\ interval' = config'.InitialInterval
            /\ allowed' = [allowed EXCEPT ![Provider] = @ + config'.MaxRetries + 1]
            /\ UNCHANGED <<err, answers>>
    /\ UNCHANGED <<setup, g, i, configured, wait, inner, outer, ctxDone, tries, result, received>>

-----------------------------------------------------------------------------
(* Retry *)

\* Mutant of BeginAttempt: the check of the context before each attempt is lost.
BeginAttemptUnchecked ==
    /\ phase = "attempt"
    /\ phase' = "calling"
    /\ tries' = [tries EXCEPT ![Provider] = @ + 1]
    /\ UNCHANGED <<setup, g, i, configured, retry, wait, err, inner, outer, ctxDone, answers, result, received>>

\* The context is alive: call fn.
BeginAttempt ==
    /\ phase = "attempt"
    /\ ~ctxDone
    /\ phase' = "calling"
    /\ tries' = [tries EXCEPT ![Provider] = @ + 1]
    /\ UNCHANGED <<setup, g, i, configured, retry, wait, err, inner, outer, ctxDone, answers, result, received>>

\* fn returned nil, and so does every Send around it.
AttemptSucceeds ==
    /\ phase = "calling"
    /\ phase' = "done"
    /\ result' = "sent"
    /\ received' = Carried(api[Provider], email)
    /\ UNCHANGED <<setup, g, i, configured, retry, wait, err, inner, outer, ctxDone, tries, answers>>

\* Mutant of AttemptFails: the configuration is read again for every decision.
AttemptFailsRereads(kind) ==
    /\ phase = "calling"
    /\ kind \in AttemptErrors(api[Provider]) \cup {"canceled"}
    /\ answers' = answers \cup {<<Provider, kind>>}
    /\ err' = <<kind>>
    /\ IF IsRetryable(err') /\ n < GetRetryConfig(Provider).MaxRetries
       THEN /\ phase' = "backoff"
            /\ wait' = IF HasRetryAfter(err') THEN ServerDelay ELSE interval
       ELSE /\ phase' = "senderFailed"
            /\ UNCHANGED wait
    /\ UNCHANGED <<setup, g, i, configured, retry, inner, outer, ctxDone, tries, result, received>>

\* fn returned an error: give up, or compute the wait before the next attempt.
\* A context that dies under fn may be what it reports.
AttemptFails(kind) ==
    /\ phase = "calling"
    /\ kind \in AttemptErrors(api[Provider]) \cup {"canceled"}
    /\ answers' = answers \cup {<<Provider, kind>>}
    /\ err' = <<kind>>
    /\ IF IsRetryable(err') /\ n < config.MaxRetries
       THEN /\ phase' = "backoff"
            /\ wait' = IF HasRetryAfter(err') THEN ServerDelay ELSE interval
       ELSE /\ phase' = "senderFailed"
            /\ UNCHANGED wait
    /\ UNCHANGED <<setup, g, i, configured, retry, inner, outer, ctxDone, tries, result, received>>

\* The timer of the backoff; with a dead context too, when both are ready.
TimerFires ==
    /\ phase = "backoff"
    /\ interval' = MinOf(interval * config.Multiplier, config.MaxInterval)
    /\ n' = n + 1
    /\ phase' = "attempt"
    /\ UNCHANGED <<setup, g, i, configured, config, allowed, wait, err, inner, outer, ctxDone, tries, answers, result, received>>

\* Both selects of Retry: errors.Join(ctx.Err(), lastErr)
Cancelled ==
    /\ phase \in {"attempt", "backoff"}
    /\ ctxDone
    /\ err' = <<"canceled">> \o err
    /\ phase' = "senderFailed"
    /\ UNCHANGED <<setup, g, i, configured, retry, wait, inner, outer, ctxDone, tries, answers, result, received>>

-----------------------------------------------------------------------------
(* failoverSender.Send *)

\* Group h is asked from position k on.
Ask(h, k) == g' = h /\ i' = k

\* The loop body after a member failed: does the walk go on to the next one?
WalksOn == IsRetryable(err) /\ ~ctxDone

\* What the loop returns when it does not.
Joined(errs) == IF IsRetryable(err) /\ ctxDone THEN errs \o <<"canceled">> ELSE errs

\* Mutant of GroupStep: whatever the error says, the next sender is asked.
GroupStepWalksOn ==
    /\ phase = "senderFailed"
    /\ LET left == Remaining(g, i + 1)
       IN  IF ~ctxDone /\ left # {}
           THEN /\ Ask(g, Min(left))
                /\ phase' = "prepare"
                /\ err' = <<>>
                /\ inner' = inner \o err
           ELSE /\ phase' = "groupFailed"
                /\ err' = Joined(inner \o err)
                /\ inner' = <<>>
                /\ UNCHANGED <<g, i>>
    /\ UNCHANGED <<setup, configured, retry, wait, outer, ctxDone, tries, answers, result, received>>

\* Mutant of GroupStep: only the last error is kept.
GroupStepKeepsLast ==
    /\ phase = "senderFailed"
    /\ LET left == Remaining(g, i + 1)
       IN  IF WalksOn /\ left # {}
           THEN /\ Ask(g, Min(left))
                /\ phase' = "prepare"
                /\ err' = <<>>
                /\ inner' = err
           ELSE /\ phase' = "groupFailed"
                /\ err' = Joined(err)
                /\ inner' = <<>>
                /\ UNCHANGED <<g, i>>
    /\ UNCHANGED <<setup, configured, retry, wait, outer, ctxDone, tries, answers, result, received>>

\* A provider failed: the group stops or goes on to its next sender.
GroupStep ==
    /\ phase = "senderFailed"
    /\ LET left == Remaining(g, i + 1)
       IN  IF WalksOn /\ left # {}
           THEN /\ Ask(g, Min(left))
                /\ phase' = "prepare"
                /\ err' = <<>>
                /\ inner' = inner \o err
           ELSE /\ phase' = "groupFailed"
                /\ err' = Joined(inner \o err)
                /\ inner' = <<>>
                /\ UNCHANGED <<g, i>>
    /\ UNCHANGED <<setup, configured, retry, wait, outer, ctxDone, tries, answers, result, received>>

\* The same for the outermost sender, whose members are the groups.
OuterStep ==
    /\ phase = "groupFailed"
    /\ IF WalksOn /\ g < Len(Groups)
       THEN /\ Ask(g + 1, First(g + 1))
            /\ phase' = EntryPhase(g + 1)
            /\ err' = EntryErr(g + 1)
            /\ outer' = outer \o err
            /\ UNCHANGED result
       ELSE /\ outer' = Joined(outer \o err)
            /\ phase' = "done"
            /\ result' = "failed"
            /\ UNCHANGED <<g, i, err>>
    /\ UNCHANGED <<setup, configured, retry, wait, inner, ctxDone, tries, answers, received>>

\* failoverSender.SetRetryConfig, called by another goroutine, reaches its next sender.
SetRetryConfig ==
    /\ configured < Len(AllProviders)
    /\ phase # "done"
    /\ configured' = configured + 1
    /\ UNCHANGED <<setup, phase, g, i, retry, wait, err, inner, outer, ctxDone, tries,
                   answers, result, received>>

\* The caller gives up.
Cancel ==
    /\ ~ctxDone
    /\ phase # "done"
    /\ ctxDone' = TRUE
    /\ UNCHANGED <<setup, phase, g, i, configured, retry, wait, err, inner, outer, tries, answers, result, received>>

Step ==
    \/ Prepare
    \/ BeginAttempt
    \/ AttemptSucceeds
    \/ \E kind \in Outcomes : AttemptFails(kind)
    \/ ctxDone /\ AttemptFails("canceled")
    \/ TimerFires
    \/ Cancelled
    \/ GroupStep
    \/ OuterStep

Next == Step \/ SetRetryConfig \/ Cancel

Spec == Init /\ [][Next]_vars

-----------------------------------------------------------------------------
(* Properties *)

\* Has a provider rejected the message for good?
Rejected == \E a \in answers : a[2] \in {"permanent", "badRequest"}

\* FailoverSender: a permanent rejection is "returned immediately rather than
\* offered to every backup in turn": a sender whose provider rejected the message
\* asks none of its others, and retries nothing.
RejectionEndsGroup ==
    [][\A a \in answers : a[2] \in {"permanent", "badRequest"} =>
          \A h \in DOMAIN Groups : a[1] \in ToSet(Groups[h]) =>
              \A p \in ToSet(Groups[h]) \ {Nil} : tries'[p] = tries[p]]_vars

\* "Context cancellation stops the walk": once the context is dead no provider
\* is asked again, by a retry or as a backup.
CancelIsFinal == [][ctxDone => tries' = tries]_vars

\* "Every sender's error is joined into the returned error, so a total failure
\* says what each one did": the returned error carries an answer of every
\* provider that was asked.
FailureSaysAll ==
    result = "failed" => \A p \in Providers : tries[p] > 0 \/ (\E a \in answers : a[1] = p) =>
        \E a \in answers : a[1] = p /\ a[2] \in ToSet(outer)

\* Did an attempt end with a timeout of the provider's own?
TimedOut == \E a \in answers : a[2] = "timeout"

\* IsRetryable: "Context cancellation and errors marked with NonRetryable are
\* not; everything else is, unless the error implements Retryable and says no".
\* A Send that fails while its context is alive has spent every attempt that the
\* configuration gave every provider when its Retry began, though SetRetryConfig is
\* called at any moment, unless a provider rejected the message, or, which the
\* quotation denies, an attempt ended with a timeout of the provider's own, that
\* the code takes for the context's and that ends the whole walk.
TransientIsRetried ==
    result = "failed" /\ ~ctxDone /\ ~Rejected /\ ~TimedOut =>
        \A p \in Providers : tries[p] = allowed[p]

\* The texts of an email as they arrive, each with the type of the field it was in:
\* "Body is text/plain, HTMLBody is text/html".  The exception is a message that the
\* library renders and whose only text is a Body that looks like HTML; "providers no
\* longer sniff" is not true of it.
TextsSent ==
    IF Renders(api[Provider], email) /\ IsHTML(email.body) /\ ~email.html
    THEN {<<"text/html", email.body>>}
    ELSE Contents(email).texts

\* The files as they arrive: Mailgun's form has no place for the type and the
\* Content-ID of a file.
FilesSent ==
    IF api[Provider] = "mailgun"
    THEN [k \in DOMAIN email.attachments |-> [Shown(email.attachments[k]) EXCEPT !.type = DefaultType, !.cid = ""]]
    ELSE ShownAll(email.attachments)

\* ses.Send: "no part of the Email is silently dropped", and the like for the
\* other providers: whoever accepts the message, after whichever failures of
\* others, its reader finds both bodies, every attachment in its order, inline
\* ones as such, with its type and Content-ID, and the custom headers, but for
\* the two losses named above.
NothingDropped ==
    result = "sent" =>
        /\ received.texts = TextsSent
        /\ received.files = FilesSent
        /\ received.headers = Contents(email).headers
=============================================================================
