# gsmail: models, checks and proofs

TLA+ models of the concurrent and failure-prone parts of gsmail, the TLC runs
that check them on small instances, and TLAPS proofs that hold for every value
of the constants. Source references are to paths under `src/`.

Run everything from this directory:

    tlc -config SmtpPool.cfg MCSmtpPool.tla            # one run
    tlapm SmtpPoolProofs.tla                           # one proof module

`PROJECT.json` lists the runs with their properties, the source lines every
definition stands for, the mutants that show that each property can fail, the
hazards of the code, the findings and the theorems.

## 1. The system

gsmail is a library: an application composes *senders* and *receivers* and calls
them from its own goroutines. Every stateful part below is shared between those
goroutines; everything else is a pure function of a message or one request to a
server.

| component | state | operations | what is hard about it |
|---|---|---|---|
| SMTP connection pool, `smtp/pool.go` | open count, idle stack, queue of waiters, set of lent connections, closed flag | `Get`, `Put`, `Close` | one mutex, but the network calls, the hand-over to a waiter and the cancellation of a waiter happen outside it |
| `BackgroundSender`, `worker.go` | buffered queue, error channel, `stopped` under a RWMutex, shared context, `stopOnce` | `TrySend`, `Start`, workers, `Stop`, `StopNow`, `Errors` | closing a channel others send to; a graceful and an abrupt stop racing |
| `Retry`, classification, failover, `provider.go`, `httperror.go`, `compose.go` | attempt, interval, last error, joined errors, the context | `Retry`, `failoverSender.Send`, `Ping` | which error allows another attempt or another provider, when errors are joined and joined again |
| `TokenBucket`, `compose.go` | tokens, time of the last refill | `Wait`, `reserve` | no queue: callers sleep and compete again; fractions of tokens |
| `CachingTokenSource`, `compose.go` | token, expiry, mutex held across the refresh | `Token` | expiry, failing refreshes, everyone blocked behind one |
| POP3 receiver, `pop3/pop3.go` | the session's marks on the server, the batch under retry | `Receive`, `Ping` | deletion is committed by QUIT, at a moment when the caller has nothing yet |
| IMAP receiver, `imap/imap.go`, `imap/ops.go` | the IDLE session and its four goroutines, the fetch pipeline, flags and messages on the server | `Receive`, `Search`, `Idle`, `MarkSeen`, ..., `Move`, `Delete` | IDLE and commands alternate on one connection while updates arrive; FETCH marks what the caller does not have yet; scripts of commands are retried |
| Domain health, `health.go` | result channel, wait group, the report | `CheckDomainHealth` and its checks | a collector that leaves early, checks blocked on an unbuffered channel; an outage looks like an unconfigured domain |
| Suppression, `suppression.go` | entries keyed by normalized address | `Add`, `Remove`, `Record`, the interceptor | the list changes while a message is filtered; a store that fails |
| Bounces and webhooks, `bounce.go`, `webhook.go` | the certificate cache of `SNSVerifier` | verifiers, parsers | five vocabularies for the same few outcomes; a forged report silences a customer |
| SMTP sender, `smtp/smtp.go`, `auth.go` | one transaction on one connection, its own or a pooled one | `Send`, `Close`, `Ping` | what to retry when an answer is lost; what a failed transaction leaves on a pooled connection; TLS before authentication |
| Test doubles, `gsmailtest/` | recorded emails, the idle channel | `Idle`, `Push` | Push against the end of Idle |
| Interceptors, `middleware.go`, `otelgs/` | none | `WrapSender`, `Recovery` | order, panics |
| HTTP providers, `sendgrid/`, `mailgun/`, `postmark/`, `ses/` | none | one request inside `Retry` | the status decides about retries; each API can express another part of an email |
| Rendering and parsing, `utils.go`, `email.go`, `dkim.go`, ... | none | `RenderMessage`, `ParseRawEmail` | nesting; what becomes of each part |
| `outlook/` | none | rewrites HTML for Outlook | |

How they interact: an application's `Send` goes through interceptors
(suppression, rate limit), possibly into a `BackgroundSender` whose workers call
the wrapped sender, possibly through failover senders nested in each other; each
provider wraps its attempts in `Retry`; the SMTP sender borrows its connection
from the pool for one transaction and gives it back with the error, if any; an
OAuth token comes from the token source, once per connection. What the recipients'
servers answer comes back later, as a webhook or a mail, and ends up on the
suppression list the next `Send` looks at. All of them share
the caller's context, which may be done at any moment.

### What makes each part correct

* Pool: every slot is accounted for whatever fails; nobody shares a connection;
  a queued goroutine is served, woken or cancelled, never forgotten; no send
  under the lock can block; a closed pool drains.
* BackgroundSender: an accepted email is in one place and is offered to the
  provider once; no panic on a closed channel; a graceful stop delivers
  everything and aborts nothing; every stop returns.
* Retry and failover: transient failures use up every attempt and every
  provider, a rejection none; a dead context ends it; the error tells all.
* TokenBucket: no window of time sees more grants than the burst plus one per
  interval, nobody is refused without need, and who waits gets a token once others
  have stopped taking it.
* SMTP sender: a copy per message unless an answer is lost, the copies alike and to
  the message's recipients only; a refusal is final; a connection goes back on every
  path and carries nothing over to the next borrower.
* Token source: one refresh serves everyone blocked behind it.
* POP3: no message leaves the server that the caller does not get.
* Health: a report without an error is complete, tells an outage from a missing
  record, and no goroutine is left.
* Suppression: listed mailboxes get nothing, all others their copy, and every
  drop is reported; only what a genuine report or a person said gets on the list,
  and all of that does.
* HTTP providers: whoever accepts a message carries all of it, but for two losses that
  are named (section 6).
* IMAP: no command while IDLE holds the connection; what is announced is fetched and
  what is fetched reaches the caller; a batch is complete or an error; no message
  disappears from both mailboxes; every call ends with its context.

## 2. Modules

| module | models | composed with |
|---|---|---|
| `ConnectionLease` | what a pool promises its borrowers (abstract) | |
| `SmtpPool` | `smtp/pool.go` | implements `ConnectionLease` |
| `MCSmtpPool` | symmetry for TLC, in the run that checks no liveness | |
| `SmtpPoolProofs` | theorems about `SmtpPool`: accounting, waiters, and that it implements `ConnectionLease` | |
| `SmtpSend` | `smtp.Sender.Send` in `Retry`, with dial, STARTTLS, AUTH and the transaction, against a server | borrows through `ConnectionLease` |
| `MCSmtpSend` | the Senders and servers TLC takes | |
| `SmtpSendProofs` | theorems about `SmtpSend` | |
| `Outbox` | what a background sender promises (abstract) | |
| `BackgroundSender` | `worker.go` | implements `Outbox` |
| `BackgroundSenderProofs` | theorems about `BackgroundSender`, the refinement among them | |
| `SendErrors` | `IsRetryable`, `retryAfter`, `HTTPError.Retryable` as operators on chains of errors | |
| `MimeMessage` | `buildMessage` and `ParseRawEmail` as operators on the parts of a message | |
| `HttpProviders` | what each provider refuses, carries of an email and makes of an answer | uses `SendErrors`, `MimeMessage` |
| `FailoverSender` | `Retry` inside `failoverSender.Send`, nested once, and `SetRetryConfig` | extends `HttpProviders` |
| `MCFailoverSender` | groups, APIs and emails for TLC | |
| `FailoverSenderProofs` | theorems about `FailoverSender`, and lemmas about what a message carries | |
| `FillingBucket` | what `TokenBucket` is meant to be: a bucket that fills by itself (abstract) | |
| `TokenBucket` | `TokenBucket.Wait` and `reserve` | implements `FillingBucket` |
| `TokenSource` | `CachingTokenSource` | |
| `RateLimitedSend` | `RateLimitedSender` over providers that share a token source | composes `TokenBucket` and `TokenSource` |
| `RateLimitedSendProofs` | theorems about both components and their composition | |
| `RetryBounds` | how often Retry may repeat an operation, and how often it may fail | |
| `Receiver` | the parameters and the state that the receivers have in common | extends `RetryBounds` |
| `Pop3Receive` | `pop3.Receiver.Receive` in `Retry`, against a server | extends `Receiver` |
| `DomainHealth` | `CheckDomainHealth` and the verdicts of its checks | |
| `MCDomainHealth` | what the DNS publishes | |
| `SuppressedSend` | `MemorySuppressionList`, the interceptor, recovery, and the choice of recipients in `smtp.Sender.Send` | |
| `BounceEvents` | the verifiers of `webhook.go` and the parsers of `bounce.go` as operators | |
| `SuppressionLoop` | webhook handlers and the operator, in front of the list | composes `SuppressedSend` and `BounceEvents` |
| `MCSuppressionLoop` | addresses, messages and requests for TLC | |
| `DeliverabilityProofs` | theorems about the loop, the parsers and the interceptor, and about `DomainHealth` | extends both |
| `ImapFetch` | `Receiver.fetch`: command, watchdog, indexer, workers, collector | extends `Receiver` |
| `ImapReceive` | `Receive`, `Search` and `Idle` | extends `ImapFetch` |
| `ImapMailbox` | the operations of `imap/ops.go` under `Retry`, against a mailbox | extends `RetryBounds` |
| `MCImapMailbox` | the calls TLC makes | |
| `ReceiverProofs` | theorems about `ImapReceive` with the fetch under it, about `Pop3Receive` and about `ImapMailbox` | extends all three |
| `SequenceLemmas` | what `Append`, `Tail`, `\o` and `FlattenSeq` do to the elements of a sequence, and induction on its length | used by the proofs |

Where two components are proved about together, their specifications have names of
their own (`PollSpec`, `MailboxSpec`, `HealthSpec`), and `Receiver` declares what POP3 and
IMAP have in common: the call, Retry's attempt, its error, the caller's context.

The `MC...` modules hold the definitions a configuration needs: symmetry sets,
sequences of senders, retry configurations, addresses. A module without one is
checked as it is.

### SmtpPool

Each critical section under `p.mu` is one action and so is each channel
operation outside of it; a network call belongs to the critical section that
follows it, because the connection it uses is reachable from one goroutine only.
`pc` says where a goroutine is; the comment at `Locations` gives the line of each
value. A waiter's channel is named by its receiver (`chan[p]`), as a goroutine
has at most one. `decOpenLocked` is an operator used by every action that
releases a slot, as in the code. A connection's age is abstracted: an expired
connection is discarded exactly where one whose NOOP or RSET fails is, so it is
one whose check fails (`Faults`). The counters `waitCount` and `waitDuration`
are left out. The environment calls Put once after each Get, as
`smtp.Sender.Send` does. `PoolConfig.Wait` is the constant-valued variable
`mayWait`, so one run covers pools that wait and pools that do not; likewise
`cancellable`, the goroutines whose context may be cancelled.

Under the refinement a connection is lent to a goroutine that uses it, gives it
back, or has it in its channel; it is idle on the stack and during the NOOP; one
being closed, or checked out of `active` for good, is gone.

### SmtpSend

A command and its answer are one action. The server keeps per connection whether
TLS and authentication are on, and the open transaction with the recipients it
has accepted. `config` is one of the Senders of `Configs`, together with what the
server offers (STARTTLS, AUTH). The pool is `ConnectionLease` with the guards of
`Get` and `Put` added: who may dial (`AtLimit`, the slots of dialers included),
who waits, what is kept. A connection breaks at any moment (`Hangup`), and the
answer to the final dot can be lost with it (`DotUnanswered`). `message` is the
rendering an attempt offers; the code renders once, so it stays 1. `inbox`,
`copies` and `lost` are histories of the server's side. The context
is modelled where the code looks at it; the commands after the dial know none.

### BackgroundSender

`TrySend` takes the read lock and looks at `stopped` in one step and sends in
another, so that `markStopped`, which needs the write lock, has to wait in
between. With a capacity of 0 an email passes directly to a receiving worker.
`Sender.Send` is the environment: it answers, or hangs and answers only once
its context is cancelled. `markStopped` is two steps, calling `mu.Lock` and
holding it, as a pending writer keeps new readers out. `panicked` records a send on,
or the closing of, a closed channel.

### FailoverSender and SendErrors

One call of `Send`. An error is the sequence of the errors it wraps in the order
in which `errors.Is` and `errors.As` visit them; what they are is abstracted to
the kinds the classification tells apart. `phase` separates the preparation in a
provider, the body of an attempt, the backoff's select and the loops of the group
and of the outermost sender, because the context may be done between any two of
them. `Groups` with one element is a plain FailoverSender. `SetRetryConfig` walks
through the providers one by one (`configured` is how far it has come); a Retry
keeps the configuration it started with (`retry`), and `allowed` is a history of it: the
attempts that the Retries begun at a provider may make in all.

### MimeMessage and HttpProviders

A message is the sequence of its parts as they are written, a multipart before the parts
it holds, which are one level deeper. A part has a type, a disposition and a content, which
stands for itself: encodings, boundaries and the wording of headers are left out,
but not which part goes where and which headers are dropped or refused. Every provider is a
member of `FailoverSender`'s groups with its own refusals, statuses and errors; each of
them, and not SMTP alone, has a timeout of its own.

Two conversions stand between an email and its reader. The code's is the message
(`buildBody`) or the API's request with the fields the code fills: `SendGridRequest`,
`MailgunForm`, `PostmarkRequest`, the "simple" content of SES. The provider's is external:
what a reader finds in a message is what `ParseRawEmail` finds, and in a request what the
operators `...Shows` read in its fields. `Contents` is what the email says: every text with the
media type of the field it is in, every file with type, Content-ID and whether it is
inline, and the custom headers.

### TokenBucket

Time is in ticks. The tokens are kept multiplied by the interval, which makes
the code's fractions exact integers; the rounding of float64 is abstracted, and
with it the possibility that a rest of less than a nanosecond is truncated to a
wait of zero. `granted`, the history of the grants, exists for the properties.
`RateLimitedSender` calls `Wait` before each send:
`RateLimitedSend` composes it with the token source its provider may need.

`FillingBucket` has neither a clock nor the instant of the last refill: each tick adds to
its `level` and takes from the time the sleepers have left. Under the refinement `level` is
what `reserve` would find at this instant (`Refilled`), and `left` the time to a caller's
`wakeAt` (`TimeLeft`).

### TokenSource

The age of a token is abstracted to fresh or stale; `refresh` may return a token
that outlives the leeway, one that does not, nothing, or an error. The lock is a
variable, as it is held while refresh runs.

### Pop3Receive

The server's side, a maildrop and a session with marks, is modelled from the
protocol as the client library drives it: a session sees the maildrop as it was
at the start, DELE marks, QUIT commits, and a lost connection forgets. Messages
are numbered by arrival. `QuitFails` covers an answer to QUIT that never arrives
at the server; one that the server acted on is `Quit`, since the code ignores the
answer in both cases. The retry loop is that of `provider.go` with its waits
abstracted, and its error classification reduced to what `receive` returns.

### DomainHealth

An unbuffered send and its receive are one action. A DNS lookup returns at any
moment, with what the zone publishes, with an error that says there is nothing, or
with another error. A record is one the check is after, or not; the text of SPF,
DMARC and DKIM records is not looked at beyond that.

### SuppressedSend, BounceEvents and SuppressionLoop

An address is a spelling of a mailbox (`Mailbox`), as `NormalizeAddress` makes them
comparable; To, Cc and Bcc are one sequence, since they are filtered one after the
other. `Recovered` is the recovery interceptor around the whole: the panic of a
callback becomes an error.

A request carries its provider's words (`Wording`) and, unseen by the parsers, what
they mean; the properties compare the two. A signature is right, wrong or missing.
`Record` adds one item per step, as each takes the lock by itself. The certificate
of an SNS message is looked up, fetched without the lock and stored. `dead` is a
history of what the providers and the operator have really said, `promised` of what
the handlers have answered for, and `mistaken` of the two kinds of genuine report that the
code takes for something else: an SNS message whose signed timestamp is beyond the
tolerance, and a SendGrid bounce of type blocked (`Blocked`). `Wording` has
the events of the five vocabularies, that one included; a request of a provider that dates
its requests may be old (`Recent`), and Postmark dates none.

### ImapFetch and ImapReceive

Messages are numbered by arrival. A channel is a counter where its content does not
matter, and the gap between two counters in the pipeline of `fetch`, whose channels
are never full. The connection is up, down, or open and silent. An answer is read
after the updates sent before it, so a full `c.Updates` holds up the answer of
whatever command is waiting, which is why `Drain` has to go on. `heard` is a history
of what was announced.
`connect`, `authenticate` and SELECT are one step; its failures are one error,
retried by Receive and Search and final in Idle.

### ImapMailbox

An operation is a script of commands, run from the start in every attempt on a new
connection. A command is atomic at the server, and fails before or after it was
executed. EXPUNGE removes every message marked `\Deleted`, whoever marked it. An
empty set of UIDs would name every message, which is why `uidSet` refuses it.

## 3. Runs

Each run is `<name>.cfg`. The instances are chosen so that every action of the
next-state relation fires in at least one run of its module.

| run | instance | shows |
|---|---|---|
| `SmtpPool` | 3 goroutines, all or none cancellable, `MaxOpen` 2, `MaxIdle` 1, faults, `Wait` true or false, fair | every slot is accounted for; `ConnectionLease` is implemented; nobody is forgotten; no send under the lock can block; without cancellation no free slot is left unannounced; every Get returns once connections stop failing; after Close the count goes to zero |
| `SmtpPoolLostWakeup` | 4 goroutines, `MaxIdle` 2, with `Wait` | violation, section 6 |
| `SmtpSend` | 2 callers, one cancellable, one pooled connection, one retry, 2 faults, 11 Senders, fair | copies are counted, alike and go to their recipients only, Send returns |
| `BackgroundSend` | 2 producers, 2 workers, Stop and StopNow, 3 emails, buffers of 0, 1 and 2, hanging sends, fair | no panic, graceful stop, `Outbox` is implemented, stops return, accepted emails are attempted |
| `FailoverSend` | three groups, one with a nil among its providers, one of one, one with nobody; five placements of five APIs, seven emails, every kind of error, two retries, one walk of `SetRetryConfig` | nothing of an email is dropped but for two named losses; rejections end a group, transient failures other than a provider's own timeout use up everything, a dead context ends it, the error tells all |
| `RateLimitedSend` | 2 callers, interval 2, burst 2, 4 grants, clock to 1 and on while somebody sleeps, one expiry, every kind of answer, fair | rate in every window, no needless refusal, `FillingBucket` is implemented, a refresh serves the callers behind it, every call returns |
| `Pop3Poll` | 4 messages, one unreadable, limit 2, one retry, 2 faults, fair | nothing is lost; every message is handed over |
| `Pop3Refused` | the server may refuse DELE | violation, section 6 |
| `HealthCheck` | the three fixed checks and two selectors, one of them empty, six zones, cancellation, fair | a complete report that tells an outage from a missing record; no goroutine is left |
| `SuppressionLoop` | one sender, one handler, an operator; 2 spellings of one mailbox and another one; every wording of five providers, forged requests and old ones, of SNS too, two certificates for a cache of one | who gets on the list, that all of them do, who gets the message, who is reported |
| `ImapReceive` | four kinds of calls, 2 workers, 3 messages, one unreadable, limit 2, one fault, one retry, channels of 3 and 1, fair | commands never overlap; nothing seen is forgotten; a batch is complete or an error; what is announced is handed over; calls end |
| `ImapMailbox` | 2 callers, 3 messages, ten calls, MOVE or not, 2 retries, 2 faults each | no message is lost, done means gone |

### Bounds

* Pool: with `MaxOpen` 2 and three goroutines one waits while two are borrowers, and
  two wait while a slot is being released or a dial fails: so one waiter can be
  cancelled, woken or handed a connection while another stays queued, and
  `MaxIdle` 1 makes `PutExcess` happen with one connection idle. There are enough
  connection identities for one in each hand and one more being closed; when
  `Conns` is used up a dial waits. The lost wake-up is shown with four goroutines.
* SmtpSend: two callers on one connection meet as waiter and lender, as two
  borrowers one after the other, and as dialer and waiter; two faults allow a
  lost answer and a failing retry, or a broken connection for each caller; the
  two recipient lists differ, so that what one message leaves behind would show
  in the other. The eight settings that never get as far as MAIL are there for
  the paths that give up before it.
* Background: three emails fill a buffer of two and keep one producer at a full
  queue; each email is accepted at most once, so the model is finite. Two
  stoppers are enough to have one inside and one behind `stopOnce`.
* Failover: two retries meet the cap on the interval; a group of two providers and
  one of one have a first, a next and a last one; three groups show what an outer
  sender makes of a joined error and of a group that asks nobody. The five
  placements bring every API into every position; the seven emails are a plain one,
  the combinations of bodies and attachments the renderers branch on, text that
  looks like HTML, an envelope, and a header nobody can send.
* Rate and token: `MaxGrants` bounds the calls that are let in and `MaxTime`
  the clock, which may run on only while somebody sleeps. It idles for half an
  interval, so fractions occur and a full bucket overflows. Two grants after the burst are
  enough for a sleeper to find its token taken by the other caller, and to sleep again.
  One expiry makes a cached token stale while one caller holds the lock and the other is
  behind it.
* Pop3: four messages with a limit of two span two batches and a part; two
  faults let a retry fail again.
* Suppression: two recipient lists with both spellings in both orders; one sender and
  one handler are enough, as the operator changes the list at any moment and every
  step of the two interleaves. A cache of one certificate makes every second fetch
  evict. Several handlers, which the theorems allow, share nothing but that cache and the list.
* Health: all checks are independent; a record set has at most two records, which is
  what tells one from several.
* ImapReceive: three messages make one arrive before, one during and one after a
  fetch, and a batch of two out of three is cut by the limit; one worker more than
  one reorders. `UpdateCap` is at least `MaxMail`: see the first of the IMAP remarks in
  section 6 for what happens beyond it.
* ImapMailbox: one caller's script overlaps another one's on one message and leaves
  one alone; two faults fail an attempt and its retry.

The runs of FailoverSend, RateLimitedSend, HealthCheck, SmtpSend, ImapReceive and
ImapMailbox do not check for deadlock: they model one call, or finitely many, which
end. In the other runs every state has a successor, and a deadlock is an error.

### Fairness

* Pool: weak fairness of each goroutine's own steps once it is inside `Get` or
  has borrowed: goroutines run and network calls return.
  No fairness for calls, cancellation and Close.
* SmtpSend: weak fairness of each caller's steps, the server's answers among them:
  a command is answered or its connection breaks. The code has no deadline on
  commands, so this is an assumption about the network, listed as a hazard. The
  pool is the abstract one, in which a waiter sees a free slot; that the real one
  may lose a wake-up is the business of `SmtpPool`.
* Background: weak fairness of workers, of producers inside `TrySend` and of
  stoppers inside `Stop`. A worker inside a hanging `Send` is only required to
  return once the context is cancelled.
* Rate and token: callers inside `Wait` run and time goes on, but the calls are finitely many:
  with newcomers for ever, a sleeper may find its token taken every time, as
  `compose.go:193` has no queue; strong fairness of each
  caller at the token source, as `sync.Mutex` hands the lock to a waiter that has been
  blocked for a millisecond (its starvation mode), and `refresh` returns.
* Pop3: the caller polls again and the server answers, faults being finite.
* Health: lookups return, goroutines run.
* ImapReceive: weak fairness of the call, the drain goroutine, go-imap's reader, the
  fetch pipeline, the end of an IDLE that was asked to end, and the caller reading
  from the channel; strong fairness of the select's case for a dead context, as Go
  picks among ready cases at random. A connection that has gone silent
  answers nothing; no IDLE is obliged to end by itself and no mail to arrive.
* FailoverSend, SuppressionLoop, ImapMailbox: none; their properties are safety.

## 4. Proofs

The theorems hold for every value of the constants that satisfies the named
assumptions of the modules; where one needs more, its statement says so. Each
proof module starts with the inductive invariant, proves that every action keeps
it, and derives the properties of the runs from it.

### SmtpPool

For every finite set of goroutines, every set of connections and every `MaxIdle` and
`MaxOpen`:

* `InductiveInvariant`: `IInv`, the conjunction of `TypeOK`; `HandShape` (who has
  a connection or a waiter in hand, by location); `WaitShape` (only goroutines
  in Get's select are queued or sent to); `SendNeverBlocks`; and `Accounting`.
  None of the last two is inductive alone. That a send finds an empty channel
  needs that a dequeued waiter is sent to by one goroutine only and cannot have
  queued again, which is `WaitShape`. That the count is exact needs that the
  receiver's channel was empty before the hand-over (so that one busy goroutine
  replaces another one) and that the floor of `decOpenLocked` is never hit, which
  is `Accounting` with a busy goroutine at hand.
* `OpenIsBounded`: each slot is taken below the limit, everything else lowers
  the count or leaves it.
* `NobodyWaitsForIdle`: a goroutine queues only when the stack is empty, and Put
  pushes only when the queue is.
* `NobodyIsForgotten`: whoever blocks in Get's select is queued, has something in its
  channel, or is the waiter of a Put about to send. `Close` and `decOpenLocked` take a
  waiter out and fill its channel in one step; only Put does it in two, and has
  the waiter in hand in between.
* `NoWakeupIsLost`: if `cancellable = {}`, then `waiters # <<>>` implies
  `open + Cardinality(Retrying) >= MaxOpen`. Every release of a slot dequeues one
  waiter, whose channel makes it a retrying one; the assumption rules out that
  this waiter leaves instead, which `SmtpPoolLostWakeup` shows to happen.
* `Refinement`: `ConnectionLease` is implemented. The additional
  invariant `ConnShape` says that a connection is in one hand, in one channel or once on
  the stack. From it every step is a step of the lease or none: a Get that checked its
  connection lends it, a Put drops it, returns it or passes it on. That `Open` stays
  within `MaxOpen` is a counting argument: the known connections are the idle ones and
  one for each goroutine that has one, those goroutines are all `Busy` and so is
  the dialling one, and `Accounting` makes `open` the sum; the cardinalities come
  from `FS_Surjection` and `FS_Union`.

The set `Busy` and the queue are handled by lemmas of their own: how the
cardinality of `Busy` changes when a goroutine enters or leaves it, and what
`Tail`, `Front`, `Append` and `RemoveAt` keep of a sequence.

### SmtpSend

For every number of callers, connections, retries and faults, every Sender of the
type of `Configs` and every set of non-empty recipient lists (`Send` turns a message
without recipients down before it starts, which is `ListAssumption`):

* `InductiveInvariant`: the types; `NoLeftovers` (outside a transaction the server
  remembers no recipients); and for each caller `Counted` (an attempt accounts for at
  most one copy, so `lost` is at most the number of attempts that are over, which also
  bounds `copies` by its type), `Addressed` (while the connection stands, the server has
  exactly the recipients the caller has gone through) and `Alike` (what it has
  accepted is the one rendering for all of them). `Addressed` is what `CopiesIdentical`
  needs: at the final dot the server has the whole list and nothing of an
  earlier message. It needs `NoLeftovers`, and that no two callers share a connection.
* `TypeCorrect`, `CopiesAreCounted`, `CopiesAreIdentical` follow.

A step of a caller is looked at for that caller only: `StepOfOne` proves that the
invariant of the others survives if their variables and connections stay, or their
connections break. `AbandonKeeps` does so once for every way an attempt fails.

### BackgroundSender

For every set of producers, workers, stoppers and emails, and every buffer size:

* `InductiveInvariant`: `StopShape` (one stopper is inside `stopOnce`, and how far it has
  come decides what is stopped, closed and cancelled), `LockShape` (the queue is
  closed when the sender is stopped, and then no producer holds the read lock),
  `HoldShape` and `Custody` (an accepted email is in the queue, with one worker, or
  answered for).
* `TypeCorrect`: queue and error channel stay within their capacity.
* `Refinement`: `Outbox` is implemented, by `Custody`; this does not need `StartFirst`.
* `NeverPanics` and `StopIsGraceful` assume `StartFirst`, as the documentation of
  `Start` asks and the run does; without it both are false (section 6). `StartShape`
  adds to the invariant that a worker ends only on a closed and empty queue and
  that Stop is done only behind the last worker.

### TokenBucket, TokenSource and RateLimitedSend

For every interval, burst, set of callers and choice of answers:

* `InductiveInvariant`: `CreditCovers` (from every past grant on, what is left
  of burst and time covers the credit) and `CreditExact` (the credit is full, or
  some window leaves exactly it).
* `RateBoundHolds` from the first part: a grant takes an interval from a credit
  that every window covers. Windows that end at an earlier grant do not change.
* `RefusalsAreNeeded` from the second: a refusal means a credit below one
  interval, so one window has no room left.
* `Refinement`: `FillingBucket` is implemented. A step that leaves the clock alone leaves
  `Refilled` alone too, but for a grant, which takes an interval from it, though the code
  writes both `credit` and `last`; and a tick adds one to it up to the burst (`TickFills`),
  and takes one from the time of every sleeper that has some left (`TimeLeftIs`,
  `OthersSleepOn`).
* `CacheInductive`: a caller is in the refresh exactly if it holds the lock, and the
  cache is fresh while somebody who was blocked behind the refresh that filled it is
  still to come.
* `SingleFlightHolds`: a refresh starts only at a free lock, so none is running,
  and only on a cache that is not fresh, so the caller is not one of those.
* `ComponentsUndisturbed`: every step of the composition is, seen by the bucket, a step of
  the bucket or none, and likewise for the cache: `SendSpec => Spec /\ CacheSpec`. So
  `SendsWithinRate` and `SendsShareRefresh`: everything above holds of sends through
  a `RateLimitedSender`.

### ImapReceive (in ReceiverProofs)

For every mailbox, limit, set of workers, capacity of the channels and number of retries
and faults, and every choice of calls and of messages that cannot be parsed:

* `Invariance`: the types, and what follows in parts.
  `IdleShape` tells where the call can be while an IDLE goroutine is on the connection,
  and that its channel `done` is empty as long. That is all `OneCommandAtATime` needs
  (`CommandsAreAlone`), but it does need it: in the branches of Idle's select it is the
  received `done`, and not a flag, that says that the goroutine is gone.
  `FetchShape` orders the pipeline: what FETCH has written is ahead of what was read,
  forwarded and taken, each message that was taken is collected, unreadable, with a worker,
  or given up under a dead context, and the indexer discards only under a dead context.
  `AnswerShape` says what a Receive or Search is working on: a batch that is the end
  of the mailbox as it was found (if it is for unseen messages, nothing was marked before), and
  after the fetch the readable part of it. `MailShape` says that whatever is with the
  caller, in the channel or in `emails` is marked, and disjoint from what is being fetched.
* `NewestAreReturned` needs that a fetch without an error has collected every readable
  position (`FetchedWithoutError`): the pipeline is empty, the last worker has left, and a
  batch cut short by the context is an error. The rest is about order: `AtPositions` keeps
  the elements and their order (`AtPositionsElements`, `AtPositionsOrder`, both by induction
  over the flattened sequence), and so do `LastOf` and `Reverse`.
* `IdleForgetsNothing`: a FETCH marks only what the search found unmarked, so nothing is
  there twice, and an IDLE round leaves only with its emails delivered one by one.

Two statements say less than one might expect, because the code does. `NewestOrError` is
about a first attempt if Search asks for unseen messages, since a fetch that failed has
marked what it read; and `NothingForgotten` is about Idle while it goes on (section 6).

### Pop3Receive (in ReceiverProofs)

For every number of messages, retries and faults, every limit and every set of messages
that cannot be parsed, if `MarksAreKept`: the server cannot refuse a DELE, or there are
no retries. With both, mail is lost (section 6), so the assumption is as weak as it can be
without saying which DELE is refused.

* `Pop3Invariance`: nothing is marked before the whole batch is in `emails`, and
  whatever is or is still to be marked is there; an attempt that `Retry` will repeat,
  and so forget, has no marks that its QUIT could commit (`SessionShape`). What the server
  has removed is with the caller, except between the QUIT of an attempt that will not be
  repeated and the return of Receive (`RemovedIsHanded`); `NoMailLost` alone does not
  say that, and a repeated attempt empties `emails`.
* `MailIsKept` follows.

### ImapMailbox (in ReceiverProofs)

For every set of callers, messages and calls, with and without MOVE:

* `MailboxInvariance`: `Progress` (what a script has done by its next command:
  copied before it marks, marked before it expunges) and `MarkedIsCopied` (a
  message that nobody wants deleted carries `\Deleted` only if Move has copied it),
  together with `NothingLost`, which is inductive only with them, as EXPUNGE removes what
  others have marked.
* `NothingIsLost` and `SuccessIsGone` follow, the latter unless another call takes `\Deleted` back
  (`TakenBack`). They hold for any retries: a script that starts again only repeats what it
  has done.

### SuppressionLoop (in DeliverabilityProofs)

For every set of senders, handlers, addresses, messages and requests and every size of
the certificate cache, with a store that may fail. `RequestsAssumption` says that a
request is worded as its provider words such events (`Worded`) and names addresses.

* `InductiveInvariant`: `SenderShape` (each recipient asked for is still to be looked up,
  kept, or reported with an entry) and `HandlerShape` (what a request has named and
  nobody has removed is on the list or among the items still to be recorded).
* `SuppressedIsWithheld`, `NobodyIsDropped` and `AnsweredIsRecorded` follow.
* `OnlyDeadAreListed`: what is on the list, or about to be, a provider has reported dead in a
  genuine and recent request, or the operator has, or it is in `mistaken`; so the two
  mistakes that are named are the only ones. It assumes a `Tolerance` no laxer than `DefaultWebhookTolerance`, and
  `MailIsGenuine`: nothing verifies a bounce that comes by mail, so the application has to
  know that its own server wrote it. The run makes the same assumption in its
  requests.

The five parsers are handled one by one (`EventUnderstood`: a parser makes a suppressing item
of an event exactly if the event is permanent or a complaint, or a block of SendGrid's); a batch is the
flattening of what its events become, by the induction of `SequenceLemmas`.

### DomainHealth (in DeliverabilityProofs)

For every finite set of selectors, none of them named like one of the fixed checks (which
`SelectorAssumption` says, and section 6 describes), and everything a zone may publish:

* `HealthInvariance`: a result tells what the zone has and whether the lookup failed, from
  the check on through the channel to the report; a check that has sent under a live context
  has its result stored; the channel is closed only behind the last check, and the collector
  leaves without an error only then or under a dead context.
* `ReportIsComplete` follows.

### FailoverSender (in FailoverSenderProofs)

For every non-empty sequence of groups, with nil among their senders or not, every set of
providers, APIs and emails, every configuration and moment of `SetRetryConfig`:

* `FailoverInvariance`: `WalkShape` (where the walk is, the provider it is at, the attempts
  Retry has left, and that it only tries what the API does not refuse); `NothingUnsaid` (an
  answer of a provider is, until the walk is over, in the error at hand, in the group's
  errors or in the outermost sender's, and each of the three is handed on whole); and
  `NothingDropped`.
* `FailureSaysWhatEachDid` follows from `NothingUnsaid`.
* `NothingIsDropped` rests on `CarriedIsWhole`: what the reader finds in each API's request,
  from the fields the code fills, is what the email holds, but for the type and the Content-ID
  of Mailgun's files (`FilesSent`) and a lone Body that looks like HTML where the library
  renders (`TextsSent`). For the message that SMTP and raw SES send this is `RawCarries`, from
  `RawIsWhole`: `ParseRawEmail` of `buildBody` has both bodies and all attachments. The parts
  are read one after the other (`ReadSteps` unfolds the fold of the library); the
  attachments are an induction over their number.
* `TransientErrorsAreRetried`: with a live context, no rejection and no timeout of a
  provider's own, the attempts made at a provider and those its Retry has left are those it
  was allowed (`Spent`). All providers time out in the model; the exception is in the
  property, because the code does not tell such a timeout from the caller's (section 6).
* `CancellationIsFinal`: an action property; no action but the attempt counts one, and
  the attempt looks at the context in the same iteration, behind the backoff's select.
* `RejectionEndsTheGroup`: a group in which somebody has rejected the message is not asked
  any more (`Over`). It assumes that no provider is a member of two groups: a group with
  a transient error before its rejection is walked past (section 6), and the next one
  would then ask the provider again. The same sender in two groups is a setup nothing
  in the code speaks of.

### Lemmas

`SequenceLemmas` has what these proofs share: the elements and the order of `Append`, `Tail`,
`\o` and `FlattenSeq`, and induction on the length of a sequence, which is done by a least
counterexample, since the library's induction theorems take an operator the provers cannot
instantiate.

### What stays with TLC

* Liveness, and whatever speaks of ENABLED, is out of the prover's reach: the ten properties
  of the runs that say that something happens in the end (`GetReturns`, `DrainsAfterClose`,
  `SendReturns`, `StopReturns`, `AcceptedIsAttempted`, `CallsReturn`, `EveryMailHanded`,
  `NoGoroutineLeak`, `HeardIsHanded`, `CallEnds`). All other properties of the
  runs are theorems.
* `MarksAreKept`, `MailIsGenuine` with a strict tolerance, groups
  without a common provider, `StartFirst` and `cancellable = {}` are more than the models
  assume; each is a hypothesis of the theorem that needs it, with the reason above.
* Types of variables built with `SelectSeq`, which the provers cannot expand: `MailboxTypeOK`
  is replaced by the parts the proof needs (`ServerOK`).

## 5. Not modelled, and why

* The test doubles, `providertest/` and the examples: code for tests. What the
  doubles' `Push` does against the end of `Idle` is in section 6.
* `outlook/`: HTML to HTML, without state.
* `Validator` and its probe (`utils.go`), `Ping` and `Mailboxes` of every provider,
  `failoverSender.Ping`, `PoolStats`: they look and change nothing.
* Encodings, address syntax, header folding, DKIM signatures and `CheckDKIMKey`,
  templates, unsubscribe links: functions of bytes; the models keep what is decided
  by them (refused or not, valid or not), not the bytes.
* The SASL exchanges of `auth.go` beyond the refusal without TLS.
* Logging, tracing and metrics, which pass a call on.

## 6. Findings

Two runs end in a violation: the code does not do what its documentation says,
quoted in `PROJECT.json`.

* `SmtpPoolLostWakeup`: a waiter chosen by `decOpenLocked` and cancelled before it
  receives swallows the wake-up; others stay blocked beside a free slot.
* `Pop3Refused`: a refused DELE in a batch commits, with the QUIT that follows, the
  deletions before it, and the retry forgets the messages they returned.

Other behaviours that reading and modelling brought up, for which no run is kept:

* `worker.go:117`: a StopNow behind a Stop that waits for a hung send cancels
  nothing, because both share one `sync.Once`.
* `worker.go:55`: Stop without Start leaves accepted emails in the queue, and a
  Start after Stop runs workers without an error channel.
* `provider.go:186`: the timeout of a `net.Dialer` or an `http.Client` (`sendgrid.go:32`,
  `mailgun.go:33`, `postmark.go:39`) is taken for the caller's deadline and is neither retried
  nor failed over, although `provider.go:179-181` says that everything but a done context and
  errors marked as final is. `TransientIsRetried` names it as its exception.
* `compose.go:193`: there is no queue, so a caller of `Wait` may lose its token to newcomers
  for ever.
* `provider.go:191`: a rejection joined behind a transient failure does not stop an
  outer failover sender.
* `provider.go:255`: the first wait is not capped by `MaxInterval`.
* `compose.go:278`: a refresh that fails is repeated by every caller blocked behind it.
* `health.go:149`: a check whose context is done may return a partial report and no error.
* `suppression.go:75`: an explicit envelope is not filtered.
* `smtp/pool.go:236`: the slot is released before QUIT is answered, so the server can
  see more than `MaxOpen` connections.
* `smtp/smtp.go:363`: `AllowInsecureAuth` lets a token be fetched without TLS, but the
  authenticators of `auth.go` refuse there unless the server is the local host.
* `smtp/smtp.go:207`: a missing token source is final on a fresh connection and retried
  on a pooled one.
* `smtp/smtp.go:396`: after the dial no command has a deadline or sees the context.
* `gsmailtest/gsmailtest.go:372`: a `Push` that has read the channel sends on it after
  the end of `Idle` has closed it, and panics; the end of one `Idle` also clears the
  channel of the next one. Both are in the double only.

IMAP:

* `imap/imap.go:352`: `quit` is closed before the deferred LOGOUT runs, so more updates
  than the channel holds, arriving in between, block the reader and with it LOGOUT.
* `imap/imap.go:468`: FETCH sets `\Seen`; what a failing FETCH had already marked is
  found by no later search for unseen messages, of Idle or of the caller.
* `imap/imap.go:348`: mail that arrives between SELECT and the line that sets `c.Updates`
  is noticed with the next update only.
* `imap/imap.go:390`: after `idleShutdownTimeout` the deferred LOGOUT waits on a
  connection that has just not answered DONE.
* `imap/imap.go:595`: an error of Receive or Search comes with the emails read so far,
  oldest first.
* `imap/imap.go:187`: a token source that fails for good is asked again in every attempt.
* `imap/ops.go:97`: a retried Move copies again; EXPUNGE also removes what others have
  only marked.

Providers, bounces and webhooks:

* `compose.go:64` calls a permanent failure "a property of the message", yet an envelope
  an API cannot carry, a body SendGrid insists on, and a 401 are the provider's, and
  end the walk too.
* `mailgun/mailgun.go:123`: a file loses its type, and an inline one its Content-ID; only its
  file name is left to refer to. `NothingDropped` names this exception and the next one.
* `utils.go:1342`: a `Body` that looks like HTML and comes alone is rendered as text/html,
  while the APIs are given it as text: the same email differs by provider, although
  `docs/v1-readiness.md:117-118` says "Providers no longer sniff".
* `ses/ses.go:190`: no error of SES is classified, so all of them are retried.
* `utils.go:551`: a message with a single HTML part is read into `Body`, not `HTMLBody`.
* `bounce.go:212`: of an SES notification, and of a delivery status, only the first
  recipient is taken.
* `bounce.go:135`: a feedback report names its recipient by the whole To header, so one with
  several recipients records a key that matches nobody.
* `webhook.go:388`: `README.md:234` says "All verifiers reject timestamps outside
  `DefaultWebhookTolerance`", but the SNS verifier does not look at the timestamp that its
  signature covers, and Postmark's requests have none. `OnlyTheDead` names this exception and
  the next one.
* `bounce.go:271`: SendGrid's bounces of type "blocked", which are temporary, are recorded as
  hard ones.
* `compose.go:81`: `Ping` of a failover sender with nothing but nil senders succeeds.
* `health.go:127`: two selectors of the same name overwrite each other; `health.go:184`: a
  null MX counts as valid.

## 7. What is left

Every safety invariant and every action property of the runs is a theorem, and so is each of
the three refinements, of `ConnectionLease`, `Outbox` and `FillingBucket`. What could be added:

1. `CheckDKIMKey` and the rest of the DKIM code, as operators over the few fields that decide.
2. The recipients of a message in each API's request, which `HttpProviders` leaves out.
3. The double's `Push` against the end of `Idle` (section 6), should it be used beyond tests.
