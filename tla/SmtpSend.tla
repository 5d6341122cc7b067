------------------------------ MODULE SmtpSend ------------------------------
(***************************************************************************)
(* smtp.Sender.Send (smtp/smtp.go): one message per caller, rendered once, *)
(* then offered to the server by Retry, on a connection of its own or on   *)
(* one borrowed from the pool, which is known here as ConnectionLease.     *)
(*                                                                         *)
(* A command and its answer are one action, with the answer chosen by the  *)
(* server: "ok", "transient" (4xx), "permanent" (5xx), or "lost" when the  *)
(* connection breaks.  The server keeps, for each connection, whether TLS  *)
(* and authentication are on, and the transaction that is open.            *)
(***************************************************************************)
EXTENDS ConnectionLease, SequencesExt

CONSTANTS
    Cancellable, \* callers whose context may be cancelled
    Configs,     \* Senders, and what the server they talk to offers
    Lists,       \* recipient lists a message may have
    MaxIdle,     \* PoolConfig.MaxIdle
    MaxRetries,  \* RetryConfig.MaxRetries
    MaxFaults,   \* how often the server or the network may fail, all in all
    None         \* no connection

ASSUME LimitAssumption == {MaxOpen, MaxIdle, MaxRetries, MaxFaults} \subseteq Nat /\ MaxIdle > 0
ASSUME NoneAssumption == None \notin Conns
ASSUME ListAssumption == \A list \in Lists : list # <<>> /\ list \in Seq(ToSet(list))
ASSUME ConfigAssumption ==
    Configs \subseteq [pooled : BOOLEAN, wait : BOOLEAN, ssl : BOOLEAN,
                       auth : {"none", "password", "oauth"}, source : BOOLEAN,
                       allowInsecure : BOOLEAN, localhost : BOOLEAN,
                       starttls : BOOLEAN, offersAuth : BOOLEAN]

VARIABLES
    config,    \* the Sender's fields and the server's extensions; never changes
    pc,        \* where a caller is
    to,        \* the recipients of its message
    message,   \* which rendering of its message it offers
    conn,      \* the connection it has dialled or borrowed
    rcpt,      \* how many RCPT commands were answered in this transaction
    n,         \* retries so far
    err,       \* what the attempt ended with
    ctxDone,   \* callers whose context is done
    closed,    \* has the pool been closed?
    session,   \* the server's side of each connection
    inbox,     \* the different copies of each message that the server has accepted
    copies,    \* how often it has accepted the message
    lost,      \* how often it did so without its answer arriving
    faults     \* failures so far

mailVars == <<to, message>>
retryVars == <<n, ctxDone>>
serverVars == <<inbox, copies, lost>>
vars == <<lent, idle, config, pc, mailVars, retryVars, conn, rcpt, err, closed, session, serverVars, faults>>

NoSession == [up |-> FALSE, tls |-> FALSE, authed |-> FALSE, open |-> FALSE, rcpts |-> {}]

\* The commands whose errors go through classify.
Classified == {"auth", "mail", "rcpt", "data", "dot"}

Commands == {"starttls"} \cup Classified

(***************************************************************************)
(* out       Send not yet called            ready     connected, and       *)
(* begin     at the top of Retry's loop               authenticated        *)
(* get       in Pool.Get                    put       in Pool.Put          *)
(* dial      in dial                        retry     the attempt is over  *)
(* token     in TokenSource                 backoff   waiting for the timer*)
(* starttls, auth, mail, rcpt, data, dot    about to send that             *)
(* sent, failed                             Send has returned              *)
(***************************************************************************)
Locations == {"out", "begin", "get", "dial", "token", "ready", "put", "retry", "backoff",
              "sent", "failed"} \cup Commands

\* A caller holds a connection exactly where the code has a client.
HasClient(p) == pc[p] \in Commands \cup {"ready", "put"} \/ (pc[p] = "token" /\ config.pooled)

TypeOK ==
    /\ lent \subseteq Procs \X Conns /\ idle \subseteq Conns
    /\ config \in Configs
    /\ pc \in [Procs -> Locations]
    /\ to \in [Procs -> Lists \cup {<<>>}]
    /\ message \in [Procs -> 0..(MaxRetries + 1)]
    /\ conn \in [Procs -> Conns \cup {None}]
    /\ \A p \in Procs : HasClient(p) <=> conn[p] # None
    /\ \A p, q \in Procs : p # q /\ conn[p] # None => conn[p] # conn[q] /\ conn[p] \notin idle
    /\ rcpt \in [Procs -> Nat] /\ n \in [Procs -> 0..MaxRetries]
    /\ err \in [Procs -> {"nil", "retryable", "final"}]
    /\ ctxDone \subseteq Procs
    /\ closed \in BOOLEAN
    /\ session \in [Conns -> [up : BOOLEAN, tls : BOOLEAN, authed : BOOLEAN, open : BOOLEAN,
                              rcpts : SUBSET UNION {ToSet(list) : list \in Lists}]]
    /\ inbox \in [Procs -> SUBSET [id : 0..(MaxRetries + 1), rcpts : SUBSET UNION {ToSet(list) : list \in Lists}]]
    /\ copies \in [Procs -> 0..(MaxRetries + 1)] /\ lost \in [Procs -> 0..(MaxRetries + 1)]
    /\ faults \in 0..MaxFaults

Init ==
    /\ LeaseInit
    /\ config \in Configs
    /\ pc = [p \in Procs |-> "out"]
    /\ to = [p \in Procs |-> <<>>]
    /\ message = [p \in Procs |-> 0]
    /\ conn = [p \in Procs |-> None]
    /\ rcpt = [p \in Procs |-> 0]
    /\ n = [p \in Procs |-> 0]
    /\ err = [p \in Procs |-> "nil"]
    /\ ctxDone = {}
    /\ closed = FALSE
    /\ session = [c \in Conns |-> NoSession]
    /\ inbox = [p \in Procs |-> {}]
    /\ copies = [p \in Procs |-> 0]
    /\ lost = [p \in Procs |-> 0]
    /\ faults = 0

-----------------------------------------------------------------------------
(* Helpers *)

Goto(p, location) == pc' = [pc EXCEPT ![p] = location]

\* Send returns, and with it go the locals of Retry.
Finish(p, how) ==
    /\ Goto(p, how)
    /\ n' = [n EXCEPT ![p] = 0]
    /\ err' = [err EXCEPT ![p] = "nil"]
    /\ rcpt' = [rcpt EXCEPT ![p] = 0]
    /\ ctxDone' = ctxDone \ {p}

Fault == faults < MaxFaults /\ faults' = faults + 1

\* The connections the pool has counted but not yet lent: those being prepared.
Dialling == {p \in Procs : config.pooled /\ <<p, conn[p]>> \notin lent
                /\ pc[p] \in {"dial", "token", "starttls", "auth", "ready"}}

AtLimit == MaxOpen > 0 /\ Cardinality(Known) + Cardinality(Dialling) >= MaxOpen

\* A goroutine in Get's select.
Waiting(p) == pc[p] = "get" /\ ~closed /\ idle = {} /\ AtLimit /\ config.wait

\* The attempt ends before it has a connection.
FailEarly(p, e) ==
    /\ Goto(p, "retry")
    /\ err' = [err EXCEPT ![p] = e]

\* The attempt fails on its connection: a borrowed one goes back with the error,
\* one of its own, or one the dialer was still preparing, is closed.
Abandon(p, e) ==
    /\ err' = [err EXCEPT ![p] = e]
    /\ IF <<p, conn[p]>> \in lent
       THEN /\ Goto(p, "put")
            /\ UNCHANGED <<conn, session>>
       ELSE /\ Goto(p, "retry")
            /\ conn' = [conn EXCEPT ![p] = None]
            /\ session' = [session EXCEPT ![conn[p]] = NoSession]

-----------------------------------------------------------------------------
(* Send and Retry *)

\* No recipients, or a message that cannot be rendered or signed: no attempt.
Reject(p) ==
    /\ pc[p] = "out"
    /\ Goto(p, "failed")
    /\ UNCHANGED <<leaseVars, config, mailVars, retryVars, conn, rcpt, err, closed, session, serverVars, faults>>

\* The message is rendered once, before the first attempt.
Call(p, list) ==
    /\ pc[p] = "out"
    /\ to' = [to EXCEPT ![p] = list]
    /\ message' = [message EXCEPT ![p] = 1]
    /\ Goto(p, "begin")
    /\ UNCHANGED <<leaseVars, config, retryVars, conn, rcpt, err, closed, session, serverVars, faults>>

\* Mutant of Begin: each attempt renders the message.
BeginRenders(p) ==
    /\ pc[p] = "begin"
    /\ p \notin ctxDone
    /\ message' = [message EXCEPT ![p] = n[p] + 1]
    /\ Goto(p, IF config.pooled THEN "get" ELSE IF config.auth = "oauth" THEN "token" ELSE "dial")
    /\ err' = [err EXCEPT ![p] = "nil"]
    /\ rcpt' = [rcpt EXCEPT ![p] = 0]
    /\ UNCHANGED <<leaseVars, config, to, retryVars, conn, closed, session, serverVars, faults>>

\* An attempt: borrow a connection, or fetch a token and dial one.
Begin(p) ==
    /\ pc[p] = "begin"
    /\ p \notin ctxDone
    /\ Goto(p, IF config.pooled THEN "get" ELSE IF config.auth = "oauth" THEN "token" ELSE "dial")
    /\ err' = [err EXCEPT ![p] = "nil"]
    /\ rcpt' = [rcpt EXCEPT ![p] = 0]
    /\ UNCHANGED <<leaseVars, config, mailVars, retryVars, conn, closed, session, serverVars, faults>>

\* The context is looked at before each attempt and during each wait.
Cancelled(p) ==
    /\ pc[p] \in {"begin", "backoff"}
    /\ p \in ctxDone
    /\ Finish(p, "failed")
    /\ UNCHANGED <<leaseVars, config, mailVars, conn, closed, session, serverVars, faults>>

\* The attempt has failed: give up, or wait.
Decide(p) ==
    /\ pc[p] = "retry"
    /\ IF err[p] = "final" \/ n[p] = MaxRetries
       THEN Finish(p, "failed")
       ELSE Goto(p, "backoff") /\ UNCHANGED <<retryVars, err, rcpt>>
    /\ UNCHANGED <<leaseVars, config, mailVars, conn, closed, session, serverVars, faults>>

TimerFires(p) ==
    /\ pc[p] = "backoff"
    /\ n' = [n EXCEPT ![p] = @ + 1]
    /\ Goto(p, "begin")
    /\ UNCHANGED <<leaseVars, config, mailVars, ctxDone, conn, rcpt, err, closed, session, serverVars, faults>>

\* Only where the code looks: the commands of the transaction know no context, and
\* one that ends meanwhile is noticed at the next of these places.
Cancel(p) ==
    /\ p \in Cancellable
    /\ pc[p] \in {"begin", "get", "dial", "token", "backoff"}
    /\ p \notin ctxDone
    /\ ctxDone' = ctxDone \cup {p}
    /\ UNCHANGED <<leaseVars, config, pc, mailVars, n, conn, rcpt, err, closed, session, serverVars, faults>>

-----------------------------------------------------------------------------
(* Pool.Get, as ConnectionLease *)

\* An idle connection answers NOOP and is lent.
GetIdle(p, c) ==
    /\ pc[p] = "get" /\ ~closed
    /\ session[c].up
    /\ Lend(p, c)
    /\ conn' = [conn EXCEPT ![p] = c]
    /\ Goto(p, "mail")
    /\ UNCHANGED <<config, mailVars, retryVars, rcpt, err, closed, session, serverVars, faults>>

\* One that is too old, or does not answer, is closed, and Get starts over.
GetExpired(p, c) ==
    /\ pc[p] = "get" /\ ~closed
    /\ Expire({c})
    /\ session' = [session EXCEPT ![c] = NoSession]
    /\ UNCHANGED <<config, pc, mailVars, retryVars, conn, rcpt, err, closed, serverVars, faults>>

\* There is room for another one: call the dialer.
GetSlot(p) ==
    /\ pc[p] = "get" /\ ~closed
    /\ idle = {} /\ ~AtLimit
    /\ Goto(p, "dial")
    /\ UNCHANGED <<leaseVars, config, mailVars, retryVars, conn, rcpt, err, closed, session, serverVars, faults>>

\* ErrPoolClosed and ErrPoolFull are errors like any other; the error of a context
\* that is done while Get waits is final.
GetFails(p) ==
    /\ pc[p] = "get"
    /\ \/ (closed \/ (idle = {} /\ AtLimit /\ ~config.wait)) /\ FailEarly(p, "retryable")
       \/ Waiting(p) /\ p \in ctxDone /\ FailEarly(p, "final")
    /\ UNCHANGED <<leaseVars, config, mailVars, retryVars, conn, rcpt, closed, session, serverVars, faults>>

-----------------------------------------------------------------------------
(* Dialling and authentication: the dialer of the pool, or a fresh connection *)

Unused(c) == c \notin Known /\ \A q \in Procs : conn[q] # c

\* Where an attempt goes on once TLS is settled.
AfterTLS == IF config.pooled /\ config.auth = "oauth" THEN "token"
            ELSE IF config.auth = "none" THEN "ready" ELSE "auth"

\* A context that is done fails the dial.
Dial(p, c) ==
    /\ pc[p] = "dial" /\ p \notin ctxDone
    /\ Unused(c)
    /\ conn' = [conn EXCEPT ![p] = c]
    /\ session' = [session EXCEPT ![c] = [NoSession EXCEPT !.up = TRUE, !.tls = config.ssl]]
    /\ Goto(p, IF config.ssl THEN AfterTLS ELSE "starttls")
    /\ UNCHANGED <<leaseVars, config, mailVars, retryVars, rcpt, err, closed, serverVars, faults>>

\* The network, the TLS handshake or the greeting fails; a timeout of net.Dialer
\* counts as final.
DialFails(p) ==
    /\ pc[p] = "dial"
    /\ \/ p \in ctxDone /\ FailEarly(p, "final") /\ UNCHANGED faults
       \/ Fault /\ (FailEarly(p, "retryable") \/ FailEarly(p, "final"))
    /\ UNCHANGED <<leaseVars, config, mailVars, retryVars, conn, rcpt, closed, session, serverVars>>

\* STARTTLS if the server offers it; without TLS an OAuth token is not even
\* fetched unless AllowInsecureAuth is set.
StartTLS(p) ==
    /\ pc[p] = "starttls"
    /\ session[conn[p]].up
    /\ IF config.starttls
       THEN /\ session' = [session EXCEPT ![conn[p]].tls = TRUE]
            /\ Goto(p, AfterTLS)
            /\ UNCHANGED <<conn, err>>
       ELSE IF config.auth = "oauth" /\ ~config.allowInsecure
       THEN Abandon(p, "retryable")
       ELSE /\ Goto(p, AfterTLS)
            /\ UNCHANGED <<conn, err, session>>
    /\ UNCHANGED <<leaseVars, config, mailVars, retryVars, rcpt, closed, serverVars, faults>>

\* The token source, before the dial or inside the pool's dialer.
Token(p) ==
    /\ pc[p] = "token"
    /\ config.source
    /\ Goto(p, IF config.pooled THEN "auth" ELSE "dial")
    /\ UNCHANGED <<leaseVars, config, mailVars, retryVars, conn, rcpt, err, closed, session, serverVars, faults>>

\* It returns an error, its context's for one, or there is none: that is final on a
\* fresh connection, and an error like any other inside the pool's dialer.
TokenFails(p) ==
    LET fail(e) == IF config.pooled THEN Abandon(p, e) ELSE FailEarly(p, e) /\ UNCHANGED <<conn, session>>
    IN  /\ pc[p] = "token"
        /\ \/ ~config.source /\ fail(IF config.pooled THEN "retryable" ELSE "final") /\ UNCHANGED faults
           \/ config.source /\ p \in ctxDone /\ fail("final") /\ UNCHANGED faults
           \/ config.source /\ Fault /\ fail("retryable")
        /\ UNCHANGED <<leaseVars, config, mailVars, retryVars, rcpt, closed, serverVars>>

\* Does a caller at one of Commands get as far as sending it?  STARTTLS and AUTH
\* have to be offered, and SMTPAuth.Start and PlainAuth refuse without TLS, knowing
\* nothing of AllowInsecureAuth.
Sends(p) ==
    /\ pc[p] = "starttls" => config.starttls
    /\ pc[p] = "auth" => config.offersAuth /\ (session[conn[p]].tls \/ config.localhost)

\* AUTH, if it can be sent, is accepted.
Auth(p) ==
    /\ pc[p] = "auth"
    /\ session[conn[p]].up
    /\ IF ~Sends(p)
       THEN Abandon(p, "retryable")
       ELSE /\ session' = [session EXCEPT ![conn[p]].authed = TRUE]
            /\ Goto(p, "ready")
            /\ UNCHANGED <<conn, err>>
    /\ UNCHANGED <<leaseVars, config, mailVars, retryVars, rcpt, closed, serverVars, faults>>

\* The dialer returns: from here on a pooled connection is lent.
Ready(p) ==
    /\ pc[p] = "ready"
    /\ Goto(p, "mail")
    /\ IF config.pooled THEN Open(p, conn[p]) ELSE UNCHANGED leaseVars
    /\ UNCHANGED <<config, mailVars, retryVars, conn, rcpt, err, closed, session, serverVars, faults>>

-----------------------------------------------------------------------------
(* The transaction *)

\* MAIL FROM, which a server refuses while another transaction is open.
Mail(p) ==
    /\ pc[p] = "mail"
    /\ session[conn[p]].up
    /\ IF session[conn[p]].open
       THEN Abandon(p, "final")
       ELSE /\ session' = [session EXCEPT ![conn[p]].open = TRUE]
            /\ Goto(p, "rcpt")
            /\ UNCHANGED <<conn, err>>
    /\ UNCHANGED <<leaseVars, config, mailVars, retryVars, rcpt, closed, serverVars, faults>>

\* RCPT TO, one recipient after the other.
Rcpt(p) ==
    LET k == rcpt[p] + 1 IN
    /\ pc[p] = "rcpt"
    /\ session[conn[p]].up
    /\ session' = [session EXCEPT ![conn[p]].rcpts = @ \cup {to[p][k]}]
    /\ rcpt' = [rcpt EXCEPT ![p] = k]
    /\ Goto(p, IF k = Len(to[p]) THEN "data" ELSE "rcpt")
    /\ UNCHANGED <<leaseVars, config, mailVars, retryVars, conn, err, closed, serverVars, faults>>

\* DATA is answered, and the body written.
Data(p) ==
    /\ pc[p] = "data"
    /\ session[conn[p]].up
    /\ Goto(p, "dot")
    /\ rcpt' = [rcpt EXCEPT ![p] = 0]
    /\ UNCHANGED <<leaseVars, config, mailVars, retryVars, conn, err, closed, session, serverVars, faults>>

\* The server takes the message over, for the recipients of the transaction.
Accept(p) ==
    /\ session[conn[p]].up
    /\ inbox' = [inbox EXCEPT ![p] = @ \cup {[id |-> message[p], rcpts |-> session[conn[p]].rcpts]}]
    /\ copies' = [copies EXCEPT ![p] = @ + 1]

\* Mutant of Dot: on a fresh connection an error of QUIT is an error of Send.
DotChecksQuit(p) ==
    /\ pc[p] = "dot"
    /\ Accept(p)
    /\ \/ /\ config.pooled
          /\ session' = [session EXCEPT ![conn[p]].open = FALSE, ![conn[p]].rcpts = {}]
          /\ Goto(p, "put")
          /\ UNCHANGED <<conn, err, rcpt, retryVars, faults>>
       \/ /\ ~config.pooled
          /\ session' = [session EXCEPT ![conn[p]] = NoSession]
          /\ conn' = [conn EXCEPT ![p] = None]
          /\ Finish(p, "sent")
          /\ UNCHANGED faults
       \/ /\ ~config.pooled
          /\ Fault
          /\ Abandon(p, "retryable")
          /\ UNCHANGED <<rcpt, retryVars>>
    /\ UNCHANGED <<leaseVars, config, mailVars, closed, lost>>

\* The final dot is answered: done, but for Put or QUIT, whose error is ignored.
Dot(p) ==
    /\ pc[p] = "dot"
    /\ Accept(p)
    /\ IF config.pooled
       THEN /\ session' = [session EXCEPT ![conn[p]].open = FALSE, ![conn[p]].rcpts = {}]
            /\ Goto(p, "put")
            /\ UNCHANGED <<conn, err, rcpt, retryVars>>
       ELSE /\ session' = [session EXCEPT ![conn[p]] = NoSession]
            /\ conn' = [conn EXCEPT ![p] = None]
            /\ Finish(p, "sent")
    /\ UNCHANGED <<leaseVars, config, mailVars, closed, lost, faults>>

\* The server takes the message over, and the connection breaks before it says so.
DotUnanswered(p) ==
    /\ pc[p] = "dot"
    /\ Accept(p)
    /\ lost' = [lost EXCEPT ![p] = @ + 1]
    /\ Fault
    /\ Abandon(p, "retryable")
    /\ UNCHANGED <<leaseVars, config, mailVars, retryVars, rcpt, closed>>

\* classify: a 5xx to one of the commands that use it is final.
Classify(command, answer) ==
    IF answer = "permanent" /\ command \in Classified THEN "final" ELSE "retryable"

\* A command is answered by 4xx or 5xx, or runs into a connection that is down.
CommandFails(p, answer) ==
    /\ pc[p] \in Commands
    /\ IF answer = "lost" THEN ~session[conn[p]].up /\ UNCHANGED faults
                          ELSE session[conn[p]].up /\ Sends(p) /\ Fault
    /\ Abandon(p, Classify(pc[p], answer))
    /\ UNCHANGED <<leaseVars, config, mailVars, retryVars, rcpt, closed, serverVars>>

-----------------------------------------------------------------------------
(* Pool.Put and Close *)

\* Mutant of PutError: the slot stays taken.
PutErrorLeaks(p) ==
    /\ pc[p] = "put" /\ err[p] # "nil"
    /\ Goto(p, "retry")
    /\ conn' = [conn EXCEPT ![p] = None]
    /\ UNCHANGED <<leaseVars, config, mailVars, retryVars, rcpt, err, closed, session, serverVars, faults>>

\* Put with an error closes the connection.
PutError(p) ==
    /\ pc[p] = "put" /\ err[p] # "nil"
    /\ Drop(p, conn[p])
    /\ conn' = [conn EXCEPT ![p] = None]
    /\ session' = [session EXCEPT ![conn[p]] = NoSession]
    /\ Goto(p, "retry")
    /\ UNCHANGED <<config, mailVars, retryVars, rcpt, err, closed, serverVars, faults>>

\* RSET fails, the pool is closed, or MaxIdle is reached.
NotKept(c) ==
    \/ ~session[c].up \/ closed
    \/ Cardinality(idle) >= MaxIdle /\ \A q \in Procs : ~Waiting(q)

\* Put without one: the connection is closed after all, because of its age or
\* because it is not kept,
PutClose(p) ==
    /\ pc[p] = "put" /\ err[p] = "nil"
    /\ Drop(p, conn[p])
    /\ conn' = [conn EXCEPT ![p] = None]
    /\ session' = [session EXCEPT ![conn[p]] = NoSession]
    /\ Finish(p, "sent")
    /\ UNCHANGED <<config, mailVars, closed, serverVars, faults>>

\* or goes to a waiter, whose Get returns with it,
PutWaiter(p, q) ==
    /\ pc[p] = "put" /\ err[p] = "nil"
    /\ ~NotKept(conn[p]) /\ Waiting(q)
    /\ Pass(p, q, conn[p])
    /\ conn' = [conn EXCEPT ![p] = None, ![q] = conn[p]]
    /\ pc' = [pc EXCEPT ![p] = "sent", ![q] = "mail"]
    /\ n' = [n EXCEPT ![p] = 0]
    /\ ctxDone' = ctxDone \ {p}
    /\ UNCHANGED <<config, mailVars, rcpt, err, closed, session, serverVars, faults>>

\* or to the idle ones.
PutIdle(p) ==
    /\ pc[p] = "put" /\ err[p] = "nil"
    /\ ~NotKept(conn[p]) /\ \A q \in Procs : ~Waiting(q)
    /\ Return(p, conn[p])
    /\ conn' = [conn EXCEPT ![p] = None]
    /\ Finish(p, "sent")
    /\ UNCHANGED <<config, mailVars, closed, session, serverVars, faults>>

\* Sender.Close.
Close ==
    /\ config.pooled /\ ~closed
    /\ closed' = TRUE
    /\ idle' = {}
    /\ session' = [c \in Conns |-> IF c \in idle THEN NoSession ELSE session[c]]
    /\ UNCHANGED <<lent, config, pc, mailVars, retryVars, conn, rcpt, err, serverVars, faults>>

\* A connection breaks, or the server closes it.
Hangup(c) ==
    /\ session[c].up
    /\ Fault
    /\ session' = [session EXCEPT ![c] = NoSession]
    /\ UNCHANGED <<leaseVars, config, pc, mailVars, retryVars, conn, rcpt, err, closed, serverVars>>

-----------------------------------------------------------------------------

\* What a caller does on its own once Send is called, the answers it gets included.
Step(p) ==
    \/ Begin(p) \/ Cancelled(p) \/ Decide(p) \/ TimerFires(p)
    \/ \E c \in Conns : GetIdle(p, c) \/ GetExpired(p, c) \/ Dial(p, c)
    \/ GetSlot(p) \/ GetFails(p) \/ DialFails(p)
    \/ StartTLS(p) \/ Token(p) \/ TokenFails(p) \/ Auth(p) \/ Ready(p)
    \/ Mail(p) \/ Rcpt(p) \/ Data(p) \/ Dot(p) \/ DotUnanswered(p)
    \/ \E answer \in {"transient", "permanent", "lost"} : CommandFails(p, answer)
    \/ PutError(p) \/ PutClose(p) \/ PutIdle(p) \/ \E q \in Procs : PutWaiter(p, q)

Next ==
    \/ \E p \in Procs :
        \/ \E list \in Lists : Call(p, list)
        \/ Reject(p) \/ Cancel(p) \/ Step(p)
    \/ Close
    \/ \E c \in Conns : Hangup(c)

Spec == Init /\ [][Next]_vars

\* Goroutines run, and the server answers every command or the connection breaks:
\* the commands of net/smtp have no deadline of their own.
FairSpec == Spec /\ \A p \in Procs : WF_vars(Step(p))

-----------------------------------------------------------------------------
(* Properties *)

\* A Send that returns nil has delivered a copy, a Send that fails none, and
\* besides that the server holds exactly those copies whose acceptance nobody was
\* told of: an answer that arrived is never followed by another delivery.
CopiesCounted ==
    \A p \in Procs :
        /\ copies[p] <= lost[p] + 1
        /\ pc[p] = "sent" => copies[p] = lost[p] + 1
        /\ pc[p] = "failed" => copies[p] = lost[p]

\* "The message is rendered once, outside the retry loop, so every attempt carries
\* the same Date and Message-ID": the copies that a lost answer makes are alike, and
\* each of them goes to exactly the message's recipients, none left out after a
\* refused RCPT and none left over from another message on the same connection.
CopiesIdentical ==
    \A p \in Procs : \E id \in 0..(MaxRetries + 1) :
        inbox[p] \subseteq {[id |-> id, rcpts |-> ToSet(to[p])]}

\* Send returns, so every borrowed connection goes back on every path.  This takes
\* the pool to be ConnectionLease, in which nobody oversleeps a free slot.
SendReturns == \A p \in Procs : pc[p] = "begin" ~> pc[p] \in {"sent", "failed"}

=============================================================================
