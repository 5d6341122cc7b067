--------------------------- MODULE SmtpSendProofs ---------------------------
(***************************************************************************)
(* Proofs about SmtpSend, for every number of callers and connections,     *)
(* every Sender and server, and any number of retries and faults: a Send   *)
(* that returns nil has delivered one copy more than there were answers    *)
(* lost, and all of them are the same message to the same recipients.      *)
(***************************************************************************)
EXTENDS SmtpSend, TLAPS

-----------------------------------------------------------------------------
(* The inductive invariant *)

\* Locations of an attempt that has not failed, before a recipient was named.
Preparing == {"get", "dial", "token", "starttls", "auth", "ready", "mail"}

\* The server has told the caller that it took the message over.
Delivered(p) == pc[p] = "sent" \/ (pc[p] = "put" /\ err[p] = "nil")

\* The attempt numbered n[p] is over, and has failed.
Ended(p) == pc[p] \in {"retry", "backoff"} \/ (pc[p] = "put" /\ err[p] # "nil")

\* Each attempt accounts for at most one copy, and only an attempt whose answer
\* was lost or arrived for any.
Counted(p) ==
    /\ copies[p] = IF Delivered(p) THEN lost[p] + 1 ELSE lost[p]
    /\ pc[p] \notin {"sent", "failed"} => lost[p] <= IF Ended(p) THEN n[p] + 1 ELSE n[p]
    /\ pc[p] = "sent" => lost[p] <= MaxRetries
    /\ pc[p] = "backoff" => n[p] < MaxRetries
    /\ pc[p] \in Preparing \cup {"rcpt", "data", "dot"} => err[p] = "nil"

\* The server's side of a caller's connection names exactly the recipients that the
\* caller has gone through, as long as the connection stands.
Addressed(p) ==
    /\ pc[p] \in Preparing => rcpt[p] = 0
    /\ pc[p] = "rcpt" => rcpt[p] < Len(to[p])
    /\ pc[p] = "rcpt" /\ session[conn[p]].up =>
          session[conn[p]].open /\ session[conn[p]].rcpts = {to[p][i] : i \in 1..rcpt[p]}
    /\ pc[p] \in {"data", "dot"} /\ session[conn[p]].up =>
          session[conn[p]].open /\ session[conn[p]].rcpts = ToSet(to[p])

\* Every copy so far carries the one rendering and goes to its recipients.
Alike(p) ==
    /\ pc[p] \notin {"out", "failed"} => to[p] \in Lists
    /\ pc[p] = "out" => inbox[p] = {}
    /\ inbox[p] \subseteq {[id |-> message[p], rcpts |-> ToSet(to[p])]}

\* Outside a transaction the server remembers no recipients.
NoLeftovers == \A c \in Conns : ~session[c].open => session[c].rcpts = {}

IInv ==
    /\ TypeOK
    /\ NoLeftovers
    /\ \A p \in Procs : Counted(p) /\ Addressed(p) /\ Alike(p)

-----------------------------------------------------------------------------
(* The parts of TypeOK *)

\* The state of a connection on the server's side.
Sessions == [up : BOOLEAN, tls : BOOLEAN, authed : BOOLEAN, open : BOOLEAN,
             rcpts : SUBSET UNION {ToSet(list) : list \in Lists}]

\* A message in the server's mailbox.
Copy == [id : 0..(MaxRetries + 1), rcpts : SUBSET UNION {ToSet(list) : list \in Lists}]

\* The variables that say nothing about connections.
ValueTypes ==
    /\ lent \subseteq Procs \X Conns /\ idle \subseteq Conns
    /\ config \in Configs
    /\ pc \in [Procs -> Locations]
    /\ to \in [Procs -> Lists \cup {<<>>}]
    /\ message \in [Procs -> 0..(MaxRetries + 1)]
    /\ conn \in [Procs -> Conns \cup {None}]
    /\ rcpt \in [Procs -> Nat] /\ n \in [Procs -> 0..MaxRetries]
    /\ err \in [Procs -> {"nil", "retryable", "final"}]
    /\ ctxDone \subseteq Procs
    /\ closed \in BOOLEAN
    /\ inbox \in [Procs -> SUBSET Copy]
    /\ copies \in [Procs -> 0..(MaxRetries + 1)] /\ lost \in [Procs -> 0..(MaxRetries + 1)]
    /\ faults \in 0..MaxFaults

\* A connection that a caller has is its own, and not an idle one.
ConnsOwned ==
    /\ \A p \in Procs : HasClient(p) <=> conn[p] # None
    /\ \A p, q \in Procs : p # q /\ conn[p] # None => conn[p] # conn[q] /\ conn[p] \notin idle

\* The server's side is well formed.
ServerOK == session \in [Conns -> Sessions] /\ NoLeftovers

LEMMA TypeParts == TypeOK /\ NoLeftovers <=> ValueTypes /\ ConnsOwned /\ ServerOK
  BY DEF TypeOK, ValueTypes, ConnsOwned, ServerOK, Sessions, Copy

\* Whether a caller has a connection depends on where it is.
LEMMA Moves ==
    ASSUME ValueTypes, config' = config, NEW p \in Procs, NEW l, pc' = [pc EXCEPT ![p] = l]
    PROVE  /\ pc'[p] = l
           /\ HasClient(p)' <=> l \in Commands \cup {"ready", "put"} \/ (l = "token" /\ config.pooled)
           /\ \A q \in Procs : q # p => pc'[q] = pc[q] /\ (HasClient(q)' <=> HasClient(q))
  BY DEF ValueTypes, HasClient

\* Connections that stay where they are stay owned.
LEMMA ConnsStay ==
    ASSUME ConnsOwned, conn' = conn, idle' \subseteq idle,
           \A q \in Procs : HasClient(q)' <=> HasClient(q)
    PROVE  ConnsOwned'
  BY DEF ConnsOwned

\* One caller lets go of its connection, which may become idle.
LEMMA ConnReleased ==
    ASSUME ValueTypes, ConnsOwned, NEW p \in Procs, conn' = [conn EXCEPT ![p] = None],
           conn[p] # None, idle' \subseteq idle \cup {conn[p]}, ~HasClient(p)',
           \A q \in Procs : q # p => (HasClient(q)' <=> HasClient(q))
    PROVE  ConnsOwned'
<1>1. conn'[p] = None /\ \A q \in Procs : q # p => conn'[q] = conn[q]
  BY DEF ValueTypes
<1>2. \A q \in Procs : q # p /\ conn[q] # None => conn[q] # conn[p] /\ conn[q] \notin idle
  BY DEF ConnsOwned
<1> QED
  BY <1>1, <1>2 DEF ConnsOwned

\* One caller gets a connection that nobody else has.
LEMMA ConnTaken ==
    ASSUME ValueTypes, ConnsOwned, NEW p \in Procs, NEW c \in Conns,
           conn' = [conn EXCEPT ![p] = c], \A q \in Procs : conn[q] # c,
           idle' \subseteq idle \ {c}, HasClient(p)',
           \A q \in Procs : q # p => (HasClient(q)' <=> HasClient(q))
    PROVE  ConnsOwned'
<1>1. conn'[p] = c /\ \A q \in Procs : q # p => conn'[q] = conn[q]
  BY DEF ValueTypes
<1>2. c # None
  BY NoneAssumption
<1>3. \A q, r \in Procs : q # r /\ conn'[q] # None => conn'[q] # conn'[r] /\ conn'[q] \notin idle'
  <2> SUFFICES ASSUME NEW q \in Procs, NEW r \in Procs, q # r, conn'[q] # None
               PROVE  conn'[q] # conn'[r] /\ conn'[q] \notin idle'
    OBVIOUS
  <2>1. CASE q = p
    BY <1>1, <2>1
  <2>2. CASE q # p
    BY <1>1, <2>2, NoneAssumption DEF ConnsOwned
  <2> QED
    BY <2>1, <2>2
<1> QED
  BY <1>1, <1>2, <1>3 DEF ConnsOwned

\* The server's side of one connection changes.
LEMMA SessionChanges ==
    ASSUME ServerOK, NEW c \in Conns, NEW s \in Sessions, ~s.open => s.rcpts = {},
           session' = [session EXCEPT ![c] = s]
    PROVE  /\ ServerOK' /\ session'[c] = s
           /\ \A d \in Conns : d # c => session'[d] = session[d]
  BY DEF ServerOK, NoLeftovers

\* A connection that is down is well formed.
LEMMA NoSessionType == NoSession \in Sessions /\ ~NoSession.up /\ ~NoSession.open /\ NoSession.rcpts = {}
  BY DEF NoSession, Sessions

-----------------------------------------------------------------------------
(* What a step leaves alone *)

\* A step that keeps everything that the invariant says of a caller, except that
\* its connection may break.
Untouched(q) ==
    /\ pc'[q] = pc[q] /\ to'[q] = to[q] /\ message'[q] = message[q] /\ conn'[q] = conn[q]
    /\ rcpt'[q] = rcpt[q] /\ n'[q] = n[q] /\ err'[q] = err[q]
    /\ inbox'[q] = inbox[q] /\ copies'[q] = copies[q] /\ lost'[q] = lost[q]
    /\ conn[q] # None => session'[conn[q]] \in {session[conn[q]], NoSession}

\* Nothing changes for that caller.
LEMMA UntouchedKept ==
    ASSUME IInv, NEW q \in Procs, Untouched(q)
    PROVE  Counted(q)' /\ Addressed(q)' /\ Alike(q)'
<1>1. Counted(q)'
  BY DEF IInv, Untouched, Counted, Delivered, Ended
<1>2. Alike(q)'
  BY DEF IInv, Untouched, Alike
<1>3. Addressed(q)'
  <2>1. pc[q] \in {"rcpt", "data", "dot"} => conn[q] # None
    BY DEF IInv, TypeOK, HasClient, Commands, Classified
  <2>2. pc[q] \in {"rcpt", "data", "dot"} /\ session'[conn[q]].up => session'[conn[q]] = session[conn[q]]
    BY <2>1 DEF Untouched, NoSession
  <2> QED
    BY SMTT(30), <2>2 DEF IInv, Untouched, Addressed
<1> QED
  BY <1>1, <1>2, <1>3

\* The invariant again, from its parts.
LEMMA Assemble ==
    ASSUME ValueTypes' /\ ConnsOwned' /\ ServerOK',
           \A q \in Procs : Counted(q)' /\ Addressed(q)' /\ Alike(q)'
    PROVE  IInv'
<1>1. TypeOK' /\ NoLeftovers'
  BY TypeParts, PTL
<1> QED
  BY <1>1 DEF IInv

\* So a step of p has to be looked at for p alone.
LEMMA StepOfOne ==
    ASSUME IInv, ValueTypes' /\ ConnsOwned' /\ ServerOK', NEW p \in Procs,
           Counted(p)' /\ Addressed(p)' /\ Alike(p)',
           \A q \in Procs : q # p => Untouched(q)
    PROVE  IInv'
<1>1. \A q \in Procs : q # p => Counted(q)' /\ Addressed(q)' /\ Alike(q)'
  BY UntouchedKept
<1> QED
  BY <1>1, Assemble

\* A failed attempt: the caller is in Put with the error, or has closed its
\* connection; the other callers and their connections are untouched.
LEMMA AbandonEffect ==
    ASSUME ValueTypes, ConnsOwned, ServerOK, NEW p \in Procs, HasClient(p),
           NEW e \in {"retryable", "final"}, Abandon(p, e), config' = config, idle' = idle
    PROVE  /\ ConnsOwned' /\ ServerOK'
           /\ pc' \in [Procs -> Locations] /\ pc'[p] \in {"put", "retry"}
           /\ conn' \in [Procs -> Conns \cup {None}]
           /\ err' = [err EXCEPT ![p] = e]
           /\ \A q \in Procs : q # p =>
                 /\ pc'[q] = pc[q] /\ conn'[q] = conn[q]
                 /\ conn[q] # None => session'[conn[q]] = session[conn[q]]
<1>1. conn[p] \in Conns /\ err' = [err EXCEPT ![p] = e]
  BY DEF ConnsOwned, ValueTypes, Abandon
<1>2. \A q \in Procs : q # p /\ conn[q] # None => conn[q] # conn[p] /\ conn[q] \in Conns
  BY DEF ConnsOwned, ValueTypes
<1>3. CASE <<p, conn[p]>> \in lent
  <2>1. pc' = [pc EXCEPT ![p] = "put"] /\ conn' = conn /\ session' = session
    BY <1>3 DEF Abandon, Goto
  <2>2. \A q \in Procs : HasClient(q)' <=> HasClient(q)
    BY <2>1, Moves
  <2>3. ConnsOwned'
    BY <2>1, <2>2, ConnsStay
  <2> QED
    BY <1>1, <2>1, <2>3 DEF ValueTypes, ServerOK, NoLeftovers, Locations
<1>4. CASE <<p, conn[p]>> \notin lent
  <2>1. /\ pc' = [pc EXCEPT ![p] = "retry"] /\ conn' = [conn EXCEPT ![p] = None]
        /\ session' = [session EXCEPT ![conn[p]] = NoSession]
    BY <1>4 DEF Abandon, Goto
  <2>2. ~HasClient(p)' /\ \A q \in Procs : q # p => (HasClient(q)' <=> HasClient(q))
    BY <2>1, Moves DEF Commands, Classified
  <2>3. ConnsOwned'
    BY <1>1, <2>1, <2>2, NoneAssumption, ConnReleased
  <2>4. ServerOK' /\ \A d \in Conns : d # conn[p] => session'[d] = session[d]
    BY <1>1, <2>1, SessionChanges, NoSessionType
  <2> QED
    BY <1>1, <1>2, <2>1, <2>3, <2>4 DEF ValueTypes, Locations
<1> QED
  BY <1>3, <1>4

\* Send returns: the locals of Retry are gone.
LEMMA FinishEffect ==
    ASSUME ValueTypes, NEW p \in Procs, NEW how \in {"sent", "failed"}, Finish(p, how)
    PROVE  /\ pc' \in [Procs -> Locations] /\ pc'[p] = how
           /\ n' \in [Procs -> 0..MaxRetries] /\ err' \in [Procs -> {"nil", "retryable", "final"}]
           /\ rcpt' \in [Procs -> Nat] /\ ctxDone' \subseteq Procs
           /\ err'[p] = "nil" /\ rcpt'[p] = 0
           /\ pc' = [pc EXCEPT ![p] = how]
           /\ \A q \in Procs : q # p =>
                 pc'[q] = pc[q] /\ n'[q] = n[q] /\ err'[q] = err[q] /\ rcpt'[q] = rcpt[q]
<1>1. pc' \in [Procs -> Locations] /\ pc'[p] = how
  BY DEF Finish, Goto, ValueTypes, Locations
<1>2. n' \in [Procs -> 0..MaxRetries]
  BY LimitAssumption DEF Finish, ValueTypes
<1>3. ctxDone' \subseteq Procs
  BY DEF Finish, ValueTypes
<1>4. err' \in [Procs -> {"nil", "retryable", "final"}] /\ rcpt' \in [Procs -> Nat]
  BY DEF Finish, ValueTypes
<1> QED
  BY <1>1, <1>2, <1>3, <1>4 DEF Finish, Goto, ValueTypes

\* What a failed attempt leaves: no answer has arrived, and what the server took over
\* meanwhile, if it did, is the message.
Unanswered(p) ==
    /\ inbox' \in [Procs -> SUBSET Copy]
    /\ copies' \in [Procs -> 0..(MaxRetries + 1)] /\ lost' \in [Procs -> 0..(MaxRetries + 1)]
    /\ copies'[p] = lost'[p] /\ lost'[p] <= n[p] + 1
    /\ inbox'[p] \subseteq {[id |-> message[p], rcpts |-> ToSet(to[p])]}
    /\ \A q \in Procs : q # p =>
          copies'[q] = copies[q] /\ lost'[q] = lost[q] /\ inbox'[q] = inbox[q]

LEMMA AbandonKeeps ==
    ASSUME IInv, NEW p \in Procs, HasClient(p), pc[p] # "put",
           NEW e \in {"retryable", "final"}, Abandon(p, e), Unanswered(p),
           UNCHANGED <<leaseVars, config, mailVars, retryVars, rcpt, closed>>,
           faults' \in 0..MaxFaults
    PROVE  IInv'
<1>1. ValueTypes /\ ConnsOwned /\ ServerOK /\ Counted(p) /\ Addressed(p) /\ Alike(p)
  BY TypeParts DEF IInv
<1>2. /\ ConnsOwned' /\ ServerOK'
      /\ pc' \in [Procs -> Locations] /\ pc'[p] \in {"put", "retry"}
      /\ conn' \in [Procs -> Conns \cup {None}]
      /\ err' = [err EXCEPT ![p] = e]
      /\ \A q \in Procs : q # p =>
            /\ pc'[q] = pc[q] /\ conn'[q] = conn[q]
            /\ conn[q] # None => session'[conn[q]] = session[conn[q]]
  BY <1>1, AbandonEffect DEF leaseVars
<1>3. ValueTypes'
  BY <1>1, <1>2 DEF ValueTypes, leaseVars, mailVars, retryVars, Unanswered
<1>4. err'[p] = e /\ \A q \in Procs : q # p => err'[q] = err[q]
  BY <1>1, <1>2 DEF ValueTypes
<1>5. Counted(p)'
  BY <1>2, <1>4 DEF Counted, Delivered, Ended, Preparing, Unanswered, retryVars
<1>6. Addressed(p)'
  BY <1>2 DEF Addressed, Preparing
<1>7. to[p] \in Lists
  BY <1>1 DEF Alike, HasClient, Commands, Classified
<1>8. Alike(p)'
  BY <1>2, <1>7 DEF Alike, Unanswered, mailVars
<1>9. \A q \in Procs : q # p => Untouched(q)
  BY <1>2, <1>4 DEF Untouched, Unanswered, mailVars, retryVars
<1> QED
  BY <1>1, <1>2, <1>3, <1>5, <1>6, <1>8, <1>9, StepOfOne

\* What Counted says in numbers.
LEMMA Tally ==
    ASSUME ValueTypes, NEW p \in Procs, Counted(p)
    PROVE  /\ lost[p] \in Nat /\ n[p] \in Nat /\ copies[p] \in Nat /\ n[p] <= MaxRetries
           /\ Delivered(p) => copies[p] = lost[p] + 1
           /\ ~Delivered(p) => copies[p] = lost[p]
           /\ pc[p] \notin {"sent", "failed"} /\ ~Ended(p) => lost[p] <= n[p] /\ lost[p] <= n[p] + 1
<1>1. lost[p] \in Nat /\ n[p] \in Nat /\ copies[p] \in Nat /\ n[p] <= MaxRetries
  BY LimitAssumption DEF ValueTypes
<1>2. pc[p] \notin {"sent", "failed"} /\ ~Ended(p) => lost[p] <= n[p]
  BY DEF Counted
<1>3. lost[p] <= n[p] => lost[p] <= n[p] + 1
  BY <1>1
<1> QED
  BY <1>1, <1>2, <1>3 DEF Counted

\* Nothing happens at the server's mailbox: at any point of an attempt that is that.
LEMMA NothingTaken ==
    ASSUME ValueTypes, NEW p \in Procs, Counted(p), Alike(p), HasClient(p), pc[p] # "put",
           UNCHANGED serverVars
    PROVE  Unanswered(p)
<1>1. ~Delivered(p) /\ ~Ended(p) /\ pc[p] \notin {"sent", "failed"}
  BY DEF HasClient, Commands, Classified, Delivered, Ended
<1>2. copies[p] = lost[p] /\ lost[p] <= n[p] + 1
  BY <1>1, Tally
<1> QED
  BY <1>2 DEF Unanswered, serverVars, ValueTypes, Alike

\* A step of p that changes neither connections nor sessions, and not whether p has one.
LEMMA MoveKeeps ==
    ASSUME IInv, NEW p \in Procs, ValueTypes',
           conn' = conn, session' = session, idle' = idle,
           HasClient(p)' <=> HasClient(p),
           Counted(p)', Addressed(p)', Alike(p)',
           config' = config,
           \A q \in Procs : q # p =>
              /\ pc'[q] = pc[q] /\ to'[q] = to[q] /\ message'[q] = message[q]
              /\ rcpt'[q] = rcpt[q] /\ n'[q] = n[q] /\ err'[q] = err[q]
              /\ inbox'[q] = inbox[q] /\ copies'[q] = copies[q] /\ lost'[q] = lost[q]
    PROVE  IInv'
<1>1. ValueTypes /\ ConnsOwned /\ ServerOK
  BY TypeParts DEF IInv
<1>2. \A q \in Procs : HasClient(q)' <=> HasClient(q)
  BY DEF HasClient
<1>3. ConnsOwned'
  BY <1>1, <1>2, ConnsStay
<1>4. ServerOK'
  BY <1>1 DEF ServerOK, NoLeftovers
<1>5. \A q \in Procs : q # p => Untouched(q)
  BY DEF Untouched
<1> QED
  BY <1>3, <1>4, <1>5, StepOfOne

-----------------------------------------------------------------------------
(* Every step keeps the invariant *)

LEMMA StepPreserves ==
    ASSUME IInv, [Next]_vars
    PROVE  IInv'
<1> USE LimitAssumption, NoneAssumption, ListAssumption
<1> ValueTypes /\ ConnsOwned /\ ServerOK /\ \A p \in Procs : Counted(p) /\ Addressed(p) /\ Alike(p)
  BY TypeParts DEF IInv
<1>1. ASSUME NEW p \in Procs, NEW list \in Lists, Call(p, list)
      PROVE  IInv'
  <2>1. ValueTypes'
    <3>1. message' \in [Procs -> 0..(MaxRetries + 1)]
      BY <1>1 DEF Call, ValueTypes
    <3>2. to' \in [Procs -> Lists \cup {<<>>}] /\ pc' \in [Procs -> Locations]
      BY <1>1 DEF Call, Goto, ValueTypes, Locations
    <3> QED
      BY <1>1, <3>1, <3>2 DEF Call, ValueTypes, retryVars, serverVars, leaseVars
  <2>2. ConnsOwned'
    BY <1>1 DEF Call, Goto, mailVars, retryVars, serverVars, leaseVars, ValueTypes, ConnsOwned,
          HasClient, Commands, Classified
  <2>3. ServerOK'
    BY <1>1 DEF Call, Goto, mailVars, retryVars, serverVars, leaseVars, ServerOK, NoLeftovers,
          NoSession, Sessions, ConnsOwned, HasClient, Commands, Classified
  <2>4. Counted(p)'
    BY <1>1 DEF Call, Goto, mailVars, retryVars, serverVars, leaseVars, ValueTypes, Counted,
          Delivered, Ended, Preparing, Commands, Classified
  <2>5. Addressed(p)'
    BY <1>1 DEF Call, Goto, mailVars, retryVars, serverVars, leaseVars, ValueTypes, Addressed,
          Preparing, Commands, Classified, HasClient, Counted, NoSession, ConnsOwned
  <2>6. Alike(p)'
    BY <1>1 DEF Call, Goto, mailVars, retryVars, serverVars, leaseVars, ValueTypes, Alike,
          Addressed, Locations
  <2>7. \A r \in Procs : r # p => Untouched(r)
    BY <1>1 DEF Call, Goto, mailVars, retryVars, serverVars, leaseVars, ValueTypes, ConnsOwned,
          HasClient, Commands, Classified, Untouched
  <2> QED
    BY <2>1, <2>2, <2>3, <2>4, <2>5, <2>6, <2>7, StepOfOne
<1>2. ASSUME NEW p \in Procs, Reject(p)
      PROVE  IInv'
  <2>1. ValueTypes'
    BY <1>2 DEF Reject, Goto, mailVars, retryVars, serverVars, leaseVars, ValueTypes,
          Locations, Commands, Classified
  <2>2. ConnsOwned'
    BY <1>2 DEF Reject, Goto, mailVars, retryVars, serverVars, leaseVars, ValueTypes,
          ConnsOwned, HasClient, Commands, Classified
  <2>3. ServerOK'
    BY <1>2 DEF Reject, Goto, mailVars, retryVars, serverVars, leaseVars, ServerOK,
          NoLeftovers, NoSession, Sessions, ConnsOwned, HasClient, Commands, Classified
  <2>4. Counted(p)'
    BY <1>2 DEF Reject, Goto, mailVars, retryVars, serverVars, leaseVars, ValueTypes, Counted,
          Delivered, Ended, Preparing, Commands, Classified
  <2>5. Addressed(p)'
    BY <1>2 DEF Reject, Goto, mailVars, retryVars, serverVars, leaseVars, ValueTypes,
          Addressed, Preparing, Commands, Classified, HasClient, Counted, NoSession, ConnsOwned
  <2>6. Alike(p)'
    BY <1>2 DEF Reject, Goto, mailVars, retryVars, serverVars, leaseVars, ValueTypes, Alike,
          Addressed, Locations
  <2>7. \A r \in Procs : r # p => Untouched(r)
    BY <1>2 DEF Reject, Goto, mailVars, retryVars, serverVars, leaseVars, ValueTypes,
          ConnsOwned, HasClient, Commands, Classified, Untouched
  <2> QED
    BY <2>1, <2>2, <2>3, <2>4, <2>5, <2>6, <2>7, StepOfOne
<1>3. ASSUME NEW p \in Procs, Cancel(p)
      PROVE  IInv'
  <2>1. ValueTypes'
    BY <1>3 DEF Cancel, Goto, mailVars, retryVars, serverVars, leaseVars, ValueTypes,
          Locations, Commands, Classified
  <2>2. ConnsOwned'
    BY <1>3 DEF Cancel, Goto, mailVars, retryVars, serverVars, leaseVars, ValueTypes,
          ConnsOwned, HasClient, Commands, Classified
  <2>3. ServerOK'
    BY <1>3 DEF Cancel, Goto, mailVars, retryVars, serverVars, leaseVars, ServerOK,
          NoLeftovers, NoSession, Sessions, ConnsOwned, HasClient, Commands, Classified
  <2>4. Counted(p)'
    BY <1>3 DEF Cancel, Goto, mailVars, retryVars, serverVars, leaseVars, ValueTypes, Counted,
          Delivered, Ended, Preparing, Commands, Classified
  <2>5. Addressed(p)'
    BY <1>3 DEF Cancel, Goto, mailVars, retryVars, serverVars, leaseVars, ValueTypes,
          Addressed, Preparing, Commands, Classified, HasClient, Counted, NoSession, ConnsOwned
  <2>6. Alike(p)'
    BY <1>3 DEF Cancel, Goto, mailVars, retryVars, serverVars, leaseVars, ValueTypes, Alike,
          Addressed, Locations
  <2>7. \A r \in Procs : r # p => Untouched(r)
    BY <1>3 DEF Cancel, Goto, mailVars, retryVars, serverVars, leaseVars, ValueTypes,
          ConnsOwned, HasClient, Commands, Classified, Untouched
  <2> QED
    BY <2>1, <2>2, <2>3, <2>4, <2>5, <2>6, <2>7, StepOfOne
<1>4. ASSUME NEW p \in Procs, Begin(p)
      PROVE  IInv'
  <2>1. ValueTypes'
    BY <1>4 DEF Begin, Goto, mailVars, retryVars, serverVars, leaseVars, ValueTypes, Locations,
          Commands, Classified
  <2>2. ConnsOwned'
    BY <1>4 DEF Begin, Goto, mailVars, retryVars, serverVars, leaseVars, ValueTypes,
          ConnsOwned, HasClient, Commands, Classified
  <2>3. ServerOK'
    BY <1>4 DEF Begin, Goto, mailVars, retryVars, serverVars, leaseVars, ServerOK, NoLeftovers,
          NoSession, Sessions, ConnsOwned, HasClient, Commands, Classified
  <2>4. Counted(p)'
    BY <1>4 DEF Begin, Goto, mailVars, retryVars, serverVars, leaseVars, ValueTypes, Counted,
          Delivered, Ended, Preparing, Commands, Classified
  <2>5. Addressed(p)'
    BY <1>4 DEF Begin, Goto, mailVars, retryVars, serverVars, leaseVars, ValueTypes, Addressed,
          Preparing, Commands, Classified, HasClient, Counted, NoSession, ConnsOwned
  <2>6. Alike(p)'
    BY <1>4 DEF Begin, Goto, mailVars, retryVars, serverVars, leaseVars, ValueTypes, Alike,
          Addressed, Locations
  <2>7. \A r \in Procs : r # p => Untouched(r)
    BY <1>4 DEF Begin, Goto, mailVars, retryVars, serverVars, leaseVars, ValueTypes,
          ConnsOwned, HasClient, Commands, Classified, Untouched
  <2> QED
    BY <2>1, <2>2, <2>3, <2>4, <2>5, <2>6, <2>7, StepOfOne
<1>5. ASSUME NEW p \in Procs, Cancelled(p)
      PROVE  IInv'
  <2>1. ValueTypes'
    <3>1. Finish(p, "failed")
      BY <1>5 DEF Cancelled
    <3> QED
      BY <1>5, <3>1, FinishEffect DEF Cancelled, ValueTypes, mailVars, serverVars, leaseVars
  <2>2. ConnsOwned'
    BY <1>5 DEF Cancelled, Goto, mailVars, retryVars, serverVars, leaseVars, Finish,
          ValueTypes, ConnsOwned, HasClient, Commands, Classified
  <2>3. ServerOK'
    BY <1>5 DEF Cancelled, Goto, mailVars, retryVars, serverVars, leaseVars, Finish, ServerOK,
          NoLeftovers, NoSession, Sessions, ConnsOwned, HasClient, Commands, Classified
  <2>4. Counted(p)'
    BY <1>5 DEF Cancelled, Goto, mailVars, retryVars, serverVars, leaseVars, Finish,
          ValueTypes, Counted, Delivered, Ended, Preparing, Commands, Classified
  <2>5. Addressed(p)'
    BY <1>5 DEF Cancelled, Goto, mailVars, retryVars, serverVars, leaseVars, Finish,
          ValueTypes, Addressed, Preparing, Commands, Classified, HasClient, Counted,
          NoSession, ConnsOwned
  <2>6. Alike(p)'
    BY <1>5 DEF Cancelled, Goto, mailVars, retryVars, serverVars, leaseVars, Finish,
          ValueTypes, Alike, Addressed, Locations
  <2>7. \A r \in Procs : r # p => Untouched(r)
    BY <1>5 DEF Cancelled, Goto, mailVars, retryVars, serverVars, leaseVars, Finish,
          ValueTypes, ConnsOwned, HasClient, Commands, Classified, Untouched
  <2> QED
    BY <2>1, <2>2, <2>3, <2>4, <2>5, <2>6, <2>7, StepOfOne
<1>6. ASSUME NEW p \in Procs, Decide(p)
      PROVE  IInv'
  <2>1. CASE err[p] = "final" \/ n[p] = MaxRetries
    <3>1. Finish(p, "failed")
      BY <1>6, <2>1 DEF Decide
    <3>2. ValueTypes'
      BY <1>6, <3>1, FinishEffect DEF Decide, ValueTypes, mailVars, serverVars, leaseVars
    <3>3. HasClient(p)' <=> HasClient(p)
      BY <1>6, <3>1, FinishEffect DEF Decide, HasClient, Commands, Classified
    <3>4. Counted(p)' /\ Addressed(p)' /\ Alike(p)'
      BY <1>6, <3>1, FinishEffect
      DEF Decide, Counted, Delivered, Ended, Addressed, Alike, Preparing, mailVars, serverVars
    <3> QED
      BY <1>6, <3>1, <3>2, <3>3, <3>4, FinishEffect, MoveKeeps
      DEF Decide, mailVars, serverVars, leaseVars
  <2>2. CASE ~(err[p] = "final" \/ n[p] = MaxRetries)
    <3>1. /\ pc' = [pc EXCEPT ![p] = "backoff"]
          /\ UNCHANGED <<leaseVars, config, mailVars, retryVars, err, rcpt, conn, closed, session, serverVars, faults>>
      BY <1>6, <2>2 DEF Decide, Goto
    <3>2. ValueTypes' /\ pc'[p] = "backoff" /\ \A q \in Procs : q # p => pc'[q] = pc[q]
      BY <3>1 DEF ValueTypes, Locations, leaseVars, mailVars, retryVars, serverVars
    <3>3. HasClient(p)' <=> HasClient(p)
      BY <1>6, <3>1, <3>2 DEF Decide, HasClient, Commands, Classified
    <3>4. n[p] < MaxRetries
      BY <2>2 DEF ValueTypes
    <3>5. Counted(p)' /\ Addressed(p)' /\ Alike(p)'
      BY <1>6, <3>1, <3>2, <3>4
      DEF Decide, Counted, Delivered, Ended, Addressed, Alike, Preparing, mailVars, retryVars, serverVars
    <3> QED
      BY <3>1, <3>2, <3>3, <3>5, MoveKeeps DEF mailVars, retryVars, serverVars, leaseVars
  <2> QED
    BY <2>1, <2>2
<1>7. ASSUME NEW p \in Procs, TimerFires(p)
      PROVE  IInv'
  <2>1. ValueTypes'
    <3>1. n[p] < MaxRetries
      BY <1>7 DEF TimerFires, Counted
    <3>2. n' \in [Procs -> 0..MaxRetries] /\ pc' \in [Procs -> Locations]
      BY <1>7, <3>1 DEF TimerFires, Goto, ValueTypes, Locations
    <3> QED
      BY <1>7, <3>2 DEF TimerFires, ValueTypes, mailVars, serverVars, leaseVars
  <2>2. ConnsOwned'
    BY <1>7 DEF TimerFires, Goto, mailVars, retryVars, serverVars, leaseVars, ValueTypes,
          ConnsOwned, HasClient, Commands, Classified
  <2>3. ServerOK'
    BY <1>7 DEF TimerFires, Goto, mailVars, retryVars, serverVars, leaseVars, ServerOK,
          NoLeftovers, NoSession, Sessions, ConnsOwned, HasClient, Commands, Classified
  <2>4. Counted(p)'
    BY <1>7 DEF TimerFires, Goto, mailVars, retryVars, serverVars, leaseVars, ValueTypes,
          Counted, Delivered, Ended, Preparing, Commands, Classified
  <2>5. Addressed(p)'
    BY <1>7 DEF TimerFires, Goto, mailVars, retryVars, serverVars, leaseVars, ValueTypes,
          Addressed, Preparing, Commands, Classified, HasClient, Counted, NoSession, ConnsOwned
  <2>6. Alike(p)'
    BY <1>7 DEF TimerFires, Goto, mailVars, retryVars, serverVars, leaseVars, ValueTypes,
          Alike, Addressed, Locations
  <2>7. \A r \in Procs : r # p => Untouched(r)
    BY <1>7 DEF TimerFires, Goto, mailVars, retryVars, serverVars, leaseVars, ValueTypes,
          ConnsOwned, HasClient, Commands, Classified, Untouched
  <2> QED
    BY <2>1, <2>2, <2>3, <2>4, <2>5, <2>6, <2>7, StepOfOne
<1>8. ASSUME NEW p \in Procs, NEW c \in Conns, GetIdle(p, c)
      PROVE  IInv'
  <2>1. ValueTypes'
    BY <1>8 DEF GetIdle, Goto, mailVars, retryVars, serverVars, leaseVars, Lend, ValueTypes,
          Locations, Commands, Classified
  <2>2. ConnsOwned'
    BY <1>8 DEF GetIdle, Goto, mailVars, retryVars, serverVars, leaseVars, Lend, ValueTypes,
          ConnsOwned, HasClient, Commands, Classified
  <2>3. ServerOK'
    BY <1>8 DEF GetIdle, Goto, mailVars, retryVars, serverVars, leaseVars, Lend, ServerOK,
          NoLeftovers, NoSession, Sessions, ConnsOwned, HasClient, Commands, Classified
  <2>4. Counted(p)'
    BY <1>8 DEF GetIdle, Goto, mailVars, retryVars, serverVars, leaseVars, Lend, ValueTypes,
          Counted, Delivered, Ended, Preparing, Commands, Classified
  <2>5. Addressed(p)'
    BY <1>8 DEF GetIdle, Goto, mailVars, retryVars, serverVars, leaseVars, Lend, ValueTypes,
          Addressed, Preparing, Commands, Classified, HasClient, Counted, NoSession, ConnsOwned
  <2>6. Alike(p)'
    BY <1>8 DEF GetIdle, Goto, mailVars, retryVars, serverVars, leaseVars, Lend, ValueTypes,
          Alike, Addressed, Locations
  <2>7. \A r \in Procs : r # p => Untouched(r)
    BY <1>8 DEF GetIdle, Goto, mailVars, retryVars, serverVars, leaseVars, Lend, ValueTypes,
          ConnsOwned, HasClient, Commands, Classified, Untouched
  <2> QED
    BY <2>1, <2>2, <2>3, <2>4, <2>5, <2>6, <2>7, StepOfOne
<1>9. ASSUME NEW p \in Procs, NEW c \in Conns, GetExpired(p, c)
      PROVE  IInv'
  <2>1. ValueTypes'
    BY <1>9 DEF GetExpired, Goto, mailVars, retryVars, serverVars, leaseVars, Expire,
          ValueTypes, Locations, Commands, Classified
  <2>2. ConnsOwned'
    BY <1>9 DEF GetExpired, Goto, mailVars, retryVars, serverVars, leaseVars, Expire,
          ValueTypes, ConnsOwned, HasClient, Commands, Classified
  <2>3. ServerOK'
    BY <1>9 DEF GetExpired, Goto, mailVars, retryVars, serverVars, leaseVars, Expire, ServerOK,
          NoLeftovers, NoSession, Sessions, ConnsOwned, HasClient, Commands, Classified
  <2>4. Counted(p)'
    BY <1>9 DEF GetExpired, Goto, mailVars, retryVars, serverVars, leaseVars, Expire,
          ValueTypes, Counted, Delivered, Ended, Preparing, Commands, Classified
  <2>5. Addressed(p)'
    BY <1>9 DEF GetExpired, Goto, mailVars, retryVars, serverVars, leaseVars, Expire,
          ValueTypes, Addressed, Preparing, Commands, Classified, HasClient, Counted,
          NoSession, ConnsOwned
  <2>6. Alike(p)'
    BY <1>9 DEF GetExpired, Goto, mailVars, retryVars, serverVars, leaseVars, Expire,
          ValueTypes, Alike, Addressed, Locations
  <2>7. \A r \in Procs : r # p => Untouched(r)
    BY <1>9 DEF GetExpired, Goto, mailVars, retryVars, serverVars, leaseVars, Expire,
          ValueTypes, ConnsOwned, HasClient, Commands, Classified, Untouched
  <2> QED
    BY <2>1, <2>2, <2>3, <2>4, <2>5, <2>6, <2>7, StepOfOne
<1>10. ASSUME NEW p \in Procs, NEW c \in Conns, Dial(p, c)
       PROVE  IInv'
  <2>1. ValueTypes'
    BY <1>10 DEF Dial, Goto, mailVars, retryVars, serverVars, leaseVars, AfterTLS, Unused,
          Known, ValueTypes, Locations, Commands, Classified
  <2>2. ConnsOwned'
    BY <1>10 DEF Dial, Goto, mailVars, retryVars, serverVars, leaseVars, AfterTLS, Unused,
          Known, ValueTypes, ConnsOwned, HasClient, Commands, Classified
  <2>3. ServerOK'
    <3>1. [NoSession EXCEPT !.up = TRUE, !.tls = config.ssl] \in Sessions
      BY ConfigAssumption DEF NoSession, Sessions, ValueTypes
    <3> QED
      BY <1>10, <3>1, SessionChanges DEF Dial, NoSession
  <2>4. Counted(p)'
    BY <1>10 DEF Dial, Goto, mailVars, retryVars, serverVars, leaseVars, AfterTLS, Unused,
          Known, ValueTypes, Counted, Delivered, Ended, Preparing, Commands, Classified
  <2>5. Addressed(p)'
    BY <1>10 DEF Dial, Goto, mailVars, retryVars, serverVars, leaseVars, AfterTLS, Unused,
          Known, ValueTypes, Addressed, Preparing, Commands, Classified, HasClient, Counted,
          NoSession, ConnsOwned
  <2>6. Alike(p)'
    BY <1>10 DEF Dial, Goto, mailVars, retryVars, serverVars, leaseVars, AfterTLS, Unused,
          Known, ValueTypes, Alike, Addressed, Locations
  <2>7. \A r \in Procs : r # p => Untouched(r)
    BY <1>10 DEF Dial, Goto, mailVars, retryVars, serverVars, leaseVars, AfterTLS, Unused,
          Known, ValueTypes, ConnsOwned, HasClient, Commands, Classified, Untouched
  <2> QED
    BY <2>1, <2>2, <2>3, <2>4, <2>5, <2>6, <2>7, StepOfOne
<1>11. ASSUME NEW p \in Procs, GetSlot(p)
       PROVE  IInv'
  <2>1. ValueTypes'
    BY <1>11 DEF GetSlot, Goto, mailVars, retryVars, serverVars, leaseVars, ValueTypes,
          Locations, Commands, Classified
  <2>2. ConnsOwned'
    BY <1>11 DEF GetSlot, Goto, mailVars, retryVars, serverVars, leaseVars, ValueTypes,
          ConnsOwned, HasClient, Commands, Classified
  <2>3. ServerOK'
    BY <1>11 DEF GetSlot, Goto, mailVars, retryVars, serverVars, leaseVars, ServerOK,
          NoLeftovers, NoSession, Sessions, ConnsOwned, HasClient, Commands, Classified
  <2>4. Counted(p)'
    BY <1>11 DEF GetSlot, Goto, mailVars, retryVars, serverVars, leaseVars, ValueTypes,
          Counted, Delivered, Ended, Preparing, Commands, Classified
  <2>5. Addressed(p)'
    BY <1>11 DEF GetSlot, Goto, mailVars, retryVars, serverVars, leaseVars, ValueTypes,
          Addressed, Preparing, Commands, Classified, HasClient, Counted, NoSession, ConnsOwned
  <2>6. Alike(p)'
    BY <1>11 DEF GetSlot, Goto, mailVars, retryVars, serverVars, leaseVars, ValueTypes, Alike,
          Addressed, Locations
  <2>7. \A r \in Procs : r # p => Untouched(r)
    BY <1>11 DEF GetSlot, Goto, mailVars, retryVars, serverVars, leaseVars, ValueTypes,
          ConnsOwned, HasClient, Commands, Classified, Untouched
  <2> QED
    BY <2>1, <2>2, <2>3, <2>4, <2>5, <2>6, <2>7, StepOfOne
<1>12. ASSUME NEW p \in Procs, GetFails(p)
       PROVE  IInv'
  <2>1. ValueTypes'
    BY <1>12 DEF GetFails, Goto, mailVars, retryVars, serverVars, leaseVars, FailEarly,
          ValueTypes, Locations, Commands, Classified
  <2>2. ConnsOwned'
    BY <1>12 DEF GetFails, Goto, mailVars, retryVars, serverVars, leaseVars, FailEarly,
          ValueTypes, ConnsOwned, HasClient, Commands, Classified
  <2>3. ServerOK'
    BY <1>12 DEF GetFails, Goto, mailVars, retryVars, serverVars, leaseVars, FailEarly,
          ServerOK, NoLeftovers, NoSession, Sessions, ConnsOwned, HasClient, Commands,
          Classified
  <2>4. Counted(p)'
    <3>1. \E e \in {"retryable", "final"} : FailEarly(p, e)
      BY <1>12 DEF GetFails
    <3>2. pc[p] = "get" /\ lost' = lost /\ copies' = copies /\ n' = n
      BY <1>12 DEF GetFails, retryVars, serverVars
    <3>3. pc'[p] = "retry"
      BY <3>1 DEF FailEarly, Goto, ValueTypes
    <3>4. /\ ~Delivered(p) /\ ~Ended(p) /\ ~Delivered(p)' /\ Ended(p)'
          /\ pc'[p] \notin Preparing \cup {"rcpt", "data", "dot"}
      BY <3>2, <3>3 DEF Delivered, Ended, Preparing
    <3>5. lost[p] \in Nat /\ n[p] \in Nat
      BY DEF ValueTypes
    <3>6. copies[p] = lost[p] /\ lost[p] <= n[p]
      <4>1. Counted(p)
        OBVIOUS
      <4> QED
        BY <3>2, <3>4, <4>1 DEF Counted
    <3> QED
      BY <3>2, <3>3, <3>4, <3>5, <3>6 DEF Counted
  <2>5. Addressed(p)'
    BY <1>12 DEF GetFails, Goto, mailVars, retryVars, serverVars, leaseVars, FailEarly,
          ValueTypes, Addressed, Preparing, Commands, Classified, HasClient, Counted,
          NoSession, ConnsOwned
  <2>6. Alike(p)'
    BY <1>12 DEF GetFails, Goto, mailVars, retryVars, serverVars, leaseVars, FailEarly,
          ValueTypes, Alike, Addressed, Locations
  <2>7. \A r \in Procs : r # p => Untouched(r)
    BY <1>12 DEF GetFails, Goto, mailVars, retryVars, serverVars, leaseVars, FailEarly,
          ValueTypes, ConnsOwned, HasClient, Commands, Classified, Untouched
  <2> QED
    BY <2>1, <2>2, <2>3, <2>4, <2>5, <2>6, <2>7, StepOfOne
<1>13. ASSUME NEW p \in Procs, DialFails(p)
       PROVE  IInv'
  <2>1. ValueTypes'
    <3>1. faults' \in 0..MaxFaults
      BY <1>13 DEF DialFails, Fault, ValueTypes
    <3>2. pc' \in [Procs -> Locations] /\ err' \in [Procs -> {"nil", "retryable", "final"}]
      BY <1>13 DEF DialFails, FailEarly, Goto, ValueTypes, Locations
    <3> QED
      BY <1>13, <3>1, <3>2 DEF DialFails, ValueTypes, mailVars, retryVars, serverVars, leaseVars
  <2>2. ConnsOwned'
    BY <1>13 DEF DialFails, Goto, mailVars, retryVars, serverVars, leaseVars, FailEarly, Fault,
          ValueTypes, ConnsOwned, HasClient, Commands, Classified
  <2>3. ServerOK'
    BY <1>13 DEF DialFails, Goto, mailVars, retryVars, serverVars, leaseVars, FailEarly, Fault,
          ServerOK, NoLeftovers, NoSession, Sessions, ConnsOwned, HasClient, Commands,
          Classified
  <2>4. Counted(p)'
    BY <1>13 DEF DialFails, Goto, mailVars, retryVars, serverVars, leaseVars, FailEarly, Fault,
          ValueTypes, Counted, Delivered, Ended, Preparing, Commands, Classified
  <2>5. Addressed(p)'
    BY <1>13 DEF DialFails, Goto, mailVars, retryVars, serverVars, leaseVars, FailEarly, Fault,
          ValueTypes, Addressed, Preparing, Commands, Classified, HasClient, Counted,
          NoSession, ConnsOwned
  <2>6. Alike(p)'
    BY <1>13 DEF DialFails, Goto, mailVars, retryVars, serverVars, leaseVars, FailEarly, Fault,
          ValueTypes, Alike, Addressed, Locations
  <2>7. \A r \in Procs : r # p => Untouched(r)
    BY <1>13 DEF DialFails, Goto, mailVars, retryVars, serverVars, leaseVars, FailEarly, Fault,
          ValueTypes, ConnsOwned, HasClient, Commands, Classified, Untouched
  <2> QED
    BY <2>1, <2>2, <2>3, <2>4, <2>5, <2>6, <2>7, StepOfOne
<1>14. ASSUME NEW p \in Procs, StartTLS(p)
       PROVE  IInv'
  <2>1. conn[p] \in Conns /\ HasClient(p) /\ ~Delivered(p) /\ ~Ended(p)
    BY <1>14 DEF StartTLS, HasClient, Commands, Classified, ConnsOwned, ValueTypes, Delivered, Ended

  <2>2. CASE ~config.starttls /\ config.auth = "oauth" /\ ~config.allowInsecure
    BY <1>14, <2>1, <2>2, AbandonKeeps, NothingTaken DEF StartTLS, ValueTypes
  <2>3. CASE config.starttls \/ ~(config.auth = "oauth" /\ ~config.allowInsecure)
    <3> DEFINE s == IF config.starttls THEN [session[conn[p]] EXCEPT !.tls = TRUE] ELSE session[conn[p]]
    <3>1. s \in Sessions /\ (~s.open => s.rcpts = {})
      <4>1. session[conn[p]] \in Sessions /\ (~session[conn[p]].open => session[conn[p]].rcpts = {})
        BY <2>1 DEF ServerOK, NoLeftovers
      <4>2. CASE config.starttls
        BY <4>1, <4>2 DEF Sessions
      <4>3. CASE ~config.starttls
        BY <4>1, <4>3
      <4> QED
        BY <4>2, <4>3
    <3>2. session' = [session EXCEPT ![conn[p]] = s]
      BY <1>14, <2>1, <2>3 DEF StartTLS, ServerOK
    <3> HIDE DEF s
    <3>3. ServerOK' /\ \A d \in Conns : d # conn[p] => session'[d] = session[d]
      BY <2>1, <3>1, <3>2, SessionChanges
    <3>4. pc' = [pc EXCEPT ![p] = AfterTLS] /\ UNCHANGED <<conn, err>>
      BY <1>14, <2>3 DEF StartTLS, Goto
    <3>5. AfterTLS \in {"auth", "ready"} \/ (AfterTLS = "token" /\ config.pooled)
      BY DEF AfterTLS
    <3> HIDE DEF AfterTLS
    <3>6. pc'[p] = AfterTLS /\ HasClient(p)' /\ \A q \in Procs : q # p => pc'[q] = pc[q] /\ (HasClient(q)' <=> HasClient(q))
      BY <1>14, <3>4, <3>5, Moves DEF StartTLS, Commands, Classified
    <3>7. UNCHANGED <<leaseVars, config, mailVars, retryVars, rcpt, closed, serverVars, faults>>
      BY <1>14 DEF StartTLS
    <3>8. ConnsOwned'
      BY <2>1, <3>4, <3>6, <3>7, ConnsStay DEF leaseVars
    <3>9. ValueTypes'
      BY <3>4, <3>5, <3>7 DEF ValueTypes, Locations, Commands, Classified, leaseVars, mailVars,
            retryVars, serverVars
    <3>10. Counted(p)' /\ Addressed(p)' /\ Alike(p)'
      BY <1>14, <2>1, <3>4, <3>5, <3>6, <3>7
      DEF StartTLS, Counted, Delivered, Ended, Addressed, Alike, Preparing, mailVars, retryVars, serverVars
    <3>11. \A q \in Procs : q # p => Untouched(q)
      BY SMTT(30), <2>1, <3>3, <3>4, <3>6, <3>7 DEF Untouched, ConnsOwned, ValueTypes, mailVars,
            retryVars, serverVars
    <3> QED
      BY <3>3, <3>8, <3>9, <3>10, <3>11, StepOfOne
  <2> QED
    BY <2>2, <2>3
<1>15. ASSUME NEW p \in Procs, Token(p)
       PROVE  IInv'
  <2>1. ValueTypes'
    BY <1>15 DEF Token, Goto, mailVars, retryVars, serverVars, leaseVars, ValueTypes,
          Locations, Commands, Classified
  <2>2. ConnsOwned'
    BY <1>15 DEF Token, Goto, mailVars, retryVars, serverVars, leaseVars, ValueTypes,
          ConnsOwned, HasClient, Commands, Classified
  <2>3. ServerOK'
    BY <1>15 DEF Token, Goto, mailVars, retryVars, serverVars, leaseVars, ServerOK,
          NoLeftovers, NoSession, Sessions, ConnsOwned, HasClient, Commands, Classified
  <2>4. Counted(p)'
    BY <1>15 DEF Token, Goto, mailVars, retryVars, serverVars, leaseVars, ValueTypes, Counted,
          Delivered, Ended, Preparing, Commands, Classified
  <2>5. Addressed(p)'
    BY <1>15 DEF Token, Goto, mailVars, retryVars, serverVars, leaseVars, ValueTypes,
          Addressed, Preparing, Commands, Classified, HasClient, Counted, NoSession, ConnsOwned
  <2>6. Alike(p)'
    BY <1>15 DEF Token, Goto, mailVars, retryVars, serverVars, leaseVars, ValueTypes, Alike,
          Addressed, Locations
  <2>7. \A r \in Procs : r # p => Untouched(r)
    BY <1>15 DEF Token, Goto, mailVars, retryVars, serverVars, leaseVars, ValueTypes,
          ConnsOwned, HasClient, Commands, Classified, Untouched
  <2> QED
    BY <2>1, <2>2, <2>3, <2>4, <2>5, <2>6, <2>7, StepOfOne
<1>16. ASSUME NEW p \in Procs, TokenFails(p)
       PROVE  IInv'
  <2>1. pc[p] = "token" /\ UNCHANGED <<leaseVars, config, mailVars, retryVars, rcpt, closed, serverVars>>
    BY <1>16 DEF TokenFails
  <2>2. faults' \in 0..MaxFaults
    BY <1>16 DEF TokenFails, Fault, ValueTypes
  <2>3. CASE config.pooled
    <3>1. HasClient(p)
      BY <2>1, <2>3 DEF HasClient
    <3>2. PICK e \in {"retryable", "final"} : Abandon(p, e)
      BY <1>16, <2>3 DEF TokenFails
    <3> QED
      BY <2>1, <2>2, <3>1, <3>2, AbandonKeeps, NothingTaken
  <2>4. CASE ~config.pooled
    <3>1. PICK e \in {"retryable", "final"} : FailEarly(p, e) /\ UNCHANGED <<conn, session>>
      BY <1>16, <2>4 DEF TokenFails
    <3>2. /\ pc' = [pc EXCEPT ![p] = "retry"] /\ pc'[p] = "retry" /\ err'[p] = e
          /\ pc' \in [Procs -> Locations] /\ err' \in [Procs -> {"nil", "retryable", "final"}]
          /\ \A q \in Procs : q # p => pc'[q] = pc[q] /\ err'[q] = err[q]
      BY <3>1 DEF FailEarly, Goto, ValueTypes, Locations
    <3>3. ValueTypes'
      BY <2>1, <2>2, <3>1, <3>2 DEF ValueTypes, leaseVars, mailVars, retryVars, serverVars
    <3>4. HasClient(p)' <=> HasClient(p)
      BY <2>1, <2>4, <3>2 DEF HasClient, Commands, Classified
    <3>5. Counted(p)'
      <4>1. ~Delivered(p) /\ ~Ended(p)
        BY <2>1 DEF Delivered, Ended
      <4>2. copies[p] = lost[p] /\ lost[p] <= n[p] + 1
        BY <2>1, <4>1, Tally
      <4> QED
        BY <2>1, <3>2, <4>1, <4>2 DEF Counted, Delivered, Ended, Preparing, retryVars, serverVars
    <3>6. Addressed(p)' /\ Alike(p)'
      BY <2>1, <3>1, <3>2 DEF Addressed, Alike, Preparing, mailVars, serverVars
    <3> QED
      BY <2>1, <3>1, <3>2, <3>3, <3>4, <3>5, <3>6, MoveKeeps
        DEF mailVars, retryVars, serverVars, leaseVars
  <2> QED
    BY <2>3, <2>4
<1>17. ASSUME NEW p \in Procs, Auth(p)
       PROVE  IInv'
  <2>1. conn[p] \in Conns /\ HasClient(p) /\ ~Delivered(p) /\ ~Ended(p)
    BY <1>17 DEF Auth, HasClient, Commands, Classified, ConnsOwned, ValueTypes, Delivered, Ended

  <2>2. CASE ~Sends(p)
    BY <1>17, <2>1, <2>2, AbandonKeeps, NothingTaken DEF Auth, ValueTypes
  <2>3. CASE Sends(p)
    <3> DEFINE s == [session[conn[p]] EXCEPT !.authed = TRUE]
    <3>1. s \in Sessions /\ (~s.open => s.rcpts = {})
      BY <2>1 DEF ServerOK, NoLeftovers, Sessions
    <3>2. session' = [session EXCEPT ![conn[p]] = s]
      BY <1>17, <2>1, <2>3 DEF Auth, ServerOK
    <3> HIDE DEF s
    <3>3. ServerOK' /\ \A d \in Conns : d # conn[p] => session'[d] = session[d]
      BY <2>1, <3>1, <3>2, SessionChanges
    <3>4. pc' = [pc EXCEPT ![p] = "ready"] /\ UNCHANGED <<conn, err>>
      BY <1>17, <2>3 DEF Auth, Goto
    <3>5. UNCHANGED <<leaseVars, config, mailVars, retryVars, rcpt, closed, serverVars, faults>>
      BY <1>17 DEF Auth
    <3>6. pc'[p] = "ready" /\ HasClient(p)' /\ \A q \in Procs : q # p => pc'[q] = pc[q] /\ (HasClient(q)' <=> HasClient(q))
      BY <3>4, <3>5, Moves
    <3>7. ConnsOwned'
      BY <2>1, <3>4, <3>5, <3>6, ConnsStay DEF leaseVars
    <3>8. ValueTypes'
      BY <3>4, <3>5 DEF ValueTypes, Locations, leaseVars, mailVars, retryVars, serverVars
    <3>9. Counted(p)' /\ Addressed(p)' /\ Alike(p)'
      BY <1>17, <2>1, <3>4, <3>5, <3>6
      DEF Auth, Counted, Delivered, Ended, Addressed, Alike, Preparing, mailVars, retryVars, serverVars
    <3>10. \A q \in Procs : q # p => Untouched(q)
      BY SMTT(30), <2>1, <3>3, <3>4, <3>5, <3>6 DEF Untouched, ConnsOwned, ValueTypes, mailVars,
            retryVars, serverVars
    <3> QED
      BY <3>3, <3>7, <3>8, <3>9, <3>10, StepOfOne
  <2> QED
    BY <2>2, <2>3
<1>18. ASSUME NEW p \in Procs, Ready(p)
       PROVE  IInv'
  <2>1. ValueTypes'
    <3>1. conn[p] \in Conns
      BY <1>18 DEF Ready, ConnsOwned, HasClient, ValueTypes
    <3>2. lent' \subseteq Procs \X Conns /\ idle' = idle
      BY <1>18, <3>1 DEF Ready, Open, leaseVars, ValueTypes
    <3>3. pc' \in [Procs -> Locations]
      BY <1>18 DEF Ready, Goto, ValueTypes, Locations, Commands, Classified
    <3> QED
      BY <1>18, <3>2, <3>3 DEF Ready, ValueTypes, mailVars, retryVars, serverVars
  <2>2. ConnsOwned'
    BY <1>18 DEF Ready, Goto, mailVars, retryVars, serverVars, leaseVars, Open, ValueTypes,
          ConnsOwned, HasClient, Commands, Classified
  <2>3. ServerOK'
    BY <1>18 DEF Ready, Goto, mailVars, retryVars, serverVars, leaseVars, Open, ServerOK,
          NoLeftovers, NoSession, Sessions, ConnsOwned, HasClient, Commands, Classified
  <2>4. Counted(p)'
    BY <1>18 DEF Ready, Goto, mailVars, retryVars, serverVars, leaseVars, Open, ValueTypes,
          Counted, Delivered, Ended, Preparing, Commands, Classified
  <2>5. Addressed(p)'
    BY <1>18 DEF Ready, Goto, mailVars, retryVars, serverVars, leaseVars, Open, ValueTypes,
          Addressed, Preparing, Commands, Classified, HasClient, Counted, NoSession, ConnsOwned
  <2>6. Alike(p)'
    BY <1>18 DEF Ready, Goto, mailVars, retryVars, serverVars, leaseVars, Open, ValueTypes,
          Alike, Addressed, Locations
  <2>7. \A r \in Procs : r # p => Untouched(r)
    BY <1>18 DEF Ready, Goto, mailVars, retryVars, serverVars, leaseVars, Open, ValueTypes,
          ConnsOwned, HasClient, Commands, Classified, Untouched
  <2> QED
    BY <2>1, <2>2, <2>3, <2>4, <2>5, <2>6, <2>7, StepOfOne
<1>19. ASSUME NEW p \in Procs, Mail(p)
       PROVE  IInv'
  <2>1. conn[p] \in Conns /\ HasClient(p) /\ ~Delivered(p) /\ ~Ended(p)
    BY <1>19 DEF Mail, HasClient, Commands, Classified, ConnsOwned, ValueTypes, Delivered, Ended

  <2>2. CASE session[conn[p]].open
    BY <1>19, <2>1, <2>2, AbandonKeeps, NothingTaken DEF Mail, ValueTypes
  <2>3. CASE ~session[conn[p]].open
    <3> DEFINE s == [session[conn[p]] EXCEPT !.open = TRUE]
    <3>1. s \in Sessions /\ s.open = TRUE /\ s.rcpts = {}
      BY <2>1, <2>3 DEF ServerOK, NoLeftovers, Sessions
    <3>2. session' = [session EXCEPT ![conn[p]] = s]
      BY <1>19, <2>1, <2>3 DEF Mail, ServerOK
    <3> HIDE DEF s
    <3>3. ServerOK' /\ session'[conn[p]] = s /\ \A d \in Conns : d # conn[p] => session'[d] = session[d]
      BY <2>1, <3>1, <3>2, SessionChanges
    <3>4. pc' = [pc EXCEPT ![p] = "rcpt"] /\ UNCHANGED <<conn, err>>
      BY <1>19, <2>3 DEF Mail, Goto
    <3>5. UNCHANGED <<leaseVars, config, mailVars, retryVars, rcpt, closed, serverVars, faults>>
      BY <1>19 DEF Mail
    <3>6. pc'[p] = "rcpt" /\ HasClient(p)' /\ \A q \in Procs : q # p => pc'[q] = pc[q] /\ (HasClient(q)' <=> HasClient(q))
      BY <3>4, <3>5, Moves DEF Commands, Classified
    <3>7. ConnsOwned'
      BY <2>1, <3>4, <3>5, <3>6, ConnsStay DEF leaseVars
    <3>8. ValueTypes'
      BY <3>4, <3>5 DEF ValueTypes, Locations, Commands, Classified, leaseVars, mailVars,
            retryVars, serverVars
    <3>9. Counted(p)' /\ Alike(p)'
      BY <1>19, <2>1, <3>4, <3>5, <3>6
      DEF Mail, Counted, Delivered, Ended, Alike, Preparing, mailVars, retryVars, serverVars
    <3>10. rcpt[p] = 0 /\ to[p] \in Lists /\ Len(to[p]) > 0
      BY <1>19 DEF Mail, Addressed, Alike, Preparing
    <3>11. Addressed(p)'
      BY <3>1, <3>3, <3>4, <3>5, <3>6, <3>10 DEF Addressed, Preparing, mailVars
    <3>12. \A q \in Procs : q # p => Untouched(q)
      BY SMTT(30), <2>1, <3>3, <3>4, <3>5, <3>6 DEF Untouched, ConnsOwned, ValueTypes, mailVars,
            retryVars, serverVars
    <3> QED
      BY <3>3, <3>7, <3>8, <3>9, <3>11, <3>12, StepOfOne
  <2> QED
    BY <2>2, <2>3
<1>20. ASSUME NEW p \in Procs, Rcpt(p)
       PROVE  IInv'
  <2>1. ValueTypes'
    BY SMTT(30), <1>20 DEF Rcpt, Goto, mailVars, retryVars, serverVars, leaseVars, ValueTypes, Locations,
          Commands, Classified
  <2>2. ConnsOwned'
    BY <1>20 DEF Rcpt, Goto, mailVars, retryVars, serverVars, leaseVars, ValueTypes,
          ConnsOwned, HasClient, Commands, Classified
  <2>3. ServerOK'
    <3>1. conn[p] \in Conns /\ session[conn[p]].open
      BY <1>20 DEF Rcpt, HasClient, Commands, Classified, ConnsOwned, ValueTypes, Addressed
    <3>2. to[p] \in Lists /\ rcpt[p] + 1 \in 1..Len(to[p])
      BY <1>20 DEF Rcpt, Addressed, Alike, ValueTypes
    <3>3. to[p][rcpt[p] + 1] \in ToSet(to[p])
      BY <3>2 DEF ToSet
    <3> DEFINE s == [session[conn[p]] EXCEPT !.rcpts = @ \cup {to[p][rcpt[p] + 1]}]
    <3>4. s \in Sessions /\ s.open
      BY SMTT(30), <3>1, <3>2, <3>3 DEF Sessions, ServerOK
    <3>5. session' = [session EXCEPT ![conn[p]] = s]
      BY <1>20, <3>1 DEF Rcpt, ServerOK
    <3> HIDE DEF s
    <3> QED
      BY <3>1, <3>4, <3>5, SessionChanges
  <2>4. Counted(p)'
    BY <1>20 DEF Rcpt, Goto, mailVars, retryVars, serverVars, leaseVars, ValueTypes, Counted,
          Delivered, Ended, Preparing, Commands, Classified
  <2>5. Addressed(p)'
    <3>1. conn[p] \in Conns /\ session[conn[p]].open /\ session[conn[p]].rcpts = {to[p][i] : i \in 1..rcpt[p]}
      BY <1>20 DEF Rcpt, HasClient, Commands, Classified, ConnsOwned, ValueTypes, Addressed
    <3> DEFINE k == rcpt[p] + 1
    <3>2. rcpt[p] \in Nat /\ to[p] \in Lists /\ k <= Len(to[p]) /\ DOMAIN to[p] = 1..Len(to[p]) /\ Len(to[p]) \in Nat
      BY <1>20 DEF Rcpt, Addressed, Alike, ValueTypes
    <3>3. session'[conn[p]].open = session[conn[p]].open /\ session'[conn[p]].rcpts = session[conn[p]].rcpts \cup {to[p][k]}
      BY <1>20, <3>1 DEF Rcpt, ServerOK, Sessions
    <3>4. {to[p][i] : i \in 1..rcpt[p]} \cup {to[p][k]} = {to[p][i] : i \in 1..k}
      BY <3>2
    <3>5. pc'[p] = (IF k = Len(to[p]) THEN "data" ELSE "rcpt") /\ rcpt'[p] = k /\ UNCHANGED <<to, conn>>
      BY <1>20 DEF Rcpt, Goto, ValueTypes, mailVars
    <3>6. k = Len(to[p]) => {to[p][i] : i \in 1..k} = ToSet(to[p])
      BY <3>2 DEF ToSet
    <3>7. k # Len(to[p]) => k < Len(to[p])
      <4>1. \A i, l \in Nat : i + 1 <= l /\ i + 1 # l => i + 1 < l
        OBVIOUS
      <4> QED
        BY <3>2, <4>1
    <3> HIDE DEF k
    <3>8. CASE k = Len(to[p])
      <4>1. pc'[p] = "data" /\ session'[conn'[p]].open /\ session'[conn'[p]].rcpts = ToSet(to'[p])
        BY <3>1, <3>3, <3>4, <3>5, <3>6, <3>8
      <4> QED
        BY <4>1 DEF Addressed, Preparing
    <3>9. CASE k # Len(to[p])
      <4>1. pc'[p] = "rcpt" /\ rcpt'[p] < Len(to'[p]) /\ session'[conn'[p]].open
        BY <3>1, <3>3, <3>5, <3>7, <3>9
      <4>2. session'[conn'[p]].rcpts = {to'[p][i] : i \in 1..rcpt'[p]}
        BY ZenonT(30), <3>1, <3>3, <3>4, <3>5
      <4> QED
        BY <4>1, <4>2 DEF Addressed, Preparing
    <3> QED
      BY <3>8, <3>9
  <2>6. Alike(p)'
    BY <1>20 DEF Rcpt, Goto, mailVars, retryVars, serverVars, leaseVars, ValueTypes, Alike,
          Addressed, Locations
  <2>7. \A r \in Procs : r # p => Untouched(r)
    BY <1>20 DEF Rcpt, Goto, mailVars, retryVars, serverVars, leaseVars, ValueTypes,
          ConnsOwned, HasClient, Commands, Classified, Untouched
  <2> QED
    BY <2>1, <2>2, <2>3, <2>4, <2>5, <2>6, <2>7, StepOfOne
<1>21. ASSUME NEW p \in Procs, Data(p)
       PROVE  IInv'
  <2>1. ValueTypes'
    BY <1>21 DEF Data, Goto, mailVars, retryVars, serverVars, leaseVars, ValueTypes, Locations,
          Commands, Classified
  <2>2. ConnsOwned'
    BY <1>21 DEF Data, Goto, mailVars, retryVars, serverVars, leaseVars, ValueTypes,
          ConnsOwned, HasClient, Commands, Classified
  <2>3. ServerOK'
    BY <1>21 DEF Data, Goto, mailVars, retryVars, serverVars, leaseVars, ServerOK, NoLeftovers,
          NoSession, Sessions, ConnsOwned, HasClient, Commands, Classified
  <2>4. Counted(p)'
    BY <1>21 DEF Data, Goto, mailVars, retryVars, serverVars, leaseVars, ValueTypes, Counted,
          Delivered, Ended, Preparing, Commands, Classified
  <2>5. Addressed(p)'
    BY <1>21 DEF Data, Goto, mailVars, retryVars, serverVars, leaseVars, ValueTypes, Addressed,
          Preparing, Commands, Classified, HasClient, Counted, NoSession, ConnsOwned
  <2>6. Alike(p)'
    BY <1>21 DEF Data, Goto, mailVars, retryVars, serverVars, leaseVars, ValueTypes, Alike,
          Addressed, Locations
  <2>7. \A r \in Procs : r # p => Untouched(r)
    BY <1>21 DEF Data, Goto, mailVars, retryVars, serverVars, leaseVars, ValueTypes,
          ConnsOwned, HasClient, Commands, Classified, Untouched
  <2> QED
    BY <2>1, <2>2, <2>3, <2>4, <2>5, <2>6, <2>7, StepOfOne
<1>22. ASSUME NEW p \in Procs, Dot(p)
       PROVE  IInv'
  <2>1. conn[p] \in Conns /\ HasClient(p) /\ ~Delivered(p) /\ ~Ended(p) /\ to[p] \in Lists
    BY <1>22 DEF Dot, HasClient, Commands, Classified, ConnsOwned, ValueTypes, Delivered,
          Ended, Alike
  <2>2. /\ copies[p] = lost[p] /\ lost[p] <= n[p] /\ n[p] <= MaxRetries
        /\ lost[p] \in Nat /\ n[p] \in Nat
    BY <1>22, <2>1, Tally DEF Dot
  <2>3. session[conn[p]].rcpts = ToSet(to[p])
    BY <1>22 DEF Dot, Accept, Addressed
  <2>4. /\ inbox' \in [Procs -> SUBSET Copy]
        /\ inbox'[p] = inbox[p] \cup {[id |-> message[p], rcpts |-> ToSet(to[p])]}
        /\ \A q \in Procs : q # p => inbox'[q] = inbox[q]
    <3> DEFINE copy == [id |-> message[p], rcpts |-> ToSet(to[p])]
    <3>1. copy \in Copy
      BY <2>1 DEF Copy, ValueTypes
    <3>2. inbox' = [inbox EXCEPT ![p] = inbox[p] \cup {copy}]
      BY <1>22, <2>3 DEF Dot, Accept
    <3> HIDE DEF copy
    <3>3. /\ inbox' \in [Procs -> SUBSET Copy] /\ inbox'[p] = inbox[p] \cup {copy}
          /\ \A q \in Procs : q # p => inbox'[q] = inbox[q]
      BY <3>1, <3>2 DEF ValueTypes
    <3> QED
      BY <3>3 DEF copy
  <2>5. inbox'[p] \subseteq {[id |-> message[p], rcpts |-> ToSet(to[p])]}
    BY <2>4 DEF Alike
  <2>6. /\ copies' \in [Procs -> 0..(MaxRetries + 1)] /\ copies'[p] = lost[p] + 1
        /\ \A q \in Procs : q # p => copies'[q] = copies[q]
    <3>1. copies' = [copies EXCEPT ![p] = copies[p] + 1]
      BY <1>22 DEF Dot, Accept
    <3>2. copies[p] + 1 \in 0..(MaxRetries + 1)
      BY <2>2
    <3> QED
      BY <2>2, <3>1, <3>2 DEF ValueTypes

  <2> DEFINE s == IF config.pooled THEN [session[conn[p]] EXCEPT !.open = FALSE, !.rcpts = {}] ELSE NoSession
  <2>7. s \in Sessions /\ s.rcpts = {}
    <3>1. session[conn[p]] \in Sessions
      BY <2>1 DEF ServerOK
    <3>2. CASE config.pooled
      BY <3>1, <3>2 DEF Sessions
    <3>3. CASE ~config.pooled
      BY <3>3, NoSessionType
    <3> QED
      BY <3>2, <3>3
  <2>8. session' = [session EXCEPT ![conn[p]] = s]
    <3>1. CASE config.pooled
      BY <1>22, <2>1, <3>1 DEF Dot, ServerOK
    <3>2. CASE ~config.pooled
      BY <1>22, <3>2 DEF Dot
    <3> QED
      BY <3>1, <3>2
  <2> HIDE DEF s
  <2>9. ServerOK' /\ \A d \in Conns : d # conn[p] => session'[d] = session[d]
    BY <2>1, <2>7, <2>8, SessionChanges
  <2>10. UNCHANGED <<leaseVars, config, mailVars, closed, lost, faults>>
    BY <1>22 DEF Dot
  <2>11. \A q \in Procs : q # p /\ conn[q] # None => conn[q] # conn[p] /\ conn[q] \in Conns
    BY <2>1 DEF ConnsOwned, ValueTypes
  <2>12. CASE config.pooled
    <3>1. pc' = [pc EXCEPT ![p] = "put"] /\ UNCHANGED <<conn, err, rcpt, retryVars>>
      BY <1>22, <2>12 DEF Dot, Goto
    <3>2. pc'[p] = "put" /\ HasClient(p)' /\ \A q \in Procs : q # p => pc'[q] = pc[q] /\ (HasClient(q)' <=> HasClient(q))
      BY <2>10, <3>1, Moves
    <3>3. ConnsOwned'
      BY <2>1, <2>10, <3>1, <3>2, ConnsStay DEF leaseVars
    <3>4. ValueTypes'
      BY <2>4, <2>6, <2>10, <3>1 DEF ValueTypes, Locations, leaseVars, mailVars, retryVars
    <3>5. err[p] = "nil"
      BY <1>22 DEF Dot, Counted
    <3>6. Delivered(p)' /\ ~Ended(p)'
      BY <3>1, <3>2, <3>5 DEF Delivered, Ended
    <3>7. Counted(p)'
      BY <2>2, <2>6, <2>10, <3>1, <3>2, <3>5, <3>6 DEF Counted, retryVars, Preparing
    <3>8. Addressed(p)' /\ Alike(p)'
      BY <2>1, <2>5, <2>10, <3>2 DEF Addressed, Alike, Preparing, mailVars
    <3>9. \A q \in Procs : q # p => Untouched(q)
      BY <2>4, <2>6, <2>9, <2>10, <2>11, <3>1, <3>2 DEF Untouched, mailVars, retryVars
    <3> QED
      BY <2>9, <3>3, <3>4, <3>7, <3>8, <3>9, StepOfOne
  <2>13. CASE ~config.pooled
    <3>1. Finish(p, "sent") /\ conn' = [conn EXCEPT ![p] = None]
      BY <1>22, <2>13 DEF Dot
    <3>2. pc'[p] = "sent" /\ ~HasClient(p)' /\ \A q \in Procs : q # p => pc'[q] = pc[q] /\ (HasClient(q)' <=> HasClient(q))
      BY <2>10, <3>1, Moves DEF Finish, Goto, Commands, Classified
    <3>3. ConnsOwned'
      BY <2>1, <2>10, <3>1, <3>2, NoneAssumption, ConnReleased DEF leaseVars
    <3>4. conn' \in [Procs -> Conns \cup {None}] /\ \A q \in Procs : q # p => conn'[q] = conn[q]
      BY <3>1 DEF ValueTypes
    <3>5. ValueTypes'
      BY <2>4, <2>6, <2>10, <3>1, <3>4, FinishEffect DEF ValueTypes, leaseVars, mailVars
    <3>6. Delivered(p)' /\ lost[p] <= MaxRetries
      BY <2>2, <3>2, LimitAssumption DEF Delivered
    <3>7. Counted(p)'
      BY <2>6, <2>10, <3>2, <3>6 DEF Counted, Preparing
    <3>8. Addressed(p)' /\ Alike(p)'
      BY <2>1, <2>5, <2>10, <3>2 DEF Addressed, Alike, Preparing, mailVars
    <3>9. \A q \in Procs : q # p => Untouched(q)
      BY <2>4, <2>6, <2>9, <2>10, <2>11, <3>1, <3>2, <3>4, FinishEffect DEF Untouched, mailVars
    <3> QED
      BY <2>9, <3>3, <3>5, <3>7, <3>8, <3>9, StepOfOne
  <2> QED
    BY <2>12, <2>13
<1>23. ASSUME NEW p \in Procs, DotUnanswered(p)
       PROVE  IInv'
  <2>1. conn[p] \in Conns /\ HasClient(p) /\ ~Delivered(p) /\ ~Ended(p) /\ to[p] \in Lists
    BY <1>23 DEF DotUnanswered, HasClient, Commands, Classified, ConnsOwned, ValueTypes,
          Delivered, Ended, Alike
  <2>2. /\ copies[p] = lost[p] /\ lost[p] <= n[p] /\ n[p] <= MaxRetries
        /\ lost[p] \in Nat /\ n[p] \in Nat
    BY <1>23, <2>1, Tally DEF DotUnanswered
  <2>3. session[conn[p]].rcpts = ToSet(to[p])
    BY <1>23 DEF DotUnanswered, Accept, Addressed
  <2>4. /\ inbox' \in [Procs -> SUBSET Copy]
        /\ inbox'[p] = inbox[p] \cup {[id |-> message[p], rcpts |-> ToSet(to[p])]}
        /\ \A q \in Procs : q # p => inbox'[q] = inbox[q]
    <3> DEFINE copy == [id |-> message[p], rcpts |-> ToSet(to[p])]
    <3>1. copy \in Copy
      BY <2>1 DEF Copy, ValueTypes
    <3>2. inbox' = [inbox EXCEPT ![p] = inbox[p] \cup {copy}]
      BY <1>23, <2>3 DEF DotUnanswered, Accept
    <3> HIDE DEF copy
    <3>3. /\ inbox' \in [Procs -> SUBSET Copy] /\ inbox'[p] = inbox[p] \cup {copy}
          /\ \A q \in Procs : q # p => inbox'[q] = inbox[q]
      BY <3>1, <3>2 DEF ValueTypes
    <3> QED
      BY <3>3 DEF copy
  <2>5. inbox'[p] \subseteq {[id |-> message[p], rcpts |-> ToSet(to[p])]}
    BY <2>4 DEF Alike
  <2>6. /\ copies' \in [Procs -> 0..(MaxRetries + 1)] /\ copies'[p] = lost[p] + 1
        /\ \A q \in Procs : q # p => copies'[q] = copies[q]
    <3>1. copies' = [copies EXCEPT ![p] = copies[p] + 1]
      BY <1>23 DEF DotUnanswered, Accept
    <3>2. copies[p] + 1 \in 0..(MaxRetries + 1)
      BY <2>2
    <3> QED
      BY <2>2, <3>1, <3>2 DEF ValueTypes

  <2>7. /\ lost' \in [Procs -> 0..(MaxRetries + 1)] /\ lost'[p] = lost[p] + 1
        /\ \A q \in Procs : q # p => lost'[q] = lost[q]
    <3>1. lost' = [lost EXCEPT ![p] = lost[p] + 1]
      BY <1>23 DEF DotUnanswered
    <3>2. lost[p] + 1 \in 0..(MaxRetries + 1)
      BY <2>2
    <3> QED
      BY <3>1, <3>2 DEF ValueTypes
  <2>8. lost[p] + 1 <= n[p] + 1
    BY <2>2
  <2>9. Unanswered(p)
    BY <2>4, <2>5, <2>6, <2>7, <2>8 DEF Unanswered
  <2>10. faults' \in 0..MaxFaults
    BY <1>23 DEF DotUnanswered, Fault, ValueTypes
  <2> QED
    BY <1>23, <2>1, <2>9, <2>10, AbandonKeeps DEF DotUnanswered
<1>24. ASSUME NEW p \in Procs, NEW answer \in {"transient", "permanent", "lost"}, CommandFails(p, answer)
       PROVE  IInv'
  <2>1. HasClient(p) /\ pc[p] # "put"
    BY <1>24 DEF CommandFails, HasClient, Commands, Classified
  <2>2. /\ UNCHANGED <<leaseVars, config, mailVars, retryVars, rcpt, closed, serverVars>>
        /\ Abandon(p, Classify(pc[p], answer))
    BY <1>24 DEF CommandFails
  <2>3. faults' \in 0..MaxFaults
    BY <1>24 DEF CommandFails, Fault, ValueTypes
  <2>4. Classify(pc[p], answer) \in {"retryable", "final"}
    BY DEF Classify
  <2> QED
    BY <2>1, <2>2, <2>3, <2>4, AbandonKeeps, NothingTaken
<1>25. ASSUME NEW p \in Procs, PutError(p)
       PROVE  IInv'
  <2>1. ValueTypes'
    BY <1>25 DEF PutError, Goto, mailVars, retryVars, serverVars, leaseVars, Drop, ValueTypes,
          Locations, Commands, Classified
  <2>2. ConnsOwned'
    BY <1>25 DEF PutError, Goto, mailVars, retryVars, serverVars, leaseVars, Drop, ValueTypes,
          ConnsOwned, HasClient, Commands, Classified
  <2>3. ServerOK'
    BY <1>25 DEF PutError, Goto, mailVars, retryVars, serverVars, leaseVars, Drop, ServerOK,
          NoLeftovers, NoSession, Sessions, ConnsOwned, HasClient, Commands, Classified
  <2>4. Counted(p)'
    BY <1>25 DEF PutError, Goto, mailVars, retryVars, serverVars, leaseVars, Drop, ValueTypes,
          Counted, Delivered, Ended, Preparing, Commands, Classified
  <2>5. Addressed(p)'
    BY <1>25 DEF PutError, Goto, mailVars, retryVars, serverVars, leaseVars, Drop, ValueTypes,
          Addressed, Preparing, Commands, Classified, HasClient, Counted, NoSession, ConnsOwned
  <2>6. Alike(p)'
    BY <1>25 DEF PutError, Goto, mailVars, retryVars, serverVars, leaseVars, Drop, ValueTypes,
          Alike, Addressed, Locations
  <2>7. \A r \in Procs : r # p => Untouched(r)
    BY <1>25 DEF PutError, Goto, mailVars, retryVars, serverVars, leaseVars, Drop, ValueTypes,
          ConnsOwned, HasClient, Commands, Classified, Untouched
  <2> QED
    BY <2>1, <2>2, <2>3, <2>4, <2>5, <2>6, <2>7, StepOfOne
<1>26. ASSUME NEW p \in Procs, PutClose(p)
       PROVE  IInv'
  <2>1. ValueTypes'
    <3>1. Finish(p, "sent")
      BY <1>26 DEF PutClose
    <3>2. conn' \in [Procs -> Conns \cup {None}]
      BY <1>26 DEF PutClose, ValueTypes
    <3>3. lent' \subseteq Procs \X Conns /\ idle' \subseteq Conns
      BY <1>26 DEF PutClose, Drop, ValueTypes
    <3> QED
      BY <1>26, <3>1, <3>2, <3>3, FinishEffect DEF PutClose, ValueTypes, mailVars, serverVars
  <2>2. ConnsOwned'
    BY <1>26 DEF PutClose, Goto, mailVars, retryVars, serverVars, leaseVars, Drop, Finish,
          ValueTypes, ConnsOwned, HasClient, Commands, Classified
  <2>3. ServerOK'
    BY <1>26 DEF PutClose, Goto, mailVars, retryVars, serverVars, leaseVars, Drop, Finish,
          ServerOK, NoLeftovers, NoSession, Sessions, ConnsOwned, HasClient, Commands,
          Classified
  <2>4. Counted(p)'
    BY <1>26 DEF PutClose, Goto, mailVars, retryVars, serverVars, leaseVars, Drop, Finish,
          ValueTypes, Counted, Delivered, Ended, Preparing, Commands, Classified
  <2>5. Addressed(p)'
    BY <1>26 DEF PutClose, Goto, mailVars, retryVars, serverVars, leaseVars, Drop, Finish,
          ValueTypes, Addressed, Preparing, Commands, Classified, HasClient, Counted,
          NoSession, ConnsOwned
  <2>6. Alike(p)'
    BY <1>26 DEF PutClose, Goto, mailVars, retryVars, serverVars, leaseVars, Drop, Finish,
          ValueTypes, Alike, Addressed, Locations
  <2>7. \A r \in Procs : r # p => Untouched(r)
    BY <1>26 DEF PutClose, Goto, mailVars, retryVars, serverVars, leaseVars, Drop, Finish,
          ValueTypes, ConnsOwned, HasClient, Commands, Classified, Untouched
  <2> QED
    BY <2>1, <2>2, <2>3, <2>4, <2>5, <2>6, <2>7, StepOfOne
<1>27. ASSUME NEW p \in Procs, PutIdle(p)
       PROVE  IInv'
  <2>1. ValueTypes'
    <3>1. Finish(p, "sent")
      BY <1>27 DEF PutIdle
    <3>2. conn' \in [Procs -> Conns \cup {None}]
      BY <1>27 DEF PutIdle, ValueTypes
    <3>3. lent' \subseteq Procs \X Conns /\ idle' \subseteq Conns
      BY <1>27 DEF PutIdle, Return, ValueTypes
    <3> QED
      BY <1>27, <3>1, <3>2, <3>3, FinishEffect DEF PutIdle, ValueTypes, mailVars, serverVars
  <2>2. ConnsOwned'
    BY <1>27 DEF PutIdle, Goto, mailVars, retryVars, serverVars, leaseVars, Return, Finish,
          ValueTypes, ConnsOwned, HasClient, Commands, Classified
  <2>3. ServerOK'
    BY <1>27 DEF PutIdle, Goto, mailVars, retryVars, serverVars, leaseVars, Return, Finish,
          ServerOK, NoLeftovers, NoSession, Sessions, ConnsOwned, HasClient, Commands,
          Classified
  <2>4. Counted(p)'
    BY <1>27 DEF PutIdle, Goto, mailVars, retryVars, serverVars, leaseVars, Return, Finish,
          ValueTypes, Counted, Delivered, Ended, Preparing, Commands, Classified
  <2>5. Addressed(p)'
    BY <1>27 DEF PutIdle, Goto, mailVars, retryVars, serverVars, leaseVars, Return, Finish,
          ValueTypes, Addressed, Preparing, Commands, Classified, HasClient, Counted,
          NoSession, ConnsOwned
  <2>6. Alike(p)'
    BY <1>27 DEF PutIdle, Goto, mailVars, retryVars, serverVars, leaseVars, Return, Finish,
          ValueTypes, Alike, Addressed, Locations
  <2>7. \A r \in Procs : r # p => Untouched(r)
    BY <1>27 DEF PutIdle, Goto, mailVars, retryVars, serverVars, leaseVars, Return, Finish,
          ValueTypes, ConnsOwned, HasClient, Commands, Classified, Untouched
  <2> QED
    BY <2>1, <2>2, <2>3, <2>4, <2>5, <2>6, <2>7, StepOfOne
<1>28. ASSUME NEW p \in Procs, NEW q \in Procs, PutWaiter(p, q)
       PROVE  IInv'
  <2>1. /\ pc[p] = "put" /\ pc[q] = "get" /\ p # q /\ err[p] = "nil"
        /\ UNCHANGED <<config, mailVars, rcpt, err, closed, session, serverVars, faults, idle>>
    BY <1>28 DEF PutWaiter, Waiting, Pass
  <2>2. conn[p] \in Conns /\ conn[p] # None
    BY <2>1, NoneAssumption DEF ConnsOwned, HasClient, ValueTypes
  <2>3. /\ pc' \in [Procs -> Locations] /\ pc'[p] = "sent" /\ pc'[q] = "mail"
        /\ \A r \in Procs : r \notin {p, q} => pc'[r] = pc[r]
    BY <1>28, <2>1 DEF PutWaiter, ValueTypes, Locations, Commands, Classified
  <2>4. /\ conn' \in [Procs -> Conns \cup {None}] /\ conn'[p] = None /\ conn'[q] = conn[p]
        /\ \A r \in Procs : r \notin {p, q} => conn'[r] = conn[r]
    BY <1>28, <2>1, <2>2 DEF PutWaiter, ValueTypes
  <2>5. /\ n' \in [Procs -> 0..MaxRetries] /\ n'[p] = 0
        /\ \A r \in Procs : r # p => n'[r] = n[r]
    BY <1>28, LimitAssumption DEF PutWaiter, ValueTypes
  <2>6. lent' \subseteq Procs \X Conns /\ ctxDone' \subseteq Procs
    BY SMTT(30), <1>28, <2>2 DEF PutWaiter, Pass, ValueTypes
  <2>7. ValueTypes'
    BY <2>1, <2>3, <2>4, <2>5, <2>6 DEF ValueTypes, mailVars, serverVars
  <2>8. ConnsOwned'
    <3>1. ~HasClient(p)' /\ HasClient(q)'
      BY <2>3 DEF HasClient, Commands, Classified
    <3>2. \A r \in Procs : r \notin {p, q} => (HasClient(r)' <=> HasClient(r))
      BY <2>1, <2>3 DEF HasClient
    <3>3. \A r \in Procs : HasClient(r)' <=> conn'[r] # None
      BY <2>2, <2>4, <3>1, <3>2 DEF ConnsOwned
    <3>4. \A r \in Procs : r \notin {p, q} /\ conn[r] # None => conn[r] # conn[p]
      BY <2>2 DEF ConnsOwned
    <3>5. ASSUME NEW r \in Procs, NEW x \in Procs, r # x, conn'[r] # None
          PROVE  conn'[r] # conn'[x] /\ conn'[r] \notin idle'
      <4>1. CASE r = q
        BY <2>1, <2>2, <2>4, <3>4, <3>5, <4>1 DEF ConnsOwned
      <4>2. CASE r # q
        BY <2>1, <2>2, <2>4, <3>4, <3>5, <4>2 DEF ConnsOwned
      <4> QED
        BY <4>1, <4>2
    <3> QED
      BY <3>3, <3>5 DEF ConnsOwned
  <2>9. ServerOK'
    BY <2>1 DEF ServerOK, NoLeftovers
  <2>10. Counted(p)' /\ Addressed(p)' /\ Alike(p)'
    <3>1. lost[p] <= n[p] /\ n[p] <= MaxRetries /\ copies[p] = lost[p] + 1 /\ lost[p] \in Nat /\ n[p] \in Nat
      BY <2>1, Tally DEF Delivered, Ended
    <3>2. Counted(p)'
      BY <2>1, <2>3, <3>1, LimitAssumption DEF Counted, Delivered, Ended, Preparing, serverVars
    <3>3. Addressed(p)' /\ Alike(p)'
      BY <2>1, <2>3 DEF Addressed, Alike, Preparing, mailVars, serverVars
    <3> QED
      BY <3>2, <3>3
  <2>11. Counted(q)' /\ Addressed(q)' /\ Alike(q)'
    <3>1. Counted(q)'
      BY <2>1, <2>3, <2>5 DEF Counted, Delivered, Ended, Preparing, serverVars
    <3>2. Addressed(q)' /\ Alike(q)'
      BY <2>1, <2>3 DEF Addressed, Alike, Preparing, mailVars, serverVars
    <3> QED
      BY <3>1, <3>2
  <2>12. \A r \in Procs : r \notin {p, q} => Counted(r)' /\ Addressed(r)' /\ Alike(r)'
    <3>1. \A r \in Procs : r \notin {p, q} => Untouched(r)
      BY <2>1, <2>3, <2>4, <2>5 DEF Untouched, mailVars, serverVars
    <3> QED
      BY <3>1, UntouchedKept
  <2> QED
    BY <2>7, <2>8, <2>9, <2>10, <2>11, <2>12, Assemble
<1>29. CASE Close
  <2>1. ValueTypes'
    BY <1>29 DEF Close, ValueTypes, mailVars, retryVars, serverVars, leaseVars
  <2>2. ConnsOwned'
    <3>1. \A q \in Procs : HasClient(q)' <=> HasClient(q)
      BY <1>29 DEF Close, HasClient, mailVars
    <3> QED
      BY <1>29, <3>1, ConnsStay DEF Close, leaseVars
  <2>3. ServerOK'
    BY <1>29, NoSessionType DEF Close, ServerOK, NoLeftovers
  <2>4. \A q \in Procs : Untouched(q)
    BY <1>29 DEF Close, Untouched, ValueTypes, ServerOK, mailVars, retryVars, serverVars
  <2> QED
    BY <2>1, <2>2, <2>3, <2>4, UntouchedKept, Assemble
<1>30. ASSUME NEW c \in Conns, Hangup(c)
       PROVE  IInv'
  <2>1. ValueTypes'
    <3>1. faults' \in 0..MaxFaults
      BY <1>30 DEF Hangup, Fault, ValueTypes
    <3> QED
      BY <1>30, <3>1 DEF Hangup, ValueTypes, mailVars, retryVars, serverVars, leaseVars
  <2>2. ConnsOwned'
    <3>1. \A q \in Procs : HasClient(q)' <=> HasClient(q)
      BY <1>30 DEF Hangup, HasClient, mailVars
    <3> QED
      BY <1>30, <3>1, ConnsStay DEF Hangup, leaseVars
  <2>3. ServerOK'
    BY <1>30, NoSessionType DEF Hangup, ServerOK, NoLeftovers
  <2>4. \A q \in Procs : Untouched(q)
    BY <1>30 DEF Hangup, Untouched, ValueTypes, ServerOK, mailVars, retryVars, serverVars
  <2> QED
    BY <2>1, <2>2, <2>3, <2>4, UntouchedKept, Assemble
<1>31. CASE UNCHANGED vars
  <2>1. ValueTypes'
    BY <1>31 DEF vars, ValueTypes, mailVars, retryVars, serverVars, leaseVars
  <2>2. ConnsOwned'
    <3>1. \A q \in Procs : HasClient(q)' <=> HasClient(q)
      BY <1>31 DEF vars, HasClient, mailVars
    <3> QED
      BY <1>31, <3>1, ConnsStay DEF vars, leaseVars
  <2>3. ServerOK'
    BY <1>31, NoSessionType DEF vars, ServerOK, NoLeftovers
  <2>4. \A q \in Procs : Untouched(q)
    BY <1>31 DEF vars, Untouched, ValueTypes, ServerOK, mailVars, retryVars, serverVars
  <2> QED
    BY <2>1, <2>2, <2>3, <2>4, UntouchedKept, Assemble
<1> QED
  BY <1>1, <1>2, <1>3, <1>4, <1>5, <1>6, <1>7, <1>8, <1>9, <1>10, <1>11, <1>12, <1>13,
     <1>14, <1>15, <1>16, <1>17, <1>18, <1>19, <1>20, <1>21, <1>22, <1>23, <1>24, <1>25,
     <1>26, <1>27, <1>28, <1>29, <1>30, <1>31
     DEF Next, Step

LEMMA InitHolds == Init => IInv
<1> SUFFICES ASSUME Init PROVE IInv
  OBVIOUS
<1> USE DEF Init, LeaseInit
<1>1. TypeOK
  <2>1. NoSession \in Sessions
    BY NoSessionType
  <2>2. session \in [Conns -> Sessions]
    BY <2>1
  <2>3. \A p \in Procs : HasClient(p) <=> conn[p] # None
    BY DEF HasClient, Commands, Classified
  <2>4. ValueTypes
    <3>1. 0 \in 0..(MaxRetries + 1) /\ 0 \in 0..MaxRetries /\ 0 \in 0..MaxFaults /\ 0 \in Nat
      BY LimitAssumption
    <3>2. /\ lent \subseteq Procs \X Conns /\ idle \subseteq Conns /\ config \in Configs
          /\ pc \in [Procs -> Locations] /\ to \in [Procs -> Lists \cup {<<>>}]
          /\ conn \in [Procs -> Conns \cup {None}] /\ err \in [Procs -> {"nil", "retryable", "final"}]
          /\ ctxDone \subseteq Procs /\ closed \in BOOLEAN /\ inbox \in [Procs -> SUBSET Copy]
      BY DEF Locations
    <3>3. /\ message \in [Procs -> 0..(MaxRetries + 1)] /\ rcpt \in [Procs -> Nat]
          /\ n \in [Procs -> 0..MaxRetries] /\ faults \in 0..MaxFaults
          /\ copies \in [Procs -> 0..(MaxRetries + 1)] /\ lost \in [Procs -> 0..(MaxRetries + 1)]
      BY <3>1
    <3> QED
      BY <3>2, <3>3 DEF ValueTypes
  <2> QED
    BY <2>2, <2>3, <2>4, TypeParts, NoSessionType DEF ConnsOwned, ServerOK, NoLeftovers
<1>2. NoLeftovers
  BY NoSessionType DEF NoLeftovers
<1>3. ASSUME NEW p \in Procs PROVE Counted(p) /\ Addressed(p) /\ Alike(p)
  BY LimitAssumption DEF Counted, Delivered, Ended, Preparing, Addressed, Alike
<1> QED
  BY <1>1, <1>2, <1>3 DEF IInv

\* The inductive invariant holds in every reachable state.
THEOREM InductiveInvariant == Spec => []IInv
<1>1. Init => IInv
  BY InitHolds
<1>2. IInv /\ [Next]_vars => IInv'
  BY StepPreserves
<1> QED
  BY <1>1, <1>2, PTL DEF Spec

-----------------------------------------------------------------------------
(* What follows from it *)

\* Every variable keeps its type, a caller has a connection exactly where the code
\* has a client, and no two callers have the same one.
THEOREM TypeCorrect == Spec => []TypeOK
<1>1. IInv => TypeOK
  BY DEF IInv
<1> QED
  BY <1>1, InductiveInvariant, PTL

\* A Send that returns nil has delivered its message once more than answers to it
\* were lost, one that fails only as often as answers were lost.
THEOREM CopiesAreCounted == Spec => []CopiesCounted
<1>1. IInv => CopiesCounted
  <2> SUFFICES ASSUME IInv, NEW p \in Procs
               PROVE  /\ copies[p] <= lost[p] + 1
                      /\ pc[p] = "sent" => copies[p] = lost[p] + 1
                      /\ pc[p] = "failed" => copies[p] = lost[p]
    BY DEF CopiesCounted
  <2>1. ValueTypes /\ Counted(p)
    BY TypeParts DEF IInv
  <2>2. /\ copies[p] \in Nat /\ lost[p] \in Nat
        /\ Delivered(p) => copies[p] = lost[p] + 1
        /\ ~Delivered(p) => copies[p] = lost[p]
    BY <2>1, Tally
  <2>3. pc[p] = "sent" => Delivered(p)
    BY DEF Delivered
  <2>4. pc[p] = "failed" => ~Delivered(p)
    BY DEF Delivered
  <2> QED
    BY <2>2, <2>3, <2>4
<1> QED
  BY <1>1, InductiveInvariant, PTL

\* All copies of a message that the server holds are the same rendering, for exactly
\* the recipients of the message.
THEOREM CopiesAreIdentical == Spec => []CopiesIdentical
<1>1. IInv => CopiesIdentical
  <2> SUFFICES ASSUME IInv, NEW p \in Procs
               PROVE  \E id \in 0..(MaxRetries + 1) : inbox[p] \subseteq {[id |-> id, rcpts |-> ToSet(to[p])]}
    BY DEF CopiesIdentical
  <2>1. message[p] \in 0..(MaxRetries + 1)
    BY DEF IInv, TypeOK
  <2>2. inbox[p] \subseteq {[id |-> message[p], rcpts |-> ToSet(to[p])]}
    BY DEF IInv, Alike
  <2> QED
    BY <2>1, <2>2
<1> QED
  BY <1>1, InductiveInvariant, PTL
=============================================================================
