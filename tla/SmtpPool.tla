------------------------------ MODULE SmtpPool ------------------------------
(***************************************************************************)
(* The SMTP connection pool of smtp/pool.go.                               *)
(*                                                                         *)
(* Goroutines (Procs) borrow connections with Get and give them back with  *)
(* Put while another goroutine may Close the pool.  Every critical section *)
(* under p.mu is one action, and so is every channel operation made        *)
(* outside the lock.  Network calls (NOOP, RSET, QUIT, the dialer) are     *)
(* made on a connection that only one goroutine can reach, so a call and   *)
(* the critical section that follows it are one action, with the outcome   *)
(* of the call chosen by the environment.                                  *)
(*                                                                         *)
(* Abstracted: a connection's age.  IdleTimeout and MaxLifetime only       *)
(* decide whether a connection is discarded where a failed NOOP or RSET    *)
(* would discard it as well, so an expired connection is one whose check   *)
(* fails.  The Stats counters waitCount and waitDuration are left out.     *)
(***************************************************************************)
EXTENDS Naturals, FiniteSets, SequencesExt

CONSTANTS
    Procs,        \* goroutines that call Get and Put
    CancelModes,  \* the sets of goroutines whose contexts may be cancelled while they wait
    Conns,        \* identities of connections
    MaxIdle,      \* PoolConfig.MaxIdle, as given by the caller
    MaxOpen,      \* PoolConfig.MaxOpen, 0 for no limit
    WaitModes,    \* the values PoolConfig.Wait may have been given
    Faults,       \* may a NOOP, RSET, send or dial fail, may a connection expire?
    None,         \* no connection, no process, an empty channel
    Wake          \* the nil client that decOpenLocked and Close send to a waiter

ASSUME ProcsAssumption == IsFiniteSet(Procs) /\ CancelModes \subseteq SUBSET Procs
ASSUME LimitAssumption == MaxIdle \in Nat /\ MaxOpen \in Nat
ASSUME FlagAssumption  == WaitModes \subseteq BOOLEAN /\ Faults \in BOOLEAN
ASSUME TokenAssumption == /\ None \notin Conns \cup Procs
                          /\ Wake \notin Conns
                          /\ None # Wake

VARIABLES
    open,     \* p.open
    idle,     \* the connections of p.idle, a stack whose top is its last element
    closed,   \* p.closed
    waiters,  \* p.waiters: a queue of waitChans, each named by its only receiver
    active,   \* the keys of p.active
    pc,       \* where a goroutine is in Get or Put
    held,     \* the connection a goroutine has in a local variable
    chan,     \* the content of a goroutine's waitChan (capacity 1)
    to,       \* in Put, the waiter dequeued and not yet sent to
    closing,  \* the connections Close has taken out of p.idle and not yet QUIT
    mayWait,  \* p.config.Wait, which never changes
    cancellable \* goroutines whose context may be cancelled; it never changes either

vars == <<open, idle, closed, waiters, active, pc, held, chan, to, closing,
          mayWait, cancellable>>

(***************************************************************************)
(* out        not in the pool, holding nothing                             *)
(* get        in Get, about to lock (line 74)                              *)
(* check      popped an idle connection, about to NOOP it (87-97)          *)
(* dial       has taken a slot, in the dialer (171)                        *)
(* wait       in the select (124)                                          *)
(* cancelled  chose ctx.Done, about to lock (126)                          *)
(* drain      was dequeued before it could leave: in <-waitChan (151)      *)
(* using      Get has returned a connection, Put not yet called            *)
(* reset      in Put, the connection is out of p.active (196)              *)
(* drop       in Put after a cancelled Get, err # nil (199)                *)
(* handoff    in Put, has dequeued a waiter, about to send to it (230)     *)
(* quit       in Put, the slot is released, QUIT still running (220, 238)  *)
(***************************************************************************)
Locations == {"out", "get", "check", "dial", "wait", "cancelled", "drain",
              "using", "reset", "drop", "handoff", "quit"}

\* Locations at which the goroutine's own connection, or its dial, is counted in p.open.
SlotLocations == {"check", "dial", "using", "reset", "drop", "handoff"}

\* Locations at which the goroutine has a connection in a local variable.
HoldLocations == {"check", "using", "reset", "drop", "handoff", "quit"}

-----------------------------------------------------------------------------
(* Helpers *)

\* NewPool replaces a MaxIdle that is not positive by 2.
IdleLimit == IF MaxIdle = 0 THEN 2 ELSE MaxIdle

\* Connections some goroutine, the pool or a channel can still reach.
Live == {held[p] : p \in Procs} \cup {chan[p] : p \in Procs}
            \cup ToSet(idle) \cup closing

\* A connection no one knows yet, as the dialer returns it.
Fresh == Conns \ Live

\* Goroutines whose connection, or dial, or undelivered connection is counted in p.open.
Busy == {p \in Procs : pc[p] \in SlotLocations \/ chan[p] \in Conns}

\* Goroutines that will look at p.open again: a getter about to lock, or a
\* waiter in its select with a wake-up in its channel.
Retrying == {p \in Procs : pc[p] = "get" \/ (pc[p] = "wait" /\ chan[p] = Wake)}

\* The values the fields of Pool and the locals of Get and Put hold.
TypeOK ==
    /\ open \in Nat
    /\ idle \in Seq(Conns)
    /\ closed \in BOOLEAN
    /\ waiters \in Seq(Procs)
    /\ active \subseteq Conns
    /\ pc \in [Procs -> Locations]
    /\ held \in [Procs -> Conns \cup {None}]
    /\ chan \in [Procs -> Conns \cup {None, Wake}]
    /\ to \in [Procs -> Procs \cup {None}]
    /\ closing \subseteq Conns
    /\ mayWait \in BOOLEAN
    /\ cancellable \subseteq Procs

Init ==
    /\ open = 0
    /\ idle = <<>>
    /\ closed = FALSE
    /\ waiters = <<>>
    /\ active = {}
    /\ pc = [p \in Procs |-> "out"]
    /\ held = [p \in Procs |-> None]
    /\ chan = [p \in Procs |-> None]
    /\ to = [p \in Procs |-> None]
    /\ closing = {}
    /\ mayWait \in WaitModes
    /\ cancellable \in CancelModes

\* Mutant of decOpenLocked: the woken waiter stays in the queue.
decOpenLockedKeepsHead ==
    /\ open' = IF open > 0 THEN open - 1 ELSE 0
    /\ UNCHANGED waiters
    /\ IF waiters = <<>>
       THEN UNCHANGED chan
       ELSE chan' = [chan EXCEPT ![Head(waiters)] = Wake]

\* Mutant of decOpenLocked: nobody is woken.
decOpenLockedSilent ==
    /\ open' = IF open > 0 THEN open - 1 ELSE 0
    /\ UNCHANGED <<waiters, chan>>

\* Release a slot, with its floor at zero, and send nil to the longest waiter.
decOpenLocked ==
    /\ open' = IF open > 0 THEN open - 1 ELSE 0
    /\ IF waiters = <<>>
       THEN UNCHANGED <<waiters, chan>>
       ELSE /\ waiters' = Tail(waiters)
            /\ chan' = [chan EXCEPT ![Head(waiters)] = Wake]

-----------------------------------------------------------------------------
(* Get *)

\* A goroutine enters Get.
Call(p) ==
    /\ pc[p] = "out"
    /\ pc' = [pc EXCEPT ![p] = "get"]
    /\ UNCHANGED <<open, idle, closed, waiters, active, held, chan, to, closing, mayWait, cancellable>>

\* The first check under the lock: ErrPoolClosed.
GetClosed(p) ==
    /\ pc[p] = "get"
    /\ closed
    /\ pc' = [pc EXCEPT ![p] = "out"]
    /\ UNCHANGED <<open, idle, closed, waiters, active, held, chan, to, closing, mayWait, cancellable>>

\* Mutant of PopIdle: the stack keeps the connection.
PopIdlePeek(p) ==
    /\ pc[p] = "get"
    /\ ~closed
    /\ idle # <<>>
    /\ held' = [held EXCEPT ![p] = Last(idle)]
    /\ pc' = [pc EXCEPT ![p] = "check"]
    /\ UNCHANGED <<open, idle, closed, waiters, active, chan, to, closing, mayWait, cancellable>>

\* The top of the stack leaves it, to be checked outside the lock.
PopIdle(p) ==
    /\ pc[p] = "get"
    /\ ~closed
    /\ idle # <<>>
    /\ held' = [held EXCEPT ![p] = Last(idle)]
    /\ idle' = Front(idle)
    /\ pc' = [pc EXCEPT ![p] = "check"]
    /\ UNCHANGED <<open, closed, waiters, active, chan, to, closing, mayWait, cancellable>>

\* The connection has expired or does not answer NOOP: close it and start over.
CheckFails(p) ==
    /\ Faults
    /\ pc[p] = "check"
    /\ decOpenLocked
    /\ held' = [held EXCEPT ![p] = None]
    /\ pc' = [pc EXCEPT ![p] = "get"]
    /\ UNCHANGED <<idle, closed, active, to, closing, mayWait, cancellable>>

\* NOOP is answered: the connection is lent.
CheckPasses(p) ==
    /\ pc[p] = "check"
    /\ active' = active \cup {held[p]}
    /\ pc' = [pc EXCEPT ![p] = "using"]
    /\ UNCHANGED <<open, idle, closed, waiters, held, chan, to, closing, mayWait, cancellable>>

\* Does MaxOpen forbid another connection?
AtLimit == MaxOpen > 0 /\ open >= MaxOpen

\* ErrMaxConnsReached, when the caller does not want to wait.
GetFull(p) ==
    /\ pc[p] = "get"
    /\ ~closed
    /\ idle = <<>>
    /\ AtLimit
    /\ ~mayWait
    /\ pc' = [pc EXCEPT ![p] = "out"]
    /\ UNCHANGED <<open, idle, closed, waiters, active, held, chan, to, closing, mayWait, cancellable>>

\* A new waitChan goes to the end of the queue.
Enqueue(p) ==
    /\ pc[p] = "get"
    /\ ~closed
    /\ idle = <<>>
    /\ AtLimit
    /\ mayWait
    /\ waiters' = Append(waiters, p)
    /\ pc' = [pc EXCEPT ![p] = "wait"]
    /\ UNCHANGED <<open, idle, closed, active, held, chan, to, closing, mayWait, cancellable>>

\* p.open counts the connection before it is dialled.
TakeSlot(p) ==
    /\ pc[p] = "get"
    /\ ~closed
    /\ idle = <<>>
    /\ ~AtLimit
    /\ open' = open + 1
    /\ pc' = [pc EXCEPT ![p] = "dial"]
    /\ UNCHANGED <<idle, closed, waiters, active, held, chan, to, closing, mayWait, cancellable>>

\* The slot is given back, and with it the chance of a waiter.
DialFails(p) ==
    /\ Faults
    /\ pc[p] = "dial"
    /\ decOpenLocked
    /\ pc' = [pc EXCEPT ![p] = "out"]
    /\ UNCHANGED <<idle, closed, active, held, to, closing, mayWait, cancellable>>

\* The new connection is lent, whether the pool was closed meanwhile or not.
DialSucceeds(p) ==
    /\ pc[p] = "dial"
    /\ \E c \in Fresh :
        /\ held' = [held EXCEPT ![p] = c]
        /\ active' = active \cup {c}
    /\ pc' = [pc EXCEPT ![p] = "using"]
    /\ UNCHANGED <<open, idle, closed, waiters, chan, to, closing, mayWait, cancellable>>

\* A nil client means "try again", any other is returned to the caller.
Receive(p) ==
    /\ pc[p] = "wait"
    /\ chan[p] # None
    /\ chan' = [chan EXCEPT ![p] = None]
    /\ IF chan[p] = Wake
       THEN /\ pc' = [pc EXCEPT ![p] = "get"]
            /\ UNCHANGED held
       ELSE /\ pc' = [pc EXCEPT ![p] = "using"]
            /\ held' = [held EXCEPT ![p] = chan[p]]
    /\ UNCHANGED <<open, idle, closed, waiters, active, to, closing, mayWait, cancellable>>

\* The select may choose ctx.Done even when the channel is ready too.
Cancel(p) ==
    /\ p \in cancellable
    /\ pc[p] = "wait"
    /\ pc' = [pc EXCEPT ![p] = "cancelled"]
    /\ UNCHANGED <<open, idle, closed, waiters, active, held, chan, to, closing, mayWait, cancellable>>

\* The cancelled waiter is still queued: it takes itself out.
LeaveQueue(p) ==
    /\ pc[p] = "cancelled"
    /\ \E i \in 1..Len(waiters) :
        /\ waiters[i] = p
        /\ waiters' = RemoveAt(waiters, i)
    /\ pc' = [pc EXCEPT ![p] = "out"]
    /\ UNCHANGED <<open, idle, closed, active, held, chan, to, closing, mayWait, cancellable>>

\* Somebody has dequeued it: it must take what is being sent.
AlreadyDequeued(p) ==
    /\ pc[p] = "cancelled"
    /\ \A i \in 1..Len(waiters) : waiters[i] # p
    /\ pc' = [pc EXCEPT ![p] = "drain"]
    /\ UNCHANGED <<open, idle, closed, waiters, active, held, chan, to, closing, mayWait, cancellable>>

\* Mutant of Drain: a connection delivered to a cancelled waiter is ignored.
DrainLeak(p) ==
    /\ pc[p] = "drain"
    /\ chan[p] # None
    /\ chan' = [chan EXCEPT ![p] = None]
    /\ pc' = [pc EXCEPT ![p] = "out"]
    /\ UNCHANGED <<open, idle, closed, waiters, active, held, to, closing, mayWait, cancellable>>

\* client := <-waitChan after cancellation; a client goes to Put with an error.
Drain(p) ==
    /\ pc[p] = "drain"
    /\ chan[p] # None
    /\ chan' = [chan EXCEPT ![p] = None]
    /\ IF chan[p] = Wake
       THEN /\ pc' = [pc EXCEPT ![p] = "out"]
            /\ UNCHANGED <<held, active>>
       ELSE /\ pc' = [pc EXCEPT ![p] = "drop"]
            /\ held' = [held EXCEPT ![p] = chan[p]]
            /\ active' = active \ {chan[p]}
    /\ UNCHANGED <<open, idle, closed, waiters, to, closing, mayWait, cancellable>>

-----------------------------------------------------------------------------
(* Put *)

\* Put takes the connection out of p.active, then resets it outside the lock.
PutTake(p) ==
    /\ pc[p] = "using"
    /\ active' = active \ {held[p]}
    /\ pc' = [pc EXCEPT ![p] = "reset"]
    /\ UNCHANGED <<open, idle, closed, waiters, held, chan, to, closing, mayWait, cancellable>>

\* The borrow failed, the connection is too old, or RSET fails: close it.
PutDiscard(p) ==
    /\ pc[p] = "drop" \/ (pc[p] = "reset" /\ Faults)
    /\ decOpenLocked
    /\ held' = [held EXCEPT ![p] = None]
    /\ pc' = [pc EXCEPT ![p] = "out"]
    /\ UNCHANGED <<idle, closed, active, to, closing, mayWait, cancellable>>

\* Mutant of PutClosed: the slot is not released.
PutClosedLeak(p) ==
    /\ pc[p] = "reset"
    /\ closed
    /\ pc' = [pc EXCEPT ![p] = "quit"]
    /\ UNCHANGED <<open, idle, closed, waiters, active, held, chan, to, closing, mayWait, cancellable>>

\* The pool was closed: release the slot first, QUIT after the unlock.
PutClosed(p) ==
    /\ pc[p] = "reset"
    /\ closed
    /\ decOpenLocked
    /\ pc' = [pc EXCEPT ![p] = "quit"]
    /\ UNCHANGED <<idle, closed, active, held, to, closing, mayWait, cancellable>>

\* Somebody waits: the connection goes to the head of the queue.
PutWaiter(p) ==
    /\ pc[p] = "reset"
    /\ ~closed
    /\ waiters # <<>>
    /\ to' = [to EXCEPT ![p] = Head(waiters)]
    /\ waiters' = Tail(waiters)
    /\ active' = active \cup {held[p]}
    /\ pc' = [pc EXCEPT ![p] = "handoff"]
    /\ UNCHANGED <<open, idle, closed, held, chan, closing, mayWait, cancellable>>

\* w <- client, outside the lock.
Handoff(p) ==
    /\ pc[p] = "handoff"
    /\ chan' = [chan EXCEPT ![to[p]] = held[p]]
    /\ to' = [to EXCEPT ![p] = None]
    /\ held' = [held EXCEPT ![p] = None]
    /\ pc' = [pc EXCEPT ![p] = "out"]
    /\ UNCHANGED <<open, idle, closed, waiters, active, closing, mayWait, cancellable>>

\* Exceeding MaxIdle: release the slot first, QUIT after the unlock.
PutExcess(p) ==
    /\ pc[p] = "reset"
    /\ ~closed
    /\ waiters = <<>>
    /\ Len(idle) >= IdleLimit
    /\ decOpenLocked
    /\ pc' = [pc EXCEPT ![p] = "quit"]
    /\ UNCHANGED <<idle, closed, active, held, to, closing, mayWait, cancellable>>

\* Mutant of PutIdle: the stack is filled although somebody waits.
PutIdleFirst(p) ==
    /\ pc[p] = "reset"
    /\ ~closed
    /\ Len(idle) < IdleLimit
    /\ idle' = Append(idle, held[p])
    /\ held' = [held EXCEPT ![p] = None]
    /\ pc' = [pc EXCEPT ![p] = "out"]
    /\ UNCHANGED <<open, closed, waiters, active, chan, to, closing, mayWait, cancellable>>

\* Nobody waits and there is room: push the connection.
PutIdle(p) ==
    /\ pc[p] = "reset"
    /\ ~closed
    /\ waiters = <<>>
    /\ Len(idle) < IdleLimit
    /\ idle' = Append(idle, held[p])
    /\ held' = [held EXCEPT ![p] = None]
    /\ pc' = [pc EXCEPT ![p] = "out"]
    /\ UNCHANGED <<open, closed, waiters, active, chan, to, closing, mayWait, cancellable>>

\* QUIT has returned.
PutQuit(p) ==
    /\ pc[p] = "quit"
    /\ held' = [held EXCEPT ![p] = None]
    /\ pc' = [pc EXCEPT ![p] = "out"]
    /\ UNCHANGED <<open, idle, closed, waiters, active, chan, to, closing, mayWait, cancellable>>

-----------------------------------------------------------------------------
(* Close *)

\* Mutant of Close: the queue is dropped and its waiters are not woken.
CloseSilent ==
    /\ ~closed
    /\ closed' = TRUE
    /\ idle' = <<>>
    /\ closing' = ToSet(idle)
    /\ open' = IF open >= Len(idle) THEN open - Len(idle) ELSE 0
    /\ waiters' = <<>>
    /\ UNCHANGED <<active, pc, held, chan, to, mayWait, cancellable>>

\* One critical section; a second Close returns without doing anything.
Close ==
    /\ ~closed
    /\ closed' = TRUE
    /\ idle' = <<>>
    /\ closing' = ToSet(idle)
    /\ open' = IF open >= Len(idle) THEN open - Len(idle) ELSE 0
    /\ chan' = [p \in Procs |-> IF \E i \in 1..Len(waiters) : waiters[i] = p
                                THEN Wake ELSE chan[p]]
    /\ waiters' = <<>>
    /\ UNCHANGED <<active, pc, held, to, mayWait, cancellable>>

\* QUIT of one connection that Close has found idle.
CloseQuit(c) ==
    /\ c \in closing
    /\ closing' = closing \ {c}
    /\ UNCHANGED <<open, idle, closed, waiters, active, pc, held, chan, to, mayWait, cancellable>>

-----------------------------------------------------------------------------

\* The steps a goroutine takes on its own once it is in Get, or has borrowed
\* a connection: smtp.Sender.Send calls Put after every successful Get.
Progress(p) ==
    \/ GetClosed(p) \/ PopIdle(p) \/ CheckFails(p) \/ CheckPasses(p)
    \/ GetFull(p) \/ Enqueue(p) \/ TakeSlot(p) \/ DialFails(p) \/ DialSucceeds(p)
    \/ Receive(p) \/ LeaveQueue(p) \/ AlreadyDequeued(p) \/ Drain(p)
    \/ PutTake(p) \/ PutDiscard(p) \/ PutClosed(p) \/ PutWaiter(p) \/ Handoff(p)
    \/ PutExcess(p) \/ PutIdle(p) \/ PutQuit(p)

Next ==
    \/ \E p \in Procs : Call(p) \/ Cancel(p) \/ Progress(p)
    \/ Close
    \/ \E c \in Conns : CloseQuit(c)

Spec == Init /\ [][Next]_vars

\* Goroutines that are scheduled, network calls that return.  Nobody is
\* obliged to call Get, to cancel a context or to close the pool.
FairSpec == Spec /\ \A p \in Procs : WF_vars(Progress(p))

-----------------------------------------------------------------------------
(* Properties *)

\* pool.go counts a connection in p.open from the moment a slot is taken until
\* it is closed, wherever it travels: in p.idle, checked out, being checked,
\* reset, dialled or handed over.  So no path leaks a slot or releases one
\* twice, and the floors in decOpenLocked and Close are never needed.
Accounting == open = Len(idle) + Cardinality(Busy)

\* PoolConfig.MaxOpen bounds p.open (idle + active) at all times.
OpenBounded == MaxOpen > 0 => open <= MaxOpen

\* SmtpPool implements ConnectionLease: a connection is lent while a goroutine
\* has it in hand or in its channel, and idle while it is on the stack or being
\* checked; one that is about to be closed is gone.
Lent == {<<p, held[p]>> : p \in {q \in Procs : pc[q] \in {"using", "reset", "drop", "handoff"}}}
            \cup {<<p, chan[p]>> : p \in {q \in Procs : chan[q] \in Conns}}
Kept == ToSet(idle) \cup {held[p] : p \in {q \in Procs : pc[q] = "check"}}
Lease == INSTANCE ConnectionLease WITH lent <- Lent, idle <- Kept

\* "Get retrieves a connection from the pool or creates a new one", "Put returns
\* a connection": no connection is ever lent to two goroutines, or lent and idle,
\* and a borrower gets an idle one, a new one within MaxOpen, or one handed to it.
\* Two borrowers on one SMTP connection would mix their transactions.
ImplementsLease == Lease!LeaseSpec

\* A waitChan has capacity 1 and decOpenLocked and Close send to it while they
\* hold p.mu: were it ever full, the send would block and wedge the pool.  A
\* queued waiter is queued once, its channel is empty, and nobody else has
\* dequeued it; a dequeued one is sent to by one goroutine only.
SendNeverBlocks ==
    /\ \A i \in 1..Len(waiters) :
        /\ chan[waiters[i]] = None
        /\ \A j \in 1..Len(waiters) : i # j => waiters[i] # waiters[j]
        /\ \A q \in Procs : to[q] # waiters[i]
    /\ \A q \in Procs : to[q] # None =>
        /\ chan[to[q]] = None
        /\ \A r \in Procs : q # r => to[q] # to[r]

\* A getter queues only when nothing is idle, and Put serves the queue before
\* the stack: nobody waits while a connection lies idle.
NoIdleWhileWaiting == waiters # <<>> => idle = <<>> /\ ~closed

\* A waiter that was dequeued has something to receive: a goroutine in its
\* select or in <-waitChan is queued, or its channel is full, or another
\* goroutine is about to send to it.  Otherwise it would block for ever.
NobodyForgotten ==
    \A p \in Procs : pc[p] \in {"wait", "cancelled", "drain"} =>
        \/ \E i \in 1..Len(waiters) : waiters[i] = p
        \/ chan[p] # None
        \/ \E q \in Procs : to[q] = p

\* PoolConfig.Wait, "Get will block until a connection is available": while
\* someone is queued, every free slot has a goroutine on its way to take it.
NoLostWakeup == waiters # <<>> => open + Cardinality(Retrying) >= MaxOpen

\* What is left of it: the only way to lose a wake-up is that its receiver is
\* cancelled.  A pool whose callers are not keeps every free slot announced.
WakeupKept == cancellable = {} => NoLostWakeup

\* The inductive invariant the proofs use, in parts.

\* A goroutine has a connection in its hand, or a waiter to send to, at
\* exactly the locations that say so.
HandShape ==
    \A p \in Procs : /\ held[p] # None <=> pc[p] \in HoldLocations
                     /\ to[p] # None <=> pc[p] = "handoff"

\* Locations at which a goroutine has a waitChan.
WaitLocations == {"wait", "cancelled", "drain"}

\* Only goroutines that are in Get's select, or have just left it for
\* ctx.Done, are queued, sent to, or have something in their channel; one that
\* found itself dequeued (drain) is not queued any more.
WaitShape ==
    /\ \A i \in 1..Len(waiters) : pc[waiters[i]] \in {"wait", "cancelled"}
    /\ \A p \in Procs : /\ to[p] # None => pc[to[p]] \in WaitLocations
                        /\ chan[p] # None => pc[p] \in WaitLocations

\* Types, and everything that the bound on p.open rests on.
IInv == TypeOK /\ HandShape /\ WaitShape /\ SendNeverBlocks /\ Accounting

\* Once closed, the pool gives back every connection it ever opened.
DrainsAfterClose == closed ~> [](open = 0 /\ active = {})

\* A connection or a dial fails.
Disturbed ==
    \E p \in Procs : CheckFails(p) \/ DialFails(p) \/ (PutDiscard(p) /\ pc[p] = "reset")

\* If no context is ever cancelled and connections stop failing, every Get gets
\* an answer, a connection or an error of the pool, although a woken waiter may
\* lose its slot to a newcomer and has to queue again.
GetReturns ==
    cancellable = {} /\ <>[][~Disturbed]_vars
        => \A p \in Procs : pc[p] = "get" ~> pc[p] \in {"using", "out"}
=============================================================================
