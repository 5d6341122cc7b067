-------------------------- MODULE BackgroundSender --------------------------
(***************************************************************************)
(* The asynchronous sender of worker.go: a bounded queue, a pool of        *)
(* workers, and two ways to stop it.                                       *)
(*                                                                         *)
(* Producers call TrySend, Stoppers call Stop or StopNow, a reader drains  *)
(* Errors().  A channel operation, the body of a critical section and each *)
(* blocking point of Stop is one action.  TrySend is two: it takes the     *)
(* read lock and looks at stopped, then does the non-blocking send with    *)
(* the lock still held.  Sender.Send is the environment: it may succeed,   *)
(* fail, or hang until its context is cancelled.  A Send that starts with  *)
(* a cancelled context fails, as gsmail.Retry does.  Each email is         *)
(* submitted until it is accepted once.                                    *)
(***************************************************************************)
EXTENDS Naturals, FiniteSets, SequencesExt

CONSTANTS
    Producers,   \* goroutines that call TrySend
    Workers,     \* goroutines launched by Start
    Graceful,    \* goroutines that call Stop
    Abrupt,      \* goroutines that call StopNow
    Emails,
    BufferSizes, \* the buffer sizes NewBackgroundSender may be given
    StartFirst,  \* does the caller call Start before anything else?
    None

ASSUME BufferAssumption == BufferSizes \subseteq Nat
ASSUME FlagAssumption   == StartFirst \in BOOLEAN
ASSUME NoneAssumption   == None \notin Emails

Stoppers == Graceful \cup Abrupt

VARIABLES
    capacity,   \* of queue and of errChan; it never changes
    queue,      \* the buffered emails
    qclosed,    \* has the queue been closed?
    errs,       \* number of errors buffered in errChan
    eclosed,    \* has errChan been closed?
    stopped,    \* s.stopped
    cancelled,  \* is s.ctx cancelled?
    once,       \* s.stopOnce: "new", "running" or "done"
    mode,       \* what runs, or ran, inside stopOnce
    ppc, pmail, \* producers: "idle", or "locked" with the email being sent
    wpc, wmail, \* workers: see WorkerLocations
    spc,        \* stoppers: see StopperLocations
    accepted,   \* emails TrySend returned nil for
    sent,       \* emails Sender.Send returned nil for
    failed,     \* emails Sender.Send returned an error for
    panicked    \* did some goroutine send on, or close, a closed channel?

vars == <<capacity, queue, qclosed, errs, eclosed, stopped, cancelled, once, mode, ppc,
          pmail, wpc, wmail, spc, accepted, sent, failed, panicked>>

chans     == <<capacity, queue, qclosed, errs, eclosed>>
flags     == <<stopped, cancelled, once, mode>>
producers == <<ppc, pmail>>
workers   == <<wpc, wmail>>
ghosts    == <<accepted, sent, failed>>

\* off: not launched; recv: in range queue; sending: in Sender.Send; refused: in
\* a Sender.Send that began with a cancelled context; hung: in a Sender.Send that
\* will not return before the context is cancelled; done: after wg.Done.
WorkerLocations == {"off", "recv", "sending", "refused", "hung", "done"}

\* out: not called yet; once: blocked in stopOnce.Do behind another caller;
\* mark, locking, cancel, wait: inside it, about to call mu.Lock, waiting for the
\* write lock, about to cancel, in wg.Wait.
StopperLocations == {"out", "once", "mark", "locking", "cancel", "wait", "returned"}

\* The emails workers hold.
InFlight == {wmail[w] : w \in Workers} \ {None}

Launched == \E w \in Workers : wpc[w] # "off"

\* The values the channels, flags and goroutines take; the buffers keep their capacity.
TypeOK ==
    /\ capacity \in BufferSizes
    /\ queue \in Seq(Emails) /\ Len(queue) <= capacity
    /\ errs \in 0..capacity
    /\ qclosed \in BOOLEAN /\ eclosed \in BOOLEAN
    /\ stopped \in BOOLEAN /\ cancelled \in BOOLEAN
    /\ once \in {"new", "running", "done"}
    /\ mode \in {"none", "Stop", "StopNow"}
    /\ ppc \in [Producers -> {"idle", "locked"}]
    /\ pmail \in [Producers -> Emails \cup {None}]
    /\ wpc \in [Workers -> WorkerLocations]
    /\ wmail \in [Workers -> Emails \cup {None}]
    /\ spc \in [Stoppers -> StopperLocations]
    /\ accepted \subseteq Emails /\ sent \subseteq Emails /\ failed \subseteq Emails
    /\ panicked \in BOOLEAN

\* NewBackgroundSender
Init ==
    /\ capacity \in BufferSizes
    /\ queue = <<>> /\ qclosed = FALSE
    /\ errs = 0 /\ eclosed = FALSE
    /\ stopped = FALSE /\ cancelled = FALSE
    /\ once = "new" /\ mode = "none"
    /\ ppc = [p \in Producers |-> "idle"]
    /\ pmail = [p \in Producers |-> None]
    /\ wpc = [w \in Workers |-> "off"]
    /\ wmail = [w \in Workers |-> None]
    /\ spc = [s \in Stoppers |-> "out"]
    /\ accepted = {} /\ sent = {} /\ failed = {}
    /\ panicked = FALSE

-----------------------------------------------------------------------------

\* Every worker is launched, once.
Start ==
    /\ ~Launched
    /\ wpc' = [w \in Workers |-> "recv"]
    /\ UNCHANGED <<chans, flags, producers, wmail, spc, ghosts, panicked>>

Ready == StartFirst => Launched

(* TrySend *)

\* RLock, then ErrSenderStopped.
TrySendStopped(p) ==
    /\ Ready
    /\ ppc[p] = "idle"
    /\ stopped
    /\ UNCHANGED vars

\* RLock, which a writer that waits keeps out, with stopped still false.
TrySendLock(p, e) ==
    /\ Ready
    /\ ppc[p] = "idle"
    /\ \A s \in Stoppers : spc[s] # "locking"
    /\ ~stopped
    /\ e \notin accepted \cup {pmail[q] : q \in Producers}
    /\ ppc' = [ppc EXCEPT ![p] = "locked"]
    /\ pmail' = [pmail EXCEPT ![p] = e]
    /\ UNCHANGED <<chans, flags, workers, spc, ghosts, panicked>>

\* RUnlock on the way out of TrySend.
Unlocked(p) ==
    /\ ppc' = [ppc EXCEPT ![p] = "idle"]
    /\ pmail' = [pmail EXCEPT ![p] = None]

\* case s.queue <- email, into the buffer; a closed queue would panic.
Enqueue(p) ==
    /\ ppc[p] = "locked"
    /\ qclosed \/ Len(queue) < capacity
    /\ IF qclosed
       THEN panicked' = TRUE /\ UNCHANGED <<queue, accepted>>
       ELSE /\ queue' = Append(queue, pmail[p])
            /\ accepted' = accepted \cup {pmail[p]}
            /\ UNCHANGED panicked
    /\ Unlocked(p)
    /\ UNCHANGED <<capacity, qclosed, errs, eclosed, flags, workers, spc, sent, failed>>

\* case s.queue <- email, straight to a worker that is blocked in its receive:
\* with an unbuffered queue there is no other way.
HandOver(p, w) ==
    /\ ppc[p] = "locked"
    /\ queue = <<>>
    /\ ~qclosed
    /\ wpc[w] = "recv"
    /\ wpc' = [wpc EXCEPT ![w] = IF cancelled THEN "refused" ELSE "sending"]
    /\ wmail' = [wmail EXCEPT ![w] = pmail[p]]
    /\ accepted' = accepted \cup {pmail[p]}
    /\ Unlocked(p)
    /\ UNCHANGED <<chans, flags, spc, sent, failed, panicked>>

\* default: ErrQueueFull; no worker has to be blocked in its receive at that moment.
TrySendFull(p) ==
    /\ ppc[p] = "locked"
    /\ ~qclosed
    /\ Len(queue) >= capacity
    /\ Unlocked(p)
    /\ UNCHANGED <<chans, flags, workers, spc, ghosts, panicked>>

-----------------------------------------------------------------------------
(* worker *)

\* Mutant of Take: the email stays in the queue.
TakeCopy(w) ==
    /\ wpc[w] = "recv"
    /\ queue # <<>>
    /\ wmail' = [wmail EXCEPT ![w] = Head(queue)]
    /\ wpc' = [wpc EXCEPT ![w] = IF cancelled THEN "refused" ELSE "sending"]
    /\ UNCHANGED <<chans, flags, producers, spc, ghosts, panicked>>

\* A worker receives the oldest email and calls Send with s.ctx.
Take(w) ==
    /\ wpc[w] = "recv"
    /\ queue # <<>>
    /\ queue' = Tail(queue)
    /\ wmail' = [wmail EXCEPT ![w] = Head(queue)]
    /\ wpc' = [wpc EXCEPT ![w] = IF cancelled THEN "refused" ELSE "sending"]
    /\ UNCHANGED <<capacity, qclosed, errs, eclosed, flags, producers, spc, ghosts, panicked>>

\* The provider took it.
SendOK(w) ==
    /\ wpc[w] = "sending"
    /\ sent' = sent \cup {wmail[w]}
    /\ wmail' = [wmail EXCEPT ![w] = None]
    /\ wpc' = [wpc EXCEPT ![w] = "recv"]
    /\ UNCHANGED <<chans, flags, producers, spc, accepted, failed, panicked>>

\* The provider does not answer.
SendHangs(w) ==
    /\ wpc[w] = "sending"
    /\ wpc' = [wpc EXCEPT ![w] = "hung"]
    /\ UNCHANGED <<chans, flags, producers, wmail, spc, ghosts, panicked>>

\* The error goes to errChan if there is room, and is dropped otherwise; on an
\* unbuffered errChan it reaches the reader only if that is receiving, which
\* leaves nothing behind.  A closed errChan would panic.
SendFails(w) ==
    /\ wpc[w] \in {"sending", "refused"} \/ (wpc[w] = "hung" /\ cancelled)
    /\ failed' = failed \cup {wmail[w]}
    /\ errs' = IF ~eclosed /\ errs < capacity THEN errs + 1 ELSE errs
    /\ panicked' = (panicked \/ eclosed)
    /\ wmail' = [wmail EXCEPT ![w] = None]
    /\ wpc' = [wpc EXCEPT ![w] = "recv"]
    /\ UNCHANGED <<capacity, queue, qclosed, eclosed, flags, producers, spc, accepted, sent>>

\* Mutant of Exit: a worker leaves as soon as the queue is closed.
ExitEarly(w) ==
    /\ wpc[w] = "recv"
    /\ qclosed
    /\ wpc' = [wpc EXCEPT ![w] = "done"]
    /\ UNCHANGED <<chans, flags, producers, wmail, spc, ghosts, panicked>>

\* The queue is closed and empty: range ends.
Exit(w) ==
    /\ wpc[w] = "recv"
    /\ queue = <<>>
    /\ qclosed
    /\ wpc' = [wpc EXCEPT ![w] = "done"]
    /\ UNCHANGED <<chans, flags, producers, wmail, spc, ghosts, panicked>>

\* The caller reads Errors().
ReadError ==
    /\ errs > 0
    /\ errs' = errs - 1
    /\ UNCHANGED <<capacity, queue, qclosed, eclosed, flags, producers, workers, spc, ghosts, panicked>>

-----------------------------------------------------------------------------
(* Stop and StopNow *)

\* stopOnce.Do: the first caller runs its own function, a later one returns once
\* that function has, whatever its own mode.
StopCall(s) ==
    /\ Ready
    /\ spc[s] = "out"
    /\ \/ /\ once = "new"
          /\ once' = "running"
          /\ mode' = IF s \in Abrupt THEN "StopNow" ELSE "Stop"
          /\ spc' = [spc EXCEPT ![s] = "mark"]
       \/ /\ once = "running"
          /\ spc' = [spc EXCEPT ![s] = "once"]
          /\ UNCHANGED <<once, mode>>
       \/ /\ once = "done"
          /\ spc' = [spc EXCEPT ![s] = "returned"]
          /\ UNCHANGED <<once, mode>>
    /\ UNCHANGED <<chans, stopped, cancelled, producers, workers, ghosts, panicked>>

\* mu.Lock is called: from now on no new reader gets the lock.
LockCalled(s) ==
    /\ spc[s] = "mark"
    /\ spc' = [spc EXCEPT ![s] = "locking"]
    /\ UNCHANGED <<chans, flags, producers, workers, ghosts, panicked>>

\* Mutant of MarkStopped: it does not wait for the read locks.
MarkStoppedUnlocked(s) ==
    /\ spc[s] = "locking"
    /\ stopped' = TRUE
    /\ qclosed' = TRUE
    /\ spc' = [spc EXCEPT ![s] = IF mode = "StopNow" THEN "cancel" ELSE "wait"]
    /\ UNCHANGED <<capacity, queue, errs, eclosed, cancelled, once, mode, producers, workers, ghosts, panicked>>

\* Mutant of MarkStopped: the queue is not closed.
MarkStoppedOpen(s) ==
    /\ spc[s] = "locking"
    /\ \A p \in Producers : ppc[p] # "locked"
    /\ stopped' = TRUE
    /\ spc' = [spc EXCEPT ![s] = IF mode = "StopNow" THEN "cancel" ELSE "wait"]
    /\ UNCHANGED <<chans, cancelled, once, mode, producers, workers, ghosts, panicked>>

\* Mutant of MarkStopped: Stop cancels before it waits, StopNow after.
MarkStoppedSwapped(s) ==
    /\ spc[s] = "locking"
    /\ \A p \in Producers : ppc[p] # "locked"
    /\ stopped' = TRUE
    /\ qclosed' = TRUE
    /\ spc' = [spc EXCEPT ![s] = IF mode = "Stop" THEN "cancel" ELSE "wait"]
    /\ UNCHANGED <<capacity, queue, errs, eclosed, cancelled, once, mode, producers, workers, ghosts, panicked>>

\* The write lock is granted when no TrySend holds the read lock.
MarkStopped(s) ==
    /\ spc[s] = "locking"
    /\ \A p \in Producers : ppc[p] # "locked"
    /\ stopped' = TRUE
    /\ qclosed' = TRUE
    /\ panicked' = (panicked \/ qclosed)
    /\ spc' = [spc EXCEPT ![s] = IF mode = "StopNow" THEN "cancel" ELSE "wait"]
    /\ UNCHANGED <<capacity, queue, errs, eclosed, cancelled, once, mode, producers, workers, ghosts>>

\* StopNow cancels before it waits.
CancelAll(s) ==
    /\ spc[s] = "cancel"
    /\ cancelled' = TRUE
    /\ spc' = [spc EXCEPT ![s] = "wait"]
    /\ UNCHANGED <<chans, stopped, once, mode, producers, workers, ghosts, panicked>>

\* wg.Wait returns once no launched worker runs; then cancel (Stop) and close.
AllDone(s) ==
    /\ spc[s] = "wait"
    /\ \A w \in Workers : wpc[w] \in {"off", "done"}
    /\ cancelled' = TRUE
    /\ panicked' = (panicked \/ eclosed)
    /\ eclosed' = TRUE
    /\ once' = "done"
    /\ spc' = [spc EXCEPT ![s] = "returned"]
    /\ UNCHANGED <<capacity, queue, qclosed, errs, stopped, mode, producers, workers, ghosts>>

\* A caller that found stopOnce running returns once it is done.
OnceReturns(s) ==
    /\ spc[s] = "once"
    /\ once = "done"
    /\ spc' = [spc EXCEPT ![s] = "returned"]
    /\ UNCHANGED <<chans, flags, producers, workers, ghosts, panicked>>

-----------------------------------------------------------------------------

Producer(p) ==
    \/ TrySendStopped(p)
    \/ \E e \in Emails : TrySendLock(p, e)
    \/ Enqueue(p)
    \/ \E w \in Workers : HandOver(p, w)
    \/ TrySendFull(p)

Worker(w) == Take(w) \/ SendOK(w) \/ SendFails(w) \/ SendHangs(w) \/ Exit(w)

Stopper(s) ==
    \/ LockCalled(s) \/ MarkStopped(s) \/ CancelAll(s) \/ AllDone(s) \/ OnceReturns(s)

Next ==
    \/ Start
    \/ \E p \in Producers : Producer(p)
    \/ \E w \in Workers : Worker(w)
    \/ ReadError
    \/ \E s \in Stoppers : StopCall(s) \/ Stopper(s)

Spec == Init /\ [][Next]_vars

\* A goroutine inside TrySend or Stop, and a worker whose Send does not hang, is
\* scheduled; nobody is obliged to call.
FairSpec ==
    /\ Spec
    /\ \A w \in Workers : WF_vars(Worker(w))
    /\ \A p \in Producers :
          WF_vars(Enqueue(p) \/ (\E w \in Workers : HandOver(p, w)) \/ TrySendFull(p))
    /\ \A s \in Stoppers : WF_vars(Stopper(s))

-----------------------------------------------------------------------------
(* Properties *)

\* "Send is safe for concurrent use and never panics, including after Stop":
\* no goroutine sends on or closes a channel that is already closed.
NoPanic == ~panicked

\* Stop: "Emails already queued are delivered", and "the shared context is only
\* cancelled after every worker has finished".  While a graceful Stop runs no
\* send is aborted, and when it is over every accepted email has been offered to
\* the provider.
GracefulStop ==
    mode = "Stop" =>
        /\ cancelled => \A w \in Workers : wpc[w] \in {"off", "done"}
        /\ once = "done" => accepted = sent \cup failed

\* Is some Send hanging?
Hung == \E w \in Workers : wpc[w] = "hung"

\* Everyone who called Stop or StopNow gets out of it, unless the stop that runs
\* is a graceful one and a send hangs: StopNow cancels it.
StopReturns ==
    \A s \in Stoppers : spc[s] # "out" ~> spc[s] = "returned" \/ (mode = "Stop" /\ Hung)

\* Every accepted email is answered for by the provider, stop or no stop, unless
\* a send hangs.
AcceptedIsAttempted == \A e \in Emails : e \in accepted ~> e \in sent \cup failed \/ Hung

\* BackgroundSender implements Outbox.
Abstract == INSTANCE Outbox WITH
    accepting <- ~stopped,
    pending   <- ToSet(queue) \cup InFlight,
    attempted <- sent \cup failed

\* Every step of the queue, the workers and the stoppers is a step of Outbox: an
\* email is accepted while the sender accepts, attempted once, and none after.
ImplementsOutbox == Abstract!Spec
=============================================================================
