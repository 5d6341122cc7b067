----------------------- MODULE BackgroundSenderProofs -----------------------
(***************************************************************************)
(* Proofs about BackgroundSender, for every set of producers, workers and  *)
(* callers of Stop and StopNow, every set of emails and every buffer size. *)
(***************************************************************************)
EXTENDS BackgroundSender, SequenceLemmas

-----------------------------------------------------------------------------
(* The inductive invariant *)

\* Stoppers that run the function given to stopOnce.
Inside(s) == spc[s] \in {"mark", "locking", "cancel", "wait"}

\* Locations of a worker that holds an email.
Holding == {"sending", "refused", "hung"}

\* One stopper at a time is inside stopOnce, and how far it has come says what
\* is stopped, closed and cancelled.
StopShape ==
    /\ \A s, t \in Stoppers : Inside(s) /\ Inside(t) => s = t
    /\ \A s \in Stoppers :
          /\ Inside(s) => once = "running"
          /\ spc[s] # "out" => once # "new"
          /\ spc[s] \in {"mark", "locking"} => ~stopped
          /\ spc[s] \in {"cancel", "wait"} => stopped
          /\ spc[s] = "cancel" => mode = "StopNow"
    /\ once = "new" => mode = "none" /\ ~stopped
    /\ once # "new" => mode # "none"
    /\ once = "done" => stopped
    /\ eclosed <=> once = "done"
    /\ cancelled => mode = "StopNow" \/ once = "done"

\* The queue is closed exactly when the sender is stopped, and nobody who holds
\* the read lock is left at that moment.
LockShape ==
    /\ qclosed <=> stopped
    /\ stopped => \A p \in Producers : ppc[p] = "idle"

\* A goroutine has an email exactly while it sends one.
HoldShape ==
    /\ \A p \in Producers : pmail[p] # None <=> ppc[p] = "locked"
    /\ \A w \in Workers : wmail[w] # None <=> wpc[w] \in Holding

\* An email that was accepted is in one place: in the queue, with a worker or
\* answered for; one that a TrySend still holds is in none of them.
Custody ==
    /\ \A p \in Producers : pmail[p] \notin accepted
    /\ \A p, q \in Producers : pmail[p] = pmail[q] /\ pmail[p] # None => p = q
    /\ \A v, w \in Workers : wmail[v] = wmail[w] /\ wmail[v] # None => v = w
    /\ IsInjective(queue)
    /\ \A w \in Workers : wmail[w] \notin ToSet(queue)
    /\ (ToSet(queue) \cup InFlight) \cap (sent \cup failed) = {}
    /\ accepted = ToSet(queue) \cup InFlight \cup sent \cup failed

IInv == TypeOK /\ HoldShape /\ StopShape /\ LockShape /\ Custody

\* What Start, called first, adds: before it nothing has happened, after it every
\* worker runs until the queue is closed and empty, and errChan is closed behind
\* the last of them.
StartShape ==
    /\ Launched => \A w \in Workers : wpc[w] # "off"
    /\ ~Launched => once = "new" /\ queue = <<>> /\ \A p \in Producers : ppc[p] = "idle"
    /\ \A w \in Workers : wpc[w] = "done" => qclosed /\ queue = <<>>
    /\ once = "done" => \A w \in Workers : wpc[w] = "done"
    /\ ~panicked

-----------------------------------------------------------------------------
(* Type correctness *)

\* The initial state has the types.
LEMMA TypeInit == Init => TypeOK /\ HoldShape
<1> SUFFICES ASSUME Init
             PROVE  TypeOK /\ HoldShape
  OBVIOUS
<1>1. capacity \in BufferSizes /\ queue \in Seq(Emails) /\ Len(queue) <= capacity /\ errs \in 0..capacity
  BY BufferAssumption, EmptySeq DEF Init
<1>2. HoldShape
  BY NoneAssumption DEF Init, HoldShape, Holding
<1>3. TypeOK
  BY <1>1 DEF Init, TypeOK, WorkerLocations, StopperLocations
<1> QED
  BY <1>2, <1>3

\* Every step keeps the types.
LEMMA TypeStep ==
    ASSUME TypeOK, HoldShape, [Next]_vars
    PROVE  TypeOK' /\ HoldShape'
<1> USE BufferAssumption, NoneAssumption DEF TypeOK, HoldShape, Holding, WorkerLocations, StopperLocations, chans, flags, producers, workers, ghosts
<1>1. CASE Start
  BY <1>1 DEF Start, Launched
<1>2. ASSUME NEW p \in Producers, TrySendStopped(p) PROVE TypeOK' /\ HoldShape'
  BY <1>2 DEF TrySendStopped, vars
<1>3. ASSUME NEW p \in Producers, NEW e \in Emails, TrySendLock(p, e) PROVE TypeOK' /\ HoldShape'
  BY <1>3 DEF TrySendLock
<1>4. ASSUME NEW p \in Producers, Enqueue(p) PROVE TypeOK' /\ HoldShape'
  <2>1. pmail[p] \in Emails
    BY <1>4 DEF Enqueue
  <2>2. queue' \in Seq(Emails) /\ Len(queue') <= capacity
    BY <1>4, <2>1 DEF Enqueue
  <2> QED
    BY <1>4, <2>1, <2>2 DEF Enqueue, Unlocked
<1>5. ASSUME NEW p \in Producers, NEW w \in Workers, HandOver(p, w) PROVE TypeOK' /\ HoldShape'
  <2>1. pmail[p] \in Emails
    BY <1>5 DEF HandOver
  <2> QED
    BY <1>5, <2>1 DEF HandOver, Unlocked
<1>6. ASSUME NEW p \in Producers, TrySendFull(p) PROVE TypeOK' /\ HoldShape'
  BY <1>6 DEF TrySendFull, Unlocked
<1>7. ASSUME NEW w \in Workers, Take(w) PROVE TypeOK' /\ HoldShape'
  <2>1. Head(queue) \in Emails /\ queue' \in Seq(Emails) /\ Len(queue') <= capacity'
    BY <1>7, ToSetTail DEF Take
  <2> QED
    BY <1>7, <2>1 DEF Take
<1>8. ASSUME NEW w \in Workers, SendOK(w) PROVE TypeOK' /\ HoldShape'
  <2>1. wmail[w] \in Emails
    BY <1>8 DEF SendOK
  <2> QED
    BY <1>8, <2>1 DEF SendOK
<1>9. ASSUME NEW w \in Workers, SendHangs(w) PROVE TypeOK' /\ HoldShape'
  BY <1>9 DEF SendHangs
<1>10. ASSUME NEW w \in Workers, SendFails(w) PROVE TypeOK' /\ HoldShape'
  <2>1. wmail[w] \in Emails
    BY <1>10 DEF SendFails
  <2>2. errs' \in 0..capacity
    BY <1>10 DEF SendFails
  <2> QED
    BY <1>10, <2>1, <2>2 DEF SendFails
<1>11. ASSUME NEW w \in Workers, Exit(w) PROVE TypeOK' /\ HoldShape'
  BY <1>11 DEF Exit
<1>12. CASE ReadError
  BY <1>12 DEF ReadError
<1>13. ASSUME NEW s \in Stoppers, StopCall(s) PROVE TypeOK' /\ HoldShape'
  BY <1>13 DEF StopCall
<1>14. ASSUME NEW s \in Stoppers, LockCalled(s) PROVE TypeOK' /\ HoldShape'
  BY <1>14 DEF LockCalled
<1>15. ASSUME NEW s \in Stoppers, MarkStopped(s) PROVE TypeOK' /\ HoldShape'
  BY <1>15 DEF MarkStopped
<1>16. ASSUME NEW s \in Stoppers, CancelAll(s) PROVE TypeOK' /\ HoldShape'
  BY <1>16 DEF CancelAll
<1>17. ASSUME NEW s \in Stoppers, AllDone(s) PROVE TypeOK' /\ HoldShape'
  BY <1>17 DEF AllDone
<1>18. ASSUME NEW s \in Stoppers, OnceReturns(s) PROVE TypeOK' /\ HoldShape'
  BY <1>18 DEF OnceReturns
<1>19. CASE UNCHANGED vars
  BY <1>19 DEF vars
<1> QED
  BY <1>1, <1>2, <1>3, <1>4, <1>5, <1>6, <1>7, <1>8, <1>9, <1>10, <1>11, <1>12,
     <1>13, <1>14, <1>15, <1>16, <1>17, <1>18, <1>19
     DEF Next, Producer, Worker, Stopper

-----------------------------------------------------------------------------
(* Stopping *)

\* Every step keeps a single stopper inside stopOnce, and the flags in line with
\* how far it is.
LEMMA StopStep ==
    ASSUME TypeOK, StopShape, [Next]_vars
    PROVE  StopShape'
<1> USE DEF TypeOK, StopperLocations, StopShape, Inside, chans, flags, producers, workers, ghosts
<1>1. CASE Start
  BY <1>1 DEF Start
<1>2. ASSUME NEW p \in Producers, TrySendStopped(p)
      PROVE  StopShape'
  BY <1>2 DEF TrySendStopped, vars
<1>3. ASSUME NEW p \in Producers, NEW e \in Emails, TrySendLock(p, e)
      PROVE  StopShape'
  BY <1>3 DEF TrySendLock
<1>4. ASSUME NEW p \in Producers, Enqueue(p)
      PROVE  StopShape'
  BY <1>4 DEF Enqueue, Unlocked
<1>5. ASSUME NEW p \in Producers, NEW w \in Workers, HandOver(p, w)
      PROVE  StopShape'
  BY <1>5 DEF HandOver, Unlocked
<1>6. ASSUME NEW p \in Producers, TrySendFull(p)
      PROVE  StopShape'
  BY <1>6 DEF TrySendFull, Unlocked
<1>7. ASSUME NEW w \in Workers, Take(w)
      PROVE  StopShape'
  BY <1>7 DEF Take
<1>8. ASSUME NEW w \in Workers, SendOK(w)
      PROVE  StopShape'
  BY <1>8 DEF SendOK
<1>9. ASSUME NEW w \in Workers, SendHangs(w)
      PROVE  StopShape'
  BY <1>9 DEF SendHangs
<1>10. ASSUME NEW w \in Workers, SendFails(w)
       PROVE  StopShape'
  BY <1>10 DEF SendFails
<1>11. ASSUME NEW w \in Workers, Exit(w)
       PROVE  StopShape'
  BY <1>11 DEF Exit
<1>12. CASE ReadError
  BY <1>12 DEF ReadError
<1>13. ASSUME NEW s \in Stoppers, StopCall(s)
       PROVE  StopShape'
  BY <1>13 DEF StopCall
<1>14. ASSUME NEW s \in Stoppers, LockCalled(s)
       PROVE  StopShape'
  BY <1>14 DEF LockCalled
<1>15. ASSUME NEW s \in Stoppers, MarkStopped(s)
       PROVE  StopShape'
  BY <1>15 DEF MarkStopped
<1>16. ASSUME NEW s \in Stoppers, CancelAll(s)
       PROVE  StopShape'
  BY <1>16 DEF CancelAll
<1>17. ASSUME NEW s \in Stoppers, AllDone(s)
       PROVE  StopShape'
  BY <1>17 DEF AllDone
<1>18. ASSUME NEW s \in Stoppers, OnceReturns(s)
       PROVE  StopShape'
  BY <1>18 DEF OnceReturns
<1>19. CASE UNCHANGED vars
  BY <1>19 DEF vars
<1> QED
  BY <1>1, <1>2, <1>3, <1>4, <1>5, <1>6, <1>7, <1>8, <1>9, <1>10, <1>11, <1>12, <1>13,
     <1>14, <1>15, <1>16, <1>17, <1>18, <1>19
     DEF Next, Producer, Worker, Stopper

\* Every step keeps the read lock and the closed queue apart.
LEMMA LockStep ==
    ASSUME TypeOK, StopShape, LockShape, [Next]_vars
    PROVE  LockShape'
<1> USE DEF TypeOK, LockShape, chans, flags, producers, workers, ghosts
<1>1. CASE Start
  BY <1>1 DEF Start
<1>2. ASSUME NEW p \in Producers, TrySendStopped(p)
      PROVE  LockShape'
  BY <1>2 DEF TrySendStopped, vars
<1>3. ASSUME NEW p \in Producers, NEW e \in Emails, TrySendLock(p, e)
      PROVE  LockShape'
  BY <1>3 DEF TrySendLock
<1>4. ASSUME NEW p \in Producers, Enqueue(p)
      PROVE  LockShape'
  BY <1>4 DEF Enqueue, Unlocked
<1>5. ASSUME NEW p \in Producers, NEW w \in Workers, HandOver(p, w)
      PROVE  LockShape'
  BY <1>5 DEF HandOver, Unlocked
<1>6. ASSUME NEW p \in Producers, TrySendFull(p)
      PROVE  LockShape'
  BY <1>6 DEF TrySendFull, Unlocked
<1>7. ASSUME NEW w \in Workers, Take(w)
      PROVE  LockShape'
  BY <1>7 DEF Take
<1>8. ASSUME NEW w \in Workers, SendOK(w)
      PROVE  LockShape'
  BY <1>8 DEF SendOK
<1>9. ASSUME NEW w \in Workers, SendHangs(w)
      PROVE  LockShape'
  BY <1>9 DEF SendHangs
<1>10. ASSUME NEW w \in Workers, SendFails(w)
       PROVE  LockShape'
  BY <1>10 DEF SendFails
<1>11. ASSUME NEW w \in Workers, Exit(w)
       PROVE  LockShape'
  BY <1>11 DEF Exit
<1>12. CASE ReadError
  BY <1>12 DEF ReadError
<1>13. ASSUME NEW s \in Stoppers, StopCall(s)
       PROVE  LockShape'
  BY <1>13 DEF StopCall
<1>14. ASSUME NEW s \in Stoppers, LockCalled(s)
       PROVE  LockShape'
  BY <1>14 DEF LockCalled
<1>15. ASSUME NEW s \in Stoppers, MarkStopped(s)
       PROVE  LockShape'
  BY <1>15 DEF MarkStopped
<1>16. ASSUME NEW s \in Stoppers, CancelAll(s)
       PROVE  LockShape'
  BY <1>16 DEF CancelAll
<1>17. ASSUME NEW s \in Stoppers, AllDone(s)
       PROVE  LockShape'
  BY <1>17 DEF AllDone
<1>18. ASSUME NEW s \in Stoppers, OnceReturns(s)
       PROVE  LockShape'
  BY <1>18 DEF OnceReturns
<1>19. CASE UNCHANGED vars
  BY <1>19 DEF vars
<1> QED
  BY <1>1, <1>2, <1>3, <1>4, <1>5, <1>6, <1>7, <1>8, <1>9, <1>10, <1>11, <1>12, <1>13,
     <1>14, <1>15, <1>16, <1>17, <1>18, <1>19
     DEF Next, Producer, Worker, Stopper

-----------------------------------------------------------------------------
(* The custody of the emails *)

\* A worker that was empty-handed takes an email.
LEMMA InFlightTake ==
    ASSUME TypeOK, NEW w \in Workers, wmail[w] = None, NEW e \in Emails,
           wmail' = [wmail EXCEPT ![w] = e]
    PROVE  InFlight' = InFlight \cup {e}
<1>1. e # None
  BY NoneAssumption
<1> QED
  BY <1>1 DEF TypeOK, InFlight

\* A worker lets go of the email it holds, which no other worker has.
LEMMA InFlightDrop ==
    ASSUME TypeOK, Custody, NEW w \in Workers, wmail[w] # None,
           wmail' = [wmail EXCEPT ![w] = None]
    PROVE  InFlight' = InFlight \ {wmail[w]}
  BY DEF TypeOK, Custody, InFlight

\* A step that moves no email.
LEMMA FrameCustody ==
    ASSUME Custody, UNCHANGED <<queue, pmail, wmail, accepted, sent, failed>>
    PROVE  Custody'
  BY DEF Custody, InFlight

\* The queue takes over the email of a TrySend.
LEMMA EnqueueCustody ==
    ASSUME TypeOK, HoldShape, Custody, NEW p \in Producers, Enqueue(p)
    PROVE  Custody'
<1>1. CASE qclosed
  <2>1. UNCHANGED <<queue, wmail, accepted, sent, failed>>
    BY <1>1 DEF Enqueue, workers
  <2>2. pmail' = [pmail EXCEPT ![p] = None]
    BY DEF Enqueue, Unlocked
  <2>3. None \notin accepted
    BY NoneAssumption DEF TypeOK
  <2> QED
    BY <2>1, <2>2, <2>3 DEF Custody, TypeOK, InFlight
<1>2. CASE ~qclosed
  <2> DEFINE e == pmail[p]
  <2>1. /\ e \in Emails /\ e # None /\ e \notin accepted
        /\ queue' = Append(queue, e) /\ accepted' = accepted \cup {e}
        /\ UNCHANGED <<wmail, sent, failed>>
        /\ pmail' = [pmail EXCEPT ![p] = None]
    BY <1>2 DEF Enqueue, Unlocked, TypeOK, HoldShape, Custody, workers
  <2>2. InFlight' = InFlight
    BY <2>1 DEF InFlight
  <2>3. e \notin ToSet(queue) /\ e \notin InFlight /\ e \notin sent \cup failed
    BY <2>1 DEF Custody
  <2>4. ToSet(queue') = ToSet(queue) \cup {e} /\ IsInjective(queue')
    BY <2>1, <2>3, ToSetAppend DEF TypeOK, Custody
  <2>5. \A w \in Workers : wmail[w] # e
    BY <2>1, <2>3 DEF InFlight
  <2>6. \A q \in Producers : pmail'[q] \notin accepted'
    BY <2>1, NoneAssumption DEF Custody, TypeOK
  <2> HIDE DEF e
  <2>7. \A q, r \in Producers : pmail'[q] = pmail'[r] /\ pmail'[q] # None => q = r
    BY <2>1 DEF Custody, TypeOK
  <2>8. /\ (ToSet(queue) \cup InFlight)' \cap (sent \cup failed)' = {}
        /\ accepted' = (ToSet(queue) \cup InFlight \cup sent \cup failed)'
    BY <2>1, <2>2, <2>3, <2>4 DEF Custody
  <2> QED
    BY <2>1, <2>4, <2>5, <2>6, <2>7, <2>8 DEF Custody
<1> QED
  BY <1>1, <1>2

\* A worker takes over the email of a TrySend.
LEMMA HandOverCustody ==
    ASSUME TypeOK, HoldShape, Custody, NEW p \in Producers, NEW w \in Workers, HandOver(p, w)
    PROVE  Custody'
<1> DEFINE e == pmail[p]
<1>1. /\ e \in Emails /\ e # None /\ e \notin accepted
      /\ wmail[w] = None /\ wmail' = [wmail EXCEPT ![w] = e]
      /\ accepted' = accepted \cup {e}
      /\ UNCHANGED <<queue, sent, failed>>
      /\ pmail' = [pmail EXCEPT ![p] = None]
  BY DEF HandOver, Unlocked, TypeOK, HoldShape, Custody, Holding, chans
<1>2. InFlight' = InFlight \cup {e}
  BY <1>1, InFlightTake
<1>3. e \notin ToSet(queue) /\ e \notin InFlight /\ e \notin sent \cup failed
  BY <1>1 DEF Custody
<1>4. \A v \in Workers : wmail[v] # e
  BY <1>1, <1>3 DEF InFlight
<1>5. \A q \in Producers : pmail'[q] \notin accepted'
  BY <1>1, NoneAssumption DEF Custody, TypeOK
<1> HIDE DEF e
<1>6. \A q, r \in Producers : pmail'[q] = pmail'[r] /\ pmail'[q] # None => q = r
  BY <1>1 DEF Custody, TypeOK
<1>7. /\ \A u, v \in Workers : wmail'[u] = wmail'[v] /\ wmail'[u] # None => u = v
      /\ \A v \in Workers : wmail'[v] \notin ToSet(queue')
  BY <1>1, <1>3, <1>4 DEF Custody, TypeOK
<1>8. /\ (ToSet(queue) \cup InFlight)' \cap (sent \cup failed)' = {}
      /\ accepted' = (ToSet(queue) \cup InFlight \cup sent \cup failed)'
  BY <1>1, <1>2, <1>3 DEF Custody
<1> QED
  BY <1>1, <1>5, <1>6, <1>7, <1>8 DEF Custody

\* A worker takes the oldest email out of the queue.
LEMMA TakeCustody ==
    ASSUME TypeOK, HoldShape, Custody, NEW w \in Workers, Take(w)
    PROVE  Custody' /\ ToSet(queue') \cup InFlight' = ToSet(queue) \cup InFlight
<1> DEFINE e == Head(queue)
<1>1. /\ wmail[w] = None /\ wmail' = [wmail EXCEPT ![w] = e] /\ queue' = Tail(queue)
      /\ UNCHANGED <<accepted, sent, failed, pmail>>
  BY DEF Take, HoldShape, Holding, ghosts, producers
<1>2. /\ e \in Emails /\ e \notin ToSet(queue') /\ ToSet(queue) = {e} \cup ToSet(queue')
      /\ IsInjective(queue')
  BY <1>1, ToSetTail DEF Take, TypeOK, Custody
<1> HIDE DEF e
<1>3. InFlight' = InFlight \cup {e}
  BY <1>1, <1>2, InFlightTake
<1>4. /\ \A u, v \in Workers : wmail'[u] = wmail'[v] /\ wmail'[u] # None => u = v
      /\ \A v \in Workers : wmail'[v] \notin ToSet(queue')
  BY <1>1, <1>2 DEF Custody, TypeOK
<1>5. /\ (ToSet(queue) \cup InFlight)' \cap (sent \cup failed)' = {}
      /\ accepted' = (ToSet(queue) \cup InFlight \cup sent \cup failed)'
  BY <1>1, <1>2, <1>3 DEF Custody
<1>6. Custody'
  BY <1>1, <1>2, <1>4, <1>5 DEF Custody
<1> QED
  BY <1>2, <1>3, <1>6

\* The provider answers for the email of a worker, with or without an error.
LEMMA AnswerCustody ==
    ASSUME TypeOK, HoldShape, Custody, NEW w \in Workers, SendOK(w) \/ SendFails(w)
    PROVE  /\ Custody'
           /\ wmail[w] \in ToSet(queue) \cup InFlight
           /\ (ToSet(queue) \cup InFlight)' = (ToSet(queue) \cup InFlight) \ {wmail[w]}
           /\ (sent \cup failed)' = (sent \cup failed) \cup {wmail[w]}
<1> DEFINE e == wmail[w]
<1>1. /\ e # None /\ wmail' = [wmail EXCEPT ![w] = None]
      /\ (sent \cup failed)' = (sent \cup failed) \cup {e}
      /\ UNCHANGED <<queue, accepted, pmail>>
  BY DEF SendOK, SendFails, HoldShape, Holding, chans, producers
<1>2. e \in InFlight /\ e \notin ToSet(queue)
  BY <1>1 DEF Custody, InFlight
<1>3. InFlight' = InFlight \ {e}
  BY <1>1, InFlightDrop
<1>4. None \notin ToSet(queue)
  BY NoneAssumption DEF TypeOK, ToSet
<1>5. /\ \A u, v \in Workers : wmail'[u] = wmail'[v] /\ wmail'[u] # None => u = v
      /\ \A v \in Workers : wmail'[v] \notin ToSet(queue')
  BY <1>1, <1>4 DEF Custody, TypeOK
<1> HIDE DEF e
<1>6. /\ (ToSet(queue) \cup InFlight)' \cap (sent \cup failed)' = {}
      /\ accepted' = (ToSet(queue) \cup InFlight \cup sent \cup failed)'
  BY <1>1, <1>2, <1>3 DEF Custody
<1>7. Custody'
  BY <1>1, <1>5, <1>6 DEF Custody
<1> QED
  BY <1>1, <1>2, <1>3, <1>7 DEF e

\* Every step keeps every accepted email in one place.
LEMMA CustodyStep ==
    ASSUME TypeOK, HoldShape, Custody, [Next]_vars
    PROVE  Custody'
<1>1. CASE Start
  BY <1>1, FrameCustody DEF Start, chans, producers, ghosts
<1>2. ASSUME NEW p \in Producers, TrySendStopped(p)
      PROVE  Custody'
  BY <1>2, FrameCustody DEF TrySendStopped, vars
<1>3. ASSUME NEW p \in Producers, NEW e \in Emails, TrySendLock(p, e)
      PROVE  Custody'
  <2>1. /\ UNCHANGED <<queue, wmail, accepted, sent, failed>>
        /\ pmail' = [pmail EXCEPT ![p] = e]
        /\ e \notin accepted /\ \A q \in Producers : pmail[q] # e
    BY <1>3 DEF TrySendLock, chans, workers, ghosts
  <2> QED
    BY <2>1 DEF Custody, TypeOK, InFlight
<1>4. ASSUME NEW p \in Producers, Enqueue(p)
      PROVE  Custody'
  BY <1>4, EnqueueCustody
<1>5. ASSUME NEW p \in Producers, NEW w \in Workers, HandOver(p, w)
      PROVE  Custody'
  BY <1>5, HandOverCustody
<1>6. ASSUME NEW p \in Producers, TrySendFull(p)
      PROVE  Custody'
  <2>1. UNCHANGED <<queue, wmail, accepted, sent, failed>> /\ pmail' = [pmail EXCEPT ![p] = None]
    BY <1>6 DEF TrySendFull, Unlocked, chans, workers, ghosts
  <2>2. None \notin accepted
    BY NoneAssumption DEF TypeOK
  <2> QED
    BY <2>1, <2>2 DEF Custody, TypeOK, InFlight
<1>7. ASSUME NEW w \in Workers, Take(w)
      PROVE  Custody'
  BY <1>7, TakeCustody
<1>8. ASSUME NEW w \in Workers, SendOK(w)
      PROVE  Custody'
  BY <1>8, AnswerCustody
<1>9. ASSUME NEW w \in Workers, SendHangs(w)
      PROVE  Custody'
  BY <1>9, FrameCustody DEF SendHangs, chans, producers, ghosts
<1>10. ASSUME NEW w \in Workers, SendFails(w)
       PROVE  Custody'
  BY <1>10, AnswerCustody
<1>11. ASSUME NEW w \in Workers, Exit(w)
       PROVE  Custody'
  BY <1>11, FrameCustody DEF Exit, chans, producers, ghosts
<1>12. CASE ReadError
  BY <1>12, FrameCustody DEF ReadError, producers, workers, ghosts
<1>13. ASSUME NEW s \in Stoppers, StopCall(s)
       PROVE  Custody'
  BY <1>13, FrameCustody DEF StopCall, chans, producers, workers, ghosts
<1>14. ASSUME NEW s \in Stoppers, LockCalled(s)
       PROVE  Custody'
  BY <1>14, FrameCustody DEF LockCalled, chans, producers, workers, ghosts
<1>15. ASSUME NEW s \in Stoppers, MarkStopped(s)
       PROVE  Custody'
  BY <1>15, FrameCustody DEF MarkStopped, producers, workers, ghosts
<1>16. ASSUME NEW s \in Stoppers, CancelAll(s)
       PROVE  Custody'
  BY <1>16, FrameCustody DEF CancelAll, chans, producers, workers, ghosts
<1>17. ASSUME NEW s \in Stoppers, AllDone(s)
       PROVE  Custody'
  BY <1>17, FrameCustody DEF AllDone, producers, workers, ghosts
<1>18. ASSUME NEW s \in Stoppers, OnceReturns(s)
       PROVE  Custody'
  BY <1>18, FrameCustody DEF OnceReturns, chans, producers, workers, ghosts
<1>19. CASE UNCHANGED vars
  BY <1>19, FrameCustody DEF vars
<1> QED
  BY <1>1, <1>2, <1>3, <1>4, <1>5, <1>6, <1>7, <1>8, <1>9, <1>10, <1>11, <1>12, <1>13,
     <1>14, <1>15, <1>16, <1>17, <1>18, <1>19
     DEF Next, Producer, Worker, Stopper

-----------------------------------------------------------------------------
(* The theorems that hold however the sender is used *)

\* worker.go:88-116 and 148-180: the locations of the stoppers and workers decide the
\* flags, and every accepted email is in one place.
THEOREM InductiveInvariant == Spec => []IInv
<1>1. Init => IInv
  <2>1. Init => StopShape /\ LockShape
    BY DEF Init, StopShape, LockShape, Inside
  <2>2. Init => Custody
    BY NoneAssumption DEF Init, Custody, InFlight, ToSet, IsInjective
  <2> QED
    BY <2>1, <2>2, TypeInit DEF IInv
<1>2. IInv /\ [Next]_vars => IInv'
  BY TypeStep, StopStep, LockStep, CustodyStep DEF IInv
<1> QED
  BY <1>1, <1>2, PTL DEF Spec

\* The channels, flags and goroutines keep to their values; the queue and the
\* error channel never hold more than NewBackgroundSender made room for.
THEOREM TypeCorrect == Spec => []TypeOK
<1>1. IInv => TypeOK
  BY DEF IInv
<1> QED
  BY <1>1, InductiveInvariant, PTL

\* A step that leaves the queue, the workers' emails, the answers and stopped alone
\* is invisible to Outbox.
LEMMA Invisible ==
    ASSUME UNCHANGED <<queue, wmail, sent, failed, stopped>>
    PROVE  UNCHANGED <<~stopped, ToSet(queue) \cup InFlight, sent \cup failed>>
  BY DEF InFlight

\* TrySend's send, into the buffer or to a waiting worker, is Outbox's Accept.
LEMMA AcceptStep ==
    ASSUME IInv, NEW p \in Producers, Enqueue(p) \/ \E w \in Workers : HandOver(p, w)
    PROVE  \E e \in Emails : Abstract!Accept(e)
<1> DEFINE e == pmail[p]
<1>1. /\ ppc[p] = "locked" /\ ~qclosed /\ ~stopped
      /\ e \in Emails /\ e \notin ToSet(queue) \cup InFlight \cup (sent \cup failed)
      /\ UNCHANGED <<stopped, sent, failed>>
  BY DEF Enqueue, HandOver, IInv, TypeOK, HoldShape, LockShape, Custody, flags
<1>2. (ToSet(queue) \cup InFlight)' = (ToSet(queue) \cup InFlight) \cup {e}
  <2>1. CASE Enqueue(p)
    <3>1. queue' = Append(queue, e) /\ wmail' = wmail
      BY <1>1, <2>1 DEF Enqueue, workers
    <3>2. ToSet(queue') = ToSet(queue) \cup {e}
      BY <1>1, <3>1, ToSetAppend DEF IInv, TypeOK
    <3> QED
      BY <3>1, <3>2 DEF InFlight
  <2>2. ASSUME NEW w \in Workers, HandOver(p, w)
        PROVE  (ToSet(queue) \cup InFlight)' = (ToSet(queue) \cup InFlight) \cup {e}
    <3>1. queue' = queue /\ wmail[w] = None /\ wmail' = [wmail EXCEPT ![w] = e]
      BY <2>2 DEF HandOver, IInv, HoldShape, Holding, chans
    <3>2. InFlight' = InFlight \cup {e}
      BY <1>1, <3>1, InFlightTake DEF IInv
    <3> QED
      BY <3>1, <3>2
  <2> QED
    BY <2>1, <2>2
<1> QED
  BY <1>1, <1>2 DEF Abstract!Accept

\* The end of a Send, with or without an error, is Outbox's Attempt.
LEMMA AttemptStep ==
    ASSUME IInv, NEW w \in Workers, SendOK(w) \/ SendFails(w)
    PROVE  \E e \in Emails : Abstract!Attempt(e)
<1>1. wmail[w] \in Emails
  BY DEF SendOK, SendFails, IInv, TypeOK, HoldShape, Holding
<1>2. stopped' = stopped
  BY DEF SendOK, SendFails, flags
<1> QED
  BY <1>1, <1>2, AnswerCustody DEF IInv, Abstract!Attempt

\* The critical section of Stop is Outbox's Shut.
LEMMA ShutStep ==
    ASSUME IInv, NEW s \in Stoppers, MarkStopped(s)
    PROVE  Abstract!Shut
<1>1. ~stopped /\ stopped'
  BY DEF MarkStopped, IInv, StopShape
<1>2. UNCHANGED <<queue, wmail, sent, failed>>
  BY DEF MarkStopped, workers, ghosts
<1> QED
  BY <1>1, <1>2 DEF Abstract!Shut, InFlight

\* Every step is a step of Outbox or invisible to it.
LEMMA RefinementStep ==
    ASSUME IInv, [Next]_vars
    PROVE  [Abstract!Next]_<<~stopped, ToSet(queue) \cup InFlight, sent \cup failed>>
<1>1. CASE Start
  BY <1>1, Invisible DEF Start, chans, flags, ghosts
<1>2. ASSUME NEW p \in Producers, TrySendStopped(p)
      PROVE  [Abstract!Next]_<<~stopped, ToSet(queue) \cup InFlight, sent \cup failed>>
  BY <1>2, Invisible DEF TrySendStopped, vars
<1>3. ASSUME NEW p \in Producers, NEW e \in Emails, TrySendLock(p, e)
      PROVE  [Abstract!Next]_<<~stopped, ToSet(queue) \cup InFlight, sent \cup failed>>
  BY <1>3, Invisible DEF TrySendLock, chans, flags, workers, ghosts
<1>4. ASSUME NEW p \in Producers, Enqueue(p)
      PROVE  [Abstract!Next]_<<~stopped, ToSet(queue) \cup InFlight, sent \cup failed>>
  BY <1>4, AcceptStep DEF Abstract!Next
<1>5. ASSUME NEW p \in Producers, NEW w \in Workers, HandOver(p, w)
      PROVE  [Abstract!Next]_<<~stopped, ToSet(queue) \cup InFlight, sent \cup failed>>
  BY <1>5, AcceptStep DEF Abstract!Next
<1>6. ASSUME NEW p \in Producers, TrySendFull(p)
      PROVE  [Abstract!Next]_<<~stopped, ToSet(queue) \cup InFlight, sent \cup failed>>
  BY <1>6, Invisible DEF TrySendFull, chans, flags, workers, ghosts
<1>7. ASSUME NEW w \in Workers, Take(w)
      PROVE  [Abstract!Next]_<<~stopped, ToSet(queue) \cup InFlight, sent \cup failed>>
  <2>1. (ToSet(queue) \cup InFlight)' = ToSet(queue) \cup InFlight
    BY <1>7, TakeCustody DEF IInv
  <2>2. UNCHANGED <<stopped, sent, failed>>
    BY <1>7 DEF Take, flags, ghosts
  <2> QED
    BY <2>1, <2>2
<1>8. ASSUME NEW w \in Workers, SendOK(w)
      PROVE  [Abstract!Next]_<<~stopped, ToSet(queue) \cup InFlight, sent \cup failed>>
  BY <1>8, AttemptStep DEF Abstract!Next
<1>9. ASSUME NEW w \in Workers, SendHangs(w)
      PROVE  [Abstract!Next]_<<~stopped, ToSet(queue) \cup InFlight, sent \cup failed>>
  BY <1>9, Invisible DEF SendHangs, chans, flags, ghosts
<1>10. ASSUME NEW w \in Workers, SendFails(w)
       PROVE  [Abstract!Next]_<<~stopped, ToSet(queue) \cup InFlight, sent \cup failed>>
  BY <1>10, AttemptStep DEF Abstract!Next
<1>11. ASSUME NEW w \in Workers, Exit(w)
       PROVE  [Abstract!Next]_<<~stopped, ToSet(queue) \cup InFlight, sent \cup failed>>
  BY <1>11, Invisible DEF Exit, chans, flags, ghosts
<1>12. CASE ReadError
  BY <1>12, Invisible DEF ReadError, flags, workers, ghosts
<1>13. ASSUME NEW s \in Stoppers, StopCall(s)
       PROVE  [Abstract!Next]_<<~stopped, ToSet(queue) \cup InFlight, sent \cup failed>>
  BY <1>13, Invisible DEF StopCall, chans, workers, ghosts
<1>14. ASSUME NEW s \in Stoppers, LockCalled(s)
       PROVE  [Abstract!Next]_<<~stopped, ToSet(queue) \cup InFlight, sent \cup failed>>
  BY <1>14, Invisible DEF LockCalled, chans, flags, workers, ghosts
<1>15. ASSUME NEW s \in Stoppers, MarkStopped(s)
       PROVE  [Abstract!Next]_<<~stopped, ToSet(queue) \cup InFlight, sent \cup failed>>
  BY <1>15, ShutStep DEF Abstract!Next
<1>16. ASSUME NEW s \in Stoppers, CancelAll(s)
       PROVE  [Abstract!Next]_<<~stopped, ToSet(queue) \cup InFlight, sent \cup failed>>
  BY <1>16, Invisible DEF CancelAll, chans, workers, ghosts
<1>17. ASSUME NEW s \in Stoppers, AllDone(s)
       PROVE  [Abstract!Next]_<<~stopped, ToSet(queue) \cup InFlight, sent \cup failed>>
  BY <1>17, Invisible DEF AllDone, workers, ghosts
<1>18. ASSUME NEW s \in Stoppers, OnceReturns(s)
       PROVE  [Abstract!Next]_<<~stopped, ToSet(queue) \cup InFlight, sent \cup failed>>
  BY <1>18, Invisible DEF OnceReturns, chans, flags, workers, ghosts
<1>19. CASE UNCHANGED vars
  BY <1>19, Invisible DEF vars
<1> QED
  BY <1>1, <1>2, <1>3, <1>4, <1>5, <1>6, <1>7, <1>8, <1>9, <1>10, <1>11, <1>12, <1>13,
     <1>14, <1>15, <1>16, <1>17, <1>18, <1>19
     DEF Next, Producer, Worker, Stopper

\* worker.go:14-30: seen from outside, a BackgroundSender accepts an email only
\* until it is stopped, has the provider answer for each accepted email once, and
\* forgets none on the way.
THEOREM Refinement == Spec => ImplementsOutbox
<1>1. Init => Abstract!Init
  BY NoneAssumption DEF Init, Abstract!Init, InFlight, ToSet
<1>2. IInv /\ [Next]_vars => [Abstract!Next]_(Abstract!outboxVars)
  BY RefinementStep DEF Abstract!outboxVars
<1> QED
  BY <1>1, <1>2, InductiveInvariant, PTL DEF Spec, ImplementsOutbox, Abstract!Spec

-----------------------------------------------------------------------------
(* The theorems that need Start before anything else *)

\* Nothing happens before Start.
LEMMA StartInit == Init => StartShape
  BY DEF Init, StartShape, Launched

\* Every step keeps the workers in line with the queue and the error channel, and
\* none panics.
LEMMA StartStep ==
    ASSUME StartFirst, IInv, StartShape, [Next]_vars
    PROVE  StartShape'
<1> USE DEF IInv, TypeOK, WorkerLocations, StopShape, LockShape, StartShape, Ready, Launched, Inside,
             chans, flags, producers, workers, ghosts
<1>1. CASE Start
  BY <1>1 DEF Start
<1>2. ASSUME NEW p \in Producers, TrySendStopped(p)
      PROVE  StartShape'
  BY <1>2 DEF TrySendStopped, vars
<1>3. ASSUME NEW p \in Producers, NEW e \in Emails, TrySendLock(p, e)
      PROVE  StartShape'
  BY <1>3 DEF TrySendLock
<1>4. ASSUME NEW p \in Producers, Enqueue(p)
      PROVE  StartShape'
  BY <1>4 DEF Enqueue
<1>5. ASSUME NEW p \in Producers, NEW w \in Workers, HandOver(p, w)
      PROVE  StartShape'
  BY <1>5 DEF HandOver, Unlocked
<1>6. ASSUME NEW p \in Producers, TrySendFull(p)
      PROVE  StartShape'
  BY <1>6 DEF TrySendFull, Unlocked
<1>7. ASSUME NEW w \in Workers, Take(w)
      PROVE  StartShape'
  <2>1. Launched /\ Launched'
    BY <1>7 DEF Take, WorkerLocations
  <2>2. ASSUME NEW v \in Workers, wpc'[v] = "done" PROVE FALSE
    BY <1>7, <2>2 DEF Take
  <2> QED
    BY <1>7, <2>1, <2>2 DEF Take
<1>8. ASSUME NEW w \in Workers, SendOK(w)
      PROVE  StartShape'
  BY <1>8 DEF SendOK
<1>9. ASSUME NEW w \in Workers, SendHangs(w)
      PROVE  StartShape'
  BY <1>9 DEF SendHangs
<1>10. ASSUME NEW w \in Workers, SendFails(w)
       PROVE  StartShape'
  BY <1>10 DEF SendFails
<1>11. ASSUME NEW w \in Workers, Exit(w)
       PROVE  StartShape'
  BY <1>11 DEF Exit
<1>12. CASE ReadError
  BY <1>12 DEF ReadError
<1>13. ASSUME NEW s \in Stoppers, StopCall(s)
       PROVE  StartShape'
  BY <1>13 DEF StopCall
<1>14. ASSUME NEW s \in Stoppers, LockCalled(s)
       PROVE  StartShape'
  BY <1>14 DEF LockCalled
<1>15. ASSUME NEW s \in Stoppers, MarkStopped(s)
       PROVE  StartShape'
  BY <1>15 DEF MarkStopped
<1>16. ASSUME NEW s \in Stoppers, CancelAll(s)
       PROVE  StartShape'
  BY <1>16 DEF CancelAll
<1>17. ASSUME NEW s \in Stoppers, AllDone(s)
       PROVE  StartShape'
  BY <1>17 DEF AllDone
<1>18. ASSUME NEW s \in Stoppers, OnceReturns(s)
       PROVE  StartShape'
  BY <1>18 DEF OnceReturns
<1>19. CASE UNCHANGED vars
  BY <1>19 DEF vars
<1> QED
  BY <1>1, <1>2, <1>3, <1>4, <1>5, <1>6, <1>7, <1>8, <1>9, <1>10, <1>11, <1>12, <1>13,
     <1>14, <1>15, <1>16, <1>17, <1>18, <1>19
     DEF Next, Producer, Worker, Stopper

\* What Start adds is invariant.
LEMMA StartInvariant == ASSUME StartFirst PROVE Spec => []StartShape
<1>1. IInv /\ StartShape /\ [Next]_vars => StartShape'
  BY StartStep
<1> QED
  BY <1>1, StartInit, InductiveInvariant, PTL DEF Spec

\* "Send is safe for concurrent use and never panics, including after Stop": with
\* Start called first, no goroutine sends on or closes a closed channel.
THEOREM NeverPanics == ASSUME StartFirst PROVE Spec => []NoPanic
<1>1. StartShape => NoPanic
  BY DEF StartShape, NoPanic
<1> QED
  BY <1>1, StartInvariant, PTL

\* A graceful Stop aborts no send, and leaves no accepted email without an answer.
THEOREM StopIsGraceful == ASSUME StartFirst PROVE Spec => []GracefulStop
<1>1. IInv /\ StartShape => GracefulStop
  <2> SUFFICES ASSUME IInv, StartShape, mode = "Stop"
               PROVE  /\ cancelled => \A w \in Workers : wpc[w] \in {"off", "done"}
                      /\ once = "done" => accepted = sent \cup failed
    BY DEF GracefulStop
  <2>1. cancelled => \A w \in Workers : wpc[w] \in {"off", "done"}
    BY DEF IInv, StopShape, StartShape
  <2>2. ASSUME once = "done" PROVE accepted = sent \cup failed
    <3>1. \A w \in Workers : wpc[w] = "done"
      BY <2>2 DEF StartShape
    <3>2. queue = <<>>
      BY <2>2, <3>1 DEF StartShape, Launched
    <3>3. InFlight = {}
      BY <3>1 DEF IInv, HoldShape, Holding, InFlight
    <3> QED
      BY <3>2, <3>3 DEF IInv, Custody, ToSet
  <2> QED
    BY <2>1, <2>2
<1> QED
  BY <1>1, StartInvariant, InductiveInvariant, PTL
=============================================================================
