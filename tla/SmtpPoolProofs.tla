--------------------------- MODULE SmtpPoolProofs ---------------------------
(***************************************************************************)
(* Proofs about SmtpPool, for every set of goroutines and connections and  *)
(* every configuration: its invariants, what a step may not do, and that   *)
(* it implements ConnectionLease (the last part).                          *)
(***************************************************************************)
EXTENDS SmtpPool, SequenceLemmas, FiniteSetTheorems

-----------------------------------------------------------------------------
(* What the sequence operators of the model return *)

\* A prefix of a sequence has the length asked for and the same elements.
LEMMA PrefixProperties ==
    ASSUME NEW S, NEW s \in Seq(S), NEW n \in 0..Len(s)
    PROVE  /\ SubSeq(s, 1, n) \in Seq(S)
           /\ Len(SubSeq(s, 1, n)) = n
           /\ \A j \in 1..n : SubSeq(s, 1, n)[j] = s[j]
<1>1. SubSeq(s, 1, n) \in Seq(S)
  OBVIOUS
<1>2. Len(SubSeq(s, 1, n)) = n
  OBVIOUS
<1>3. \A j \in 1..n : SubSeq(s, 1, n)[j] = s[j]
  OBVIOUS
<1> QED
  BY <1>1, <1>2, <1>3

\* Removing one element of a sequence leaves the others in their order.
LEMMA RemoveAtProperties ==
    ASSUME NEW S, NEW s \in Seq(S), NEW i \in 1..Len(s)
    PROVE  /\ RemoveAt(s, i) \in Seq(S)
           /\ Len(RemoveAt(s, i)) = Len(s) - 1
           /\ \A j \in 1..(Len(s) - 1) :
                RemoveAt(s, i)[j] = IF j < i THEN s[j] ELSE s[j + 1]
<1> DEFINE a == SubSeq(s, 1, i - 1)
           b == SubSeq(s, i + 1, Len(s))
<1>1. a \in Seq(S) /\ Len(a) = i - 1 /\ \A j \in 1..(i - 1) : a[j] = s[j]
  <2>1. i - 1 \in 0..Len(s)
    OBVIOUS
  <2> QED
    BY <2>1, PrefixProperties
<1>2. /\ b \in Seq(S)
      /\ Len(b) = Len(s) - i
      /\ \A j \in 1..(Len(s) - i) : b[j] = s[i + j]
  OBVIOUS
<1>3. RemoveAt(s, i) = a \o b
  BY DEF RemoveAt
<1> HIDE DEF a, b
<1>4. /\ a \o b \in Seq(S)
      /\ Len(a \o b) = Len(a) + Len(b)
  <2>1. a \in Seq(S) /\ b \in Seq(S)
    BY <1>1, <1>2
  <2> QED
    BY <2>1, ConcatProperties
<1>5. \A j \in 1..(Len(a) + Len(b)) :
          (a \o b)[j] = IF j <= Len(a) THEN a[j] ELSE b[j - Len(a)]
  BY <1>1, <1>2
<1>6. Len(s) \in Nat /\ i \in Nat /\ Len(a) + Len(b) = Len(s) - 1
  BY <1>1, <1>2
<1>7. ASSUME NEW j \in 1..(Len(s) - 1)
      PROVE  (a \o b)[j] = IF j < i THEN s[j] ELSE s[j + 1]
  <2>1. CASE j < i
    BY <1>1, <1>5, <1>6, <2>1
  <2>2. CASE ~(j < i)
    <3>1. (a \o b)[j] = b[j - (i - 1)] /\ j - (i - 1) \in 1..(Len(s) - i)
      BY <1>1, <1>5, <1>6, <2>2
    <3>2. b[j - (i - 1)] = s[i + (j - (i - 1))]
      BY <1>2, <3>1
    <3> QED
      BY <1>6, <2>2, <3>1, <3>2
  <2> QED
    BY <2>1, <2>2
<1> QED
  BY <1>3, <1>4, <1>6, <1>7

\* The head of a queue and what is left behind it.
LEMMA HeadTail ==
    ASSUME NEW S, NEW s \in Seq(S), s # <<>>
    PROVE  /\ Head(s) \in S /\ Head(s) = s[1]
           /\ Len(s) \in Nat \ {0}
           /\ Tail(s) \in Seq(S)
           /\ Len(Tail(s)) = Len(s) - 1
           /\ \A i \in 1..Len(Tail(s)) : Tail(s)[i] = s[i + 1]
<1>1. Head(s) \in S /\ Head(s) = s[1]
  OBVIOUS
<1>2. Len(s) \in Nat \ {0}
  OBVIOUS
<1> QED
  BY <1>1, <1>2, HeadTailProperties

\* The top of a stack that is not empty is one of its elements, and popping
\* it leaves the elements below.
LEMMA FrontLastProperties ==
    ASSUME NEW S, NEW s \in Seq(S), s # <<>>
    PROVE  /\ Last(s) \in S
           /\ Last(s) = s[Len(s)]
           /\ Len(s) \in Nat \ {0}
           /\ Front(s) \in Seq(S)
           /\ Len(Front(s)) = Len(s) - 1
           /\ \A j \in 1..(Len(s) - 1) : Front(s)[j] = s[j]
<1>1. Len(s) \in Nat \ {0} /\ s[Len(s)] \in S
  OBVIOUS
<1>2. Len(s) - 1 \in 0..Len(s)
  BY <1>1
<1> QED
  BY <1>1, <1>2, PrefixProperties DEF Front, Last

-----------------------------------------------------------------------------
(* Type correctness *)

\* Releasing a slot keeps the three variables it changes in their types.
LEMMA DecOpenType ==
    ASSUME TypeOK, decOpenLocked
    PROVE  /\ open' \in Nat
           /\ waiters' \in Seq(Procs)
           /\ chan' \in [Procs -> Conns \cup {None, Wake}]
<1>1. open' \in Nat
  BY DEF TypeOK, decOpenLocked
<1>2. waiters' \in Seq(Procs)
  <2>1. CASE waiters = <<>>
    BY <2>1 DEF TypeOK, decOpenLocked
  <2>2. CASE waiters # <<>>
    BY SMTT(30), <2>2 DEF TypeOK, decOpenLocked
  <2> QED
    BY <2>1, <2>2
<1>3. chan' \in [Procs -> Conns \cup {None, Wake}]
  BY DEF TypeOK, decOpenLocked
<1> QED
  BY <1>1, <1>2, <1>3

\* The initial state has the types.
LEMMA TypeInit == Init => TypeOK /\ HandShape
<1> SUFFICES ASSUME Init
             PROVE  TypeOK /\ HandShape
  OBVIOUS
<1>1. TypeOK
  BY EmptySeq, FlagAssumption, ProcsAssumption DEF Init, TypeOK, Locations
<1>2. HandShape
  BY DEF Init, HandShape, HoldLocations
<1> QED
  BY <1>1, <1>2

\* Every step keeps the variables in their types; for that, a goroutine about
\* to push or to send its connection must have one (HandShape).
LEMMA TypeStep == TypeOK /\ HandShape /\ [Next]_vars => TypeOK' /\ HandShape'
<1> SUFFICES ASSUME TypeOK, HandShape, [Next]_vars
             PROVE  TypeOK' /\ HandShape'
  OBVIOUS
<1> USE TokenAssumption DEF TypeOK, HandShape, Locations, HoldLocations
<1>1. CASE UNCHANGED vars
  BY <1>1 DEF vars
<1>2. ASSUME NEW p \in Procs, Call(p)
      PROVE  TypeOK' /\ HandShape'
  BY <1>2 DEF Call
<1>3. ASSUME NEW p \in Procs, Cancel(p)
      PROVE  TypeOK' /\ HandShape'
  BY <1>3 DEF Cancel
<1>4. ASSUME NEW p \in Procs, GetClosed(p)
      PROVE  TypeOK' /\ HandShape'
  BY <1>4 DEF GetClosed
<1>5. ASSUME NEW p \in Procs, PopIdle(p)
      PROVE  TypeOK' /\ HandShape'
  BY <1>5, FrontLastProperties DEF PopIdle
<1>6. ASSUME NEW p \in Procs, CheckFails(p)
      PROVE  TypeOK' /\ HandShape'
  BY <1>6, DecOpenType DEF CheckFails
<1>7. ASSUME NEW p \in Procs, CheckPasses(p)
      PROVE  TypeOK' /\ HandShape'
  BY <1>7 DEF CheckPasses
<1>8. ASSUME NEW p \in Procs, GetFull(p)
      PROVE  TypeOK' /\ HandShape'
  BY <1>8 DEF GetFull
<1>9. ASSUME NEW p \in Procs, Enqueue(p)
      PROVE  TypeOK' /\ HandShape'
  BY <1>9 DEF Enqueue
<1>10. ASSUME NEW p \in Procs, TakeSlot(p)
       PROVE  TypeOK' /\ HandShape'
  BY <1>10 DEF TakeSlot
<1>11. ASSUME NEW p \in Procs, DialFails(p)
       PROVE  TypeOK' /\ HandShape'
  BY <1>11, DecOpenType DEF DialFails
<1>12. ASSUME NEW p \in Procs, DialSucceeds(p)
       PROVE  TypeOK' /\ HandShape'
  BY <1>12 DEF DialSucceeds, Fresh
<1>13. ASSUME NEW p \in Procs, Receive(p)
       PROVE  TypeOK' /\ HandShape'
  BY SMTT(30), <1>13 DEF Receive
<1>14. ASSUME NEW p \in Procs, LeaveQueue(p)
       PROVE  TypeOK' /\ HandShape'
  BY SMTT(30), <1>14, RemoveAtProperties DEF LeaveQueue
<1>15. ASSUME NEW p \in Procs, AlreadyDequeued(p)
       PROVE  TypeOK' /\ HandShape'
  BY <1>15 DEF AlreadyDequeued
<1>16. ASSUME NEW p \in Procs, Drain(p)
       PROVE  TypeOK' /\ HandShape'
  BY SMTT(30), <1>16 DEF Drain
<1>17. ASSUME NEW p \in Procs, PutTake(p)
       PROVE  TypeOK' /\ HandShape'
  BY <1>17 DEF PutTake
<1>18. ASSUME NEW p \in Procs, PutDiscard(p)
       PROVE  TypeOK' /\ HandShape'
  BY <1>18, DecOpenType DEF PutDiscard
<1>19. ASSUME NEW p \in Procs, PutClosed(p)
       PROVE  TypeOK' /\ HandShape'
  BY <1>19, DecOpenType DEF PutClosed
<1>20. ASSUME NEW p \in Procs, PutWaiter(p)
       PROVE  TypeOK' /\ HandShape'
  BY <1>20 DEF PutWaiter
<1>21. ASSUME NEW p \in Procs, Handoff(p)
       PROVE  TypeOK' /\ HandShape'
  BY <1>21 DEF Handoff
<1>22. ASSUME NEW p \in Procs, PutExcess(p)
       PROVE  TypeOK' /\ HandShape'
  BY <1>22, DecOpenType DEF PutExcess
<1>23. ASSUME NEW p \in Procs, PutIdle(p)
       PROVE  TypeOK' /\ HandShape'
  BY <1>23 DEF PutIdle
<1>24. ASSUME NEW p \in Procs, PutQuit(p)
       PROVE  TypeOK' /\ HandShape'
  BY <1>24 DEF PutQuit
<1>25. CASE Close
  BY <1>25 DEF Close, ToSet
<1>26. ASSUME NEW c \in Conns, CloseQuit(c)
       PROVE  TypeOK' /\ HandShape'
  BY <1>26 DEF CloseQuit
<1> QED
  BY <1>1, <1>2, <1>3, <1>4, <1>5, <1>6, <1>7, <1>8, <1>9, <1>10, <1>11,
     <1>12, <1>13, <1>14, <1>15, <1>16, <1>17, <1>18, <1>19, <1>20, <1>21,
     <1>22, <1>23, <1>24, <1>25, <1>26
     DEF Next, Progress

\* The variables of the pool keep their types, whatever its configuration.
THEOREM TypeCorrect == Spec => []TypeOK
<1>1. TypeOK /\ HandShape /\ [Next]_vars => TypeOK' /\ HandShape'
  BY TypeStep
<1> QED
  BY TypeInit, <1>1, PTL DEF Spec

-----------------------------------------------------------------------------
(* The queue of waiters and their channels *)

\* Releasing a slot wakes a waiter whose channel is empty and leaves the queue
\* well formed, whatever location the releasing goroutine goes to, as long as
\* it does not start to wait there.
LEMMA DecOpenQueue ==
    ASSUME TypeOK, HandShape, WaitShape, SendNeverBlocks, decOpenLocked,
           NEW p \in Procs, pc[p] \in SlotLocations,
           NEW l \in Locations, pc' = [pc EXCEPT ![p] = l],
           to' = to
    PROVE  WaitShape' /\ SendNeverBlocks'
<1> USE TokenAssumption
    DEF TypeOK, WaitShape, SendNeverBlocks, WaitLocations, SlotLocations
<1>1. CASE waiters = <<>>
  BY <1>1 DEF decOpenLocked
<1>2. CASE waiters # <<>>
  <2> DEFINE h == Head(waiters)
  <2>1. /\ h \in Procs /\ h = waiters[1]
        /\ Len(waiters) \in Nat \ {0}
        /\ Len(waiters') = Len(waiters) - 1
        /\ \A i \in 1..Len(waiters') : waiters'[i] = waiters[i + 1]
    <3>1. waiters \in Seq(Procs) /\ waiters' = Tail(waiters)
      BY <1>2 DEF decOpenLocked
    <3> QED
      BY <1>2, <3>1, HeadTail
  <2>2. chan' = [chan EXCEPT ![h] = Wake]
    BY <1>2 DEF decOpenLocked
  <2> HIDE DEF h
  <2>3. WaitShape'
    BY SMTT(60), <2>1, <2>2
  <2>4. SendNeverBlocks'
    BY SMTT(30), <2>1, <2>2
  <2> QED
    BY <2>3, <2>4
<1> QED
  BY <1>1, <1>2

\* The queue stays well formed when a goroutine that does not wait moves on.
LEMMA FrameQueue ==
    ASSUME TypeOK, WaitShape, SendNeverBlocks,
           NEW p \in Procs, pc[p] \notin WaitLocations,
           NEW l \in Locations, pc' = [pc EXCEPT ![p] = l],
           waiters' = waiters, chan' = chan, to' = to
    PROVE  WaitShape' /\ SendNeverBlocks'
  BY TokenAssumption DEF TypeOK, WaitShape, SendNeverBlocks, WaitLocations

\* It stays well formed when a goroutine empties its own full channel and moves
\* on: nobody is going to send to that channel, and it is not queued.
LEMMA EmptyQueue ==
    ASSUME TypeOK, WaitShape, SendNeverBlocks,
           NEW p \in Procs, chan[p] # None, chan' = [chan EXCEPT ![p] = None],
           NEW l \in Locations, pc' = [pc EXCEPT ![p] = l],
           waiters' = waiters, to' = to
    PROVE  WaitShape' /\ SendNeverBlocks'
<1>1. \A i \in 1..Len(waiters) : waiters[i] \in Procs /\ waiters[i] # p
  BY DEF TypeOK, SendNeverBlocks
<1>2. \A q \in Procs : to[q] \in Procs \cup {None} /\ to[q] # p
  BY TokenAssumption DEF TypeOK, SendNeverBlocks
<1>3. \A q \in Procs : q # p => pc'[q] = pc[q] /\ chan'[q] = chan[q]
  BY DEF TypeOK
<1>4. chan'[p] = None
  BY DEF TypeOK
<1>5. WaitShape'
  BY <1>1, <1>2, <1>3, <1>4 DEF WaitShape
<1>6. SendNeverBlocks'
  BY <1>1, <1>2, <1>3 DEF SendNeverBlocks
<1> QED
  BY <1>5, <1>6

\* Every step keeps the queue well formed and every channel that will be sent
\* to empty.
LEMMA QueueStep ==
    ASSUME TypeOK, HandShape, WaitShape, SendNeverBlocks, [Next]_vars
    PROVE  WaitShape' /\ SendNeverBlocks'
<1> USE TokenAssumption
    DEF TypeOK, HandShape, WaitShape, SendNeverBlocks, WaitLocations
<1>1. CASE UNCHANGED vars
  BY <1>1 DEF vars
<1>2. ASSUME NEW p \in Procs, Call(p)
      PROVE  WaitShape' /\ SendNeverBlocks'
  BY <1>2 DEF Call
<1>3. ASSUME NEW p \in Procs, Cancel(p)
      PROVE  WaitShape' /\ SendNeverBlocks'
  BY <1>3 DEF Cancel
<1>4. ASSUME NEW p \in Procs, GetClosed(p)
      PROVE  WaitShape' /\ SendNeverBlocks'
  BY <1>4 DEF GetClosed
<1>5. ASSUME NEW p \in Procs, PopIdle(p)
      PROVE  WaitShape' /\ SendNeverBlocks'
  BY <1>5, FrameQueue DEF PopIdle, Locations
<1>6. ASSUME NEW p \in Procs, CheckFails(p)
      PROVE  WaitShape' /\ SendNeverBlocks'
  BY <1>6, DecOpenQueue DEF CheckFails, SlotLocations, Locations
<1>7. ASSUME NEW p \in Procs, CheckPasses(p)
      PROVE  WaitShape' /\ SendNeverBlocks'
  BY <1>7 DEF CheckPasses
<1>8. ASSUME NEW p \in Procs, GetFull(p)
      PROVE  WaitShape' /\ SendNeverBlocks'
  BY <1>8 DEF GetFull
<1>9. ASSUME NEW p \in Procs, Enqueue(p)
      PROVE  WaitShape' /\ SendNeverBlocks'
  BY SMTT(30), <1>9 DEF Enqueue
<1>10. ASSUME NEW p \in Procs, TakeSlot(p)
       PROVE  WaitShape' /\ SendNeverBlocks'
  BY <1>10 DEF TakeSlot
<1>11. ASSUME NEW p \in Procs, DialFails(p)
       PROVE  WaitShape' /\ SendNeverBlocks'
  BY <1>11, DecOpenQueue DEF DialFails, SlotLocations, Locations
<1>12. ASSUME NEW p \in Procs, DialSucceeds(p)
       PROVE  WaitShape' /\ SendNeverBlocks'
  BY <1>12, FrameQueue DEF DialSucceeds, Locations
<1>13. ASSUME NEW p \in Procs, Receive(p)
       PROVE  WaitShape' /\ SendNeverBlocks'
  BY <1>13, EmptyQueue DEF Receive, Locations
<1>14. ASSUME NEW p \in Procs, LeaveQueue(p)
       PROVE  WaitShape' /\ SendNeverBlocks'
  <2>1. PICK i \in 1..Len(waiters) : /\ waiters[i] = p
                                     /\ waiters' = RemoveAt(waiters, i)
    BY <1>14 DEF LeaveQueue
  <2>2. /\ Len(waiters') = Len(waiters) - 1
        /\ \A j \in 1..(Len(waiters) - 1) :
                waiters'[j] = IF j < i THEN waiters[j] ELSE waiters[j + 1]
    <3>1. waiters \in Seq(Procs)
      OBVIOUS
    <3> HIDE DEF TypeOK, HandShape, WaitShape, SendNeverBlocks
    <3> QED
      BY <2>1, <3>1, RemoveAtProperties
  <2> DEFINE at(j) == IF j < i THEN j ELSE j + 1
  <2>3. ASSUME NEW j \in 1..Len(waiters')
        PROVE  /\ at(j) \in 1..Len(waiters) /\ at(j) # i
               /\ waiters'[j] = waiters[at(j)]
    <3>1. Len(waiters) \in Nat
      BY LenProperties
    <3> HIDE DEF TypeOK, HandShape, WaitShape, SendNeverBlocks
    <3> QED
      BY <2>2, <3>1
  <2>4. ASSUME NEW j \in 1..Len(waiters'), NEW k \in 1..Len(waiters'), j # k
        PROVE  waiters'[j] # waiters'[k]
    <3>1. at(j) # at(k)
      BY <2>4
    <3>2. waiters[at(j)] # waiters[at(k)]
      <4> HIDE DEF at
      <4> QED
        BY <2>3, <3>1 DEF SendNeverBlocks
    <3> QED
      BY <2>3, <3>2
  <2>5. /\ pc[p] = "cancelled" /\ pc' = [pc EXCEPT ![p] = "out"]
        /\ chan' = chan /\ to' = to
    BY <1>14 DEF LeaveQueue
  <2>6. ASSUME NEW j \in 1..Len(waiters')
        PROVE  waiters'[j] # p
    <3>1. PICK k \in 1..Len(waiters) : k # i /\ waiters'[j] = waiters[k]
      BY <2>3
    <3>2. waiters[k] # waiters[i]
      BY <3>1
    <3> QED
      BY <2>1, <3>1, <3>2
  <2> HIDE DEF at
  <2>7. WaitShape'
    BY SMTT(60), <2>1, <2>3, <2>5, <2>6
  <2>8. SendNeverBlocks'
    BY <2>1, <2>3, <2>4, <2>5
  <2> QED
    BY <2>7, <2>8
<1>15. ASSUME NEW p \in Procs, AlreadyDequeued(p)
       PROVE  WaitShape' /\ SendNeverBlocks'
  <2>1. /\ pc[p] = "cancelled" /\ pc' = [pc EXCEPT ![p] = "drain"]
        /\ \A i \in 1..Len(waiters) : waiters[i] # p
        /\ waiters' = waiters /\ chan' = chan /\ to' = to
    BY <1>15 DEF AlreadyDequeued
  <2>2. WaitShape'
    BY <2>1
  <2>3. SendNeverBlocks'
    BY <2>1
  <2> QED
    BY <2>2, <2>3
<1>16. ASSUME NEW p \in Procs, Drain(p)
       PROVE  WaitShape' /\ SendNeverBlocks'
  BY <1>16, EmptyQueue DEF Drain, Locations
<1>17. ASSUME NEW p \in Procs, PutTake(p)
       PROVE  WaitShape' /\ SendNeverBlocks'
  BY <1>17 DEF PutTake
<1>18. ASSUME NEW p \in Procs, PutDiscard(p)
       PROVE  WaitShape' /\ SendNeverBlocks'
  BY <1>18, DecOpenQueue DEF PutDiscard, SlotLocations, Locations
<1>19. ASSUME NEW p \in Procs, PutClosed(p)
       PROVE  WaitShape' /\ SendNeverBlocks'
  BY <1>19, DecOpenQueue DEF PutClosed, SlotLocations, Locations
<1>20. ASSUME NEW p \in Procs, PutWaiter(p)
       PROVE  WaitShape' /\ SendNeverBlocks'
  BY <1>20 DEF PutWaiter
<1>21. ASSUME NEW p \in Procs, Handoff(p)
       PROVE  WaitShape' /\ SendNeverBlocks'
  BY <1>21 DEF Handoff
<1>22. ASSUME NEW p \in Procs, PutExcess(p)
       PROVE  WaitShape' /\ SendNeverBlocks'
  BY <1>22, DecOpenQueue DEF PutExcess, SlotLocations, Locations
<1>23. ASSUME NEW p \in Procs, PutIdle(p)
       PROVE  WaitShape' /\ SendNeverBlocks'
  BY <1>23 DEF PutIdle
<1>24. ASSUME NEW p \in Procs, PutQuit(p)
       PROVE  WaitShape' /\ SendNeverBlocks'
  BY <1>24, FrameQueue DEF PutQuit, Locations
<1>25. CASE Close
  <2>1. /\ waiters' = <<>> /\ pc' = pc /\ to' = to
        /\ chan' = [p \in Procs |-> IF \E i \in 1..Len(waiters) : waiters[i] = p
                                    THEN Wake ELSE chan[p]]
    BY <1>25 DEF Close
  <2>2. WaitShape'
    BY <2>1
  <2>3. SendNeverBlocks'
    BY <2>1
  <2> QED
    BY <2>2, <2>3
<1>26. ASSUME NEW c \in Conns, CloseQuit(c)
       PROVE  WaitShape' /\ SendNeverBlocks'
  BY <1>26 DEF CloseQuit
<1> QED
  BY <1>1, <1>2, <1>3, <1>4, <1>5, <1>6, <1>7, <1>8, <1>9, <1>10, <1>11, <1>12, <1>13, <1>14, <1>15, <1>16, <1>17, <1>18, <1>19, <1>20, <1>21, <1>22, <1>23, <1>24, <1>25, <1>26
     DEF Next, Progress

-----------------------------------------------------------------------------
(* The accounting of p.open *)

\* Busy is finite, so that the goroutines entering and leaving it can be counted.
LEMMA BusyFinite == IsFiniteSet(Busy) /\ Cardinality(Busy) \in Nat
<1>1. IsFiniteSet(Busy)
  BY FS_Subset, ProcsAssumption DEF Busy
<1> QED
  BY <1>1, FS_CardinalityType

\* One goroutine more is counted.
LEMMA BusyEnter ==
    ASSUME NEW p, p \notin Busy, Busy' = Busy \cup {p}
    PROVE  Cardinality(Busy') = Cardinality(Busy) + 1 /\ Cardinality(Busy) \in Nat
  BY BusyFinite, FS_AddElement

\* One goroutine fewer is counted.
LEMMA BusyLeave ==
    ASSUME NEW p, p \in Busy, Busy' = Busy \ {p}
    PROVE  /\ Cardinality(Busy') = Cardinality(Busy) - 1
           /\ Cardinality(Busy) \in Nat
           /\ Cardinality(Busy') \in Nat
<1>1. IsFiniteSet(Busy \ {p}) /\ Cardinality(Busy \ {p}) = Cardinality(Busy) - 1
  BY BusyFinite, FS_RemoveElement
<1> QED
  BY <1>1, BusyFinite, FS_CardinalityType

\* A goroutine that releases its slot is counted until then and not after, and
\* the floor at zero is not reached.
LEMMA DecOpenAccounting ==
    ASSUME TypeOK, HandShape, WaitShape, SendNeverBlocks, Accounting, decOpenLocked,
           NEW p \in Procs, pc[p] \in SlotLocations,
           NEW l \in Locations \ SlotLocations, pc' = [pc EXCEPT ![p] = l],
           idle' = idle
    PROVE  Accounting'
<1>1. p \in Busy /\ p \notin Busy'
  <2>1. chan'[p] \notin Conns
    <3>1. chan[p] = None
      BY DEF WaitShape, WaitLocations, SlotLocations
    <3>2. CASE waiters = <<>>
      BY <3>1, <3>2, TokenAssumption DEF decOpenLocked
    <3>3. CASE waiters # <<>>
      BY <3>1, <3>3, TokenAssumption DEF decOpenLocked, TypeOK
    <3> QED
      BY <3>2, <3>3
  <2> QED
    BY <2>1 DEF Busy, TypeOK
<1>2. ASSUME NEW q \in Procs, q # p
      PROVE  q \in Busy <=> q \in Busy'
  <2>1. pc'[q] = pc[q]
    BY <1>2 DEF TypeOK
  <2>2. chan[q] \in Conns <=> chan'[q] \in Conns
    <3>1. CASE waiters = <<>>
      BY <3>1 DEF decOpenLocked
    <3>2. CASE waiters # <<>>
      <4>1. Head(waiters) = waiters[1] /\ 1 \in 1..Len(waiters)
        BY <3>2, HeadTail DEF TypeOK
      <4>2. chan[Head(waiters)] = None
        BY <4>1 DEF SendNeverBlocks
      <4> QED
        BY <3>2, <4>2, TokenAssumption DEF decOpenLocked, TypeOK
    <3> QED
      BY <3>1, <3>2
  <2> QED
    BY <2>1, <2>2 DEF Busy
<1>3. Busy' = Busy \ {p}
  BY <1>1, <1>2 DEF Busy
<1>4. Len(idle) \in Nat
  BY DEF TypeOK
<1>5. /\ Cardinality(Busy') = Cardinality(Busy) - 1
      /\ Cardinality(Busy) \in Nat
      /\ Cardinality(Busy') \in Nat
  BY <1>1, <1>3, BusyLeave
<1>6. open' = IF open > 0 THEN open - 1 ELSE 0
  BY DEF decOpenLocked
<1> QED
  BY <1>4, <1>5, <1>6 DEF Accounting

\* No step loses or forges a slot.
LEMMA AccountingStep ==
    ASSUME IInv, [Next]_vars
    PROVE  Accounting'
<1> USE TokenAssumption DEF IInv
<1> DEFINE Same == Busy' = Busy /\ open' = open /\ Len(idle') = Len(idle)
<1>1. Same => Accounting'
  BY DEF Accounting
<1>2. CASE UNCHANGED vars
  BY <1>1, <1>2 DEF vars, Busy
<1>3. ASSUME NEW p \in Procs, Call(p)
      PROVE  Accounting'
  <2>1. Busy' = Busy
    BY <1>3 DEF Call, Busy, TypeOK, SlotLocations, WaitShape, WaitLocations
  <2> QED
    BY <1>3, <1>1, <2>1 DEF Call
<1>4. ASSUME NEW p \in Procs, Cancel(p)
      PROVE  Accounting'
  <2>1. Busy' = Busy
    BY <1>4 DEF Cancel, Busy, TypeOK, SlotLocations, WaitShape, WaitLocations
  <2> QED
    BY <1>4, <1>1, <2>1 DEF Cancel
<1>5. ASSUME NEW p \in Procs, GetClosed(p)
      PROVE  Accounting'
  <2>1. Busy' = Busy
    BY <1>5 DEF GetClosed, Busy, TypeOK, SlotLocations, WaitShape, WaitLocations
  <2> QED
    BY <1>5, <1>1, <2>1 DEF GetClosed
<1>6. ASSUME NEW p \in Procs, PopIdle(p)
      PROVE  Accounting'
  <2>1. p \notin Busy /\ Busy' = Busy \cup {p}
    BY SMTT(60), <1>6 DEF PopIdle, Busy, TypeOK, SlotLocations, WaitShape, WaitLocations
  <2>2. Len(idle) \in Nat \ {0} /\ Len(idle') = Len(idle) - 1
    BY <1>6, FrontLastProperties DEF PopIdle, TypeOK
  <2>3. Cardinality(Busy') = Cardinality(Busy) + 1 /\ Cardinality(Busy) \in Nat
    BY <2>1, BusyEnter
  <2>4. open' = open
    BY <1>6 DEF PopIdle
  <2> QED
    BY <2>2, <2>3, <2>4 DEF Accounting
<1>7. ASSUME NEW p \in Procs, CheckFails(p)
      PROVE  Accounting'
  BY <1>7, DecOpenAccounting DEF CheckFails, SlotLocations, Locations
<1>8. ASSUME NEW p \in Procs, CheckPasses(p)
      PROVE  Accounting'
  <2>1. Busy' = Busy
    BY <1>8 DEF CheckPasses, Busy, TypeOK, SlotLocations, WaitShape, WaitLocations
  <2> QED
    BY <1>8, <1>1, <2>1 DEF CheckPasses
<1>9. ASSUME NEW p \in Procs, GetFull(p)
      PROVE  Accounting'
  <2>1. Busy' = Busy
    BY <1>9 DEF GetFull, Busy, TypeOK, SlotLocations, WaitShape, WaitLocations
  <2> QED
    BY <1>9, <1>1, <2>1 DEF GetFull
<1>10. ASSUME NEW p \in Procs, Enqueue(p)
       PROVE  Accounting'
  <2>1. Busy' = Busy
    BY <1>10 DEF Enqueue, Busy, TypeOK, SlotLocations, WaitShape, WaitLocations
  <2> QED
    BY <1>10, <1>1, <2>1 DEF Enqueue
<1>11. ASSUME NEW p \in Procs, TakeSlot(p)
       PROVE  Accounting'
  <2>1. p \notin Busy /\ Busy' = Busy \cup {p}
    BY <1>11 DEF TakeSlot, Busy, TypeOK, SlotLocations, WaitShape, WaitLocations
  <2>2. Len(idle) \in Nat
    BY DEF TypeOK
  <2>3. Cardinality(Busy') = Cardinality(Busy) + 1 /\ Cardinality(Busy) \in Nat
    BY <2>1, BusyEnter
  <2>4. open' = open + 1 /\ idle' = idle
    BY <1>11 DEF TakeSlot
  <2> QED
    BY <2>2, <2>3, <2>4 DEF Accounting
<1>12. ASSUME NEW p \in Procs, DialFails(p)
       PROVE  Accounting'
  BY <1>12, DecOpenAccounting DEF DialFails, SlotLocations, Locations
<1>13. ASSUME NEW p \in Procs, DialSucceeds(p)
       PROVE  Accounting'
  <2>1. Busy' = Busy
    BY <1>13 DEF DialSucceeds, Busy, TypeOK, SlotLocations, WaitShape, WaitLocations
  <2> QED
    BY <1>13, <1>1, <2>1 DEF DialSucceeds
<1>14. ASSUME NEW p \in Procs, Receive(p)
       PROVE  Accounting'
  <2>1. Busy' = Busy
    BY <1>14 DEF Receive, Busy, TypeOK, SlotLocations, WaitShape, WaitLocations
  <2> QED
    BY <1>14, <1>1, <2>1 DEF Receive
<1>15. ASSUME NEW p \in Procs, LeaveQueue(p)
       PROVE  Accounting'
  <2>1. Busy' = Busy
    BY <1>15 DEF LeaveQueue, Busy, TypeOK, SlotLocations, WaitShape, WaitLocations
  <2> QED
    BY <1>15, <1>1, <2>1 DEF LeaveQueue
<1>16. ASSUME NEW p \in Procs, AlreadyDequeued(p)
       PROVE  Accounting'
  <2>1. Busy' = Busy
    BY <1>16 DEF AlreadyDequeued, Busy, TypeOK, SlotLocations, WaitShape, WaitLocations
  <2> QED
    BY <1>16, <1>1, <2>1 DEF AlreadyDequeued
<1>17. ASSUME NEW p \in Procs, Drain(p)
       PROVE  Accounting'
  <2>1. Busy' = Busy
    BY <1>17 DEF Drain, Busy, TypeOK, SlotLocations, WaitShape, WaitLocations
  <2> QED
    BY <1>17, <1>1, <2>1 DEF Drain
<1>18. ASSUME NEW p \in Procs, PutTake(p)
       PROVE  Accounting'
  <2>1. Busy' = Busy
    BY <1>18 DEF PutTake, Busy, TypeOK, SlotLocations, WaitShape, WaitLocations
  <2> QED
    BY <1>18, <1>1, <2>1 DEF PutTake
<1>19. ASSUME NEW p \in Procs, PutDiscard(p)
       PROVE  Accounting'
  BY <1>19, DecOpenAccounting DEF PutDiscard, SlotLocations, Locations
<1>20. ASSUME NEW p \in Procs, PutClosed(p)
       PROVE  Accounting'
  BY <1>20, DecOpenAccounting DEF PutClosed, SlotLocations, Locations
<1>21. ASSUME NEW p \in Procs, PutWaiter(p)
       PROVE  Accounting'
  <2>1. Busy' = Busy
    BY <1>21 DEF PutWaiter, Busy, TypeOK, SlotLocations, WaitShape, WaitLocations
  <2> QED
    BY <1>21, <1>1, <2>1 DEF PutWaiter
<1>22. ASSUME NEW p \in Procs, Handoff(p)
       PROVE  Accounting'
  <2>1. /\ p \in Busy /\ to[p] \in Procs /\ to[p] # p
        /\ to[p] \notin Busy
        /\ held[p] \in Conns
    BY SMTT(60), <1>22 DEF Handoff, Busy, TypeOK, SlotLocations, WaitShape, WaitLocations,
                 HandShape, HoldLocations, SendNeverBlocks
  <2>2. Busy' = (Busy \ {p}) \cup {to[p]}
    BY <1>22, <2>1 DEF Handoff, Busy, TypeOK, SlotLocations, WaitShape, WaitLocations
  <2>3. /\ IsFiniteSet(Busy \ {p}) /\ to[p] \notin Busy \ {p}
        /\ Cardinality(Busy \ {p}) = Cardinality(Busy) - 1
    BY <2>1, BusyFinite, FS_RemoveElement
  <2>4. Cardinality(Busy') = Cardinality(Busy)
    <3>1. Cardinality(Busy') = Cardinality(Busy \ {p}) + 1
      BY <2>2, <2>3, FS_AddElement
    <3> QED
      BY <2>3, <3>1, BusyFinite
  <2> QED
    BY <1>22, <2>4 DEF Handoff, Accounting
<1>23. ASSUME NEW p \in Procs, PutExcess(p)
       PROVE  Accounting'
  BY <1>23, DecOpenAccounting DEF PutExcess, SlotLocations, Locations
<1>24. ASSUME NEW p \in Procs, PutIdle(p)
       PROVE  Accounting'
  <2>1. p \in Busy /\ Busy' = Busy \ {p}
    BY SMTT(60), <1>24 DEF PutIdle, Busy, TypeOK, SlotLocations, WaitShape, WaitLocations
  <2>2. held[p] \in Conns
    BY <1>24 DEF PutIdle, HandShape, HoldLocations, TypeOK
  <2>3. Len(idle) \in Nat /\ Len(idle') = Len(idle) + 1
    BY <1>24, <2>2 DEF PutIdle, TypeOK
  <2>4. Cardinality(Busy') = Cardinality(Busy) - 1 /\ Cardinality(Busy) \in Nat
    BY <2>1, BusyLeave
  <2>5. open' = open
    BY <1>24 DEF PutIdle
  <2> QED
    BY <2>3, <2>4, <2>5 DEF Accounting
<1>25. ASSUME NEW p \in Procs, PutQuit(p)
       PROVE  Accounting'
  <2>1. Busy' = Busy
    BY <1>25 DEF PutQuit, Busy, TypeOK, SlotLocations, WaitShape, WaitLocations
  <2> QED
    BY <1>25, <1>1, <2>1 DEF PutQuit
<1>26. CASE Close
  <2>1. \A p \in Procs : chan'[p] \in Conns <=> chan[p] \in Conns
    BY <1>26 DEF Close, SendNeverBlocks, TypeOK
  <2>2. Busy' = Busy
    BY <1>26, <2>1 DEF Close, Busy
  <2>3. Len(idle) \in Nat /\ Len(idle') = 0
    BY <1>26 DEF Close, TypeOK
  <2> QED
    BY <1>26, <2>2, <2>3, BusyFinite DEF Close, Accounting
<1>27. ASSUME NEW c \in Conns, CloseQuit(c)
       PROVE  Accounting'
  BY <1>1, <1>27 DEF CloseQuit, Busy
<1> QED
  BY <1>2, <1>3, <1>4, <1>5, <1>6, <1>7, <1>8, <1>9, <1>10, <1>11, <1>12, <1>13, <1>14, <1>15, <1>16, <1>17, <1>18, <1>19, <1>20, <1>21, <1>22, <1>23, <1>24, <1>25, <1>26, <1>27
     DEF Next, Progress

\* The inductive invariant holds in every reachable state.
THEOREM InductiveInvariant == Spec => []IInv
<1>1. Init => IInv
  <2> SUFFICES ASSUME Init
               PROVE  IInv
    OBVIOUS
  <2>1. TypeOK /\ HandShape
    BY TypeInit
  <2>2. WaitShape /\ SendNeverBlocks
    BY TokenAssumption DEF Init, WaitShape, SendNeverBlocks
  <2>3. Busy = {}
    BY TokenAssumption DEF Init, Busy, SlotLocations
  <2>4. Accounting
    BY <2>3, FS_EmptySet DEF Init, Accounting
  <2> QED
    BY <2>1, <2>2, <2>4 DEF IInv
<1>2. IInv /\ [Next]_vars => IInv'
  BY TypeStep, QueueStep, AccountingStep DEF IInv
<1> QED
  BY <1>1, <1>2, PTL DEF Spec

\* p.open counts every connection from its slot to its close, on every path:
\* no cancellation, fault or Close leaks a slot or releases one twice.
THEOREM AccountingHolds == Spec => []Accounting
<1>1. IInv => Accounting
  BY DEF IInv
<1> QED
  BY InductiveInvariant, <1>1, PTL

\* No send of nil under p.mu, and no hand-over, ever finds a full channel.
THEOREM SendsNeverBlock == Spec => []SendNeverBlocks
<1>1. IInv => SendNeverBlocks
  BY DEF IInv
<1> QED
  BY InductiveInvariant, <1>1, PTL

-----------------------------------------------------------------------------
(* The limit on open connections *)

\* The only step that raises p.open looks at the limit in the same critical
\* section.
LEMMA OpenBoundedStep ==
    ASSUME TypeOK, OpenBounded, [Next]_vars
    PROVE  OpenBounded'
<1> USE LimitAssumption DEF TypeOK, OpenBounded
<1>1. CASE UNCHANGED vars
  BY <1>1 DEF vars
<1>2. ASSUME NEW p \in Procs, Call(p)
      PROVE  OpenBounded'
  BY <1>2 DEF Call
<1>3. ASSUME NEW p \in Procs, Cancel(p)
      PROVE  OpenBounded'
  BY <1>3 DEF Cancel
<1>4. ASSUME NEW p \in Procs, GetClosed(p)
      PROVE  OpenBounded'
  BY <1>4 DEF GetClosed
<1>5. ASSUME NEW p \in Procs, PopIdle(p)
      PROVE  OpenBounded'
  BY <1>5 DEF PopIdle
<1>6. ASSUME NEW p \in Procs, CheckFails(p)
      PROVE  OpenBounded'
  BY <1>6 DEF CheckFails, decOpenLocked
<1>7. ASSUME NEW p \in Procs, CheckPasses(p)
      PROVE  OpenBounded'
  BY <1>7 DEF CheckPasses
<1>8. ASSUME NEW p \in Procs, GetFull(p)
      PROVE  OpenBounded'
  BY <1>8 DEF GetFull
<1>9. ASSUME NEW p \in Procs, Enqueue(p)
      PROVE  OpenBounded'
  BY <1>9 DEF Enqueue
<1>10. ASSUME NEW p \in Procs, TakeSlot(p)
       PROVE  OpenBounded'
  BY <1>10 DEF TakeSlot, AtLimit
<1>11. ASSUME NEW p \in Procs, DialFails(p)
       PROVE  OpenBounded'
  BY <1>11 DEF DialFails, decOpenLocked
<1>12. ASSUME NEW p \in Procs, DialSucceeds(p)
       PROVE  OpenBounded'
  BY <1>12 DEF DialSucceeds
<1>13. ASSUME NEW p \in Procs, Receive(p)
       PROVE  OpenBounded'
  BY <1>13 DEF Receive
<1>14. ASSUME NEW p \in Procs, LeaveQueue(p)
       PROVE  OpenBounded'
  BY <1>14 DEF LeaveQueue
<1>15. ASSUME NEW p \in Procs, AlreadyDequeued(p)
       PROVE  OpenBounded'
  BY <1>15 DEF AlreadyDequeued
<1>16. ASSUME NEW p \in Procs, Drain(p)
       PROVE  OpenBounded'
  BY <1>16 DEF Drain
<1>17. ASSUME NEW p \in Procs, PutTake(p)
       PROVE  OpenBounded'
  BY <1>17 DEF PutTake
<1>18. ASSUME NEW p \in Procs, PutDiscard(p)
       PROVE  OpenBounded'
  BY <1>18 DEF PutDiscard, decOpenLocked
<1>19. ASSUME NEW p \in Procs, PutClosed(p)
       PROVE  OpenBounded'
  BY <1>19 DEF PutClosed, decOpenLocked
<1>20. ASSUME NEW p \in Procs, PutWaiter(p)
       PROVE  OpenBounded'
  BY <1>20 DEF PutWaiter
<1>21. ASSUME NEW p \in Procs, Handoff(p)
       PROVE  OpenBounded'
  BY <1>21 DEF Handoff
<1>22. ASSUME NEW p \in Procs, PutExcess(p)
       PROVE  OpenBounded'
  BY <1>22 DEF PutExcess, decOpenLocked
<1>23. ASSUME NEW p \in Procs, PutIdle(p)
       PROVE  OpenBounded'
  BY <1>23 DEF PutIdle
<1>24. ASSUME NEW p \in Procs, PutQuit(p)
       PROVE  OpenBounded'
  BY <1>24 DEF PutQuit
<1>25. CASE Close
  BY <1>25 DEF Close
<1>26. ASSUME NEW c \in Conns, CloseQuit(c)
       PROVE  OpenBounded'
  BY <1>26 DEF CloseQuit
<1> QED
  BY <1>1, <1>2, <1>3, <1>4, <1>5, <1>6, <1>7, <1>8, <1>9, <1>10, <1>11,
     <1>12, <1>13, <1>14, <1>15, <1>16, <1>17, <1>18, <1>19, <1>20, <1>21,
     <1>22, <1>23, <1>24, <1>25, <1>26
     DEF Next, Progress

\* p.open never exceeds PoolConfig.MaxOpen.
THEOREM OpenIsBounded == Spec => []OpenBounded
<1>1. Init => OpenBounded
  BY LimitAssumption DEF Init, OpenBounded
<1> QED
  BY <1>1, OpenBoundedStep, TypeCorrect, PTL DEF Spec

-----------------------------------------------------------------------------
(* Waiting *)

\* Nobody is queued while a connection lies idle or after Close.
LEMMA NoIdleStep ==
    ASSUME TypeOK, NoIdleWhileWaiting, [Next]_vars
    PROVE  NoIdleWhileWaiting'
<1> USE DEF TypeOK, NoIdleWhileWaiting
<1>1. CASE UNCHANGED vars
  BY <1>1 DEF vars
<1>2. ASSUME NEW p \in Procs, Call(p)
      PROVE  NoIdleWhileWaiting'
  BY <1>2 DEF Call
<1>3. ASSUME NEW p \in Procs, Cancel(p)
      PROVE  NoIdleWhileWaiting'
  BY <1>3 DEF Cancel
<1>4. ASSUME NEW p \in Procs, GetClosed(p)
      PROVE  NoIdleWhileWaiting'
  BY <1>4 DEF GetClosed
<1>5. ASSUME NEW p \in Procs, PopIdle(p)
      PROVE  NoIdleWhileWaiting'
  BY <1>5 DEF PopIdle
<1>6. ASSUME NEW p \in Procs, CheckFails(p)
      PROVE  NoIdleWhileWaiting'
  BY <1>6 DEF CheckFails, decOpenLocked
<1>7. ASSUME NEW p \in Procs, CheckPasses(p)
      PROVE  NoIdleWhileWaiting'
  BY <1>7 DEF CheckPasses
<1>8. ASSUME NEW p \in Procs, GetFull(p)
      PROVE  NoIdleWhileWaiting'
  BY <1>8 DEF GetFull
<1>9. ASSUME NEW p \in Procs, Enqueue(p)
      PROVE  NoIdleWhileWaiting'
  BY <1>9 DEF Enqueue
<1>10. ASSUME NEW p \in Procs, TakeSlot(p)
       PROVE  NoIdleWhileWaiting'
  BY <1>10 DEF TakeSlot
<1>11. ASSUME NEW p \in Procs, DialFails(p)
       PROVE  NoIdleWhileWaiting'
  BY <1>11 DEF DialFails, decOpenLocked
<1>12. ASSUME NEW p \in Procs, DialSucceeds(p)
       PROVE  NoIdleWhileWaiting'
  BY <1>12 DEF DialSucceeds
<1>13. ASSUME NEW p \in Procs, Receive(p)
       PROVE  NoIdleWhileWaiting'
  BY <1>13 DEF Receive
<1>14. ASSUME NEW p \in Procs, LeaveQueue(p)
       PROVE  NoIdleWhileWaiting'
  BY <1>14 DEF LeaveQueue
<1>15. ASSUME NEW p \in Procs, AlreadyDequeued(p)
       PROVE  NoIdleWhileWaiting'
  BY <1>15 DEF AlreadyDequeued
<1>16. ASSUME NEW p \in Procs, Drain(p)
       PROVE  NoIdleWhileWaiting'
  BY <1>16 DEF Drain
<1>17. ASSUME NEW p \in Procs, PutTake(p)
       PROVE  NoIdleWhileWaiting'
  BY <1>17 DEF PutTake
<1>18. ASSUME NEW p \in Procs, PutDiscard(p)
       PROVE  NoIdleWhileWaiting'
  BY <1>18 DEF PutDiscard, decOpenLocked
<1>19. ASSUME NEW p \in Procs, PutClosed(p)
       PROVE  NoIdleWhileWaiting'
  BY <1>19 DEF PutClosed, decOpenLocked
<1>20. ASSUME NEW p \in Procs, PutWaiter(p)
       PROVE  NoIdleWhileWaiting'
  BY <1>20 DEF PutWaiter
<1>21. ASSUME NEW p \in Procs, Handoff(p)
       PROVE  NoIdleWhileWaiting'
  BY <1>21 DEF Handoff
<1>22. ASSUME NEW p \in Procs, PutExcess(p)
       PROVE  NoIdleWhileWaiting'
  BY <1>22 DEF PutExcess, decOpenLocked
<1>23. ASSUME NEW p \in Procs, PutIdle(p)
       PROVE  NoIdleWhileWaiting'
  BY <1>23 DEF PutIdle
<1>24. ASSUME NEW p \in Procs, PutQuit(p)
       PROVE  NoIdleWhileWaiting'
  BY <1>24 DEF PutQuit
<1>25. CASE Close
  BY <1>25 DEF Close
<1>26. ASSUME NEW c \in Conns, CloseQuit(c)
       PROVE  NoIdleWhileWaiting'
  BY <1>26 DEF CloseQuit
<1> QED
  BY <1>1, <1>2, <1>3, <1>4, <1>5, <1>6, <1>7, <1>8, <1>9, <1>10, <1>11,
     <1>12, <1>13, <1>14, <1>15, <1>16, <1>17, <1>18, <1>19, <1>20, <1>21,
     <1>22, <1>23, <1>24, <1>25, <1>26
     DEF Next, Progress

\* Whatever MaxIdle and MaxOpen are, no Get of pool.go waits while Put has left a
\* connection in p.idle, nor in a closed pool.
THEOREM NobodyWaitsForIdle == Spec => []NoIdleWhileWaiting
<1>1. Init => NoIdleWhileWaiting
  BY DEF Init, NoIdleWhileWaiting
<1> QED
  BY <1>1, NoIdleStep, TypeCorrect, PTL DEF Spec

-----------------------------------------------------------------------------
(* Wake-ups, when no context is ever cancelled *)

\* No Get has left its select for ctx.Done.
NobodyCancelled == \A p \in Procs : pc[p] \notin {"cancelled", "drain"}

\* What NoLostWakeup needs to be inductive.
WakeupInv == NobodyCancelled /\ NoIdleWhileWaiting /\ NoLostWakeup

\* The getters on their way to p.open can be counted.
LEMMA RetryingFinite == IsFiniteSet(Retrying) /\ Cardinality(Retrying) \in Nat
<1>1. IsFiniteSet(Retrying)
  BY FS_Subset, ProcsAssumption DEF Retrying
<1> QED
  BY <1>1, FS_CardinalityType

\* While p.open stands still, more goroutines that will look at it do no harm.
LEMMA RetryingGrows ==
    ASSUME TypeOK, NoLostWakeup, Retrying \subseteq Retrying', open' = open,
           waiters' # <<>> => waiters # <<>>
    PROVE  NoLostWakeup'
<1>1. IsFiniteSet(Retrying') /\ Cardinality(Retrying') \in Nat
  <2>1. Retrying' \subseteq Procs
    BY DEF Retrying
  <2> QED
    BY <2>1, FS_Subset, FS_CardinalityType, ProcsAssumption
<1>2. Cardinality(Retrying) <= Cardinality(Retrying')
  BY <1>1, FS_Subset
<1> QED
  BY <1>1, <1>2, RetryingFinite, LimitAssumption DEF TypeOK, NoLostWakeup

\* The slot released is replaced by the waiter woken.
LEMMA DecOpenWakes ==
    ASSUME IInv, WakeupInv, decOpenLocked,
           NEW p \in Procs, pc[p] \in SlotLocations,
           NEW l \in Locations \ {"wait", "cancelled", "drain"},
           pc' = [pc EXCEPT ![p] = l]
    PROVE  NoLostWakeup'
<1>1. CASE waiters = <<>>
  BY <1>1 DEF decOpenLocked, NoLostWakeup
<1>2. CASE waiters # <<>>
  <2> DEFINE h == Head(waiters)
  <2>1. h \in Procs /\ h = waiters[1] /\ 1 \in 1..Len(waiters)
    BY <1>2, HeadTail DEF IInv, TypeOK
  <2>2. pc[h] = "wait" /\ chan[h] = None
    BY <2>1 DEF IInv, WaitShape, SendNeverBlocks, WakeupInv, NobodyCancelled
  <2>3. h \notin Retrying
    BY <2>2, TokenAssumption DEF Retrying
  <2>4. chan' = [chan EXCEPT ![h] = Wake]
    BY <1>2 DEF decOpenLocked
  <2>5. h # p
    BY <2>2 DEF SlotLocations
  <2> HIDE DEF h
  <2>6. Retrying \cup {h} \subseteq Retrying'
    <3>1. p \notin Retrying
      BY DEF Retrying, SlotLocations
    <3>2. h \in Retrying'
      BY <2>1, <2>2, <2>4, <2>5 DEF Retrying, IInv, TypeOK
    <3>3. ASSUME NEW q \in Retrying
          PROVE  q \in Retrying'
      BY <2>3, <2>4, <3>1, <3>3 DEF Retrying, IInv, TypeOK
    <3> QED
      BY <3>2, <3>3
  <2>7. IsFiniteSet(Retrying') /\ Cardinality(Retrying') \in Nat
    <3>1. Retrying' \subseteq Procs
      BY DEF Retrying
    <3> QED
      BY <3>1, FS_Subset, FS_CardinalityType, ProcsAssumption
  <2>8. Cardinality(Retrying) + 1 <= Cardinality(Retrying')
    <3>1. Cardinality(Retrying \cup {h}) = Cardinality(Retrying) + 1
      BY <2>3, RetryingFinite, FS_AddElement
    <3>2. Cardinality(Retrying \cup {h}) <= Cardinality(Retrying')
      BY <2>6, <2>7, FS_Subset
    <3> QED
      BY <3>1, <3>2
  <2>9. /\ open + Cardinality(Retrying) >= MaxOpen
        /\ open' = IF open > 0 THEN open - 1 ELSE 0
        /\ open \in Nat
    BY <1>2 DEF WakeupInv, NoLostWakeup, decOpenLocked, IInv, TypeOK
  <2> QED
    BY <2>7, <2>8, <2>9, RetryingFinite, LimitAssumption DEF NoLostWakeup
<1> QED
  BY <1>1, <1>2

\* Every step keeps enough getters on their way to the free slots.
LEMMA WakeupStep ==
    ASSUME cancellable = {}, IInv, WakeupInv, [Next]_vars
    PROVE  NobodyCancelled' /\ NoLostWakeup'
<1> USE DEF IInv, TypeOK, WakeupInv, NobodyCancelled
<1>1. CASE UNCHANGED vars
  <2>1. NobodyCancelled' /\ open' = open /\ waiters' = waiters /\ Retrying' = Retrying
    BY <1>1 DEF vars, Retrying
  <2> QED
    BY <2>1, RetryingGrows
<1>2. ASSUME NEW p \in Procs, Call(p)
      PROVE  NobodyCancelled' /\ NoLostWakeup'
  <2>1. NobodyCancelled' /\ open' = open /\ (waiters' # <<>> => waiters # <<>>)
    BY <1>2 DEF Call
  <2>2. Retrying \subseteq Retrying'
    BY <1>2, TokenAssumption DEF Call, Retrying
  <2> QED
    BY <2>1, <2>2, RetryingGrows
<1>3. ASSUME NEW p \in Procs, Cancel(p)
      PROVE  NobodyCancelled' /\ NoLostWakeup'
  BY <1>3 DEF Cancel
<1>4. ASSUME NEW p \in Procs, GetClosed(p)
      PROVE  NobodyCancelled' /\ NoLostWakeup'
  <2>1. waiters' = <<>> /\ NobodyCancelled'
    BY <1>4 DEF GetClosed, NoIdleWhileWaiting
  <2> QED
    BY <2>1 DEF NoLostWakeup
<1>5. ASSUME NEW p \in Procs, PopIdle(p)
      PROVE  NobodyCancelled' /\ NoLostWakeup'
  <2>1. waiters' = <<>> /\ NobodyCancelled'
    BY <1>5 DEF PopIdle, NoIdleWhileWaiting
  <2> QED
    BY <2>1 DEF NoLostWakeup
<1>6. ASSUME NEW p \in Procs, CheckFails(p)
      PROVE  NobodyCancelled' /\ NoLostWakeup'
  <2>1. NobodyCancelled'
    BY <1>6 DEF CheckFails
  <2> QED
    BY <1>6, <2>1, DecOpenWakes DEF CheckFails, SlotLocations, Locations
<1>7. ASSUME NEW p \in Procs, CheckPasses(p)
      PROVE  NobodyCancelled' /\ NoLostWakeup'
  <2>1. NobodyCancelled' /\ open' = open /\ (waiters' # <<>> => waiters # <<>>)
    BY <1>7 DEF CheckPasses
  <2>2. Retrying \subseteq Retrying'
    BY <1>7, TokenAssumption DEF CheckPasses, Retrying
  <2> QED
    BY <2>1, <2>2, RetryingGrows
<1>8. ASSUME NEW p \in Procs, GetFull(p)
      PROVE  NobodyCancelled' /\ NoLostWakeup'
  <2>1. NobodyCancelled' /\ open' = open /\ open >= MaxOpen
    BY <1>8 DEF GetFull, AtLimit
  <2>2. IsFiniteSet(Retrying') /\ Cardinality(Retrying') \in Nat
    <3>1. Retrying' \subseteq Procs
      BY DEF Retrying
    <3> QED
      BY <3>1, FS_Subset, FS_CardinalityType, ProcsAssumption
  <2> QED
    BY <2>1, <2>2, LimitAssumption DEF NoLostWakeup
<1>9. ASSUME NEW p \in Procs, Enqueue(p)
      PROVE  NobodyCancelled' /\ NoLostWakeup'
  <2>1. NobodyCancelled' /\ open' = open /\ open >= MaxOpen
    BY <1>9 DEF Enqueue, AtLimit
  <2>2. IsFiniteSet(Retrying') /\ Cardinality(Retrying') \in Nat
    <3>1. Retrying' \subseteq Procs
      BY DEF Retrying
    <3> QED
      BY <3>1, FS_Subset, FS_CardinalityType, ProcsAssumption
  <2> QED
    BY <2>1, <2>2, LimitAssumption DEF NoLostWakeup
<1>10. ASSUME NEW p \in Procs, TakeSlot(p)
       PROVE  NobodyCancelled' /\ NoLostWakeup'
  <2>1. NobodyCancelled' /\ open' = open + 1 /\ waiters' = waiters
    BY <1>10 DEF TakeSlot
  <2>2. p \in Retrying /\ Retrying' = Retrying \ {p}
    BY <1>10 DEF TakeSlot, Retrying
  <2>3. Cardinality(Retrying') = Cardinality(Retrying) - 1
    BY <2>2, RetryingFinite, FS_RemoveElement
  <2> QED
    BY <2>1, <2>3, RetryingFinite, LimitAssumption DEF NoLostWakeup
<1>11. ASSUME NEW p \in Procs, DialFails(p)
       PROVE  NobodyCancelled' /\ NoLostWakeup'
  <2>1. NobodyCancelled'
    BY <1>11 DEF DialFails
  <2> QED
    BY <1>11, <2>1, DecOpenWakes DEF DialFails, SlotLocations, Locations
<1>12. ASSUME NEW p \in Procs, DialSucceeds(p)
       PROVE  NobodyCancelled' /\ NoLostWakeup'
  <2>1. NobodyCancelled' /\ open' = open /\ (waiters' # <<>> => waiters # <<>>)
    BY <1>12 DEF DialSucceeds
  <2>2. Retrying \subseteq Retrying'
    BY <1>12, TokenAssumption DEF DialSucceeds, Retrying
  <2> QED
    BY <2>1, <2>2, RetryingGrows
<1>13. ASSUME NEW p \in Procs, Receive(p)
       PROVE  NobodyCancelled' /\ NoLostWakeup'
  <2>1. NobodyCancelled' /\ open' = open /\ (waiters' # <<>> => waiters # <<>>)
    BY <1>13 DEF Receive
  <2>2. Retrying \subseteq Retrying'
    BY <1>13, TokenAssumption DEF Receive, Retrying
  <2> QED
    BY <2>1, <2>2, RetryingGrows
<1>14. ASSUME NEW p \in Procs, LeaveQueue(p)
       PROVE  NobodyCancelled' /\ NoLostWakeup'
  BY <1>14 DEF LeaveQueue
<1>15. ASSUME NEW p \in Procs, AlreadyDequeued(p)
       PROVE  NobodyCancelled' /\ NoLostWakeup'
  BY <1>15 DEF AlreadyDequeued
<1>16. ASSUME NEW p \in Procs, Drain(p)
       PROVE  NobodyCancelled' /\ NoLostWakeup'
  BY <1>16 DEF Drain
<1>17. ASSUME NEW p \in Procs, PutTake(p)
       PROVE  NobodyCancelled' /\ NoLostWakeup'
  <2>1. NobodyCancelled' /\ open' = open /\ (waiters' # <<>> => waiters # <<>>)
    BY <1>17 DEF PutTake
  <2>2. Retrying \subseteq Retrying'
    BY <1>17, TokenAssumption DEF PutTake, Retrying
  <2> QED
    BY <2>1, <2>2, RetryingGrows
<1>18. ASSUME NEW p \in Procs, PutDiscard(p)
       PROVE  NobodyCancelled' /\ NoLostWakeup'
  <2>1. NobodyCancelled'
    BY <1>18 DEF PutDiscard
  <2> QED
    BY <1>18, <2>1, DecOpenWakes DEF PutDiscard, SlotLocations, Locations
<1>19. ASSUME NEW p \in Procs, PutClosed(p)
       PROVE  NobodyCancelled' /\ NoLostWakeup'
  <2>1. NobodyCancelled'
    BY <1>19 DEF PutClosed
  <2> QED
    BY <1>19, <2>1, DecOpenWakes DEF PutClosed, SlotLocations, Locations
<1>20. ASSUME NEW p \in Procs, PutWaiter(p)
       PROVE  NobodyCancelled' /\ NoLostWakeup'
  <2>1. NobodyCancelled' /\ open' = open /\ (waiters' # <<>> => waiters # <<>>)
    BY <1>20 DEF PutWaiter
  <2>2. Retrying \subseteq Retrying'
    BY <1>20, TokenAssumption DEF PutWaiter, Retrying
  <2> QED
    BY <2>1, <2>2, RetryingGrows
<1>21. ASSUME NEW p \in Procs, Handoff(p)
       PROVE  NobodyCancelled' /\ NoLostWakeup'
  <2>1. NobodyCancelled' /\ open' = open /\ waiters' = waiters
    BY <1>21 DEF Handoff
  <2>2. chan[to[p]] = None /\ to[p] \in Procs
    BY <1>21 DEF Handoff, HandShape, SendNeverBlocks
  <2>3. Retrying \subseteq Retrying'
    BY <1>21, <2>2, TokenAssumption DEF Handoff, Retrying
  <2> QED
    BY <2>1, <2>3, RetryingGrows
<1>22. ASSUME NEW p \in Procs, PutExcess(p)
       PROVE  NobodyCancelled' /\ NoLostWakeup'
  <2>1. NobodyCancelled'
    BY <1>22 DEF PutExcess
  <2> QED
    BY <1>22, <2>1, DecOpenWakes DEF PutExcess, SlotLocations, Locations
<1>23. ASSUME NEW p \in Procs, PutIdle(p)
       PROVE  NobodyCancelled' /\ NoLostWakeup'
  <2>1. NobodyCancelled' /\ open' = open /\ (waiters' # <<>> => waiters # <<>>)
    BY <1>23 DEF PutIdle
  <2>2. Retrying \subseteq Retrying'
    BY <1>23, TokenAssumption DEF PutIdle, Retrying
  <2> QED
    BY <2>1, <2>2, RetryingGrows
<1>24. ASSUME NEW p \in Procs, PutQuit(p)
       PROVE  NobodyCancelled' /\ NoLostWakeup'
  <2>1. NobodyCancelled' /\ open' = open /\ (waiters' # <<>> => waiters # <<>>)
    BY <1>24 DEF PutQuit
  <2>2. Retrying \subseteq Retrying'
    BY <1>24, TokenAssumption DEF PutQuit, Retrying
  <2> QED
    BY <2>1, <2>2, RetryingGrows
<1>25. CASE Close
  BY <1>25 DEF Close, NoLostWakeup
<1>26. ASSUME NEW c \in Conns, CloseQuit(c)
       PROVE  NobodyCancelled' /\ NoLostWakeup'
  <2>1. NobodyCancelled' /\ open' = open /\ waiters' = waiters /\ Retrying' = Retrying
    BY <1>26 DEF CloseQuit, Retrying
  <2> QED
    BY <2>1, RetryingGrows
<1> QED
  BY <1>1, <1>2, <1>3, <1>4, <1>5, <1>6, <1>7, <1>8, <1>9, <1>10, <1>11,
     <1>12, <1>13, <1>14, <1>15, <1>16, <1>17, <1>18, <1>19, <1>20, <1>21,
     <1>22, <1>23, <1>24, <1>25, <1>26
     DEF Next, Progress

\* Nobody changes whose context may be cancelled.
LEMMA CancellableFixed == [Next]_vars => cancellable' = cancellable
  BY DEF Next, Progress, vars, Call, Cancel, GetClosed, PopIdle, CheckFails, CheckPasses,
         GetFull, Enqueue, TakeSlot, DialFails, DialSucceeds, Receive, LeaveQueue,
         AlreadyDequeued, Drain, PutTake, PutDiscard, PutClosed, PutWaiter, Handoff,
         PutExcess, PutIdle, PutQuit, Close, CloseQuit

\* The invariant of pools whose callers are never cancelled.
Announced == cancellable = {} => NobodyCancelled /\ NoLostWakeup

\* Without cancellation, a free slot of a pool with a queue always has a
\* goroutine on its way to take it: no wake-up is lost, for any number of
\* goroutines and any limit.
THEOREM NoWakeupIsLost == Spec => []WakeupKept
<1>1. Init => Announced
  BY DEF Init, NobodyCancelled, NoLostWakeup, Announced
<1>2. IInv /\ NoIdleWhileWaiting /\ Announced /\ [Next]_vars => Announced'
  BY WakeupStep, CancellableFixed DEF Announced, WakeupInv
<1>3. Announced => WakeupKept
  BY DEF Announced, WakeupKept
<1> QED
  BY <1>1, <1>2, <1>3, InductiveInvariant, NobodyWaitsForIdle, PTL DEF Spec

-----------------------------------------------------------------------------
(* The waiters nobody has queued any more *)

\* A goroutine that moves on without touching the queue, a channel or a waiter
\* in Put, and does not start to wait, leaves no waiter behind.
LEMMA ForgottenFrame ==
    ASSUME TypeOK, NobodyForgotten,
           NEW p \in Procs, NEW l \in Locations, pc' = [pc EXCEPT ![p] = l],
           l \in WaitLocations => pc[p] \in WaitLocations,
           waiters' = waiters, chan' = chan, to' = to
    PROVE  NobodyForgotten'
<1>1. \A q \in Procs : pc'[q] \in WaitLocations => pc[q] \in WaitLocations
  BY DEF TypeOK
<1> QED
  BY <1>1 DEF NobodyForgotten, WaitLocations

\* The waiter decOpenLocked takes off the queue has nil in its channel.
LEMMA DecOpenForgotten ==
    ASSUME TypeOK, NobodyForgotten, decOpenLocked,
           NEW p \in Procs, NEW l \in Locations \ {"wait", "cancelled", "drain"},
           pc' = [pc EXCEPT ![p] = l], to' = to
    PROVE  NobodyForgotten'
<1>1. \A q \in Procs : pc'[q] \in WaitLocations => pc[q] \in WaitLocations
  BY DEF TypeOK, WaitLocations
<1>2. CASE waiters = <<>>
  BY <1>1, <1>2 DEF decOpenLocked, NobodyForgotten, WaitLocations
<1>3. CASE waiters # <<>>
  <2>1. /\ Len(waiters) \in Nat \ {0} /\ Head(waiters) = waiters[1]
        /\ Len(waiters') = Len(waiters) - 1
        /\ \A j \in 1..Len(waiters') : waiters'[j] = waiters[j + 1]
    BY SMTT(30), <1>3, HeadTail DEF decOpenLocked, TypeOK
  <2>2. chan' = [chan EXCEPT ![waiters[1]] = Wake]
    BY <1>3, <2>1 DEF decOpenLocked
  <2>3. \A q \in Procs : chan[q] # None => chan'[q] # None
    BY <2>2, TokenAssumption DEF TypeOK
  <2>4. ASSUME NEW q \in Procs, NEW i \in 1..Len(waiters), waiters[i] = q
        PROVE  \/ \E j \in 1..Len(waiters') : waiters'[j] = q
               \/ chan'[q] # None
    <3>1. CASE i = 1
      BY <2>2, <2>4, <3>1, TokenAssumption DEF TypeOK
    <3>2. CASE i # 1
      <4>1. i - 1 \in 1..Len(waiters') /\ (i - 1) + 1 = i
        BY <2>1, <3>2
      <4> QED
        BY <2>1, <2>4, <4>1
    <3> QED
      BY <3>1, <3>2
  <2> QED
    BY <1>1, <2>3, <2>4 DEF NobodyForgotten, WaitLocations
<1> QED
  BY <1>2, <1>3

\* Whoever takes a waiter off the queue, or off to, has sent to it or is about to.
LEMMA ForgottenStep ==
    ASSUME TypeOK, HandShape, NobodyForgotten, [Next]_vars
    PROVE  NobodyForgotten'
<1> USE DEF WaitLocations
<1>1. CASE UNCHANGED vars
  BY <1>1 DEF vars, NobodyForgotten
<1>2. ASSUME NEW p \in Procs, Call(p)
      PROVE  NobodyForgotten'
  BY <1>2, ForgottenFrame DEF Call, Locations
<1>3. ASSUME NEW p \in Procs, Cancel(p)
      PROVE  NobodyForgotten'
  BY <1>3, ForgottenFrame DEF Cancel, Locations
<1>4. ASSUME NEW p \in Procs, GetClosed(p)
      PROVE  NobodyForgotten'
  BY <1>4, ForgottenFrame DEF GetClosed, Locations
<1>5. ASSUME NEW p \in Procs, PopIdle(p)
      PROVE  NobodyForgotten'
  BY <1>5, ForgottenFrame DEF PopIdle, Locations
<1>6. ASSUME NEW p \in Procs, CheckFails(p)
      PROVE  NobodyForgotten'
  BY <1>6, DecOpenForgotten DEF CheckFails, SlotLocations, Locations
<1>7. ASSUME NEW p \in Procs, CheckPasses(p)
      PROVE  NobodyForgotten'
  BY <1>7, ForgottenFrame DEF CheckPasses, Locations
<1>8. ASSUME NEW p \in Procs, GetFull(p)
      PROVE  NobodyForgotten'
  BY <1>8, ForgottenFrame DEF GetFull, Locations
<1>9. ASSUME NEW p \in Procs, Enqueue(p)
      PROVE  NobodyForgotten'
  <2>1. /\ Len(waiters) \in Nat /\ Len(waiters') = Len(waiters) + 1
        /\ \A i \in 1..Len(waiters) : waiters'[i] = waiters[i]
        /\ waiters'[Len(waiters) + 1] = p
    BY <1>9 DEF Enqueue, TypeOK
  <2>2. \A q \in Procs : q # p => pc'[q] = pc[q]
    BY <1>9 DEF Enqueue, TypeOK
  <2>3. chan' = chan /\ to' = to
    BY <1>9 DEF Enqueue
  <2> QED
    BY <2>1, <2>2, <2>3 DEF NobodyForgotten
<1>10. ASSUME NEW p \in Procs, TakeSlot(p)
       PROVE  NobodyForgotten'
  BY <1>10, ForgottenFrame DEF TakeSlot, Locations
<1>11. ASSUME NEW p \in Procs, DialFails(p)
       PROVE  NobodyForgotten'
  BY <1>11, DecOpenForgotten DEF DialFails, SlotLocations, Locations
<1>12. ASSUME NEW p \in Procs, DialSucceeds(p)
       PROVE  NobodyForgotten'
  BY <1>12, ForgottenFrame DEF DialSucceeds, Locations
<1>13. ASSUME NEW p \in Procs, Receive(p)
       PROVE  NobodyForgotten'
  <2>1. /\ pc'[p] \notin WaitLocations
        /\ \A q \in Procs : q # p => pc'[q] = pc[q] /\ chan'[q] = chan[q]
    BY <1>13 DEF Receive, TypeOK, WaitLocations
  <2>2. waiters' = waiters /\ to' = to
    BY <1>13 DEF Receive
  <2> QED
    BY <2>1, <2>2 DEF NobodyForgotten, WaitLocations
<1>14. ASSUME NEW p \in Procs, LeaveQueue(p)
       PROVE  NobodyForgotten'
  <2>1. PICK i \in 1..Len(waiters) : waiters[i] = p /\ waiters' = RemoveAt(waiters, i)
    BY <1>14 DEF LeaveQueue
  <2>2. /\ Len(waiters) \in Nat
        /\ Len(waiters') = Len(waiters) - 1
        /\ \A j \in 1..(Len(waiters) - 1) :
                waiters'[j] = IF j < i THEN waiters[j] ELSE waiters[j + 1]
    <3>1. waiters \in Seq(Procs) /\ Len(waiters) \in Nat
      BY DEF TypeOK
    <3> QED
      BY <2>1, <3>1, RemoveAtProperties
  <2>3. ASSUME NEW j \in 1..Len(waiters), j # i
        PROVE  \E k \in 1..Len(waiters') : waiters'[k] = waiters[j]
    <3>1. CASE j < i
      BY <2>1, <2>2, <3>1
    <3>2. CASE ~(j < i)
      <4>1. j - 1 \in 1..(Len(waiters) - 1) /\ ~(j - 1 < i) /\ (j - 1) + 1 = j
        BY <2>1, <2>2, <2>3, <3>2
      <4>2. waiters'[j - 1] = waiters[j]
        BY <2>2, <4>1
      <4> QED
        BY <2>2, <4>1, <4>2
    <3> QED
      BY <3>1, <3>2
  <2>4. /\ pc' = [pc EXCEPT ![p] = "out"] /\ chan' = chan /\ to' = to
    BY <1>14 DEF LeaveQueue
  <2>5. \A q \in Procs : q # p => pc'[q] = pc[q]
    BY <2>4 DEF TypeOK
  <2>6. pc'[p] \notin WaitLocations
    BY <2>4 DEF TypeOK, WaitLocations
  <2> QED
    BY <2>1, <2>3, <2>4, <2>5, <2>6 DEF NobodyForgotten, WaitLocations
<1>15. ASSUME NEW p \in Procs, AlreadyDequeued(p)
       PROVE  NobodyForgotten'
  BY <1>15, ForgottenFrame DEF AlreadyDequeued, Locations
<1>16. ASSUME NEW p \in Procs, Drain(p)
       PROVE  NobodyForgotten'
  <2>1. /\ pc'[p] \notin WaitLocations
        /\ \A q \in Procs : q # p => pc'[q] = pc[q] /\ chan'[q] = chan[q]
    BY <1>16 DEF Drain, TypeOK, WaitLocations
  <2>2. waiters' = waiters /\ to' = to
    BY <1>16 DEF Drain
  <2> QED
    BY <2>1, <2>2 DEF NobodyForgotten, WaitLocations
<1>17. ASSUME NEW p \in Procs, PutTake(p)
       PROVE  NobodyForgotten'
  BY <1>17, ForgottenFrame DEF PutTake, Locations
<1>18. ASSUME NEW p \in Procs, PutDiscard(p)
       PROVE  NobodyForgotten'
  BY <1>18, DecOpenForgotten DEF PutDiscard, SlotLocations, Locations
<1>19. ASSUME NEW p \in Procs, PutClosed(p)
       PROVE  NobodyForgotten'
  BY <1>19, DecOpenForgotten DEF PutClosed, SlotLocations, Locations
<1>20. ASSUME NEW p \in Procs, PutWaiter(p)
       PROVE  NobodyForgotten'
  <2>1. /\ Len(waiters) \in Nat \ {0} /\ Head(waiters) = waiters[1]
        /\ Len(waiters') = Len(waiters) - 1
        /\ \A j \in 1..Len(waiters') : waiters'[j] = waiters[j + 1]
    BY <1>20, HeadTail DEF PutWaiter, TypeOK
  <2>2. to[p] = None /\ to' = [to EXCEPT ![p] = waiters[1]] /\ chan' = chan
    BY <1>20, <2>1 DEF PutWaiter, HandShape
  <2>3. \A q \in Procs : q # p => pc'[q] = pc[q]
    BY <1>20 DEF PutWaiter, TypeOK
  <2>4. pc'[p] \notin WaitLocations
    BY <1>20 DEF PutWaiter, TypeOK, WaitLocations
  <2>5. ASSUME NEW q \in Procs, NEW i \in 1..Len(waiters), waiters[i] = q
        PROVE  \/ \E j \in 1..Len(waiters') : waiters'[j] = q
               \/ to'[p] = q
    <3>1. CASE i = 1
      BY <2>2, <2>5, <3>1 DEF TypeOK
    <3>2. CASE i # 1
      <4>1. i - 1 \in 1..Len(waiters') /\ (i - 1) + 1 = i
        BY <2>1, <3>2
      <4> QED
        BY <2>1, <2>5, <4>1
    <3> QED
      BY <3>1, <3>2
  <2>6. \A q, r \in Procs : to[q] = r => to'[q] = r
    BY <2>2, TokenAssumption DEF TypeOK
  <2> QED
    BY <2>2, <2>3, <2>4, <2>5, <2>6 DEF NobodyForgotten, WaitLocations
<1>21. ASSUME NEW p \in Procs, Handoff(p)
       PROVE  NobodyForgotten'
  <2>1. held[p] # None /\ to[p] \in Procs
    BY <1>21 DEF Handoff, HandShape, HoldLocations, TypeOK
  <2>2. /\ chan' = [chan EXCEPT ![to[p]] = held[p]]
        /\ to' = [to EXCEPT ![p] = None] /\ waiters' = waiters
    BY <1>21 DEF Handoff
  <2>3. \A q \in Procs : pc'[q] \in WaitLocations => pc[q] \in WaitLocations
    BY <1>21 DEF Handoff, TypeOK, WaitLocations
  <2>4. \A q \in Procs : chan[q] # None => chan'[q] # None
    BY <2>1, <2>2 DEF TypeOK
  <2>5. chan'[to[p]] # None
    BY <2>1, <2>2 DEF TypeOK
  <2>6. \A q \in Procs : q # p => to'[q] = to[q]
    BY <2>2 DEF TypeOK
  <2> QED
    BY <2>2, <2>3, <2>4, <2>5, <2>6 DEF NobodyForgotten, WaitLocations
<1>22. ASSUME NEW p \in Procs, PutExcess(p)
       PROVE  NobodyForgotten'
  BY <1>22, DecOpenForgotten DEF PutExcess, SlotLocations, Locations
<1>23. ASSUME NEW p \in Procs, PutIdle(p)
       PROVE  NobodyForgotten'
  BY <1>23, ForgottenFrame DEF PutIdle, Locations
<1>24. ASSUME NEW p \in Procs, PutQuit(p)
       PROVE  NobodyForgotten'
  BY <1>24, ForgottenFrame DEF PutQuit, Locations
<1>25. CASE Close
  BY <1>25, TokenAssumption DEF Close, NobodyForgotten, TypeOK
<1>26. ASSUME NEW c \in Conns, CloseQuit(c)
       PROVE  NobodyForgotten'
  BY <1>26 DEF CloseQuit, NobodyForgotten
<1> QED
  BY <1>1, <1>2, <1>3, <1>4, <1>5, <1>6, <1>7, <1>8, <1>9, <1>10, <1>11, <1>12, <1>13,
     <1>14, <1>15, <1>16, <1>17, <1>18, <1>19, <1>20, <1>21, <1>22, <1>23, <1>24, <1>25,
     <1>26
     DEF Next, Progress

\* However Put, Close, the failures that release a slot and the cancellations of
\* Get interleave, a goroutine in Get's select or in <-waitChan is queued, has an
\* answer in its channel or is being sent one: none blocks for ever unnoticed.
THEOREM NobodyIsForgotten == Spec => []NobodyForgotten
<1>1. Init => NobodyForgotten
  BY DEF Init, NobodyForgotten
<1>2. IInv /\ NobodyForgotten /\ [Next]_vars => NobodyForgotten'
  BY ForgottenStep DEF IInv
<1> QED
  BY <1>1, <1>2, InductiveInvariant, PTL DEF Spec

-----------------------------------------------------------------------------
(* SmtpPool implements ConnectionLease: no connection is ever lent to two  *)
(* goroutines, and no more than MaxOpen of them exist.                     *)

(* The stack of idle connections *)

\* The elements of a stack whose top is taken.
LEMMA ToSetFront ==
    ASSUME NEW S, NEW s \in Seq(S), s # <<>>
    PROVE  /\ ToSet(s) = ToSet(Front(s)) \cup {Last(s)}
           /\ IsInjective(s) => IsInjective(Front(s)) /\ Last(s) \notin ToSet(Front(s))
<1>1. /\ Last(s) = s[Len(s)] /\ Len(s) \in Nat \ {0} /\ DOMAIN s = 1..Len(s)
      /\ DOMAIN Front(s) = 1..(Len(s) - 1)
      /\ \A j \in 1..(Len(s) - 1) : Front(s)[j] = s[j]
  <2>1. Front(s) \in Seq(S) /\ Len(Front(s)) = Len(s) - 1
    BY FrontLastProperties
  <2> QED
    BY <2>1, FrontLastProperties
<1>2. \A i : i \in 1..Len(s) <=> i \in 1..(Len(s) - 1) \/ i = Len(s)
  BY <1>1
<1> HIDE DEF Last, Front
<1>3. ToSet(s) = ToSet(Front(s)) \cup {Last(s)}
  BY <1>1, <1>2 DEF ToSet
<1>4. IsInjective(s) => IsInjective(Front(s)) /\ Last(s) \notin ToSet(Front(s))
  BY <1>1, <1>2 DEF ToSet, IsInjective
<1> QED
  BY <1>3, <1>4

\* A function on a finite set has no more values than arguments.
LEMMA ValuesCounted ==
    ASSUME NEW S, IsFiniteSet(S), NEW R, NEW f \in [S -> R]
    PROVE  /\ IsFiniteSet({f[x] : x \in S})
           /\ Cardinality({f[x] : x \in S}) <= Cardinality(S)
<1> DEFINE T == {f[x] : x \in S}
<1>1. f \in Surjection(S, T)
  BY DEF Surjection
<1> HIDE DEF T
<1>2. IsFiniteSet(T) /\ Cardinality(T) <= Cardinality(S)
  BY <1>1, FS_Surjection
<1> QED
  BY <1>2 DEF T

\* A stack has no more elements than its length.
LEMMA StackCounted ==
    ASSUME NEW S, NEW s \in Seq(S)
    PROVE  IsFiniteSet(ToSet(s)) /\ Cardinality(ToSet(s)) <= Len(s)
<1>1. Len(s) \in Nat /\ DOMAIN s = 1..Len(s) /\ s \in [1..Len(s) -> S]
  BY LenProperties
<1>2. IsFiniteSet(1..Len(s)) /\ Cardinality(1..Len(s)) = Len(s)
  BY <1>1, FS_Interval
<1>3. IsFiniteSet({s[x] : x \in 1..Len(s)}) /\ Cardinality({s[x] : x \in 1..Len(s)}) <= Len(s)
  BY <1>1, <1>2, ValuesCounted
<1>4. ToSet(s) = {s[x] : x \in 1..Len(s)}
  BY <1>1 DEF ToSet
<1> QED
  BY <1>3, <1>4

-----------------------------------------------------------------------------
(* Where a connection is *)

\* A connection is in one hand, in one channel or once on the stack, and in
\* none of the others.
ConnShape ==
    /\ \A p, q \in Procs :
          /\ held[p] = held[q] /\ held[p] # None => p = q
          /\ chan[p] = chan[q] /\ chan[p] \in Conns => p = q
          /\ held[p] # None => held[p] # chan[q]
    /\ \A p \in Procs : {held[p], chan[p]} \cap ToSet(idle) = {}
    /\ IsInjective(idle)

\* Connections that leave hands, channels or the stack for good stay in one place.
LEMMA ConnShrinks ==
    ASSUME TypeOK, TypeOK', ConnShape,
           \A q \in Procs : held'[q] \in {held[q], None},
           \A q \in Procs : chan'[q] \in {chan[q], None, Wake},
           ToSet(idle') \subseteq ToSet(idle), IsInjective(idle')
    PROVE  ConnShape'
<1> USE TokenAssumption
<1>1. None \notin ToSet(idle) /\ Wake \notin ToSet(idle)
  BY DEF TypeOK, ToSet
<1>2. ASSUME NEW p \in Procs, NEW q \in Procs
      PROVE  /\ held'[p] = held'[q] /\ held'[p] # None => p = q
             /\ chan'[p] = chan'[q] /\ chan'[p] \in Conns => p = q
             /\ held'[p] # None => held'[p] # chan'[q]
  BY DEF ConnShape, TypeOK
<1>3. ASSUME NEW p \in Procs
      PROVE  {held'[p], chan'[p]} \cap ToSet(idle') = {}
  <2>1. {held[p], chan[p]} \cap ToSet(idle) = {}
    BY DEF ConnShape
  <2>2. held'[p] \in {held[p], None} /\ chan'[p] \in {chan[p], None, Wake}
    OBVIOUS
  <2> QED
    BY <1>1, <2>1, <2>2
<1> QED
  BY <1>2, <1>3 DEF ConnShape

\* decOpenLocked only puts nil into channels that were empty.
LEMMA DecOpenChannels ==
    ASSUME TypeOK, SendNeverBlocks, decOpenLocked, NEW q \in Procs
    PROVE  chan'[q] = chan[q] \/ (chan[q] = None /\ chan'[q] = Wake)
<1>1. CASE waiters = <<>>
  BY <1>1 DEF decOpenLocked
<1>2. CASE waiters # <<>>
  <2>1. Head(waiters) = waiters[1] /\ 1 \in 1..Len(waiters)
    BY <1>2, HeadTail DEF TypeOK
  <2>2. chan[Head(waiters)] = None
    BY <2>1 DEF SendNeverBlocks
  <2> QED
    BY <1>2, <2>2 DEF decOpenLocked, TypeOK
<1> QED
  BY <1>1, <1>2

\* So does Close.
LEMMA CloseChannels ==
    ASSUME TypeOK, SendNeverBlocks, Close, NEW q \in Procs
    PROVE  chan'[q] = chan[q] \/ (chan[q] = None /\ chan'[q] = Wake)
  BY DEF Close, SendNeverBlocks, TypeOK

\* The top of the stack comes into a hand.
LEMMA ConnMoves ==
    ASSUME TypeOK, TypeOK', ConnShape, NEW p \in Procs, NEW c \in ToSet(idle),
           c \notin ToSet(idle'), ToSet(idle') \subseteq ToSet(idle), IsInjective(idle'),
           held' = [held EXCEPT ![p] = c], chan' = chan
    PROVE  ConnShape'
<1>1. \A q \in Procs : held[q] # c /\ chan[q] # c
  BY DEF ConnShape
<1>2. held'[p] = c /\ \A q \in Procs : q # p => held'[q] = held[q]
  BY DEF TypeOK
<1>3. ASSUME NEW q \in Procs, NEW r \in Procs
      PROVE  /\ held'[q] = held'[r] /\ held'[q] # None => q = r
             /\ chan'[q] = chan'[r] /\ chan'[q] \in Conns => q = r
             /\ held'[q] # None => held'[q] # chan'[r]
  BY <1>1, <1>2 DEF ConnShape
<1>4. ASSUME NEW q \in Procs
      PROVE  {held'[q], chan'[q]} \cap ToSet(idle') = {}
  BY <1>2 DEF ConnShape
<1> QED
  BY <1>3, <1>4 DEF ConnShape

\* A connection comes out of a channel into the hand of its receiver.
LEMMA ConnTaken ==
    ASSUME TypeOK, ConnShape, NEW p \in Procs, chan[p] \in Conns,
           held' = [held EXCEPT ![p] = chan[p]],
           chan' = [chan EXCEPT ![p] = None], idle' = idle
    PROVE  ConnShape'
<1> USE TokenAssumption
<1>1. None \notin ToSet(idle)
  BY DEF TypeOK, ToSet
<1>2. /\ held'[p] = chan[p] /\ chan'[p] = None
      /\ \A q \in Procs : q # p => held'[q] = held[q] /\ chan'[q] = chan[q]
  BY DEF TypeOK
<1>3. ASSUME NEW q \in Procs, NEW r \in Procs
      PROVE  /\ held'[q] = held'[r] /\ held'[q] # None => q = r
             /\ chan'[q] = chan'[r] /\ chan'[q] \in Conns => q = r
             /\ held'[q] # None => held'[q] # chan'[r]
  BY <1>2 DEF ConnShape
<1>4. ASSUME NEW q \in Procs
      PROVE  {held'[q], chan'[q]} \cap ToSet(idle') = {}
  BY <1>1, <1>2 DEF ConnShape
<1> QED
  BY <1>3, <1>4 DEF ConnShape

\* A connection goes from a hand into a channel.
LEMMA ConnPassed ==
    ASSUME TypeOK, ConnShape, NEW p \in Procs, NEW q \in Procs, held[p] \in Conns,
           chan' = [chan EXCEPT ![q] = held[p]],
           held' = [held EXCEPT ![p] = None], idle' = idle
    PROVE  ConnShape'
<1> USE TokenAssumption
<1>1. None \notin ToSet(idle)
  BY DEF TypeOK, ToSet
<1>2. /\ held'[p] = None /\ chan'[q] = held[p]
      /\ \A r \in Procs : r # p => held'[r] = held[r]
      /\ \A r \in Procs : r # q => chan'[r] = chan[r]
  BY DEF TypeOK
<1>3. ASSUME NEW r \in Procs, NEW s \in Procs
      PROVE  /\ held'[r] = held'[s] /\ held'[r] # None => r = s
             /\ chan'[r] = chan'[s] /\ chan'[r] \in Conns => r = s
             /\ held'[r] # None => held'[r] # chan'[s]
  BY <1>2 DEF ConnShape
<1>4. ASSUME NEW r \in Procs
      PROVE  {held'[r], chan'[r]} \cap ToSet(idle') = {}
  BY <1>1, <1>2 DEF ConnShape
<1> QED
  BY <1>3, <1>4 DEF ConnShape

\* A connection goes from a hand to the top of the stack.
LEMMA ConnReturned ==
    ASSUME TypeOK, ConnShape, NEW p \in Procs, held[p] \in Conns,
           ToSet(idle') = ToSet(idle) \cup {held[p]}, IsInjective(idle'),
           held' = [held EXCEPT ![p] = None], chan' = chan
    PROVE  ConnShape'
<1> USE TokenAssumption
<1>1. None \notin ToSet(idle)
  BY DEF TypeOK, ToSet
<1>2. held'[p] = None /\ \A q \in Procs : q # p => held'[q] = held[q]
  BY DEF TypeOK
<1>3. ASSUME NEW q \in Procs, NEW r \in Procs
      PROVE  /\ held'[q] = held'[r] /\ held'[q] # None => q = r
             /\ chan'[q] = chan'[r] /\ chan'[q] \in Conns => q = r
             /\ held'[q] # None => held'[q] # chan'[r]
  BY <1>2 DEF ConnShape
<1>4. ASSUME NEW q \in Procs
      PROVE  {held'[q], chan'[q]} \cap ToSet(idle') = {}
  <2>1. held'[q] # held[p] /\ chan'[q] # held[p]
    BY <1>2 DEF ConnShape
  <2> QED
    BY <1>1, <1>2, <2>1 DEF ConnShape
<1> QED
  BY <1>3, <1>4 DEF ConnShape

\* Every step leaves every connection in one place.
LEMMA ConnStep ==
    ASSUME IInv, IInv', ConnShape, [Next]_vars
    PROVE  ConnShape'
<1> USE DEF IInv
<1>1. CASE UNCHANGED vars
  BY <1>1 DEF vars, ConnShape
<1>2. ASSUME NEW p \in Procs, Call(p)
      PROVE  ConnShape'
  BY <1>2 DEF Call, ConnShape
<1>3. ASSUME NEW p \in Procs, Cancel(p)
      PROVE  ConnShape'
  BY <1>3 DEF Cancel, ConnShape
<1>4. ASSUME NEW p \in Procs, GetClosed(p)
      PROVE  ConnShape'
  BY <1>4 DEF GetClosed, ConnShape
<1>5. ASSUME NEW p \in Procs, PopIdle(p)
      PROVE  ConnShape'
  <2>1. /\ ToSet(idle) = ToSet(idle') \cup {Last(idle)}
        /\ IsInjective(idle') /\ Last(idle) \notin ToSet(idle')
    BY <1>5, ToSetFront DEF PopIdle, ConnShape, TypeOK
  <2>2. held' = [held EXCEPT ![p] = Last(idle)] /\ chan' = chan
    BY <1>5 DEF PopIdle
  <2> HIDE DEF PopIdle
  <2> QED
    BY <2>1, <2>2, ConnMoves
<1>6. ASSUME NEW p \in Procs, CheckFails(p)
      PROVE  ConnShape'
  <2>1. \A q \in Procs : held'[q] \in {held[q], None}
    BY <1>6 DEF CheckFails, TypeOK
  <2>2. \A q \in Procs : chan'[q] \in {chan[q], None, Wake}
    BY <1>6, DecOpenChannels DEF CheckFails
  <2>3. idle' = idle
    BY <1>6 DEF CheckFails
  <2> QED
    BY <2>1, <2>2, <2>3, ConnShrinks DEF ConnShape
<1>7. ASSUME NEW p \in Procs, CheckPasses(p)
      PROVE  ConnShape'
  BY <1>7 DEF CheckPasses, ConnShape
<1>8. ASSUME NEW p \in Procs, GetFull(p)
      PROVE  ConnShape'
  BY <1>8 DEF GetFull, ConnShape
<1>9. ASSUME NEW p \in Procs, Enqueue(p)
      PROVE  ConnShape'
  BY <1>9 DEF Enqueue, ConnShape
<1>10. ASSUME NEW p \in Procs, TakeSlot(p)
       PROVE  ConnShape'
  BY <1>10 DEF TakeSlot, ConnShape
<1>11. ASSUME NEW p \in Procs, DialFails(p)
       PROVE  ConnShape'
  <2>1. \A q \in Procs : held'[q] \in {held[q], None}
    BY <1>11 DEF DialFails, TypeOK
  <2>2. \A q \in Procs : chan'[q] \in {chan[q], None, Wake}
    BY <1>11, DecOpenChannels DEF DialFails
  <2>3. idle' = idle
    BY <1>11 DEF DialFails
  <2> QED
    BY <2>1, <2>2, <2>3, ConnShrinks DEF ConnShape
<1>12. ASSUME NEW p \in Procs, DialSucceeds(p)
       PROVE  ConnShape'
  <2>1. PICK c \in Fresh : held' = [held EXCEPT ![p] = c]
    BY <1>12 DEF DialSucceeds
  <2>2. /\ c \in Conns /\ c \notin ToSet(idle)
        /\ \A q \in Procs : held[q] # c /\ chan[q] # c
    BY <2>1 DEF Fresh, Live
  <2>3. chan' = chan /\ idle' = idle
    BY <1>12 DEF DialSucceeds
  <2> QED
    BY <2>1, <2>2, <2>3 DEF ConnShape, TypeOK
<1>13. ASSUME NEW p \in Procs, Receive(p)
       PROVE  ConnShape'
  <2>1. chan' = [chan EXCEPT ![p] = None] /\ idle' = idle
    BY <1>13 DEF Receive
  <2>2. CASE chan[p] = Wake
    <3>1. held' = held
      BY <1>13, <2>2 DEF Receive
    <3>2. \A q \in Procs : chan'[q] \in {chan[q], None, Wake}
      BY <2>1 DEF TypeOK
    <3> QED
      BY <2>1, <3>1, <3>2, ConnShrinks DEF ConnShape
  <2>3. CASE chan[p] # Wake
    <3>1. held' = [held EXCEPT ![p] = chan[p]] /\ chan[p] \in Conns
      BY <1>13, <2>3 DEF Receive, TypeOK
    <3> QED
      BY <2>1, <3>1, ConnTaken
  <2> QED
    BY <2>2, <2>3
<1>14. ASSUME NEW p \in Procs, LeaveQueue(p)
       PROVE  ConnShape'
  BY <1>14 DEF LeaveQueue, ConnShape
<1>15. ASSUME NEW p \in Procs, AlreadyDequeued(p)
       PROVE  ConnShape'
  BY <1>15 DEF AlreadyDequeued, ConnShape
<1>16. ASSUME NEW p \in Procs, Drain(p)
       PROVE  ConnShape'
  <2>1. chan' = [chan EXCEPT ![p] = None] /\ idle' = idle
    BY <1>16 DEF Drain
  <2>2. CASE chan[p] = Wake
    <3>1. held' = held
      BY <1>16, <2>2 DEF Drain
    <3>2. \A q \in Procs : chan'[q] \in {chan[q], None, Wake}
      BY <2>1 DEF TypeOK
    <3> QED
      BY <2>1, <3>1, <3>2, ConnShrinks DEF ConnShape
  <2>3. CASE chan[p] # Wake
    <3>1. held' = [held EXCEPT ![p] = chan[p]] /\ chan[p] \in Conns
      BY <1>16, <2>3 DEF Drain, TypeOK
    <3> QED
      BY <2>1, <3>1, ConnTaken
  <2> QED
    BY <2>2, <2>3
<1>17. ASSUME NEW p \in Procs, PutTake(p)
       PROVE  ConnShape'
  BY <1>17 DEF PutTake, ConnShape
<1>18. ASSUME NEW p \in Procs, PutDiscard(p)
       PROVE  ConnShape'
  <2>1. \A q \in Procs : held'[q] \in {held[q], None}
    BY <1>18 DEF PutDiscard, TypeOK
  <2>2. \A q \in Procs : chan'[q] \in {chan[q], None, Wake}
    BY <1>18, DecOpenChannels DEF PutDiscard
  <2>3. idle' = idle
    BY <1>18 DEF PutDiscard
  <2> QED
    BY <2>1, <2>2, <2>3, ConnShrinks DEF ConnShape
<1>19. ASSUME NEW p \in Procs, PutClosed(p)
       PROVE  ConnShape'
  <2>1. \A q \in Procs : held'[q] \in {held[q], None}
    BY <1>19 DEF PutClosed, TypeOK
  <2>2. \A q \in Procs : chan'[q] \in {chan[q], None, Wake}
    BY <1>19, DecOpenChannels DEF PutClosed
  <2>3. idle' = idle
    BY <1>19 DEF PutClosed
  <2> QED
    BY <2>1, <2>2, <2>3, ConnShrinks DEF ConnShape
<1>20. ASSUME NEW p \in Procs, PutWaiter(p)
       PROVE  ConnShape'
  BY <1>20 DEF PutWaiter, ConnShape
<1>21. ASSUME NEW p \in Procs, Handoff(p)
       PROVE  ConnShape'
  <2>1. /\ chan' = [chan EXCEPT ![to[p]] = held[p]]
        /\ held' = [held EXCEPT ![p] = None] /\ idle' = idle
        /\ held[p] \in Conns /\ to[p] \in Procs
    BY <1>21 DEF Handoff, HandShape, HoldLocations, TypeOK
  <2> QED
    BY <2>1, ConnPassed
<1>22. ASSUME NEW p \in Procs, PutExcess(p)
       PROVE  ConnShape'
  <2>1. \A q \in Procs : held'[q] \in {held[q], None}
    BY <1>22 DEF PutExcess, TypeOK
  <2>2. \A q \in Procs : chan'[q] \in {chan[q], None, Wake}
    BY <1>22, DecOpenChannels DEF PutExcess
  <2>3. idle' = idle
    BY <1>22 DEF PutExcess
  <2> QED
    BY <2>1, <2>2, <2>3, ConnShrinks DEF ConnShape
<1>23. ASSUME NEW p \in Procs, PutIdle(p)
       PROVE  ConnShape'
  <2>1. held[p] \in Conns /\ held[p] \notin ToSet(idle)
    BY <1>23 DEF PutIdle, HandShape, HoldLocations, TypeOK, ConnShape
  <2>2. /\ idle' = Append(idle, held[p])
        /\ held' = [held EXCEPT ![p] = None] /\ chan' = chan
    BY <1>23 DEF PutIdle
  <2>3. ToSet(idle') = ToSet(idle) \cup {held[p]} /\ IsInjective(idle')
    BY <2>1, <2>2, ToSetAppend DEF ConnShape, TypeOK
  <2> QED
    BY <2>1, <2>2, <2>3, ConnReturned
<1>24. ASSUME NEW p \in Procs, PutQuit(p)
       PROVE  ConnShape'
  <2>1. \A q \in Procs : held'[q] \in {held[q], None}
    BY <1>24 DEF PutQuit, TypeOK
  <2>2. \A q \in Procs : chan'[q] \in {chan[q], None, Wake}
    BY <1>24 DEF PutQuit
  <2>3. idle' = idle
    BY <1>24 DEF PutQuit
  <2> QED
    BY <2>1, <2>2, <2>3, ConnShrinks DEF ConnShape
<1>25. CASE Close
  <2>1. held' = held /\ idle' = <<>>
    BY <1>25 DEF Close
  <2>2. \A q \in Procs : chan'[q] \in {chan[q], None, Wake}
    BY <1>25, CloseChannels
  <2>3. ToSet(<<>>) = {} /\ IsInjective(<<>>)
    BY DEF ToSet, IsInjective
  <2> QED
    BY <2>1, <2>2, <2>3, ConnShrinks
<1>26. ASSUME NEW c \in Conns, CloseQuit(c)
       PROVE  ConnShape'
  BY <1>26 DEF CloseQuit, ConnShape
<1> QED
  BY <1>1, <1>2, <1>3, <1>4, <1>5, <1>6, <1>7, <1>8, <1>9, <1>10, <1>11, <1>12, <1>13,
     <1>14, <1>15, <1>16, <1>17, <1>18, <1>19, <1>20, <1>21, <1>22, <1>23, <1>24, <1>25,
     <1>26
     DEF Next, Progress

-----------------------------------------------------------------------------
(* What the pool lends and keeps *)

\* The connection lent to each goroutine, and the one each is checking.
Loan == [p \in Procs |->
            IF pc[p] \in {"using", "reset", "drop", "handoff"} THEN held[p]
            ELSE IF chan[p] \in Conns THEN chan[p] ELSE None]
Checked == [p \in Procs |-> IF pc[p] = "check" THEN held[p] ELSE None]

\* The lent and the kept connections of the refinement mapping, by goroutine.
ByProc ==
    /\ Lent = {<<p, Loan[p]>> : p \in {q \in Procs : Loan[q] # None}}
    /\ Kept = ToSet(idle) \cup {Checked[p] : p \in {q \in Procs : Checked[q] # None}}

\* A borrower has one connection, in its hand or in its channel.
LEMMA ByGoroutine == IInv => ByProc
<1> SUFFICES ASSUME IInv
             PROVE  ByProc
  OBVIOUS
<1> DEFINE Lending == {"using", "reset", "drop", "handoff"}
<1>1. \A q \in Procs : Loan[q] = IF pc[q] \in Lending THEN held[q]
                                 ELSE IF chan[q] \in Conns THEN chan[q] ELSE None
  BY DEF Loan
<1>2. \A q \in Procs : pc[q] \in Lending => held[q] # None /\ chan[q] \notin Conns
  BY TokenAssumption DEF IInv, TypeOK, HandShape, HoldLocations, WaitShape, WaitLocations
<1>3. \A q \in Procs : pc[q] = "check" => held[q] # None
  BY DEF IInv, HandShape, HoldLocations
<1>4. {q \in Procs : Checked[q] # None} = {q \in Procs : pc[q] = "check"}
  BY <1>3 DEF Checked
<1>5. {q \in Procs : Loan[q] # None}
        = {q \in Procs : pc[q] \in Lending} \cup {q \in Procs : chan[q] \in Conns}
  BY <1>1, <1>2, TokenAssumption
<1>6. \A q \in Procs : pc[q] \in Lending => Loan[q] = held[q]
  BY <1>1
<1>7. \A q \in Procs : chan[q] \in Conns => Loan[q] = chan[q]
  BY <1>1, <1>2
<1>8. Lent = {<<p, Loan[p]>> : p \in {q \in Procs : Loan[q] # None}}
  BY <1>5, <1>6, <1>7 DEF Lent
<1>9. Kept = ToSet(idle) \cup {Checked[p] : p \in {q \in Procs : Checked[q] # None}}
  BY <1>4 DEF Kept, Checked
<1> QED
  BY <1>8, <1>9 DEF ByProc

\* The same, of the connections after a step.
LEMMA ByGoroutineNext == IInv' => ByProc'
  BY ByGoroutine, PTL

\* What goroutine q holds after a step.
LEMMA LoanAt ==
    ASSUME NEW q \in Procs
    PROVE  /\ Loan[q] = IF pc[q] \in {"using", "reset", "drop", "handoff"} THEN held[q]
                        ELSE IF chan[q] \in Conns THEN chan[q] ELSE None
           /\ Checked[q] = IF pc[q] = "check" THEN held[q] ELSE None
           /\ Loan'[q] = IF pc'[q] \in {"using", "reset", "drop", "handoff"} THEN held'[q]
                         ELSE IF chan'[q] \in Conns THEN chan'[q] ELSE None
           /\ Checked'[q] = IF pc'[q] = "check" THEN held'[q] ELSE None
  BY DEF Loan, Checked

\* A goroutine whose hand and location stay the same, and whose channel does or
\* gets nil, keeps its loan.
LEMMA LoanKept ==
    ASSUME NEW q \in Procs, pc'[q] = pc[q], held'[q] = held[q],
           chan'[q] = chan[q] \/ (chan[q] = None /\ chan'[q] = Wake)
    PROVE  Loan'[q] = Loan[q] /\ Checked'[q] = Checked[q]
  BY LoanAt, TokenAssumption

\* Who has no loan is empty-handed.
LEMMA NoLoan ==
    ASSUME ByProc, NEW p \in Procs, Loan[p] = None
    PROVE  Lease!Empty(p)
  BY DEF ByProc, Lease!Empty

\* When every goroutine keeps what it has, so does the pool.
LEMMA LeaseStutters ==
    ASSUME ByProc, ByProc',
           \A q \in Procs : Loan'[q] = Loan[q] /\ Checked'[q] = Checked[q],
           ToSet(idle') = ToSet(idle)
    PROVE  Lent' = Lent /\ Kept' = Kept
  BY DEF ByProc

\* One goroutine gives up its loan.
LEMMA LoanEnds ==
    ASSUME ByProc, ByProc', NEW p \in Procs, Loan[p] # None, Loan'[p] = None,
           \A q \in Procs : q # p => Loan'[q] = Loan[q]
    PROVE  <<p, Loan[p]>> \in Lent /\ Lent' = Lent \ {<<p, Loan[p]>>}
  BY DEF ByProc

\* One goroutine gets a loan.
LEMMA LoanBegins ==
    ASSUME ByProc, ByProc', NEW p \in Procs, Loan[p] = None, Loan'[p] # None,
           \A q \in Procs : q # p => Loan'[q] = Loan[q]
    PROVE  Lent' = Lent \cup {<<p, Loan'[p]>>}
  BY DEF ByProc

\* A loan goes from one goroutine to another.
LEMMA LoanMoves ==
    ASSUME ByProc, ByProc', NEW p \in Procs, NEW r \in Procs, p # r,
           Loan[p] # None, Loan'[p] = None, Loan[r] = None, Loan'[r] = Loan[p],
           \A q \in Procs : q # p /\ q # r => Loan'[q] = Loan[q]
    PROVE  /\ <<p, Loan[p]>> \in Lent
           /\ Lent' = (Lent \ {<<p, Loan[p]>>}) \cup {<<r, Loan[p]>>}
  BY DEF ByProc

\* The checked connections that no other goroutine and not the stack has.
LEMMA KeptSame ==
    ASSUME ByProc, ByProc', \A q \in Procs : Checked'[q] = Checked[q],
           ToSet(idle') = ToSet(idle)
    PROVE  Kept' = Kept
  BY DEF ByProc

\* A connection that was being checked is not kept any more.
LEMMA CheckEnds ==
    ASSUME ByProc, ByProc', ConnShape, NEW p \in Procs, pc[p] = "check",
           held[p] # None, Checked'[p] = None,
           \A q \in Procs : q # p => Checked'[q] = Checked[q],
           ToSet(idle') = ToSet(idle)
    PROVE  held[p] \in Kept /\ Kept' = Kept \ {held[p]}
<1>1. Checked[p] = held[p]
  BY LoanAt
<1>2. \A q \in Procs : q # p => Checked[q] # held[p]
  BY LoanAt DEF ConnShape
<1>3. held[p] \notin ToSet(idle)
  BY DEF ConnShape
<1> QED
  BY <1>1, <1>2, <1>3 DEF ByProc

\* A discarded loan is a step of the lease.
LEMMA LoanDropped ==
    ASSUME IInv, ByProc, ByProc', NEW p \in Procs, pc[p] \in {"reset", "drop"},
           Loan'[p] = None,
           \A q \in Procs : q # p => Loan'[q] = Loan[q],
           \A q \in Procs : Checked'[q] = Checked[q], ToSet(idle') = ToSet(idle)
    PROVE  Lease!LeaseNext
<1>1. Loan[p] = held[p] /\ held[p] \in Conns
  BY LoanAt DEF IInv, TypeOK, HandShape, HoldLocations
<1>2. <<p, held[p]>> \in Lent /\ Lent' = Lent \ {<<p, held[p]>>}
  BY <1>1, LoanEnds, TokenAssumption
<1>3. Kept' = Kept
  BY KeptSame
<1>4. Lease!Drop(p, held[p])
  BY <1>2, <1>3 DEF Lease!Drop
<1> QED
  BY <1>1, <1>4 DEF Lease!LeaseNext

\* What the pool lends and keeps is counted in p.open, and a dial as well: a new
\* connection never exceeds MaxOpen.
LEMMA KnownCounted ==
    ASSUME IInv, OpenBounded, ByProc, NEW p \in Procs, pc[p] = "dial", MaxOpen > 0
    PROVE  Cardinality(Lease!Known) < MaxOpen
<1> DEFINE Others == Busy \ {p}
           own == [q \in Others |-> IF Loan[q] # None THEN Loan[q] ELSE Checked[q]]
           Owned == {own[q] : q \in Others}
<1>1. p \in Busy
  BY DEF Busy, SlotLocations
<1>2. /\ IsFiniteSet(Others) /\ Cardinality(Others) = Cardinality(Busy) - 1
      /\ Cardinality(Busy) \in Nat
  BY <1>1, BusyFinite, FS_RemoveElement
<1>3. IsFiniteSet(Owned) /\ Cardinality(Owned) <= Cardinality(Others)
  <2>1. own \in [Others -> {own[q] : q \in Others}]
    OBVIOUS
  <2> HIDE DEF own, Others
  <2> QED
    BY <1>2, <2>1, ValuesCounted
<1>4. IsFiniteSet(ToSet(idle)) /\ Cardinality(ToSet(idle)) <= Len(idle)
  BY StackCounted DEF IInv, TypeOK
<1>5. Lease!Known \subseteq ToSet(idle) \cup Owned
  <2>1. ASSUME NEW q \in Procs, Loan[q] # None
        PROVE  q \in Others /\ own[q] = Loan[q]
    <3>1. q \in Busy
      BY <2>1, LoanAt DEF Busy, SlotLocations
    <3>2. Loan[p] = None
      BY LoanAt, TokenAssumption DEF IInv, WaitShape, WaitLocations
    <3> QED
      BY <2>1, <3>1, <3>2
  <2>2. \A q \in Procs : Checked[q] # None => q \in Others /\ own[q] = Checked[q]
    <3>1. \A q \in Procs : Checked[q] # None => pc[q] = "check" /\ chan[q] = None
      BY LoanAt DEF IInv, WaitShape, WaitLocations
    <3> QED
      BY <3>1, LoanAt, TokenAssumption DEF Busy, SlotLocations
  <2> HIDE DEF own, Others
  <2> QED
    BY <2>1, <2>2 DEF ByProc, Lease!Known
<1> HIDE DEF Others, Owned
<1>6. /\ IsFiniteSet(ToSet(idle) \cup Owned)
      /\ Cardinality(ToSet(idle) \cup Owned) <= Cardinality(ToSet(idle)) + Cardinality(Owned)
  <2>1. IsFiniteSet(ToSet(idle) \cap Owned)
    BY <1>3, FS_Subset
  <2>2. /\ IsFiniteSet(ToSet(idle) \cup Owned)
        /\ Cardinality(ToSet(idle) \cup Owned)
              = Cardinality(ToSet(idle)) + Cardinality(Owned) - Cardinality(ToSet(idle) \cap Owned)
    BY <1>3, <1>4, FS_Union
  <2>3. /\ Cardinality(ToSet(idle)) \in Nat /\ Cardinality(Owned) \in Nat
        /\ Cardinality(ToSet(idle) \cap Owned) \in Nat
    BY <1>3, <1>4, <2>1, FS_CardinalityType
  <2> QED
    BY <2>2, <2>3
<1>7. IsFiniteSet(Lease!Known) /\ Cardinality(Lease!Known) <= Cardinality(ToSet(idle) \cup Owned)
  BY <1>5, <1>6, FS_Subset
<1>8. /\ Cardinality(Lease!Known) \in Nat /\ Cardinality(ToSet(idle) \cup Owned) \in Nat
      /\ Cardinality(ToSet(idle)) \in Nat /\ Cardinality(Owned) \in Nat
      /\ Cardinality(Others) \in Nat
  BY <1>2, <1>3, <1>4, <1>6, <1>7, FS_CardinalityType
<1>9. open = Len(idle) + Cardinality(Busy) /\ open <= MaxOpen /\ Len(idle) \in Nat
  BY DEF IInv, TypeOK, Accounting, OpenBounded
<1> QED
  BY <1>2, <1>3, <1>4, <1>6, <1>7, <1>8, <1>9, LimitAssumption

-----------------------------------------------------------------------------
(* The refinement *)

\* The instance of FiniteSets that the lease extends is the same Cardinality.
LEMMA LeaseCardinality == Lease!Cardinality(Lease!Known) = Cardinality(Lease!Known)
  BY DEF Lease!Cardinality, Cardinality

\* Every step of the pool is a step of the lease or leaves it alone: an idle
\* connection is lent or expires, a new one is opened within the limit, a lent
\* one comes back, goes to a waiter, or is dropped.
LEMMA LeaseStep ==
    ASSUME IInv, IInv', OpenBounded, ConnShape, [Next]_vars
    PROVE  [Lease!LeaseNext]_<<Lent, Kept>>
<1> USE TokenAssumption DEF IInv
<1> ByProc /\ ByProc'
  BY ByGoroutine, ByGoroutineNext
<1>1. CASE UNCHANGED vars
  <2>1. \A q \in Procs : Loan'[q] = Loan[q] /\ Checked'[q] = Checked[q]
    BY <1>1, LoanKept DEF vars
  <2> QED
    BY <1>1, <2>1, LeaseStutters DEF vars
<1>2. ASSUME NEW p \in Procs, Call(p)
      PROVE  [Lease!LeaseNext]_<<Lent, Kept>>
  <2>1. \A q \in Procs : q # p => Loan'[q] = Loan[q] /\ Checked'[q] = Checked[q]
    BY <1>2, LoanKept DEF Call, TypeOK
  <2>2. Loan'[p] = Loan[p] /\ Checked'[p] = Checked[p]
    BY <1>2, LoanAt DEF Call, TypeOK, HandShape, HoldLocations, WaitShape, WaitLocations
  <2>3. ToSet(idle') = ToSet(idle)
    BY <1>2 DEF Call
  <2> QED
    BY <2>1, <2>2, <2>3, LeaseStutters
<1>3. ASSUME NEW p \in Procs, Cancel(p)
      PROVE  [Lease!LeaseNext]_<<Lent, Kept>>
  <2>1. \A q \in Procs : q # p => Loan'[q] = Loan[q] /\ Checked'[q] = Checked[q]
    BY <1>3, LoanKept DEF Cancel, TypeOK
  <2>2. Loan'[p] = Loan[p] /\ Checked'[p] = Checked[p]
    BY <1>3, LoanAt DEF Cancel, TypeOK, HandShape, HoldLocations, WaitShape, WaitLocations
  <2>3. ToSet(idle') = ToSet(idle)
    BY <1>3 DEF Cancel
  <2> QED
    BY <2>1, <2>2, <2>3, LeaseStutters
<1>4. ASSUME NEW p \in Procs, GetClosed(p)
      PROVE  [Lease!LeaseNext]_<<Lent, Kept>>
  <2>1. \A q \in Procs : q # p => Loan'[q] = Loan[q] /\ Checked'[q] = Checked[q]
    BY <1>4, LoanKept DEF GetClosed, TypeOK
  <2>2. Loan'[p] = Loan[p] /\ Checked'[p] = Checked[p]
    BY <1>4, LoanAt DEF GetClosed, TypeOK, HandShape, HoldLocations, WaitShape, WaitLocations
  <2>3. ToSet(idle') = ToSet(idle)
    BY <1>4 DEF GetClosed
  <2> QED
    BY <2>1, <2>2, <2>3, LeaseStutters
<1>5. ASSUME NEW p \in Procs, PopIdle(p)
      PROVE  [Lease!LeaseNext]_<<Lent, Kept>>
  <2>1. \A q \in Procs : q # p => Loan'[q] = Loan[q] /\ Checked'[q] = Checked[q]
    BY <1>5, LoanKept DEF PopIdle, TypeOK
  <2>2. /\ Loan'[p] = Loan[p] /\ Checked[p] = None /\ Checked'[p] = Last(idle)
    BY <1>5, LoanAt DEF PopIdle, TypeOK, WaitShape, WaitLocations
  <2>3. Last(idle) \in Conns /\ ToSet(idle) = ToSet(idle') \cup {Last(idle)}
    BY <1>5, ToSetFront, FrontLastProperties DEF PopIdle, TypeOK
  <2>4. Lent' = Lent
    BY <2>1, <2>2 DEF ByProc
  <2>5. Kept' = Kept
    <3>1. Last(idle) # None
      BY <2>3
    <3> QED
      BY <2>1, <2>2, <2>3, <3>1 DEF ByProc
  <2> QED
    BY <2>4, <2>5
<1>6. ASSUME NEW p \in Procs, CheckFails(p)
      PROVE  [Lease!LeaseNext]_<<Lent, Kept>>
  <2>1. \A q \in Procs : q # p => Loan'[q] = Loan[q] /\ Checked'[q] = Checked[q]
    BY <1>6, LoanKept, DecOpenChannels DEF CheckFails, TypeOK
  <2>2. Loan[p] = None /\ Loan'[p] = None /\ Checked'[p] = None
    <3>1. chan[p] = None /\ chan'[p] \notin Conns
      BY <1>6, DecOpenChannels DEF CheckFails, WaitShape, WaitLocations
    <3> QED
      BY <1>6, <3>1, LoanAt DEF CheckFails, TypeOK
  <2>3. pc[p] = "check" /\ held[p] # None /\ idle' = idle
    BY <1>6 DEF CheckFails, HandShape, HoldLocations
  <2>4. Lent' = Lent
    BY <2>1, <2>2 DEF ByProc
  <2>5. held[p] \in Kept /\ Kept' = Kept \ {held[p]}
    BY <2>1, <2>2, <2>3, CheckEnds
  <2>6. Lease!Expire({held[p]})
    BY <2>4, <2>5 DEF Lease!Expire
  <2> QED
    BY <2>5, <2>6 DEF Lease!LeaseNext
<1>7. ASSUME NEW p \in Procs, CheckPasses(p)
      PROVE  [Lease!LeaseNext]_<<Lent, Kept>>
  <2>1. \A q \in Procs : q # p => Loan'[q] = Loan[q] /\ Checked'[q] = Checked[q]
    BY <1>7, LoanKept DEF CheckPasses, TypeOK
  <2>2. pc[p] = "check" /\ held[p] # None /\ held[p] \in Conns /\ idle' = idle
    BY <1>7 DEF CheckPasses, HandShape, HoldLocations, TypeOK
  <2>3. Loan[p] = None /\ Loan'[p] = held[p] /\ Checked'[p] = None
    BY <1>7, LoanAt DEF CheckPasses, TypeOK, WaitShape, WaitLocations
  <2>4. Lent' = Lent \cup {<<p, held[p]>>}
    BY <2>1, <2>2, <2>3, LoanBegins
  <2>5. held[p] \in Kept /\ Kept' = Kept \ {held[p]}
    BY <2>1, <2>2, <2>3, CheckEnds
  <2>6. Lease!Lend(p, held[p])
    BY <2>3, <2>4, <2>5, NoLoan DEF Lease!Lend
  <2> QED
    BY <2>2, <2>6 DEF Lease!LeaseNext
<1>8. ASSUME NEW p \in Procs, GetFull(p)
      PROVE  [Lease!LeaseNext]_<<Lent, Kept>>
  <2>1. \A q \in Procs : q # p => Loan'[q] = Loan[q] /\ Checked'[q] = Checked[q]
    BY <1>8, LoanKept DEF GetFull, TypeOK
  <2>2. Loan'[p] = Loan[p] /\ Checked'[p] = Checked[p]
    BY <1>8, LoanAt DEF GetFull, TypeOK, HandShape, HoldLocations, WaitShape, WaitLocations
  <2>3. ToSet(idle') = ToSet(idle)
    BY <1>8 DEF GetFull
  <2> QED
    BY <2>1, <2>2, <2>3, LeaseStutters
<1>9. ASSUME NEW p \in Procs, Enqueue(p)
      PROVE  [Lease!LeaseNext]_<<Lent, Kept>>
  <2>1. \A q \in Procs : q # p => Loan'[q] = Loan[q] /\ Checked'[q] = Checked[q]
    BY <1>9, LoanKept DEF Enqueue, TypeOK
  <2>2. Loan'[p] = Loan[p] /\ Checked'[p] = Checked[p]
    BY <1>9, LoanAt DEF Enqueue, TypeOK, HandShape, HoldLocations, WaitShape, WaitLocations
  <2>3. ToSet(idle') = ToSet(idle)
    BY <1>9 DEF Enqueue
  <2> QED
    BY <2>1, <2>2, <2>3, LeaseStutters
<1>10. ASSUME NEW p \in Procs, TakeSlot(p)
       PROVE  [Lease!LeaseNext]_<<Lent, Kept>>
  <2>1. \A q \in Procs : q # p => Loan'[q] = Loan[q] /\ Checked'[q] = Checked[q]
    BY <1>10, LoanKept DEF TakeSlot, TypeOK
  <2>2. Loan'[p] = Loan[p] /\ Checked'[p] = Checked[p]
    BY <1>10, LoanAt DEF TakeSlot, TypeOK, HandShape, HoldLocations, WaitShape, WaitLocations
  <2>3. ToSet(idle') = ToSet(idle)
    BY <1>10 DEF TakeSlot
  <2> QED
    BY <2>1, <2>2, <2>3, LeaseStutters
<1>11. ASSUME NEW p \in Procs, DialFails(p)
       PROVE  [Lease!LeaseNext]_<<Lent, Kept>>
  <2>1. \A q \in Procs : q # p => Loan'[q] = Loan[q] /\ Checked'[q] = Checked[q]
    BY <1>11, LoanKept, DecOpenChannels DEF DialFails, TypeOK
  <2>2. Loan'[p] = Loan[p] /\ Checked'[p] = Checked[p]
    BY <1>11, LoanAt, DecOpenChannels DEF DialFails, TypeOK, HandShape, HoldLocations, WaitShape, WaitLocations
  <2>3. ToSet(idle') = ToSet(idle)
    BY <1>11 DEF DialFails
  <2> QED
    BY <2>1, <2>2, <2>3, LeaseStutters
<1>12. ASSUME NEW p \in Procs, DialSucceeds(p)
       PROVE  [Lease!LeaseNext]_<<Lent, Kept>>
  <2>1. PICK c \in Fresh : held' = [held EXCEPT ![p] = c]
    BY <1>12 DEF DialSucceeds
  <2>2. /\ c \in Conns /\ c \notin ToSet(idle)
        /\ \A q \in Procs : held[q] # c /\ chan[q] # c
    BY <2>1 DEF Fresh, Live
  <2>3. \A q \in Procs : q # p => Loan'[q] = Loan[q] /\ Checked'[q] = Checked[q]
    BY <1>12, <2>1, LoanKept DEF DialSucceeds, TypeOK
  <2>4. Loan[p] = None /\ Loan'[p] = c /\ Checked[p] = None /\ Checked'[p] = None
    <3>1. pc[p] = "dial" /\ chan[p] = None
      BY <1>12 DEF DialSucceeds, TypeOK, WaitShape, WaitLocations
    <3>2. pc'[p] = "using" /\ held'[p] = c
      BY <1>12, <2>1 DEF DialSucceeds, TypeOK
    <3>3. None \notin Conns
      BY TokenAssumption
    <3>4. Loan[p] = None /\ Checked[p] = None
      BY <3>1, <3>3, LoanAt
    <3>5. Loan'[p] = c /\ Checked'[p] = None
      BY <3>2, LoanAt
    <3> QED
      BY <3>4, <3>5
  <2>5. idle' = idle /\ pc[p] = "dial"
    BY <1>12 DEF DialSucceeds
  <2>6. Lent' = Lent \cup {<<p, c>>}
    BY <2>2, <2>3, <2>4, LoanBegins
  <2>7. Kept' = Kept
    BY <2>3, <2>4, <2>5, KeptSame
  <2>8. c \notin Lease!Known
    <3>1. \A q \in Procs : Loan[q] # c /\ Checked[q] # c
      BY <2>2, LoanAt
    <3> QED
      BY <2>2, <3>1 DEF ByProc, Lease!Known
  <2>9. Lease!Open(p, c)
    <3>1. Lease!Empty(p)
      BY <2>4, NoLoan
    <3>2. MaxOpen > 0 => Lease!Cardinality(Lease!Known) < MaxOpen
      BY <2>5, KnownCounted, LeaseCardinality
    <3> QED
      BY <2>6, <2>7, <2>8, <3>1, <3>2 DEF Lease!Open
  <2> QED
    BY <2>2, <2>9 DEF Lease!LeaseNext
<1>13. ASSUME NEW p \in Procs, Receive(p)
       PROVE  [Lease!LeaseNext]_<<Lent, Kept>>
  <2>1. \A q \in Procs : q # p => Loan'[q] = Loan[q] /\ Checked'[q] = Checked[q]
    BY <1>13, LoanKept DEF Receive, TypeOK
  <2>2. Loan'[p] = Loan[p] /\ Checked'[p] = Checked[p]
    BY <1>13, LoanAt DEF Receive, TypeOK, HandShape, HoldLocations, WaitShape, WaitLocations
  <2>3. ToSet(idle') = ToSet(idle)
    BY <1>13 DEF Receive
  <2> QED
    BY <2>1, <2>2, <2>3, LeaseStutters
<1>14. ASSUME NEW p \in Procs, LeaveQueue(p)
       PROVE  [Lease!LeaseNext]_<<Lent, Kept>>
  <2>1. \A q \in Procs : q # p => Loan'[q] = Loan[q] /\ Checked'[q] = Checked[q]
    BY <1>14, LoanKept DEF LeaveQueue, TypeOK
  <2>2. Loan'[p] = Loan[p] /\ Checked'[p] = Checked[p]
    BY <1>14, LoanAt DEF LeaveQueue, TypeOK, HandShape, HoldLocations, WaitShape, WaitLocations
  <2>3. ToSet(idle') = ToSet(idle)
    BY <1>14 DEF LeaveQueue
  <2> QED
    BY <2>1, <2>2, <2>3, LeaseStutters
<1>15. ASSUME NEW p \in Procs, AlreadyDequeued(p)
       PROVE  [Lease!LeaseNext]_<<Lent, Kept>>
  <2>1. \A q \in Procs : q # p => Loan'[q] = Loan[q] /\ Checked'[q] = Checked[q]
    BY <1>15, LoanKept DEF AlreadyDequeued, TypeOK
  <2>2. Loan'[p] = Loan[p] /\ Checked'[p] = Checked[p]
    BY <1>15, LoanAt DEF AlreadyDequeued, TypeOK, HandShape, HoldLocations, WaitShape, WaitLocations
  <2>3. ToSet(idle') = ToSet(idle)
    BY <1>15 DEF AlreadyDequeued
  <2> QED
    BY <2>1, <2>2, <2>3, LeaseStutters
<1>16. ASSUME NEW p \in Procs, Drain(p)
       PROVE  [Lease!LeaseNext]_<<Lent, Kept>>
  <2>1. \A q \in Procs : q # p => Loan'[q] = Loan[q] /\ Checked'[q] = Checked[q]
    BY <1>16, LoanKept DEF Drain, TypeOK
  <2>2. Loan'[p] = Loan[p] /\ Checked'[p] = Checked[p]
    BY <1>16, LoanAt DEF Drain, TypeOK, HandShape, HoldLocations, WaitShape, WaitLocations
  <2>3. ToSet(idle') = ToSet(idle)
    BY <1>16 DEF Drain
  <2> QED
    BY <2>1, <2>2, <2>3, LeaseStutters
<1>17. ASSUME NEW p \in Procs, PutTake(p)
       PROVE  [Lease!LeaseNext]_<<Lent, Kept>>
  <2>1. \A q \in Procs : q # p => Loan'[q] = Loan[q] /\ Checked'[q] = Checked[q]
    BY <1>17, LoanKept DEF PutTake, TypeOK
  <2>2. Loan'[p] = Loan[p] /\ Checked'[p] = Checked[p]
    BY <1>17, LoanAt DEF PutTake, TypeOK, HandShape, HoldLocations, WaitShape, WaitLocations
  <2>3. ToSet(idle') = ToSet(idle)
    BY <1>17 DEF PutTake
  <2> QED
    BY <2>1, <2>2, <2>3, LeaseStutters
<1>18. ASSUME NEW p \in Procs, PutDiscard(p)
       PROVE  [Lease!LeaseNext]_<<Lent, Kept>>
  <2>1. \A q \in Procs : q # p => Loan'[q] = Loan[q] /\ Checked'[q] = Checked[q]
    BY <1>18, LoanKept, DecOpenChannels DEF PutDiscard, TypeOK
  <2>2. pc[p] \in {"reset", "drop"} /\ idle' = idle
    BY <1>18 DEF PutDiscard
  <2>3. Loan'[p] = None /\ Checked'[p] = Checked[p]
    <3>1. chan[p] = None /\ chan'[p] \notin Conns
      BY <1>18, <2>2, DecOpenChannels DEF PutDiscard, WaitShape, WaitLocations
    <3> QED
      BY <1>18, <3>1, LoanAt DEF PutDiscard, TypeOK
  <2> QED
    BY <2>1, <2>2, <2>3, LoanDropped DEF IInv
<1>19. ASSUME NEW p \in Procs, PutClosed(p)
       PROVE  [Lease!LeaseNext]_<<Lent, Kept>>
  <2>1. \A q \in Procs : q # p => Loan'[q] = Loan[q] /\ Checked'[q] = Checked[q]
    BY <1>19, LoanKept, DecOpenChannels DEF PutClosed, TypeOK
  <2>2. pc[p] \in {"reset", "drop"} /\ idle' = idle
    BY <1>19 DEF PutClosed
  <2>3. Loan'[p] = None /\ Checked'[p] = Checked[p]
    <3>1. chan[p] = None /\ chan'[p] \notin Conns
      BY <1>19, <2>2, DecOpenChannels DEF PutClosed, WaitShape, WaitLocations
    <3> QED
      BY <1>19, <3>1, LoanAt DEF PutClosed, TypeOK
  <2> QED
    BY <2>1, <2>2, <2>3, LoanDropped DEF IInv
<1>20. ASSUME NEW p \in Procs, PutWaiter(p)
       PROVE  [Lease!LeaseNext]_<<Lent, Kept>>
  <2>1. \A q \in Procs : q # p => Loan'[q] = Loan[q] /\ Checked'[q] = Checked[q]
    BY <1>20, LoanKept DEF PutWaiter, TypeOK
  <2>2. Loan'[p] = Loan[p] /\ Checked'[p] = Checked[p]
    BY <1>20, LoanAt DEF PutWaiter, TypeOK, HandShape, HoldLocations, WaitShape, WaitLocations
  <2>3. ToSet(idle') = ToSet(idle)
    BY <1>20 DEF PutWaiter
  <2> QED
    BY <2>1, <2>2, <2>3, LeaseStutters
<1>21. ASSUME NEW p \in Procs, Handoff(p)
       PROVE  [Lease!LeaseNext]_<<Lent, Kept>>
  <2> DEFINE r == to[p]
  <2>1. /\ held[p] \in Conns /\ r \in Procs /\ r # p /\ pc[r] \in WaitLocations
        /\ chan[r] = None
    BY <1>21 DEF Handoff, HandShape, HoldLocations, TypeOK, WaitShape, WaitLocations,
              SendNeverBlocks
  <2>2. /\ pc[p] = "handoff" /\ pc' = [pc EXCEPT ![p] = "out"]
        /\ chan' = [chan EXCEPT ![r] = held[p]]
        /\ held' = [held EXCEPT ![p] = None] /\ idle' = idle
    BY <1>21 DEF Handoff
  <2> HIDE DEF r
  <2>3. \A q \in Procs : q # p /\ q # r => Loan'[q] = Loan[q] /\ Checked'[q] = Checked[q]
    BY <2>2, LoanKept DEF TypeOK
  <2>4. /\ Loan[p] = held[p] /\ Checked[p] = None
        /\ Loan'[p] = None /\ Checked'[p] = None
    <3>1. chan'[p] = None
      BY <2>1, <2>2 DEF TypeOK, WaitShape, WaitLocations
    <3> QED
      BY <2>2, <3>1, LoanAt DEF TypeOK
  <2>5. /\ Loan[r] = None /\ Checked[r] = None
        /\ Loan'[r] = held[p] /\ Checked'[r] = None
    <3>1. chan'[r] = held[p] /\ pc'[r] = pc[r]
      BY <2>1, <2>2 DEF TypeOK
    <3> QED
      BY <2>1, <3>1, LoanAt DEF WaitLocations
  <2>6. /\ <<p, held[p]>> \in Lent
        /\ Lent' = (Lent \ {<<p, held[p]>>}) \cup {<<r, held[p]>>}
    <3>1. held[p] # None
      BY <2>1
    <3> QED
      BY <2>1, <2>3, <2>4, <2>5, <3>1, LoanMoves
  <2>7. Kept' = Kept
    BY <2>2, <2>3, <2>4, <2>5, KeptSame
  <2>8. Lease!Pass(p, r, held[p])
    BY <2>1, <2>5, <2>6, <2>7, NoLoan DEF Lease!Pass
  <2> QED
    BY <2>1, <2>8 DEF Lease!LeaseNext
<1>22. ASSUME NEW p \in Procs, PutExcess(p)
       PROVE  [Lease!LeaseNext]_<<Lent, Kept>>
  <2>1. \A q \in Procs : q # p => Loan'[q] = Loan[q] /\ Checked'[q] = Checked[q]
    BY <1>22, LoanKept, DecOpenChannels DEF PutExcess, TypeOK
  <2>2. pc[p] \in {"reset", "drop"} /\ idle' = idle
    BY <1>22 DEF PutExcess
  <2>3. Loan'[p] = None /\ Checked'[p] = Checked[p]
    <3>1. chan[p] = None /\ chan'[p] \notin Conns
      BY <1>22, <2>2, DecOpenChannels DEF PutExcess, WaitShape, WaitLocations
    <3> QED
      BY <1>22, <3>1, LoanAt DEF PutExcess, TypeOK
  <2> QED
    BY <2>1, <2>2, <2>3, LoanDropped DEF IInv
<1>23. ASSUME NEW p \in Procs, PutIdle(p)
       PROVE  [Lease!LeaseNext]_<<Lent, Kept>>
  <2>1. /\ held[p] \in Conns /\ chan[p] = None /\ pc[p] = "reset"
    BY <1>23 DEF PutIdle, HandShape, HoldLocations, TypeOK, WaitShape, WaitLocations
  <2>2. ToSet(idle') = ToSet(idle) \cup {held[p]}
    BY <1>23, <2>1, ToSetAppend DEF PutIdle, TypeOK
  <2>3. \A q \in Procs : q # p => Loan'[q] = Loan[q] /\ Checked'[q] = Checked[q]
    BY <1>23, LoanKept DEF PutIdle, TypeOK
  <2>4. /\ Loan[p] = held[p] /\ Checked[p] = None
        /\ Loan'[p] = None /\ Checked'[p] = None
    BY <1>23, <2>1, LoanAt DEF PutIdle, TypeOK
  <2>5. <<p, held[p]>> \in Lent /\ Lent' = Lent \ {<<p, held[p]>>}
    BY <2>1, <2>3, <2>4, LoanEnds
  <2>6. Kept' = Kept \cup {held[p]}
    BY <2>2, <2>3, <2>4 DEF ByProc
  <2>7. Lease!Return(p, held[p])
    BY <2>5, <2>6 DEF Lease!Return
  <2> QED
    BY <2>1, <2>7 DEF Lease!LeaseNext
<1>24. ASSUME NEW p \in Procs, PutQuit(p)
       PROVE  [Lease!LeaseNext]_<<Lent, Kept>>
  <2>1. \A q \in Procs : q # p => Loan'[q] = Loan[q] /\ Checked'[q] = Checked[q]
    BY <1>24, LoanKept DEF PutQuit, TypeOK
  <2>2. Loan'[p] = Loan[p] /\ Checked'[p] = Checked[p]
    BY <1>24, LoanAt DEF PutQuit, TypeOK, HandShape, HoldLocations, WaitShape, WaitLocations
  <2>3. ToSet(idle') = ToSet(idle)
    BY <1>24 DEF PutQuit
  <2> QED
    BY <2>1, <2>2, <2>3, LeaseStutters
<1>25. CASE Close
  <2>1. \A q \in Procs : Loan'[q] = Loan[q] /\ Checked'[q] = Checked[q]
    <3>1. pc' = pc /\ held' = held
      BY <1>25 DEF Close
    <3> QED
      BY <1>25, <3>1, LoanKept, CloseChannels
  <2>2. Lent' = Lent
    BY <2>1 DEF ByProc
  <2>3. Kept' = Kept \ ToSet(idle) /\ ToSet(idle) \subseteq Kept
    <3>1. ToSet(idle') = {}
      BY <1>25 DEF Close, ToSet
    <3>2. \A q \in Procs : Checked[q] # None => Checked[q] \notin ToSet(idle)
      BY LoanAt DEF ConnShape
    <3> QED
      BY <2>1, <3>1, <3>2 DEF ByProc
  <2>4. CASE ToSet(idle) = {}
    BY <2>2, <2>3, <2>4
  <2>5. CASE ToSet(idle) # {}
    <3>1. Lease!Expire(ToSet(idle))
      BY <2>2, <2>3, <2>5 DEF Lease!Expire
    <3> QED
      BY <2>3, <3>1 DEF Lease!LeaseNext
  <2> QED
    BY <2>4, <2>5
<1>26. ASSUME NEW c \in Conns, CloseQuit(c)
       PROVE  [Lease!LeaseNext]_<<Lent, Kept>>
  <2>1. \A q \in Procs : Loan'[q] = Loan[q] /\ Checked'[q] = Checked[q]
    BY <1>26, LoanKept DEF CloseQuit
  <2> QED
    BY <1>26, <2>1, LeaseStutters DEF CloseQuit
<1> QED
  BY <1>1, <1>2, <1>3, <1>4, <1>5, <1>6, <1>7, <1>8, <1>9, <1>10, <1>11, <1>12, <1>13,
     <1>14, <1>15, <1>16, <1>17, <1>18, <1>19, <1>20, <1>21, <1>22, <1>23, <1>24, <1>25,
     <1>26
     DEF Next, Progress

\* However Get, Put and Close of any number of goroutines interleave, a connection
\* is lent to one of them at a time, comes from the idle ones, from the dialer
\* within MaxOpen or from the hand of a Put, and is never both lent and idle.
THEOREM Refinement == Spec => ImplementsLease
<1>1. Init => Lease!LeaseInit /\ ConnShape
  <2> SUFFICES ASSUME Init
               PROVE  Lease!LeaseInit /\ ConnShape
    OBVIOUS
  <2>1. ToSet(idle) = {} /\ IsInjective(idle)
    BY DEF Init, ToSet, IsInjective
  <2>2. Lent = {} /\ Kept = {}
    BY <2>1, TokenAssumption DEF Init, Lent, Kept
  <2>3. ConnShape
    BY <2>1, TokenAssumption DEF Init, ConnShape
  <2> QED
    BY <2>2, <2>3 DEF Lease!LeaseInit
<1>2. IInv /\ IInv' /\ ConnShape /\ [Next]_vars => ConnShape'
  BY ConnStep
<1>3. IInv /\ IInv' /\ OpenBounded /\ ConnShape /\ [Next]_vars => [Lease!LeaseNext]_<<Lent, Kept>>
  BY LeaseStep
<1> QED
  BY <1>1, <1>2, <1>3, InductiveInvariant, OpenIsBounded, PTL
     DEF Spec, ImplementsLease, Lease!LeaseSpec, Lease!leaseVars
=============================================================================
