------------------------ MODULE RateLimitedSendProofs ------------------------
(***************************************************************************)
(* Proofs about RateLimitedSend and the two components it composes, for    *)
(* any number of callers, any interval and any burst: TokenBucket alone,   *)
(* TokenSource alone, and that each of them behaves, used together by the  *)
(* same goroutines, as it does alone.                                      *)
(***************************************************************************)
EXTENDS RateLimitedSend, TLAPS

-----------------------------------------------------------------------------
(* The token bucket *)

\* The burst is at least one and the capacity of the bucket a natural number.
LEMMA BurstPositive == Burst \in Nat /\ Burst >= 1 /\ Burst * Interval \in Nat
                       /\ Burst * Interval >= Interval
<1>1. Burst \in Nat /\ Burst >= 1
  BY BurstAssumption DEF Burst
<1>2. Interval \in Nat
  BY IntervalAssumption
<1>3. \A b, k \in Nat : b >= 1 => b * k \in Nat /\ b * k >= k
  OBVIOUS
<1> QED BY <1>1, <1>2, <1>3

\* What reserve finds in the bucket fits in it.
LEMMA RefilledBounds ==
    ASSUME TypeOK
    PROVE  Refilled \in 0..(Burst * Interval) /\ Refilled <= credit + (now - last)
BY BurstPositive DEF TypeOK, Refilled

\* The initial state has the types.
LEMMA TypeInit == Init => TypeOK
BY BurstPositive, IntervalAssumption DEF Init, TypeOK, Locations

\* Every step keeps the types.
LEMMA TypeStep == TypeOK /\ [Next]_vars => TypeOK'
<1> SUFFICES ASSUME TypeOK, [Next]_vars PROVE TypeOK'
  OBVIOUS
<1> USE DEF TypeOK, Locations
<1>0. Interval \in Nat /\ Refilled \in 0..(Burst * Interval)
  BY RefilledBounds, IntervalAssumption
<1>1. ASSUME NEW c \in Callers, Call(c) PROVE TypeOK'
  BY <1>1 DEF Call
<1>2. ASSUME NEW c \in Callers, Cancel(c) PROVE TypeOK'
  BY <1>2 DEF Cancel
<1>3. ASSUME NEW c \in Callers, Reserve(c) PROVE TypeOK'
  <2>1. credit' \in 0..(Burst * Interval)
    <3>1. CASE Interval = 0
      BY <1>3, <3>1 DEF Reserve
    <3>2. CASE Interval # 0
      <4>1. credit' = Refilled - Interval /\ Refilled >= Interval
        BY <1>3, <3>2 DEF Reserve
      <4>2. Burst * Interval \in Nat
        BY BurstPositive
      <4> QED BY <1>0, <4>1, <4>2
    <3> QED BY <3>1, <3>2
  <2>2. granted' \in Seq(0..now')
    BY <1>3 DEF Reserve
  <2> QED BY <1>3, <2>1, <2>2 DEF Reserve
<1>4. ASSUME NEW c \in Callers, Refuse(c) PROVE TypeOK'
  <2>1. delay' \in [Callers -> 0..Interval]
    BY <1>0, <1>4 DEF Refuse
  <2> QED BY <1>0, <1>4, <2>1 DEF Refuse
<1>5. ASSUME NEW c \in Callers, GiveUp(c) PROVE TypeOK'
  BY <1>5 DEF GiveUp
<1>6. ASSUME NEW c \in Callers, StartTimer(c) PROVE TypeOK'
  <2>1. now + delay[c] \in Nat
    BY <1>0, <1>6
  <2> QED BY <1>6, <2>1 DEF StartTimer
<1>7. ASSUME NEW c \in Callers, TimerFires(c) PROVE TypeOK'
  BY <1>7 DEF TimerFires
<1>8. ASSUME Tick PROVE TypeOK'
  <2>1. granted' \in Seq(0..now')
    BY <1>8 DEF Tick
  <2> QED BY <1>8, <2>1 DEF Tick
<1>9. CASE UNCHANGED vars
  BY <1>9 DEF vars
<1> QED BY <1>1, <1>2, <1>3, <1>4, <1>5, <1>6, <1>7, <1>8, <1>9 DEF Next, Progress

\* A step that touches neither the bucket nor the grants.
LEMMA FrameCredit ==
    ASSUME CreditCovers, CreditExact, UNCHANGED <<credit, last, granted>>
    PROVE  CreditCovers' /\ CreditExact'
BY DEF CreditCovers, CreditExact

\* The two steps of reserve keep the bucket in line with the grants.
LEMMA CreditRefuse ==
    ASSUME TypeOK, Interval > 0, CreditCovers, CreditExact,
           NEW c \in Callers, Refuse(c)
    PROVE  CreditCovers' /\ CreditExact'
<1>1. Interval \in Nat /\ Burst \in Nat /\ Burst * Interval \in Nat
  BY BurstPositive, IntervalAssumption
<1>2. granted' = granted /\ last' = now /\ credit' = Refilled
  BY DEF Refuse
<1>3. Len(granted) \in Nat /\ \A i \in 1..Len(granted) : granted[i] \in Int
  BY DEF TypeOK
<1>4. last \in Int /\ now \in Int /\ last <= now /\ credit \in Int /\ credit <= Burst * Interval
  BY <1>1 DEF TypeOK
<1>5. CreditCovers'
  <2> SUFFICES ASSUME NEW i \in 1..Len(granted)
               PROVE  Refilled + (Len(granted) + 1 - i) * Interval
                        <= Burst * Interval + (now - granted[i])
    BY <1>2 DEF CreditCovers
  <2>1. (Len(granted) + 1 - i) * Interval \in Int
    BY <1>1, <1>3
  <2>2. Refilled <= credit + (now - last) /\ Refilled \in Int
    BY RefilledBounds, <1>1
  <2>3. credit + (Len(granted) + 1 - i) * Interval <= Burst * Interval + (last - granted[i])
    BY DEF CreditCovers
  <2> QED BY <1>1, <1>3, <1>4, <2>1, <2>2, <2>3
<1>6. CreditExact'
  <2>1. CASE Refilled = Burst * Interval
    BY <1>2, <2>1 DEF CreditExact
  <2>2. CASE Refilled # Burst * Interval
    <3>1. Refilled = credit + (now - last)
      BY <2>2 DEF Refilled
    <3>2. credit # Burst * Interval
      BY <2>2, <1>1, <1>4, <3>1, RefilledBounds
    <3>3. PICK i \in 1..Len(granted) :
             credit + (Len(granted) + 1 - i) * Interval = Burst * Interval + (last - granted[i])
      BY <3>2 DEF CreditExact
    <3>4. (Len(granted) + 1 - i) * Interval \in Int
      BY <1>1, <1>3
    <3>5. Refilled + (Len(granted) + 1 - i) * Interval = Burst * Interval + (now - granted[i])
      <4> DEFINE w == (Len(granted) + 1 - i) * Interval
                 b == Burst * Interval
      <4>1. credit + w = b + (last - granted[i]) /\ w \in Int /\ b \in Int /\ granted[i] \in Int
        BY <1>1, <1>3, <3>3, <3>4
      <4>2. now \in Int /\ last \in Int /\ credit \in Int
        BY <1>4
      <4> HIDE DEF w, b
      <4>3. Refilled + w = b + (now - granted[i])
        BY <3>1, <4>1, <4>2
      <4> QED BY <4>3 DEF w, b
    <3> QED BY <1>2, <3>5 DEF CreditExact
  <2> QED BY <2>1, <2>2
<1> QED BY <1>5, <1>6

\* A caller is let through only when one more grant keeps to the rate in every
\* window that starts at an earlier one.
LEMMA GrantWithinRate ==
    ASSUME TypeOK, Interval > 0 => CreditCovers, NEW c \in Callers, Reserve(c)
    PROVE  \A i \in 1..Len(granted) :
               (Len(granted) + 2 - i - Burst) * Interval <= now - granted[i]
<1> SUFFICES ASSUME NEW i \in 1..Len(granted)
             PROVE  (Len(granted) + 2 - i - Burst) * Interval <= now - granted[i]
  OBVIOUS
<1>1. Interval \in Nat /\ Burst \in Nat /\ Burst * Interval \in Nat
  BY BurstPositive, IntervalAssumption
<1>2. Len(granted) \in Nat /\ i \in Int /\ granted[i] \in 0..now /\ now \in Nat
  BY DEF TypeOK
<1>3. last \in Int /\ credit \in Int
  BY <1>1 DEF TypeOK
<1>4. CASE Interval = 0
  BY <1>1, <1>2, <1>4
<1>5. CASE Interval > 0
  <2>1. credit + (Len(granted) + 1 - i) * Interval <= Burst * Interval + (last - granted[i])
    BY <1>5 DEF CreditCovers
  <2>2. Interval <= credit + (now - last)
    BY RefilledBounds, <1>1, <1>2, <1>3 DEF Reserve
  <2>3. (Len(granted) + 2 - i - Burst) * Interval
          = (Len(granted) + 1 - i) * Interval + Interval - Burst * Interval
    BY <1>1, <1>2
  <2>4. (Len(granted) + 1 - i) * Interval \in Int
    BY <1>1, <1>2
  <2> QED BY <1>1, <1>2, <1>3, <2>1, <2>2, <2>3, <2>4
<1> QED BY <1>1, <1>4, <1>5

\* A grant costs one interval of credit and opens a window of its own.
LEMMA CreditReserve ==
    ASSUME TypeOK, Interval > 0, CreditCovers, CreditExact,
           NEW c \in Callers, Reserve(c)
    PROVE  CreditCovers' /\ CreditExact'
<1> DEFINE L == Len(granted)
<1>1. Interval \in Nat /\ Burst \in Nat /\ Burst * Interval \in Nat
  BY BurstPositive, IntervalAssumption
<1>2. granted' = Append(granted, now) /\ last' = now /\ credit' = Refilled - Interval
  BY <1>1 DEF Reserve
<1>3. L \in Nat /\ \A i \in 1..L : granted[i] \in Int
  BY DEF TypeOK
<1>4. /\ last \in Int /\ now \in Int /\ last <= now
      /\ credit \in Int /\ credit <= Burst * Interval
  BY <1>1 DEF TypeOK
<1>5. /\ Len(granted') = L + 1
      /\ granted'[L + 1] = now
      /\ \A i \in 1..L : granted'[i] = granted[i]
  BY <1>2 DEF TypeOK
<1>6. Refilled \in Int /\ Refilled <= credit + (now - last) /\ Refilled <= Burst * Interval
  BY RefilledBounds, <1>1
<1> HIDE DEF L
<1>7. \A i \in 1..L : /\ (L + 1 - i) * Interval \in Int
                      /\ (L + 2 - i) * Interval = (L + 1 - i) * Interval + Interval
  BY <1>1, <1>3
<1>8. CreditCovers'
  <2> SUFFICES ASSUME NEW i \in 1..(L + 1)
               PROVE  (Refilled - Interval) + ((L + 1) + 1 - i) * Interval
                        <= Burst * Interval + (now - granted'[i])
    BY <1>2, <1>5 DEF CreditCovers
  <2>1. CASE i = L + 1
    <3>1. ((L + 1) + 1 - i) * Interval = Interval
      BY <1>1, <1>3, <2>1
    <3> QED BY <1>1, <1>4, <1>5, <1>6, <2>1, <3>1
  <2>2. CASE i \in 1..L
    <3>1. credit + (L + 1 - i) * Interval <= Burst * Interval + (last - granted[i])
      BY <2>2 DEF CreditCovers, L
    <3>2. (L + 1) + 1 - i = L + 2 - i
      BY <1>3, <2>2
    <3>3. granted'[i] = granted[i] /\ granted[i] \in Int
      BY <1>3, <1>5, <2>2
    <3> QED BY <1>1, <1>4, <1>6, <1>7, <2>2, <3>1, <3>2, <3>3
  <2> QED BY <1>3, <2>1, <2>2
<1>9. CreditExact'
  <2> SUFFICES \E i \in 1..(L + 1) :
                   (Refilled - Interval) + ((L + 1) + 1 - i) * Interval
                      = Burst * Interval + (now - granted'[i])
    BY <1>2, <1>5 DEF CreditExact
  <2>1. CASE Refilled = Burst * Interval
    <3>1. ((L + 1) + 1 - (L + 1)) * Interval = Interval
      BY <1>1, <1>3
    <3>2. (Refilled - Interval) + ((L + 1) + 1 - (L + 1)) * Interval
             = Burst * Interval + (now - granted'[L + 1])
      BY <1>1, <1>4, <1>5, <2>1, <3>1
    <3> QED BY <1>3, <3>2
  <2>2. CASE Refilled # Burst * Interval
    <3>1. Refilled = credit + (now - last)
      BY <2>2 DEF Refilled
    <3>2. credit # Burst * Interval
      BY <2>2, <1>1, <1>4, <1>6, <3>1
    <3>3. PICK i \in 1..L :
             credit + (L + 1 - i) * Interval = Burst * Interval + (last - granted[i])
      BY <3>2 DEF CreditExact, L
    <3>4. (L + 1) + 1 - i = L + 2 - i /\ i \in 1..(L + 1)
      BY <1>3
    <3>5. granted'[i] = granted[i] /\ granted[i] \in Int
      BY <1>3, <1>5
    <3>6. (Refilled - Interval) + ((L + 1) + 1 - i) * Interval
             = Burst * Interval + (now - granted'[i])
      BY <1>1, <1>4, <1>6, <1>7, <3>1, <3>3, <3>4, <3>5
    <3> QED BY <3>4, <3>6
  <2> QED BY <2>1, <2>2
<1> QED BY <1>8, <1>9

\* Every step keeps the credit in line with the grants.
LEMMA CreditStep ==
    ASSUME TypeOK, Interval > 0, CreditCovers, CreditExact, [Next]_vars
    PROVE  CreditCovers' /\ CreditExact'
<1>1. ASSUME NEW c \in Callers, Call(c) \/ Cancel(c) \/ GiveUp(c) \/ StartTimer(c) \/ TimerFires(c)
      PROVE  CreditCovers' /\ CreditExact'
  BY <1>1, FrameCredit DEF Call, Cancel, GiveUp, StartTimer, TimerFires
<1>2. ASSUME NEW c \in Callers, Reserve(c) PROVE CreditCovers' /\ CreditExact'
  BY <1>2, CreditReserve
<1>3. ASSUME NEW c \in Callers, Refuse(c) PROVE CreditCovers' /\ CreditExact'
  BY <1>3, CreditRefuse
<1>4. ASSUME Tick \/ UNCHANGED vars PROVE CreditCovers' /\ CreditExact'
  BY <1>4, FrameCredit DEF Tick, vars
<1> QED BY <1>1, <1>2, <1>3, <1>4 DEF Next, Progress

\* IInv is an invariant: the credit of compose.go's bucket is, at every moment,
\* exactly what the grants made so far leave of the rate.
THEOREM InductiveInvariant == Spec => []IInv
<1>1. Init => IInv
  <2> SUFFICES ASSUME Init PROVE IInv
    OBVIOUS
  <2>1. CreditCovers /\ CreditExact
    BY DEF Init, CreditCovers, CreditExact
  <2> QED BY <2>1, TypeInit DEF IInv
<1>2. IInv /\ [Next]_vars => IInv'
  BY TypeStep, CreditStep DEF IInv
<1> QED BY <1>1, <1>2, PTL DEF Spec

\* Type correctness.
THEOREM TypeCorrect == Spec => []TypeOK
<1>1. IInv => TypeOK
  BY DEF IInv
<1> QED BY <1>1, InductiveInvariant, PTL

\* NewTokenBucket's promise, in every window: no more grants than the burst
\* plus one per interval.
THEOREM RateBoundHolds == Spec => []RateBound
<1>1. Init => RateBound
  BY DEF Init, RateBound
<1>2. ASSUME IInv, RateBound, [Next]_vars PROVE RateBound'
  <2>1. ASSUME NEW c \in Callers, Reserve(c) PROVE RateBound'
    <3> DEFINE L == Len(granted)
    <3>1. Interval \in Nat /\ Burst \in Nat /\ Burst >= 1
      BY BurstPositive, IntervalAssumption
    <3>2. L \in Nat /\ now \in Nat /\ \A i \in 1..L : granted[i] \in Int
      BY <1>2 DEF IInv, TypeOK
    <3>3. /\ Len(granted') = L + 1
          /\ granted'[L + 1] = now
          /\ \A i \in 1..L : granted'[i] = granted[i]
      BY <1>2, <2>1 DEF Reserve, IInv, TypeOK
    <3>4. \A i \in 1..L : (L + 2 - i - Burst) * Interval <= now - granted[i]
      BY <1>2, <2>1, GrantWithinRate DEF IInv
    <3>5. \A i, j \in 1..L :
             i <= j => (j - i + 1 - Burst) * Interval <= granted[j] - granted[i]
      BY <1>2 DEF RateBound
    <3> HIDE DEF L
    <3> SUFFICES ASSUME NEW i \in 1..(L + 1), NEW j \in 1..(L + 1), i <= j
                 PROVE  (j - i + 1 - Burst) * Interval <= granted'[j] - granted'[i]
      BY <3>3 DEF RateBound
    <3>6. CASE j \in 1..L
      <4>1. i \in 1..L
        BY <3>2, <3>6
      <4> QED BY <3>3, <3>5, <3>6, <4>1
    <3>7. CASE j = L + 1 /\ i \in 1..L
      <4>1. j - i + 1 - Burst = L + 2 - i - Burst
        BY <3>1, <3>2, <3>7
      <4> QED BY <3>3, <3>4, <3>7, <4>1
    <3>8. CASE j = L + 1 /\ i = L + 1
      <4>1. j - i + 1 - Burst = 1 - Burst /\ granted'[j] - granted'[i] = 0
        BY <3>1, <3>2, <3>3, <3>8
      <4>2. \A k, m \in Nat : k >= 1 => (1 - k) * m <= 0
        OBVIOUS
      <4> QED BY <3>1, <4>1, <4>2
    <3> QED BY <3>2, <3>6, <3>7, <3>8
  <2>2. ASSUME UNCHANGED granted PROVE RateBound'
    BY <1>2, <2>2 DEF RateBound
  <2>3. CASE Tick \/ UNCHANGED vars
    BY <2>2, <2>3 DEF Tick, vars
  <2>4. ASSUME NEW c \in Callers,
               Call(c) \/ Cancel(c) \/ Refuse(c) \/ GiveUp(c) \/ StartTimer(c) \/ TimerFires(c)
        PROVE  RateBound'
    BY <2>2, <2>4 DEF Call, Cancel, Refuse, GiveUp, StartTimer, TimerFires
  <2> QED BY <1>2, <2>1, <2>3, <2>4 DEF Next, Progress
<1> QED BY <1>1, <1>2, InductiveInvariant, PTL DEF Spec

\* The bucket refuses nobody it could have let through.
THEOREM RefusalsAreNeeded == Spec => NoNeedlessRefusal
<1> DEFINE Needed(c) == \E i \in 1..Len(granted) :
               (Len(granted) + 2 - i - Burst) * Interval > now - granted[i]
<1>1. ASSUME IInv, NEW c \in Callers, Refuse(c) PROVE Needed(c)
  <2>1. Interval \in Nat /\ Burst \in Nat /\ Burst * Interval \in Nat
        /\ Burst * Interval >= Interval
    BY BurstPositive, IntervalAssumption
  <2>2. Refilled < Interval /\ Refilled \in 0..(Burst * Interval)
    BY <1>1, RefilledBounds DEF Refuse, IInv
  <2>3. Interval > 0 /\ CreditExact
    BY <1>1, <2>1, <2>2 DEF IInv
  <2>4. Len(granted) \in Nat /\ \A i \in 1..Len(granted) : granted[i] \in Int
    BY <1>1 DEF IInv, TypeOK
  <2>5. last \in Int /\ now \in Int /\ last <= now /\ credit \in Int
    BY <1>1, <2>1 DEF IInv, TypeOK
  <2>6. Refilled = credit + (now - last)
    BY <2>1, <2>2 DEF Refilled
  <2>7. credit # Burst * Interval
    BY <2>1, <2>2, <2>5, <2>6
  <2>8. PICK i \in 1..Len(granted) :
           credit + (Len(granted) + 1 - i) * Interval = Burst * Interval + (last - granted[i])
    BY <2>3, <2>7 DEF CreditExact
  <2>9. /\ (Len(granted) + 1 - i) * Interval \in Int
        /\ (Len(granted) + 2 - i - Burst) * Interval
             = (Len(granted) + 1 - i) * Interval + Interval - Burst * Interval
    BY <2>1, <2>4
  <2>10. (Len(granted) + 2 - i - Burst) * Interval > now - granted[i]
    BY <2>1, <2>2, <2>4, <2>5, <2>6, <2>8, <2>9
  <2> QED BY <2>10
<1>2. ASSUME IInv, [Next]_vars, NEW c \in Callers, pc[c] = "reserve", pc'[c] = "refused"
      PROVE  Needed(c)
  <2>1. Refuse(c)
    BY <1>2 DEF Next, Progress, Call, Cancel, Reserve, Refuse, GiveUp, StartTimer,
                TimerFires, Tick, vars, IInv, TypeOK
  <2> QED BY <1>1, <1>2, <2>1
<1>3. IInv /\ [Next]_vars =>
        [\A c \in Callers : pc[c] = "reserve" /\ pc'[c] = "refused" => Needed(c)]_vars
  BY <1>2
<1> QED BY <1>3, InductiveInvariant, PTL DEF Spec, NoNeedlessRefusal

-----------------------------------------------------------------------------
(* The bucket that fills all the time *)

\* Nobody has less than no time left, and who is asleep or refused has what
\* TimeLeft says.
LEMMA TimeLeftIs ==
    ASSUME TypeOK
    PROVE  /\ TimeLeft \in [Callers -> Nat]
           /\ \A c \in Callers :
                 /\ pc[c] = "refused" => TimeLeft[c] = delay[c]
                 /\ pc[c] = "asleep" => TimeLeft[c] = IF wakeAt[c] > now THEN wakeAt[c] - now ELSE 0
                 /\ pc[c] \notin {"refused", "asleep"} => TimeLeft[c] = 0
<1> USE DEF TypeOK
<1>1. ASSUME NEW c \in Callers
      PROVE  /\ pc[c] = "refused" => TimeLeft[c] = delay[c]
             /\ pc[c] = "asleep" => TimeLeft[c] = IF wakeAt[c] > now THEN wakeAt[c] - now ELSE 0
             /\ pc[c] \notin {"refused", "asleep"} => TimeLeft[c] = 0
  BY DEF TimeLeft
<1>2. ASSUME NEW c \in Callers PROVE TimeLeft[c] \in Nat
  <2>1. delay[c] \in Nat /\ wakeAt[c] \in Nat /\ now \in Nat
    BY IntervalAssumption
  <2> QED
    BY <1>1, <2>1
<1>3. TimeLeft = [c \in Callers |-> TimeLeft[c]]
  BY DEF TimeLeft
<1> QED
  BY <1>1, <1>2, <1>3

\* What a caller has left to sleep changes with its own steps only, but for time.
LEMMA OthersSleepOn ==
    ASSUME TypeOK, TypeOK', now' = now, NEW c \in Callers,
           \A d \in Callers \ {c} : pc'[d] = pc[d] /\ delay'[d] = delay[d] /\ wakeAt'[d] = wakeAt[d]
    PROVE  TimeLeft' = [TimeLeft EXCEPT ![c] = TimeLeft'[c]]
<1>1. \A d \in Callers \ {c} : TimeLeft'[d] = TimeLeft[d]
  BY DEF TimeLeft
<1>2. TimeLeft = [d \in Callers |-> TimeLeft[d]] /\ TimeLeft' = [d \in Callers |-> TimeLeft'[d]]
  BY DEF TimeLeft
<1> QED
  BY <1>1, <1>2

\* The time that goes by is what the bucket fills by, to its brim.
LEMMA TickFills ==
    ASSUME TypeOK, Tick
    PROVE  Refilled' = IF Refilled < Burst * Interval THEN Refilled + 1 ELSE Refilled
<1> DEFINE b == Burst * Interval
<1>1. b \in Nat /\ credit \in 0..b /\ last \in Nat /\ now \in Nat /\ last <= now
  BY BurstPositive DEF TypeOK
<1>2. now' = now + 1 /\ credit' = credit /\ last' = last
  BY DEF Tick
<1>3. Refilled = IF credit + (now - last) > b THEN b ELSE credit + (now - last)
  BY DEF Refilled
<1>5. Refilled' = IF credit' + (now' - last') > b THEN b ELSE credit' + (now' - last')
  BY DEF Refilled
<1> HIDE DEF b
<1>4. Refilled' = IF Refilled < b THEN Refilled + 1 ELSE Refilled
  BY <1>1, <1>2, <1>3, <1>5
<1> QED
  BY <1>4 DEF b

\* Every step of the bucket is a step of the one that fills all the time.
LEMMA FillingStep ==
    ASSUME TypeOK, TypeOK', [Next]_vars
    PROVE  [Filling!Next]_<<Refilled, pc, TimeLeft, dead>>
<1> USE DEF TypeOK
<1>0. Filling!Burst = Burst /\ Filling!Capacity = Burst * Interval
  BY DEF Filling!Capacity, Filling!Burst, Burst
<1>1. ASSUME NEW c \in Callers, Call(c) PROVE Filling!Next
  <2>1. pc[c] = "out" /\ pc' = [pc EXCEPT ![c] = "reserve"] /\ dead' = dead \ {c}
        /\ UNCHANGED <<now, credit, last, delay, wakeAt>>
    BY <1>1 DEF Call
  <2>2. TimeLeft[c] = 0 /\ TimeLeft'[c] = 0
    BY <2>1, TimeLeftIs DEF TimeLeft
  <2>3. TimeLeft' = TimeLeft
    BY <2>1, <2>2, OthersSleepOn, TimeLeftIs
  <2>4. Refilled' = Refilled
    BY <2>1 DEF Refilled
  <2> QED
    BY <2>1, <2>3, <2>4 DEF Filling!Next, Filling!Call
<1>2. ASSUME NEW c \in Callers, Cancel(c) PROVE Filling!Next
  <2>1. UNCHANGED <<Refilled, pc, TimeLeft>>
    BY <1>2 DEF Cancel, Refilled, TimeLeft
  <2> QED
    BY <1>2, <2>1 DEF Cancel, Filling!Next, Filling!Cancel
<1>3. ASSUME NEW c \in Callers, Reserve(c) PROVE Filling!Next
  <2>1. pc[c] = "reserve" /\ Refilled >= Interval /\ pc' = [pc EXCEPT ![c] = "out"]
        /\ UNCHANGED <<now, delay, wakeAt, dead>>
    BY <1>3 DEF Reserve
  <2>2. TimeLeft[c] = 0 /\ TimeLeft'[c] = 0
    BY <2>1, TimeLeftIs DEF TimeLeft
  <2>3. TimeLeft' = TimeLeft
    BY <2>1, <2>2, OthersSleepOn, TimeLeftIs
  <2>4. Refilled' = Refilled - Interval
    <3>1. CASE Interval = 0
      BY <1>3, <3>1, RefilledBounds DEF Reserve, Refilled
    <3>2. CASE Interval # 0
      <4>1. credit' = Refilled - Interval /\ last' = now /\ now' = now
        BY <1>3, <3>2 DEF Reserve
      <4>2. credit' \in 0..(Burst * Interval) /\ now \in Nat /\ Burst * Interval \in Nat
        BY BurstPositive
      <4>3. Refilled' = credit'
        BY <4>1, <4>2 DEF Refilled
      <4> QED
        BY <4>1, <4>3
    <3> QED
      BY <3>1, <3>2
  <2> QED
    BY <2>1, <2>3, <2>4 DEF Filling!Next, Filling!Progress, Filling!Reserve
<1>4. ASSUME NEW c \in Callers, Refuse(c) PROVE Filling!Next
  <2>1. pc[c] = "reserve" /\ Refilled < Interval /\ pc' = [pc EXCEPT ![c] = "refused"]
        /\ delay' = [delay EXCEPT ![c] = Interval - Refilled] /\ credit' = Refilled /\ last' = now
        /\ UNCHANGED <<now, wakeAt, dead>>
    BY <1>4 DEF Refuse
  <2>2. TimeLeft'[c] = Interval - Refilled
    BY <2>1 DEF TimeLeft
  <2>3. TimeLeft' = [TimeLeft EXCEPT ![c] = Interval - Refilled]
    BY <2>1, <2>2, OthersSleepOn
  <2>4. Refilled' = Refilled
    <3>1. credit' \in 0..(Burst * Interval) /\ now \in Nat /\ Burst * Interval \in Nat
      BY BurstPositive
    <3>2. Refilled' = credit'
      BY <2>1, <3>1 DEF Refilled
    <3> QED
      BY <2>1, <3>2
  <2> QED
    BY <2>1, <2>3, <2>4 DEF Filling!Next, Filling!Progress, Filling!Refuse
<1>5. ASSUME NEW c \in Callers, GiveUp(c) PROVE Filling!Next
  <2>1. pc[c] \in {"refused", "asleep"} /\ c \in dead /\ pc' = [pc EXCEPT ![c] = "out"]
        /\ UNCHANGED <<now, credit, last, delay, wakeAt, dead>>
    BY <1>5 DEF GiveUp
  <2>2. TimeLeft'[c] = 0
    BY <2>1 DEF TimeLeft
  <2>3. TimeLeft' = [TimeLeft EXCEPT ![c] = 0]
    BY <2>1, <2>2, OthersSleepOn
  <2>4. Refilled' = Refilled
    BY <2>1 DEF Refilled
  <2> QED
    BY <2>1, <2>3, <2>4 DEF Filling!Next, Filling!Progress, Filling!GiveUp
<1>6. ASSUME NEW c \in Callers, StartTimer(c) PROVE Filling!Next
  <2>1. pc[c] = "refused" /\ c \notin dead /\ pc' = [pc EXCEPT ![c] = "asleep"]
        /\ wakeAt' = [wakeAt EXCEPT ![c] = now + delay[c]]
        /\ UNCHANGED <<now, credit, last, delay, dead>>
    BY <1>6 DEF StartTimer
  <2>2. delay[c] \in Nat /\ now \in Nat /\ wakeAt'[c] = now + delay[c] /\ pc'[c] = "asleep"
    BY <2>1, IntervalAssumption
  <2>3. TimeLeft'[c] = delay[c]
    BY <2>1, <2>2 DEF TimeLeft
  <2>4. TimeLeft[c] = delay[c] /\ TimeLeft = [d \in Callers |-> TimeLeft[d]]
    BY <2>1 DEF TimeLeft
  <2>5. TimeLeft' = TimeLeft
    <3>1. \A d \in Callers \ {c} : pc'[d] = pc[d] /\ delay'[d] = delay[d] /\ wakeAt'[d] = wakeAt[d]
      BY <2>1
    <3>2. TimeLeft' = [TimeLeft EXCEPT ![c] = TimeLeft'[c]]
      BY <2>1, <3>1, OthersSleepOn
    <3> QED
      BY <2>3, <2>4, <3>2
  <2>6. Refilled' = Refilled
    BY <2>1 DEF Refilled
  <2> QED
    BY <2>1, <2>5, <2>6 DEF Filling!Next, Filling!Progress, Filling!StartTimer
<1>7. ASSUME NEW c \in Callers, TimerFires(c) PROVE Filling!Next
  <2>1. pc[c] = "asleep" /\ wakeAt[c] <= now /\ pc' = [pc EXCEPT ![c] = "reserve"]
        /\ UNCHANGED <<now, credit, last, delay, wakeAt, dead>>
    BY <1>7 DEF TimerFires
  <2>2. TimeLeft[c] = 0 /\ TimeLeft'[c] = 0
    BY <2>1 DEF TimeLeft
  <2>3. TimeLeft' = TimeLeft
    BY <2>1, <2>2, OthersSleepOn, TimeLeftIs
  <2>4. Refilled' = Refilled
    BY <2>1 DEF Refilled
  <2> QED
    BY <2>1, <2>2, <2>3, <2>4 DEF Filling!Next, Filling!Progress, Filling!TimerFires
<1>8. ASSUME Tick PROVE Filling!Next
  <2>1. now' = now + 1 /\ UNCHANGED <<pc, delay, wakeAt, dead>>
    BY <1>8 DEF Tick
  <2>2. ASSUME NEW c \in Callers
        PROVE  TimeLeft'[c] = IF pc[c] = "asleep" /\ TimeLeft[c] > 0 THEN TimeLeft[c] - 1 ELSE TimeLeft[c]
    <3>1. wakeAt[c] \in Nat /\ now \in Nat /\ delay[c] \in Nat
      BY IntervalAssumption
    <3>2. CASE pc[c] = "refused"
      BY <2>1, <3>2 DEF TimeLeft
    <3>3. CASE pc[c] = "asleep"
      <4>1. TimeLeft[c] = IF wakeAt[c] > now THEN wakeAt[c] - now ELSE 0
        BY <3>3, TimeLeftIs
      <4>2. TimeLeft'[c] = IF wakeAt[c] > now + 1 THEN wakeAt[c] - (now + 1) ELSE 0
        BY <2>1, <3>3 DEF TimeLeft
      <4> QED
        BY <3>1, <3>3, <4>1, <4>2
    <3>4. CASE pc[c] \notin {"refused", "asleep"}
      BY <2>1, <3>4 DEF TimeLeft
    <3> QED
      BY <3>2, <3>3, <3>4
  <2>3. TimeLeft' = [c \in Callers |-> TimeLeft'[c]]
    BY DEF TimeLeft
  <2>4. TimeLeft' = [c \in Callers |-> IF pc[c] = "asleep" /\ TimeLeft[c] > 0
                                       THEN TimeLeft[c] - 1 ELSE TimeLeft[c]]
    BY <2>2, <2>3
  <2>5. Refilled' = IF Refilled < Filling!Capacity THEN Refilled + 1 ELSE Refilled
    BY <1>0, <1>8, TickFills
  <2> QED
    BY <2>1, <2>4, <2>5 DEF Filling!Next, Filling!Tick
<1>9. CASE UNCHANGED vars
  BY <1>9 DEF vars, Refilled, TimeLeft
<1> QED
  BY <1>1, <1>2, <1>3, <1>4, <1>5, <1>6, <1>7, <1>8, <1>9 DEF Next, Progress

\* compose.go keeps the instant of the last refill where FillingBucket fills all the
\* time: what callers see of the two is the same.
THEOREM Refinement == Spec => ImplementsFilling
<1>1. Init => Filling!Init
  <2> SUFFICES ASSUME Init PROVE Filling!Init
    OBVIOUS
  <2>1. Refilled = Burst * Interval
    BY BurstPositive DEF Init, Refilled
  <2>2. TimeLeft = [c \in Callers |-> 0]
    BY DEF Init, TimeLeft
  <2> QED
    BY <2>1, <2>2 DEF Init, Filling!Init, Filling!Capacity, Filling!Burst, Burst
<1>2. TypeOK /\ TypeOK' /\ [Next]_vars => [Filling!Next]_(Filling!bucketVars)
  BY FillingStep DEF Filling!bucketVars
<1> QED BY <1>1, <1>2, TypeCorrect, PTL DEF Spec, ImplementsFilling, Filling!Spec

-----------------------------------------------------------------------------
(* The token cache *)

\* Whoever was blocked behind a refresh that is still good has a token to find.
HerdServed == herd # {} => cache = "fresh"

\* The inductive invariant behind SingleFlight: the lock is held across the
\* refresh (CacheTypeOK), and the cache is fresh for the herd.
CacheInv == CacheTypeOK /\ HerdServed

LEMMA CacheInitEstablishes == CacheInit => CacheInv
  BY ExpiryAssumption, NoneAssumption DEF CacheInit, CacheInv, CacheTypeOK, HerdServed

LEMMA CacheStepPreserves ==
    ASSUME CacheInv, [CacheNext]_cacheVars
    PROVE  CacheInv'
<1> USE AnswerAssumption, ExpiryAssumption, NoneAssumption DEF CacheInv, CacheTypeOK, HerdServed, RefreshAnswers
<1>1. ASSUME NEW c \in Askers, AskToken(c) PROVE CacheInv'
  BY <1>1 DEF AskToken
<1>2. ASSUME NEW c \in Askers, Reuse(c) PROVE CacheInv'
  BY <1>2 DEF Reuse
<1>3. ASSUME NEW c \in Askers, StartRefresh(c) PROVE CacheInv'
  BY <1>3 DEF StartRefresh
<1>4. ASSUME NEW c \in Askers, NEW answer \in Answers, Refreshed(c, answer) PROVE CacheInv'
  BY <1>4 DEF Refreshed
<1>5. CASE Expire
  BY <1>5 DEF Expire
<1>6. CASE UNCHANGED cacheVars
  BY <1>6 DEF cacheVars
<1>7. ASSUME NEW c \in Askers, Leave(c) PROVE CacheInv'
  BY <1>7 DEF Leave
<1> QED
  BY <1>1, <1>2, <1>3, <1>4, <1>5, <1>6, <1>7 DEF CacheNext, CacheProgress

\* compose.go:271-288: the lock is held from the check of the cache to the end of
\* the refresh, so a caller is in the refresh exactly if it holds the lock.
THEOREM CacheInductive == CacheSpec => []CacheInv
  BY CacheInitEstablishes, CacheStepPreserves, PTL DEF CacheSpec

\* The types of TokenSource, and the lock's holder, are invariant.
THEOREM CacheTypeCorrect == CacheSpec => []CacheTypeOK
<1>1. CacheInv => CacheTypeOK
  BY DEF CacheInv
<1> QED
  BY <1>1, CacheInductive, PTL

\* What one step may not do, from the invariant of the state it starts in.
LEMMA OneRefreshPerStep ==
    ASSUME CacheInv, [CacheNext]_cacheVars
    PROVE  [\A c \in Askers : at[c] = "lock" /\ at'[c] = "refresh" =>
              c \notin herd /\ \A d \in Askers : at[d] # "refresh"]_cacheVars
<1> USE DEF CacheInv, CacheTypeOK, HerdServed
<1>1. SUFFICES ASSUME NEW c \in Askers, at[c] = "lock", at'[c] = "refresh"
               PROVE  c \notin herd /\ \A d \in Askers : at[d] # "refresh"
  OBVIOUS
<1>2. StartRefresh(c)
  <2>1. ASSUME NEW d \in Askers, AskToken(d) PROVE FALSE
    BY <1>1, <2>1 DEF AskToken
  <2>2. ASSUME NEW d \in Askers, Reuse(d) PROVE FALSE
    BY <1>1, <2>2 DEF Reuse
  <2>3. ASSUME NEW d \in Askers, NEW answer \in Answers, Refreshed(d, answer) PROVE FALSE
    BY <1>1, <2>3 DEF Refreshed
  <2>4. ~Expire /\ ~UNCHANGED cacheVars
    BY <1>1 DEF Expire, cacheVars
  <2>5. ASSUME NEW d \in Askers, StartRefresh(d) PROVE d = c
    BY <1>1, <2>5 DEF StartRefresh
  <2>6. ASSUME NEW d \in Askers, Leave(d) PROVE FALSE
    BY <1>1, <2>6 DEF Leave
  <2> QED
    BY <2>1, <2>2, <2>3, <2>4, <2>5, <2>6 DEF CacheNext, CacheProgress
<1> QED
  BY <1>2, NoneAssumption DEF StartRefresh

\* compose.go:238-239: a successful refresh serves everyone who was blocked behind
\* it, and no two refreshes run at a time.
THEOREM SingleFlightHolds == CacheSpec => SingleFlight
  BY CacheInductive, OneRefreshPerStep, PTL DEF CacheSpec, SingleFlight

-----------------------------------------------------------------------------
(* The composition *)

\* A rateLimitedSender and its provider only use the bucket through Wait, and the
\* cache through Token: what they do in turn is something each of the two
\* components could have met alone.
LEMMA ComponentSteps ==
    ASSUME [SendNext]_sendVars
    PROVE  [Next]_vars /\ [CacheNext]_cacheVars
<1>1. ASSUME NEW c \in Callers, StartSend(c)
      PROVE  Next /\ [CacheNext]_cacheVars
  BY <1>1, SameCallers DEF StartSend, Next, CacheNext
<1>2. ASSUME NEW c \in Callers, ProviderSend(c)
      PROVE  Next /\ [CacheNext]_cacheVars
  <2>1. Next
    BY <1>2 DEF ProviderSend, Next, Progress
  <2>2. c \in Askers
    BY SameCallers
  <2> QED
    BY <1>2, <2>1, <2>2 DEF ProviderSend, CacheNext
<1>3. ASSUME NEW c \in Callers, RetrySend(c)
      PROVE  UNCHANGED vars /\ CacheNext
  BY <1>3, SameCallers DEF RetrySend, CacheNext
<1>4. ASSUME NEW c \in Callers, WaitStep(c)
      PROVE  Next /\ UNCHANGED cacheVars
  BY <1>4 DEF WaitStep, Next, Progress
<1>5. ASSUME NEW c \in Callers, TokenStep(c)
      PROVE  UNCHANGED vars /\ CacheNext
  BY <1>5, SameCallers DEF TokenStep, CacheNext
<1>6. ASSUME NEW c \in Callers, Cancel(c) /\ UNCHANGED cacheVars
      PROVE  Next /\ UNCHANGED cacheVars
  BY <1>6 DEF Next
<1>7. Tick /\ UNCHANGED cacheVars => Next /\ UNCHANGED cacheVars
  BY DEF Next
<1>8. Expire /\ UNCHANGED vars => UNCHANGED vars /\ CacheNext
  BY DEF CacheNext
<1>9. UNCHANGED sendVars => UNCHANGED vars /\ UNCHANGED cacheVars
  BY DEF sendVars
<1> QED
  BY <1>1, <1>2, <1>3, <1>4, <1>5, <1>6, <1>7, <1>8, <1>9 DEF SendNext

\* The rate limiter keeps its promises with any provider behind it, and the
\* token cache with any rate limiter in front of it.
THEOREM ComponentsUndisturbed == SendSpec => Spec /\ CacheSpec
<1>1. SendInit => Init /\ CacheInit
  BY DEF SendInit
<1>2. [SendNext]_sendVars => [Next]_vars /\ [CacheNext]_cacheVars
  BY ComponentSteps
<1> QED
  BY <1>1, <1>2, PTL DEF SendSpec, Spec, CacheSpec

\* compose.go: a rate-limited sender never lets through more than the burst and
\* one send per interval, refuses no send it could have let through, and so
\* implements FillingBucket, whatever the token cache of its provider does.
THEOREM SendsWithinRate == SendSpec => []RateBound /\ NoNeedlessRefusal /\ ImplementsFilling
  BY ComponentsUndisturbed, RateBoundHolds, RefusalsAreNeeded, Refinement, PTL

\* compose.go:238-239: the sends that a rate-limited sender lets through at the same
\* time, and their retries, share one refresh of an expired token.
THEOREM SendsShareRefresh == SendSpec => SingleFlight
  BY ComponentsUndisturbed, SingleFlightHolds, PTL
=============================================================================
