---------------------------- MODULE TokenBucket ----------------------------
(***************************************************************************)
(* The TokenBucket limiter of compose.go, used by concurrent callers.      *)
(*                                                                         *)
(* Time is counted in ticks.  The code keeps the tokens as a float64 that  *)
(* grows by elapsed / interval; the model keeps the same number multiplied *)
(* by the interval, which is an integer, so the rounding of the float is   *)
(* abstracted.  The critical section of reserve is one action.  The clock  *)
(* may advance between any two steps.                                      *)
(***************************************************************************)
EXTENDS Integers, FiniteSets, Sequences

CONSTANTS
    Callers,     \* goroutines that call Wait
    Interval,    \* time per token in ticks; 0 (or less, in the code): no limit
    BurstGiven,  \* the burst the caller of NewTokenBucket asks for
    MaxTime,     \* bound: past it, the clock advances only to wake a sleeper
    MaxGrants    \* bound on the calls that are let through

ASSUME IntervalAssumption == Interval \in Nat
ASSUME BurstAssumption    == BurstGiven \in Int
ASSUME BoundAssumption    == MaxTime \in Nat /\ MaxGrants \in Nat

VARIABLES
    now,      \* the clock
    credit,   \* b.tokens, times the interval
    last,     \* b.last
    pc,       \* where a caller is in Wait: see Locations
    delay,    \* what reserve told a refused caller
    wakeAt,   \* when its timer fires
    dead,     \* callers whose context is done
    granted   \* the instants at which Wait returned nil, in order

vars == <<now, credit, last, pc, delay, wakeAt, dead, granted>>

\* out: not in Wait; reserve: about to call reserve; refused: reserve said no;
\* asleep: in the select on the timer.
Locations == {"out", "reserve", "refused", "asleep"}

\* NewTokenBucket raises a burst below one.
Burst == IF BurstGiven < 1 THEN 1 ELSE BurstGiven

\* The values of the bucket and of its callers; the credit is never negative and
\* never above the burst.
TypeOK ==
    /\ now \in Nat /\ last \in 0..now
    /\ credit \in 0..(Burst * Interval)
    /\ pc \in [Callers -> Locations]
    /\ delay \in [Callers -> 0..Interval]
    /\ wakeAt \in [Callers -> Nat]
    /\ dead \subseteq Callers
    /\ granted \in Seq(0..now)

Init ==
    /\ now = 0 /\ last = 0
    /\ credit = Burst * Interval
    /\ pc = [c \in Callers |-> "out"]
    /\ delay = [c \in Callers |-> 0]
    /\ wakeAt = [c \in Callers |-> 0]
    /\ dead = {}
    /\ granted = <<>>

\* Callers that are inside Wait.
InWait == {c \in Callers : pc[c] # "out"}

\* A caller enters Wait, with a context of its own.
Call(c) ==
    /\ pc[c] = "out"
    /\ Len(granted) + Cardinality(InWait) < MaxGrants
    /\ pc' = [pc EXCEPT ![c] = "reserve"]
    /\ dead' = dead \ {c}
    /\ UNCHANGED <<now, credit, last, delay, wakeAt, granted>>

-----------------------------------------------------------------------------
(* reserve *)

\* Mutant of Refilled: the burst is not enforced.
RefilledUncapped == credit + (now - last)

\* What b.tokens is worth once the time since b.last has been added.
Refilled ==
    IF credit + (now - last) > Burst * Interval
    THEN Burst * Interval
    ELSE credit + (now - last)

\* Mutant of Reserve: b.last is not moved, so the same time is added again.
ReserveTwice(c) ==
    /\ pc[c] = "reserve"
    /\ Refilled >= Interval
    /\ credit' = IF Interval = 0 THEN credit ELSE Refilled - Interval
    /\ granted' = Append(granted, now)
    /\ pc' = [pc EXCEPT ![c] = "out"]
    /\ UNCHANGED <<now, last, delay, wakeAt, dead>>

\* A token is there, or there is no limit: Wait returns nil, without a look at
\* the context.
Reserve(c) ==
    /\ pc[c] = "reserve"
    /\ Refilled >= Interval
    /\ IF Interval = 0
       THEN UNCHANGED <<credit, last>>
       ELSE credit' = Refilled - Interval /\ last' = now
    /\ granted' = Append(granted, now)
    /\ pc' = [pc EXCEPT ![c] = "out"]
    /\ UNCHANGED <<now, delay, wakeAt, dead>>

\* Mutant of Refuse: the fraction is thrown away instead of kept.
RefuseForgets(c) ==
    /\ pc[c] = "reserve"
    /\ Refilled < Interval
    /\ credit' = credit
    /\ last' = now
    /\ delay' = [delay EXCEPT ![c] = Interval - credit]
    /\ pc' = [pc EXCEPT ![c] = "refused"]
    /\ UNCHANGED <<now, wakeAt, dead, granted>>

\* Not enough: keep what was added and say how long the rest takes.
Refuse(c) ==
    /\ pc[c] = "reserve"
    /\ Refilled < Interval
    /\ credit' = Refilled
    /\ last' = now
    /\ delay' = [delay EXCEPT ![c] = Interval - Refilled]
    /\ pc' = [pc EXCEPT ![c] = "refused"]
    /\ UNCHANGED <<now, wakeAt, dead, granted>>

-----------------------------------------------------------------------------
(* The rest of Wait *)

\* ctx.Err before the timer, or ctx.Done in the select.
GiveUp(c) ==
    /\ pc[c] \in {"refused", "asleep"}
    /\ c \in dead
    /\ pc' = [pc EXCEPT ![c] = "out"]
    /\ UNCHANGED <<now, credit, last, delay, wakeAt, dead, granted>>

\* The context was alive when reserve returned.
StartTimer(c) ==
    /\ pc[c] = "refused"
    /\ c \notin dead
    /\ wakeAt' = [wakeAt EXCEPT ![c] = now + delay[c]]
    /\ pc' = [pc EXCEPT ![c] = "asleep"]
    /\ UNCHANGED <<now, credit, last, delay, dead, granted>>

\* Mutant of TimerFires: the select waits for the context alone.
TimerFiresUnseen(c) ==
    /\ pc[c] = "asleep"
    /\ wakeAt[c] <= now /\ c \in dead
    /\ pc' = [pc EXCEPT ![c] = "reserve"]
    /\ UNCHANGED <<now, credit, last, delay, wakeAt, dead, granted>>

\* The select takes the timer, even when the context is done as well.
TimerFires(c) ==
    /\ pc[c] = "asleep"
    /\ wakeAt[c] <= now
    /\ pc' = [pc EXCEPT ![c] = "reserve"]
    /\ UNCHANGED <<now, credit, last, delay, wakeAt, dead, granted>>

-----------------------------------------------------------------------------
(* The environment *)

Cancel(c) ==
    /\ pc[c] # "out"
    /\ c \notin dead
    /\ dead' = dead \cup {c}
    /\ UNCHANGED <<now, credit, last, pc, delay, wakeAt, granted>>

Sleeping == \E c \in Callers : pc[c] = "asleep" /\ wakeAt[c] > now

Tick ==
    /\ now < MaxTime \/ Sleeping
    /\ now' = now + 1
    /\ UNCHANGED <<credit, last, pc, delay, wakeAt, dead, granted>>

\* The steps of a caller that is in Wait.
Progress(c) ==
    Reserve(c) \/ Refuse(c) \/ GiveUp(c) \/ StartTimer(c) \/ TimerFires(c)

Next ==
    \/ \E c \in Callers : Call(c) \/ Cancel(c) \/ Progress(c)
    \/ Tick

Spec == Init /\ [][Next]_vars

-----------------------------------------------------------------------------
(* Properties *)

\* NewTokenBucket: "one send per interval, allowing up to burst sends to
\* accumulate while idle".  In the window from the i-th grant to the j-th there
\* are never more grants than the burst plus one per interval of its length.
RateBound ==
    \A i, j \in 1..Len(granted) :
        i <= j => (j - i + 1 - Burst) * Interval <= granted[j] - granted[i]

\* The bucket refuses a caller only if letting it through at that instant would
\* break RateBound: no earned token is lost to rounding up, to a refused
\* reserve or to a caller that gave up.
NoNeedlessRefusal ==
    [][\A c \in Callers : pc[c] = "reserve" /\ pc'[c] = "refused" =>
          \E i \in 1..Len(granted) :
              (Len(granted) + 2 - i - Burst) * Interval > now - granted[i]]_vars

\* The credit is exactly what the windows leave: the parts of the invariant
\* that the proofs use.
CreditCovers ==
    \A i \in 1..Len(granted) :
        credit + (Len(granted) + 1 - i) * Interval <= Burst * Interval + (last - granted[i])

\* And the credit is no lower than what one of the windows leaves.
CreditExact ==
    \/ credit = Burst * Interval
    \/ \E i \in 1..Len(granted) :
          credit + (Len(granted) + 1 - i) * Interval = Burst * Interval + (last - granted[i])

\* The inductive invariant behind RateBound and NoNeedlessRefusal.
IInv == TypeOK /\ (Interval > 0 => CreditCovers /\ CreditExact)

\* How long a caller is still to sleep.
TimeLeft ==
    [c \in Callers |->
        CASE pc[c] = "refused"                    -> delay[c]
          [] pc[c] = "asleep" /\ wakeAt[c] > now  -> wakeAt[c] - now
          [] OTHER                                -> 0]

\* The bucket of FillingBucket holds at any moment what reserve would find here.
Filling == INSTANCE FillingBucket WITH level <- Refilled, left <- TimeLeft

\* Adding, under the lock, what has gone by since b.last comes to the same as a
\* bucket that fills all the time: for every caller, nothing that reserve or the
\* timers do tells the two apart.
ImplementsFilling == Filling!Spec
=============================================================================
