--------------------------- MODULE FillingBucket ---------------------------
(***************************************************************************)
(* What the TokenBucket of compose.go is meant to be: a bucket that one    *)
(* tick of the clock fills by one, which callers of Wait empty by an       *)
(* Interval at a time, with no record of when anything happened.  The code *)
(* keeps the instant of the last refill instead and adds what has gone by  *)
(* since then (see TokenBucket, which implements this module).             *)
(*                                                                         *)
(* Nothing is bounded here: neither time nor the number of calls.          *)
(***************************************************************************)
EXTENDS Integers

CONSTANTS
    Callers,     \* goroutines that call Wait
    Interval,    \* time per token in ticks; 0: no limit
    BurstGiven   \* the burst the caller of NewTokenBucket asks for

VARIABLES
    level,  \* the tokens that are there, times the interval
    pc,     \* where a caller is in Wait: "out", "reserve", "refused" or "asleep"
    left,   \* for how long a caller that was refused is to sleep, or has still to
    dead    \* callers whose context is done

bucketVars == <<level, pc, left, dead>>

Burst == IF BurstGiven < 1 THEN 1 ELSE BurstGiven

\* A full bucket.
Capacity == Burst * Interval

Init ==
    /\ level = Capacity
    /\ pc = [c \in Callers |-> "out"]
    /\ left = [c \in Callers |-> 0]
    /\ dead = {}

Call(c) ==
    /\ pc[c] = "out"
    /\ pc' = [pc EXCEPT ![c] = "reserve"]
    /\ dead' = dead \ {c}
    /\ UNCHANGED <<level, left>>

\* A token is there.
Reserve(c) ==
    /\ pc[c] = "reserve"
    /\ level >= Interval
    /\ level' = level - Interval
    /\ pc' = [pc EXCEPT ![c] = "out"]
    /\ UNCHANGED <<left, dead>>

\* There is less than a token; the rest takes its time.
Refuse(c) ==
    /\ pc[c] = "reserve"
    /\ level < Interval
    /\ left' = [left EXCEPT ![c] = Interval - level]
    /\ pc' = [pc EXCEPT ![c] = "refused"]
    /\ UNCHANGED <<level, dead>>

GiveUp(c) ==
    /\ pc[c] \in {"refused", "asleep"}
    /\ c \in dead
    /\ pc' = [pc EXCEPT ![c] = "out"]
    /\ left' = [left EXCEPT ![c] = 0]
    /\ UNCHANGED <<level, dead>>

StartTimer(c) ==
    /\ pc[c] = "refused"
    /\ c \notin dead
    /\ pc' = [pc EXCEPT ![c] = "asleep"]
    /\ UNCHANGED <<level, left, dead>>

\* The token it slept for may be somebody else's by now: there is no queue.
TimerFires(c) ==
    /\ pc[c] = "asleep"
    /\ left[c] = 0
    /\ pc' = [pc EXCEPT ![c] = "reserve"]
    /\ UNCHANGED <<level, left, dead>>

Cancel(c) ==
    /\ pc[c] # "out"
    /\ c \notin dead
    /\ dead' = dead \cup {c}
    /\ UNCHANGED <<level, pc, left>>

\* Time fills the bucket, to the brim at most, and wakes the sleepers.
Tick ==
    /\ level' = IF level < Capacity THEN level + 1 ELSE level
    /\ left' = [c \in Callers |-> IF pc[c] = "asleep" /\ left[c] > 0 THEN left[c] - 1 ELSE left[c]]
    /\ UNCHANGED <<pc, dead>>

\* The steps of a caller that is in Wait.
Progress(c) == Reserve(c) \/ Refuse(c) \/ GiveUp(c) \/ StartTimer(c) \/ TimerFires(c)

Next ==
    \/ \E c \in Callers : Call(c) \/ Cancel(c) \/ Progress(c)
    \/ Tick

Spec == Init /\ [][Next]_bucketVars
=============================================================================
