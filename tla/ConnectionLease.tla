--------------------------- MODULE ConnectionLease ---------------------------
(***************************************************************************)
(* What a connection pool promises the goroutines that borrow from it,     *)
(* without saying how: a connection is lent to one borrower at a time, is  *)
(* idle or gone otherwise, and there are never more than MaxOpen of them.  *)
(* SmtpPool implements it; SmtpSend borrows through it.                    *)
(***************************************************************************)
EXTENDS Naturals, FiniteSets

CONSTANTS
    Procs,    \* borrowers
    Conns,    \* connections
    MaxOpen   \* how many connections there may be, 0 for no limit

VARIABLES
    lent,   \* the pairs of a borrower and the connection lent to it
    idle    \* connections the pool keeps for the next borrower

leaseVars == <<lent, idle>>

LeaseInit == lent = {} /\ idle = {}

\* The connections the pool counts.
Known == idle \cup {loan[2] : loan \in lent}

Empty(p) == \A loan \in lent : loan[1] # p

\* A new connection, lent at once.
Open(p, c) ==
    /\ Empty(p) /\ c \notin Known
    /\ MaxOpen > 0 => Cardinality(Known) < MaxOpen
    /\ lent' = lent \cup {<<p, c>>}
    /\ UNCHANGED idle

\* An idle one.
Lend(p, c) ==
    /\ Empty(p) /\ c \in idle
    /\ lent' = lent \cup {<<p, c>>}
    /\ idle' = idle \ {c}

\* Back to the idle ones.
Return(p, c) ==
    /\ <<p, c>> \in lent
    /\ lent' = lent \ {<<p, c>>}
    /\ idle' = idle \cup {c}

\* From one borrower straight to another one, who waits for it.
Pass(p, q, c) ==
    /\ <<p, c>> \in lent /\ Empty(q)
    /\ lent' = (lent \ {<<p, c>>}) \cup {<<q, c>>}
    /\ UNCHANGED idle

\* A lent connection is given up.
Drop(p, c) ==
    /\ <<p, c>> \in lent
    /\ lent' = lent \ {<<p, c>>}
    /\ UNCHANGED idle

\* Idle connections are given up.
Expire(cs) ==
    /\ cs # {} /\ cs \subseteq idle
    /\ idle' = idle \ cs
    /\ UNCHANGED lent

LeaseNext ==
    \/ \E p \in Procs, c \in Conns :
        \/ Open(p, c) \/ Lend(p, c) \/ Return(p, c) \/ Drop(p, c)
        \/ \E q \in Procs : Pass(p, q, c)
    \/ \E cs \in SUBSET idle : Expire(cs)

LeaseSpec == LeaseInit /\ [][LeaseNext]_leaseVars
=============================================================================
