---------------------------- MODULE TokenSource ----------------------------
(***************************************************************************)
(* CachingTokenSource of compose.go: concurrent callers of Token share one *)
(* cached OAuth token, refreshed under a lock by whoever finds it expired. *)
(*                                                                         *)
(* A token's age is abstracted to whether it is "fresh" (now is before     *)
(* expiry minus leeway) or "stale"; it turns stale at any moment.  What    *)
(* the refresh function returns is the environment's choice.  The check of *)
(* the cache, with the lock just taken, is one action; the refresh itself  *)
(* takes time, with the lock held.                                         *)
(***************************************************************************)
EXTENDS Naturals, FiniteSets

CONSTANTS
    Askers,
    Answers,     \* what refresh can return: see RefreshAnswers
    MaxExpiries, \* bound on how often a token expires
    None         \* nobody holds the lock

\* fresh: a token that outlives the leeway; short: one that does not; empty: no
\* token and no error; error.
RefreshAnswers == {"fresh", "short", "empty", "error"}

ASSUME AnswerAssumption == Answers \subseteq RefreshAnswers
ASSUME ExpiryAssumption  == MaxExpiries \in Nat
ASSUME NoneAssumption   == None \notin Askers

VARIABLES
    cache,      \* c.token and c.expiry: "none", "fresh" or "stale"
    mu,         \* who holds c.mu
    at,         \* where an asker is: out, lock (blocked in mu.Lock), refresh, or done (Token
                \* has returned, and whoever called it may call it again in a retry)
    expiries,   \* how often the cached token has expired so far
    herd        \* callers blocked while a refresh produced the token that is still fresh

cacheVars == <<cache, mu, at, expiries, herd>>

\* Types; and the lock is held by the caller that refreshes, if there is one.
CacheTypeOK ==
    /\ cache \in {"none", "fresh", "stale"}
    /\ mu \in Askers \cup {None}
    /\ at \in [Askers -> {"out", "lock", "refresh", "done"}]
    /\ expiries \in 0..MaxExpiries
    /\ herd \subseteq Askers
    /\ \A c \in Askers : at[c] = "refresh" <=> mu = c

CacheInit ==
    /\ cache = "none"
    /\ mu = None
    /\ at = [c \in Askers |-> "out"]
    /\ expiries = 0
    /\ herd = {}

\* A send, or a retry of one, asks for a token.
AskToken(c) ==
    /\ at[c] \in {"out", "done"}
    /\ at' = [at EXCEPT ![c] = "lock"]
    /\ herd' = herd \ {c}
    /\ UNCHANGED <<cache, mu, expiries>>

\* The lock is free and the cached token good for another while.
Reuse(c) ==
    /\ at[c] = "lock"
    /\ mu = None
    /\ cache = "fresh"
    /\ at' = [at EXCEPT ![c] = "done"]
    /\ UNCHANGED <<cache, mu, expiries, herd>>

\* Mutant of StartRefresh: the cache is not looked at again once the lock is held.
StartRefreshUnchecked(c) ==
    /\ at[c] = "lock"
    /\ mu = None
    /\ mu' = c
    /\ at' = [at EXCEPT ![c] = "refresh"]
    /\ UNCHANGED <<cache, expiries, herd>>

\* The lock is free and the token is not: refresh, with the lock held.
StartRefresh(c) ==
    /\ at[c] = "lock"
    /\ mu = None
    /\ cache # "fresh"
    /\ mu' = c
    /\ at' = [at EXCEPT ![c] = "refresh"]
    /\ UNCHANGED <<cache, expiries, herd>>

\* Mutant of Refreshed: a refresh that fails returns without the lock.
RefreshedKeepsLock(c, answer) ==
    /\ at[c] = "refresh"
    /\ mu' = IF answer \in {"fresh", "short"} THEN None ELSE mu
    /\ at' = [at EXCEPT ![c] = IF answer = "empty" THEN "out" ELSE "done"]
    /\ cache' = CASE answer = "fresh" -> "fresh" [] answer = "short" -> "stale" [] OTHER -> cache
    /\ herd' = IF answer = "fresh" THEN {d \in Askers : at[d] = "lock"} ELSE {}
    /\ UNCHANGED expiries

\* refresh returns: cache the token whatever its expiry, or leave the cache.  An
\* empty token is NonRetryable.
Refreshed(c, answer) ==
    /\ at[c] = "refresh"
    /\ mu' = None
    /\ at' = [at EXCEPT ![c] = IF answer = "empty" THEN "out" ELSE "done"]
    /\ cache' = CASE answer = "fresh" -> "fresh" [] answer = "short" -> "stale" [] OTHER -> cache
    /\ herd' = IF answer = "fresh" THEN {d \in Askers : at[d] = "lock"} ELSE {}
    /\ UNCHANGED expiries

\* The send that asked for a token is over.
Leave(c) ==
    /\ at[c] = "done"
    /\ at' = [at EXCEPT ![c] = "out"]
    /\ UNCHANGED <<cache, mu, expiries, herd>>

\* Time passes the expiry minus the leeway.
Expire ==
    /\ cache = "fresh"
    /\ expiries < MaxExpiries
    /\ cache' = "stale"
    /\ expiries' = expiries + 1
    /\ herd' = {}
    /\ UNCHANGED <<mu, at>>

CacheProgress(c) ==
    Reuse(c) \/ StartRefresh(c) \/ \E answer \in Answers : Refreshed(c, answer)

CacheNext ==
    \/ \E c \in Askers : AskToken(c) \/ CacheProgress(c) \/ Leave(c)
    \/ Expire

CacheSpec == CacheInit /\ [][CacheNext]_cacheVars

-----------------------------------------------------------------------------
(* Properties *)

\* "Refresh is single-flighted: concurrent callers arriving on an expired token
\* produce one refresh, not one each": nobody starts a refresh while another one
\* runs, nor after it was blocked behind one whose token has not expired.
SingleFlight ==
    [][\A c \in Askers : at[c] = "lock" /\ at'[c] = "refresh" =>
          c \notin herd /\ \A d \in Askers : at[d] # "refresh"]_cacheVars
=============================================================================
