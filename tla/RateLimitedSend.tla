-------------------------- MODULE RateLimitedSend --------------------------
(***************************************************************************)
(* A rateLimitedSender (compose.go) over a provider that authenticates     *)
(* with a CachingTokenSource: TokenBucket and TokenSource used by the same *)
(* goroutines, one after the other.                                        *)
(***************************************************************************)
EXTENDS TokenBucket, TokenSource

ASSUME SameCallers == Askers = Callers

sendVars == <<vars, cacheVars>>

SendInit == Init /\ CacheInit

\* Is the caller in the provider's Send, asking for a token?
InToken(c) == at[c] \in {"lock", "refresh"}

\* Send calls Wait, and only then the provider; the caller's last Send is over.
StartSend(c) ==
    /\ ~InToken(c)
    /\ Call(c)
    /\ IF at[c] = "done" THEN Leave(c) ELSE UNCHANGED cacheVars

\* Wait returned nil: the provider's Send opens a connection, which takes a
\* token, or borrows one that has authenticated before.
ProviderSend(c) == Reserve(c) /\ (AskToken(c) \/ UNCHANGED cacheVars)

\* The attempt fails, with the refresh or at the server, and the provider's Retry
\* asks the token source again.
RetrySend(c) ==
    /\ at[c] = "done"
    /\ pc[c] = "out"
    /\ AskToken(c)
    /\ UNCHANGED vars

\* The other steps of Wait.
WaitStep(c) == (Refuse(c) \/ GiveUp(c) \/ StartTimer(c) \/ TimerFires(c)) /\ UNCHANGED cacheVars

TokenStep(c) == CacheProgress(c) /\ UNCHANGED vars

SendNext ==
    \/ \E c \in Callers :
        \/ StartSend(c) \/ ProviderSend(c) \/ RetrySend(c) \/ WaitStep(c) \/ TokenStep(c)
        \/ Cancel(c) /\ UNCHANGED cacheVars
    \/ Tick /\ UNCHANGED cacheVars
    \/ Expire /\ UNCHANGED vars

\* Callers inside Wait are scheduled, time goes by, refresh returns, and sync.Mutex
\* lets a blocked caller starve for no longer than its starvation mode allows: in
\* the end it gets the lock.
SendSpec ==
    /\ SendInit /\ [][SendNext]_sendVars
    /\ \A c \in Callers :
        /\ WF_sendVars(ProviderSend(c) \/ WaitStep(c))
        /\ SF_sendVars(TokenStep(c))
    /\ WF_sendVars(Tick /\ UNCHANGED cacheVars)

-----------------------------------------------------------------------------
(* Properties *)

\* "Wait blocks until a token is available or ctx is done", and Token waits for the
\* lock: every call returns.  A caller that loses the token it slept for to one that
\* comes later sleeps again, and returns in the end if no more than MaxGrants calls
\* come; if calls come for ever it may wait for ever, as there is no queue, and
\* whoever is first to reserve has the token.  A caller behind the lock gets it,
\* whatever refresh returns to those before it.
CallsReturn ==
    \A c \in Callers : pc[c] # "out" \/ InToken(c) ~> pc[c] = "out" /\ ~InToken(c)
=============================================================================
