---------------------------- MODULE DomainHealth ----------------------------
(***************************************************************************)
(* CheckDomainHealth of health.go: one goroutine per DNS check, a closer   *)
(* that waits for them, and a collector that gathers their results over an *)
(* unbuffered channel until it is closed or the context is done.           *)
(*                                                                         *)
(* A lookup returns at any moment, with what the zone publishes or with an *)
(* error, once the context is done or before; a result is recorded whatever*)
(* it says.  An unbuffered send and its receive are one action.            *)
(***************************************************************************)
EXTENDS Naturals, SequencesExt

CONSTANTS
    Selectors,   \* the DKIM selectors to check, all different
    NoSelector,  \* the empty one
    Zones        \* what the DNS may publish: the records at the name of each check

Checks == {"mx", "spf", "dmarc"} \cup Selectors

\* A record is one the check is after, a key without revocation for DKIM, or another.
RecordKinds == {"match", "other"}

ASSUME SelectorAssumption ==
    IsFiniteSet(Selectors) /\ {"mx", "spf", "dmarc"} \cap (Selectors \cup {NoSelector}) = {}
ASSUME ZoneAssumption ==
    \A z \in Zones : /\ z \in [Checks -> Seq(RecordKinds)]
                     /\ z["mx"] \in Seq({"match"})
                     /\ NoSelector \in Selectors => z[NoSelector] = <<>>

VARIABLES
    zone,      \* the records published; they do not change meanwhile
    stage,     \* check goroutines: "lookup", "sending" or "done" (wg.Done called)
    res,       \* their results
    failures,  \* the checks whose lookup failed
    chclosed,  \* has the closer closed resChan?
    health,    \* the result of each check, as far as the collector has stored them
    collector, \* "collecting", "returned" (nil error) or "failed" (ctx.Err)
    ctxDone

dns == <<zone, failures>>
healthVars == <<dns, res, stage, chclosed, health, collector, ctxDone>>

\* What a check reports; a field it does not set is FALSE.
HealthResult == [found : BOOLEAN, valid : BOOLEAN, error : BOOLEAN]
NoResult == [found |-> FALSE]

\* Types; and nobody can send on the channel once it is closed, which would panic.
HealthTypeOK ==
    /\ chclosed => \A c \in Checks : stage[c] = "done"
    /\ zone \in Zones /\ failures \subseteq Checks
    /\ stage \in [Checks -> {"lookup", "sending", "done"}]
    /\ res \in [Checks -> HealthResult \cup {NoResult}]
    /\ health \in [Checks -> HealthResult \cup {NoResult}]
    /\ chclosed \in BOOLEAN /\ ctxDone \in BOOLEAN
    /\ collector \in {"collecting", "returned", "failed"}

HealthInit ==
    /\ zone \in Zones
    /\ failures = {}
    /\ stage = [c \in Checks |-> "lookup"]
    /\ res = [c \in Checks |-> NoResult]
    /\ chclosed = FALSE
    /\ health = [c \in Checks |-> NoResult]
    /\ collector = "collecting"
    /\ ctxDone = FALSE

Failure  == [found |-> FALSE, valid |-> FALSE, error |-> TRUE]
NotFound == [found |-> FALSE, valid |-> FALSE, error |-> FALSE]

\* What the resolver answers about a name: its records, an error that says there
\* are none, or any other error.
Answers(records) ==
    {[err |-> "none", records |-> records], [err |-> "failure", records |-> <<>>]}
        \cup IF records = <<>> THEN {[err |-> "notfound", records |-> <<>>]} ELSE {}

\* isNotFound: a name without records is a verdict, any other error is none.
WithRecords(answer, Verdict(_)) ==
    CASE answer.err = "notfound" -> NotFound
      [] answer.err = "failure"  -> Failure
      [] OTHER -> IF answer.records = <<>> THEN NotFound ELSE Verdict(answer.records)

\* CheckMX: any host will do.
CheckMX(answer) ==
    WithRecords(answer, LAMBDA records : [found |-> TRUE, valid |-> TRUE, error |-> FALSE])

\* CheckSPF and CheckDMARC: of the TXT records, exactly one has to be theirs.
CheckPolicy(answer) ==
    LET own(records) == {k \in DOMAIN records : records[k] = "match"}
    IN  WithRecords(answer, LAMBDA records :
            [found |-> own(records) # {}, valid |-> Cardinality(own(records)) = 1, error |-> FALSE])

\* CheckDKIM: there has to be one TXT record, and it has to carry a key.
CheckDKIM(selector, answer) ==
    IF selector = NoSelector THEN Failure
    ELSE WithRecords(answer, LAMBDA records :
            [found |-> TRUE, valid |-> records = <<"match">>, error |-> FALSE])

\* The lookup of a check returns and it has its result; the one without a selector
\* asks nobody.
LookupReturns(c) ==
    /\ stage[c] = "lookup"
    /\ \E answer \in Answers(zone[c]) :
        /\ c = NoSelector => answer.err = "none"
        /\ res' = [res EXCEPT ![c] = CASE c = "mx" -> CheckMX(answer)
                                       [] c \in {"spf", "dmarc"} -> CheckPolicy(answer)
                                       [] OTHER -> CheckDKIM(c, answer)]
        /\ failures' = IF answer.err = "failure" THEN failures \cup {c} ELSE failures
    /\ stage' = [stage EXCEPT ![c] = "sending"]
    /\ UNCHANGED <<zone, chclosed, health, collector, ctxDone>>

\* case resChan <- result, taken by the collector.
Deliver(c) ==
    /\ stage[c] = "sending"
    /\ collector = "collecting"
    /\ stage' = [stage EXCEPT ![c] = "done"]
    /\ health' = [health EXCEPT ![c] = res[c]]
    /\ UNCHANGED <<dns, res, chclosed, collector, ctxDone>>

\* Mutant of GiveUp: a check waits for the collector even when it has gone.
GiveUpNever(c) ==
    /\ stage[c] = "sending"
    /\ ctxDone /\ collector = "collecting"
    /\ stage' = [stage EXCEPT ![c] = "done"]
    /\ UNCHANGED <<dns, res, chclosed, health, collector, ctxDone>>

\* case <-ctx.Done() of a check.
GiveUp(c) ==
    /\ stage[c] = "sending"
    /\ ctxDone
    /\ stage' = [stage EXCEPT ![c] = "done"]
    /\ UNCHANGED <<dns, res, chclosed, health, collector, ctxDone>>

\* Mutant of CloseChannel: the closer waits for one check fewer.
CloseChannelEarly ==
    /\ ~chclosed
    /\ Cardinality({c \in Checks : stage[c] # "done"}) <= 1
    /\ chclosed' = TRUE
    /\ UNCHANGED <<dns, res, stage, health, collector, ctxDone>>

\* wg.Wait, close(resChan)
CloseChannel ==
    /\ ~chclosed
    /\ \A c \in Checks : stage[c] = "done"
    /\ chclosed' = TRUE
    /\ UNCHANGED <<dns, res, stage, health, collector, ctxDone>>

\* The collector's select: the channel is closed.
Return ==
    /\ collector = "collecting"
    /\ chclosed
    /\ collector' = "returned"
    /\ UNCHANGED <<dns, res, stage, chclosed, health, ctxDone>>

\* The collector's select: the context is done, whatever else is ready.
Fail ==
    /\ collector = "collecting"
    /\ ctxDone
    /\ collector' = "failed"
    /\ UNCHANGED <<dns, res, stage, chclosed, health, ctxDone>>

\* The caller gives up, or its deadline passes.
Cancel ==
    /\ ~ctxDone
    /\ ctxDone' = TRUE
    /\ UNCHANGED <<dns, res, stage, chclosed, health, collector>>

Check(c) == LookupReturns(c) \/ Deliver(c) \/ GiveUp(c)

HealthNext ==
    \/ \E c \in Checks : Check(c)
    \/ CloseChannel
    \/ Return \/ Fail
    \/ Cancel

HealthSpec == HealthInit /\ [][HealthNext]_healthVars

\* Lookups return and goroutines are scheduled.
FairHealthSpec ==
    /\ HealthSpec
    /\ \A c \in Checks : WF_healthVars(Check(c))
    /\ WF_healthVars(CloseChannel)
    /\ WF_healthVars(Return \/ Fail)

-----------------------------------------------------------------------------
(* Properties *)

\* Does a result tell an outage from an unconfigured domain: an error if the lookup
\* failed, and otherwise whether the record exists and is the only one?
Tells(result, c) ==
    LET published == {k \in DOMAIN zone[c] : zone[c][k] = "match" \/ c \notin {"spf", "dmarc"}}
    IN  /\ result # NoResult
        /\ result.error <=> c \in failures \cup {NoSelector}
        /\ ~result.error => result.found = (published # {})
        /\ result.valid => /\ c # "mx" => Cardinality(published) = 1
                           /\ "match" \in ToSet(zone[c])

\* "CheckDomainHealth performs comprehensive DNS health checks": when it returns no
\* error and its context is still alive, the report has the result of every check,
\* and each tells what the zone publishes.
Complete ==
    collector = "returned" /\ ~ctxDone => \A c \in Checks : Tells(health[c], c)

\* No check and no closer is left behind blocked on the channel, not even when
\* the collector returned before they were done.
NoGoroutineLeak == <>[](chclosed /\ \A c \in Checks : stage[c] = "done")
=============================================================================
