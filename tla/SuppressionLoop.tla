--------------------------- MODULE SuppressionLoop ---------------------------
(***************************************************************************)
(* The loop suppression.go closes: webhook handlers verify and parse what  *)
(* the providers report and Record it, while senders look the list up and  *)
(* an operator adds and removes addresses.                                 *)
(*                                                                         *)
(* Record of a slice records its items one by one, each in a critical      *)
(* section of its own.  The handlers share one SNSVerifier: it looks its   *)
(* cache up, fetches without the lock and stores what it has fetched.  The *)
(* handler around these calls is the README's: a request is parsed only    *)
(* when it is verified, and answered when all of it is recorded.           *)
(***************************************************************************)
EXTENDS SuppressedSend, BounceEvents, FiniteSets

CONSTANTS
    Handlers,               \* goroutines of the HTTP server
    Requests,               \* what can arrive
    maxCachedSigningCerts   \* the size of the certificate cache

ASSUME RequestsAssumption == \A r \in Requests : Worded(r) /\ \A e \in ToSet(r.events) : e.to \in Addresses
ASSUME CacheAssumption == maxCachedSigningCerts \in Nat \ {0}

VARIABLES
    at,        \* handlers: "idle", "fetch" or "record"
    request,   \* the SNS message a handler fetches the certificate of, or NoRequest
    pending,   \* the events it still has to record
    certs,     \* SNSVerifier.certs: the URLs of the cached certificates
    dead,      \* mailboxes a provider or the operator said not to mail
    mistaken,  \* mailboxes the handlers took for dead by mistake: see Mistaken
    due,       \* per handler: mailboxes its request names that nobody has removed since
    promised   \* those of the requests it has answered

hookVars == <<at, request, pending, certs, dead, mistaken, due, promised>>

loopVars == <<vars, hookVars>>

NoRequest == [from |-> "none"]

LoopInit ==
    /\ Init
    /\ at = [h \in Handlers |-> "idle"]
    /\ request = [h \in Handlers |-> NoRequest]
    /\ pending = [h \in Handlers |-> <<>>]
    /\ certs = {}
    /\ dead = {}
    /\ mistaken = {}
    /\ due = [h \in Handlers |-> {}]
    /\ promised = {}

\* The mailboxes that should not be mailed according to a request.
DeadIn(events) == {Mailbox[e.to] : e \in {x \in ToSet(events) : x.outcome \in {"permanent", "complaint"}}} \ {""}

\* Did the provider send it lately, if it dates its requests?
Recent(r) == r.from \in {"mailgun", "sendgrid", "ses"} => r.age \in -5 .. 5

\* Did the provider send it, and just now?
Genuine(r) == r.signature = "right" /\ Recent(r)

\* Two mistakes the handlers are known to make: SNSVerifier takes an old message
\* for a recent one, and the parser a block of SendGrid's for a hard bounce.
Mistaken(r) ==
    (IF r.from = "ses" /\ ~Recent(r) THEN DeadIn(r.events) ELSE {})
        \cup {Mailbox[e.to] : e \in {x \in ToSet(r.events) : Blocked(x)}}

\* The events a parser looks at.
Seen(r) == IF r.from = "sendgrid" \/ r.events = <<>> THEN r.events ELSE <<Head(r.events)>>

-----------------------------------------------------------------------------
(* The handlers *)

\* Parse, after the verifier said nil.
StartRecording(h, r) ==
    /\ at' = [at EXCEPT ![h] = "record"]
    /\ request' = [request EXCEPT ![h] = NoRequest]
    /\ pending' = [pending EXCEPT ![h] = Parse(r)]
    /\ due' = [due EXCEPT ![h] = DeadIn(Seen(r))]
    /\ dead' = IF Genuine(r) THEN dead \cup DeadIn(r.events) ELSE dead
    /\ mistaken' = mistaken \cup Mistaken(r)

\* A request arrives and is not rejected out of hand.  SNSVerifier.certificate
\* finds the certificate in the cache, or has to fetch it from a URL of SNS.
Arrive(h, r) ==
    /\ at[h] = "idle"
    /\ Verified(r)
    /\ IF r.from # "ses" \/ r.cert \in certs
       THEN (r.from = "ses" => r.signature = "right") /\ StartRecording(h, r)
       ELSE /\ r.cert \in SNSUrls
            /\ at' = [at EXCEPT ![h] = "fetch"]
            /\ request' = [request EXCEPT ![h] = r]
            /\ UNCHANGED <<pending, dead, mistaken, due>>
    /\ UNCHANGED <<vars, certs, promised>>

\* The cache after storing a certificate; any entry makes room for it.
storeCert(url, cache) ==
    IF url \notin cache /\ Cardinality(cache) >= maxCachedSigningCerts
    THEN {(cache \ {old}) \cup {url} : old \in cache}
    ELSE {cache \cup {url}}

\* The certificate is there: store it, then check the signature.
FetchCert(h) ==
    /\ at[h] = "fetch"
    /\ certs' \in storeCert(request[h].cert, certs)
    /\ IF request[h].signature = "right"
       THEN StartRecording(h, request[h])
       ELSE /\ at' = [at EXCEPT ![h] = "idle"]
            /\ request' = [request EXCEPT ![h] = NoRequest]
            /\ UNCHANGED <<pending, dead, mistaken, due>>
    /\ UNCHANGED <<vars, promised>>

\* The fetch fails, or what it brings is not a certificate.
FetchFails(h) ==
    /\ at[h] = "fetch"
    /\ at' = [at EXCEPT ![h] = "idle"]
    /\ request' = [request EXCEPT ![h] = NoRequest]
    /\ UNCHANGED <<vars, pending, certs, dead, mistaken, due, promised>>

\* AddBounce and AddComplaint: does an event suppress its address?
Suppresses(e) == (e.is = "bounce" => e.hard) /\ e.to # ""

\* Mutant of Record: it stops at the first item that suppresses.
RecordUntilTrue(h) ==
    /\ at[h] = "record"
    /\ pending[h] # <<>>
    /\ LET event == Head(pending[h])
       IN  IF Suppresses(event)
           THEN AddEntry(event.to) /\ pending' = [pending EXCEPT ![h] = <<>>]
           ELSE UNCHANGED vars /\ pending' = [pending EXCEPT ![h] = Tail(@)]
    /\ UNCHANGED <<at, request, certs, dead, mistaken, due, promised>>

\* One item.
Record(h) ==
    /\ at[h] = "record"
    /\ pending[h] # <<>>
    /\ LET event == Head(pending[h])
       IN  IF Suppresses(event) THEN AddEntry(event.to) ELSE UNCHANGED vars
    /\ pending' = [pending EXCEPT ![h] = Tail(@)]
    /\ UNCHANGED <<at, request, certs, dead, mistaken, due, promised>>

\* Record has returned, the handler answers.
Answer(h) ==
    /\ at[h] = "record"
    /\ pending[h] = <<>>
    /\ at' = [at EXCEPT ![h] = "idle"]
    /\ promised' = promised \cup due[h]
    /\ due' = [due EXCEPT ![h] = {}]
    /\ UNCHANGED <<vars, request, pending, certs, dead, mistaken>>

-----------------------------------------------------------------------------
(* The operator *)

\* Add
AddManually(address) ==
    /\ AddEntry(address)
    /\ dead' = dead \cup ({Mailbox[address]} \ {""})
    /\ UNCHANGED <<at, request, pending, certs, mistaken, due, promised>>

\* Remove
RemoveManually(address) ==
    /\ RemoveEntry(address)
    /\ promised' = promised \ {Mailbox[address]}
    /\ due' = [h \in Handlers |-> due[h] \ {Mailbox[address]}]
    /\ UNCHANGED <<at, request, pending, certs, dead, mistaken>>

-----------------------------------------------------------------------------

HandlerStep(h) ==
    \/ \E r \in Requests : Arrive(h, r)
    \/ FetchCert(h) \/ FetchFails(h)
    \/ Record(h) \/ Answer(h)

LoopNext ==
    \/ \E s \in Senders : SendStep(s) /\ UNCHANGED hookVars
    \/ \E h \in Handlers : HandlerStep(h)
    \/ \E a \in Addresses : AddManually(a) \/ RemoveManually(a)

LoopSpec == LoopInit /\ [][LoopNext]_loopVars

-----------------------------------------------------------------------------
(* Properties *)

\* Record: "suppressing hard bounces and complaints and ignoring the rest".  A
\* mailbox gets on the list only after a request that its provider really sent,
\* lately if it is dated, said that it is permanently undeliverable or complained,
\* or after the operator's Add; no other wording, provider, forgery or replay puts
\* it there, but for two mistakes: "all verifiers reject timestamps outside
\* DefaultWebhookTolerance" is false of SNS, whose messages carry a signed timestamp
\* that nobody looks at, and a block of SendGrid's is recorded as a hard bounce.
OnlyTheDead == entries \subseteq dead \cup mistaken

\* What a handler has answered for is on the list, in whatever spelling it was
\* reported, until somebody removes it: no item of a batch is skipped because of
\* another one, and nothing the operator does to others undoes it.
AllRecorded == promised \subseteq entries
=============================================================================
