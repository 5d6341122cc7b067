---------------------------- MODULE BounceEvents ----------------------------
(***************************************************************************)
(* What reaches the suppression list: the checks of webhook.go that decide *)
(* whether a request is the provider's, and the parsers of bounce.go that  *)
(* make bounces and complaints of it.                                      *)
(*                                                                         *)
(* A request is a record: its provider ("from"), the state of its          *)
(* signature or credentials, the age of its timestamp, for SNS the topic   *)
(* and the URL of the certificate, and its events.  An event says to whom  *)
(* the message went, in the provider's own words what became of it (kind   *)
(* and grade), and what that means (outcome, which no parser sees).  Texts *)
(* that do not parse at all are left out: an error, like an empty result,  *)
(* leaves the list as it is.                                               *)
(***************************************************************************)
EXTENDS Integers, SequencesExt

CONSTANTS
    Configured,   \* the providers whose verifier has a key or credentials
    Tolerance,    \* the Tolerance field of the verifiers
    TopicARNs,    \* SNSVerifier.TopicARNs
    SNSUrls       \* the URLs that are an SNS endpoint (snsCertURLPattern, .pem)

\* DefaultWebhookTolerance, in minutes.
DefaultWebhookTolerance == 5

ASSUME ToleranceAssumption == Tolerance \in Int

-----------------------------------------------------------------------------
(* The providers' words *)

\* The kinds and grades by which a provider reports an outcome.  In a mail, the
\* kind stands for the report part it has and the grade for the Status field; of
\* SendGrid's bounces it is the type: a block is one that may be delivered later.
Wording(from, outcome) ==
    CASE from = "mail" ->
            CASE outcome = "permanent" -> {<<"delivery-status", 500>>}
              [] outcome = "temporary" -> {<<"delivery-status", 400>>}
              [] outcome = "complaint" -> {<<"feedback-report", 0>>}
              [] OTHER                 -> {<<"none", 0>>, <<"delivery-status", 200>>}
      [] from = "ses" ->
            CASE outcome = "permanent" -> {<<"Bounce", "Permanent">>}
              [] outcome = "temporary" -> {<<"Bounce", "Transient">>, <<"Bounce", "Undetermined">>}
              [] outcome = "complaint" -> {<<"Complaint", "">>}
              [] OTHER                 -> {<<"Delivery", "">>}
      [] from = "sendgrid" ->
            CASE outcome = "permanent" -> {<<"bounce", "bounce">>}
              [] outcome = "temporary" -> {<<"deferred", "">>, <<"bounce", "blocked">>}
              [] outcome = "complaint" -> {<<"spamreport", "">>}
              [] OTHER                 -> {<<"delivered", "">>}
      [] from = "mailgun" ->
            CASE outcome = "permanent" -> {<<"failed", 500>>, <<"failed", 605>>}
              [] outcome = "temporary" -> {<<"failed", 0>>, <<"failed", 499>>}
              [] outcome = "complaint" -> {<<"complained", 0>>}
              [] OTHER                 -> {<<"delivered", 0>>}
      [] from = "postmark" ->
            CASE outcome = "permanent" -> {<<"Bounce", "HardBounce">>}
              [] outcome = "temporary" -> {<<"Bounce", "SoftBounce">>, <<"Bounce", "Transient">>}
              [] outcome = "complaint" -> {<<"SpamComplaint", "">>}
              [] OTHER                 -> {<<"Delivery", "">>}

\* A bounce of SendGrid's that is temporary.
Blocked(e) == e.kind = "bounce" /\ e.grade = "blocked"

\* Is it a request as its provider words it?
Worded(r) ==
    /\ r.from \in {"mail", "ses", "sendgrid", "mailgun", "postmark"}
    /\ r.from \in {"sendgrid", "mailgun", "ses"} => r.age \in Int
    /\ r.events \in Seq(ToSet(r.events))
    /\ \A e \in ToSet(r.events) : <<e.kind, e.grade>> \in Wording(r.from, e.outcome)

-----------------------------------------------------------------------------
(* The parsers: a sequence of bounces and complaints *)

Bounce(hard, to) == [is |-> "bounce", hard |-> hard, to |-> to]

Complaint(to) == [is |-> "complaint", to |-> to]

\* ParseBounce and ParseComplaint: the first recipient of a delivery status,
\* the To header of the message a feedback report returns.
MailEvent(e) ==
    CASE e.kind = "delivery-status" -> <<Bounce(e.grade \div 100 = 5, e.to)>>
      [] e.kind = "feedback-report" -> <<Complaint(e.to)>>
      [] OTHER                      -> <<>>

SESEvent(e) ==
    CASE e.kind = "Bounce"    -> <<Bounce(e.grade = "Permanent", e.to)>>
      [] e.kind = "Complaint" -> <<Complaint(e.to)>>
      [] OTHER                -> <<>>

SendGridEvent(e) ==
    CASE e.kind = "bounce"     -> <<Bounce(TRUE, e.to)>>
      [] e.kind = "spamreport" -> <<Complaint(e.to)>>
      [] OTHER                 -> <<>>

\* Mutant of MailgunEvent: any SMTP error is hard.
MailgunEventAnyError(e) ==
    CASE e.kind = "failed"     -> <<Bounce(e.grade >= 400, e.to)>>
      [] e.kind = "complained" -> <<Complaint(e.to)>>
      [] OTHER                 -> <<>>

MailgunEvent(e) ==
    CASE e.kind = "failed"     -> <<Bounce(e.grade >= 500, e.to)>>
      [] e.kind = "complained" -> <<Complaint(e.to)>>
      [] OTHER                 -> <<>>

PostmarkEvent(e) ==
    CASE e.kind = "Bounce"        -> <<Bounce(e.grade = "HardBounce", e.to)>>
      [] e.kind = "SpamComplaint" -> <<Complaint(e.to)>>
      [] OTHER                    -> <<>>

\* Only SendGrid's parser goes through all events; SES's and the mail's take the
\* first recipient, the others' payload has one.
Parse(r) ==
    IF r.from = "sendgrid"
    THEN FlattenSeq([i \in DOMAIN r.events |-> SendGridEvent(r.events[i])])
    ELSE IF r.events = <<>> THEN <<>>
    ELSE LET event == Head(r.events)
         IN  CASE r.from = "mail"     -> MailEvent(event)
               [] r.from = "ses"      -> SESEvent(event)
               [] r.from = "mailgun"  -> MailgunEvent(event)
               [] r.from = "postmark" -> PostmarkEvent(event)

-----------------------------------------------------------------------------
(* The verifiers *)

\* tolerance, withinTolerance: the clocks may differ either way.
WithinTolerance(age) ==
    LET window == IF Tolerance <= 0 THEN DefaultWebhookTolerance ELSE Tolerance
    IN  -window <= age /\ age <= window

\* MailgunVerifier.Verify, SendGridVerifier.Verify: the signature covers the timestamp.
TimedSignatureVerified(r) ==
    /\ r.from \in Configured
    /\ r.signature # "none"
    /\ WithinTolerance(r.age)
    /\ r.signature = "right"

\* PostmarkVerifier.Verify: both halves of the Basic credentials.
CredentialsVerified(r) == r.from \in Configured /\ r.signature = "right"

\* SNSVerifier.Verify up to the certificate.
EnvelopeVerified(r) ==
    /\ r.signature # "none"
    /\ r.type \in {"Notification", "SubscriptionConfirmation", "UnsubscribeConfirmation"}
    /\ r.version \in {"1", "2"}
    /\ TopicARNs = {} \/ r.topic \in TopicARNs

\* What a handler can decide from the request alone: an SNS message still needs
\* its certificate, a received mail has no verifier.
Verified(r) ==
    CASE r.from \in {"mailgun", "sendgrid"} -> TimedSignatureVerified(r)
      [] r.from = "postmark"                -> CredentialsVerified(r)
      [] r.from = "ses"                     -> EnvelopeVerified(r)
      [] r.from = "mail"                    -> TRUE
=============================================================================
