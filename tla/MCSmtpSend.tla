----------------------------- MODULE MCSmtpSend -----------------------------
(* Instances of SmtpSend for TLC. *)
EXTENDS SmtpSend

CONSTANTS a, b

\* Messages with one and two recipients, which they share.
MCLists == {<<a>>, <<b, a>>}

\* A Sender with a password over TLS, and a pool that waits.
Base == [pooled |-> TRUE, wait |-> TRUE, ssl |-> TRUE, auth |-> "password", source |-> TRUE,
         allowInsecure |-> FALSE, localhost |-> FALSE, starttls |-> FALSE, offersAuth |-> TRUE]

\* One with a token over STARTTLS.
OAuth == [Base EXCEPT !.ssl = FALSE, !.auth = "oauth", !.starttls = TRUE]

\* One with nothing but STARTTLS, and a pool that does not wait.
Relay == [Base EXCEPT !.wait = FALSE, !.ssl = FALSE, !.auth = "none", !.starttls = TRUE]

\* One with a token and without TLS, for a server on the same machine.
Local == [OAuth EXCEPT !.pooled = FALSE, !.starttls = FALSE, !.allowInsecure = TRUE, !.localhost = TRUE]

\* Those that never get as far as MAIL.
Futile == {[OAuth EXCEPT !.source = FALSE], [OAuth EXCEPT !.starttls = FALSE],
           [OAuth EXCEPT !.offersAuth = FALSE], [Base EXCEPT !.ssl = FALSE]}

MCConfigs == {Base, Relay, Local} \cup Futile \cup {[c EXCEPT !.pooled = FALSE] : c \in Futile}

=============================================================================
