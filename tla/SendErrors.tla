----------------------------- MODULE SendErrors -----------------------------
(***************************************************************************)
(* How gsmail classifies a send error (provider.go, httperror.go).         *)
(*                                                                         *)
(* An error is the sequence of the errors it wraps, in the depth-first     *)
(* order in which errors.Is and errors.As visit them; fmt.Errorf("%w") and *)
(* errors.Join keep that order.  Each of them is one of Kinds.             *)
(***************************************************************************)
EXTENDS Naturals, SequencesExt

Kinds == {"plain",        \* a refused connection, an EOF, a failed lookup
          "permanent",    \* wrapped by NonRetryable: an SMTP 5xx, an invalid email
          "badRequest",   \* an HTTPError with a 4xx status other than 408 and 429
          "unavailable",  \* an HTTPError with status 408 or 5xx
          "throttled",    \* an HTTPError with status 429 and a Retry-After
          "timeout",      \* a timeout of net.Dialer or http.Client, not the caller's
                          \* deadline, though errors.Is takes it for a
                          \* context.DeadlineExceeded too
          "canceled"}     \* the context's own error

NonRetryable(err) == <<"permanent">> \o err

\* HTTPError.Retryable
HTTPRetryable(kind) == kind \in {"unavailable", "throttled"}

\* The errors that implement the interface Retryable.
Deciders == {"permanent", "badRequest", "unavailable", "throttled"}

\* Cancellation first; then the first error that implements Retryable; an error
\* that nobody classifies may be retried.
IsRetryable(err) ==
    LET deciders == {i \in DOMAIN err : err[i] \in Deciders}
    IN  /\ err # <<>>
        /\ \A i \in DOMAIN err : err[i] \notin {"canceled", "timeout"}
        /\ deciders # {} => HTTPRetryable(err[Min(deciders)])

\* retryAfter: is there a server-requested delay?
HasRetryAfter(err) == \E i \in DOMAIN err : err[i] = "throttled"
=============================================================================
