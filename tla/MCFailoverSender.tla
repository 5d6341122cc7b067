------------------------- MODULE MCFailoverSender -------------------------
(* Instances of FailoverSender for TLC. *)
EXTENDS FailoverSender, TLC

CONSTANTS p1, p2, p3

\* A FailoverSender over FailoverSenders: one with a nil among its providers, one
\* with a single provider, and one that has nobody to send with.
Nested == << <<p1, Nil, p2>>, <<p3>>, <<Nil>> >>

\* Every API in every place.
Order == <<"smtp", "sendgrid", "ses", "mailgun", "postmark">>

Place(k) == Order[(k % Len(Order)) + 1]

MCApis == {(p1 :> Place(k)) @@ (p2 :> Place(k + 1)) @@ (p3 :> Place(k + 3)) : k \in 0..4}

\* A plain email, one with everything, one body with an attachment, an attachment
\* alone, text that looks like HTML, an envelope, and a header nobody can send.
Plain == [body |-> "prose", html |-> FALSE, attachments |-> <<>>, headers |-> {}, envelope |-> FALSE]
Image == [data |-> "image", type |-> "image/png", cid |-> "logo"]
File  == [data |-> "file", type |-> "", cid |-> ""]

MCEmails ==
    {Plain,
     [Plain EXCEPT !.html = TRUE, !.attachments = <<Image, File>>, !.headers = {"X-Custom", "Received", "Date"}],
     [Plain EXCEPT !.body = "none", !.html = TRUE, !.attachments = <<Image>>],
     [Plain EXCEPT !.body = "none", !.attachments = <<File>>],
     [Plain EXCEPT !.body = "markup", !.headers = {"X-Custom", "Subject"}],
     [Plain EXCEPT !.envelope = TRUE],
     [Plain EXCEPT !.headers = {"bad name"}]}

\* Two retries; the interval meets its cap at the second.
Short ==
    [MaxRetries |-> 2, InitialInterval |-> 2, MaxInterval |-> 3, Multiplier |-> 2]

\* What means no retry at all.
None == [MaxRetries |-> -1, InitialInterval |-> 0, MaxInterval |-> 0, Multiplier |-> 0]

=============================================================================
