--------------------------- MODULE HttpProviders ---------------------------
(***************************************************************************)
(* The providers behind Send: what each of them refuses before it asks     *)
(* anybody, what its request carries of an email, and what it makes of the *)
(* answer (sendgrid, mailgun, postmark, ses, and smtp for comparison).     *)
(***************************************************************************)
EXTENDS SendErrors, MimeMessage

Apis == {"smtp", "sendgrid", "mailgun", "postmark", "ses"}

\* Mutant of NeedsRaw: attachments are forgotten.
NeedsRawNoFiles(email) == HasBothBodies(email) \/ email.headers # {}

\* ses: can the "simple" content not express it?
NeedsRaw(email) ==
    \/ email.attachments # <<>>
    \/ HasBothBodies(email)
    \/ email.headers # {}

\* RejectEnvelope, then buildRequest, buildForm or buildMessage: the errors
\* with which Send returns before Retry, all of them NonRetryable.
Refuses(api, email) ==
    \/ api # "smtp" /\ email.envelope
    \/ HeadersRefused(email.headers)
    \/ api = "sendgrid" /\ email.body = "none" /\ ~email.html

-----------------------------------------------------------------------------
(* What a reader is to find *)

\* The texts, each with its media type, the files in order, and the custom headers;
\* the message's own Date and Message-ID are nobody's loss.
Content(texts, files, headers) ==
    [texts |-> {t \in texts : t[2] # "none"}, files |-> files, headers |-> headers \ {"Date", "Message-ID"}]

Typed(plain, html) == {<<"text/plain", plain>>, <<"text/html", html>>}

HTMLBody(email) == IF email.html THEN "html" ELSE "none"

\* A file with its type, and the name by which the HTML shows it.
Shown(att) == [data |-> att.data, type |-> TypeOf(att), cid |-> att.cid, inline |-> att.cid # ""]

ShownAll(atts) == [k \in DOMAIN atts |-> Shown(atts[k])]

\* What an email holds for its reader.
Contents(email) ==
    Content(Typed(email.body, HTMLBody(email)), ShownAll(email.attachments), CustomHeaders(email.headers))

-----------------------------------------------------------------------------
(* The requests, and what the provider's message shows of them *)

\* smtp and ses.sendRaw: the reader parses the rendered message; one that is not
\* multipart says of itself what its only text is.
CarriedRaw(email) ==
    LET message == buildBody(email)
        read    == ParseRawEmail(message)
    IN  Content(IF IsMultipart(Head(message))
                THEN Typed(read.body, read.html) ELSE {<<Head(message).type, read.body>>},
                ShownAll(read.attachments), buildHeaders(email))

\* ses.sendSimple: Body.Text and Body.Html, and nothing else.
CarriedSimple(email) == Content(Typed(email.body, HTMLBody(email)), <<>>, {})

\* sendgrid.buildRequest
SendGridRequest(email) ==
    [content     |-> Typed(email.body, HTMLBody(email)),
     attachments |-> [k \in DOMAIN email.attachments |->
        LET att == email.attachments[k]
        IN  [Content |-> att.data, Type |-> att.type, ContentID |-> att.cid,
             Disposition |-> IF att.cid # "" THEN "inline" ELSE "attachment"]],
     headers     |-> CustomHeaders(email.headers)]

\* The disposition and the Content-ID are fields of their own.
SendGridShows(request) ==
    Content(request.content,
            [k \in DOMAIN request.attachments |->
                LET file == request.attachments[k]
                IN  [data |-> file.Content, type |-> IF file.Type = "" THEN DefaultType ELSE file.Type,
                     cid |-> file.ContentID, inline |-> file.Disposition = "inline"]],
            request.headers)

\* mailgun.buildForm: a file is a field with a name and its data.
MailgunForm(email) ==
    [text  |-> email.body, html |-> HTMLBody(email), h |-> CustomHeaders(email.headers),
     files |-> [k \in DOMAIN email.attachments |->
        LET att == email.attachments[k]
        IN  [field |-> IF att.cid # "" THEN "inline" ELSE "attachment", data |-> att.data]]]

\* The Content-ID and the type of a file are not in the form.
MailgunShows(form) ==
    Content(Typed(form.text, form.html),
            [k \in DOMAIN form.files |->
                [data |-> form.files[k].data, type |-> DefaultType, cid |-> "",
                 inline |-> form.files[k].field = "inline"]],
            form.h)

\* postmark.Send
PostmarkRequest(email) ==
    [TextBody    |-> email.body, HtmlBody |-> HTMLBody(email), Headers |-> CustomHeaders(email.headers),
     Attachments |-> [k \in DOMAIN email.attachments |->
        LET att == email.attachments[k]
        IN  [Content |-> att.data, ContentType |-> att.type, ContentID |-> att.cid]]]

\* Postmark has no disposition: a file with a Content-ID is inline.
PostmarkShows(request) ==
    Content(Typed(request.TextBody, request.HtmlBody),
            [k \in DOMAIN request.Attachments |->
                LET file == request.Attachments[k]
                IN  [data |-> file.Content,
                     type |-> IF file.ContentType = "" THEN DefaultType ELSE file.ContentType,
                     cid |-> file.ContentID, inline |-> file.ContentID # ""]],
            request.Headers)

\* Is the message rendered by the library?
Renders(api, email) == api = "smtp" \/ (api = "ses" /\ NeedsRaw(email))

Carried(api, email) ==
    CASE Renders(api, email)                -> CarriedRaw(email)
      [] api = "ses" /\ ~NeedsRaw(email)    -> CarriedSimple(email)
      [] api = "sendgrid"                   -> SendGridShows(SendGridRequest(email))
      [] api = "mailgun"                    -> MailgunShows(MailgunForm(email))
      [] api = "postmark"                   -> PostmarkShows(PostmarkRequest(email))

-----------------------------------------------------------------------------
(* Answers *)

Statuses == {200, 202, 400, 408, 429, 503}

\* The statuses the attempt reports as an error; the APIs of smtp and ses report
\* errors of their own.
ErrorStatuses(api) ==
    CASE api \in {"sendgrid", "mailgun"} -> {s \in Statuses : s >= 400}
      [] api = "postmark"                -> Statuses \ {200}
      [] OTHER                           -> {}

\* NewHTTPError; here every 429 carries a Retry-After that parses, and no other does.
HTTPErrorKind(status) ==
    CASE status = 429                    -> "throttled"
      [] status = 408 \/ status >= 500   -> "unavailable"
      [] OTHER                           -> "badRequest"

\* The errors an attempt can end with: Client.Do and the SDK of SES fail with
\* errors nobody classifies, the clients and dialers of all of them time out on
\* their own (sendgrid.go:32), an SMTP server also refuses for good.
AttemptErrors(api) ==
    {"plain", "timeout"} \cup {HTTPErrorKind(s) : s \in ErrorStatuses(api)}
                         \cup (IF api = "smtp" THEN {"permanent"} ELSE {})
=============================================================================
