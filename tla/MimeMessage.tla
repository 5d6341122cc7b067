---------------------------- MODULE MimeMessage ----------------------------
(***************************************************************************)
(* The MIME structure buildMessage gives an email and what ParseRawEmail   *)
(* reads from such a message (utils.go).                                   *)
(*                                                                         *)
(* An email is a record: body ("none", "prose", or "markup", which IsHTML  *)
(* takes for HTML), html and envelope (is there an HTMLBody, an Envelope?),*)
(* attachments, a sequence of [data, type, cid], where "" is no ContentType*)
(* or no ContentID, and headers, the names in Email.Headers.  Contents     *)
(* stand for themselves: the encodings are not modelled, and no attachment *)
(* calls itself a multipart.                                               *)
(*                                                                         *)
(* A message is the sequence of its parts as they are written: a multipart *)
(* comes before the parts it holds, which are one level deeper.            *)
(***************************************************************************)
EXTENDS Naturals, SequencesExt

maxMultipartDepth == 10

Reserved == {"Subject"}    \* reservedHeaders: those the library writes itself
Trace    == {"Received"}   \* traceHeaders
Illegal  == {"bad name"}   \* what isValidHeaderName refuses

\* buildMessage and CustomHeaders refuse an illegal name that they would write.
HeadersRefused(headers) == (headers \ (Reserved \cup Trace)) \cap Illegal # {}

\* CustomHeaders: the headers a provider's API is given.
CustomHeaders(headers) == headers \ (Reserved \cup Trace)

IsHTML(body) == body = "markup"

Multiparts == {"multipart/mixed", "multipart/alternative"}

Attachment == [data : STRING, type : STRING \ Multiparts, cid : STRING]

\* What an email is.
Email == [body : {"none", "prose", "markup"}, html : BOOLEAN, headers : SUBSET STRING, envelope : BOOLEAN,
          attachments : Seq(Attachment)]

HasBothBodies(email) == email.body # "none" /\ email.html

-----------------------------------------------------------------------------
(* Rendering *)

\* A part that is no attachment: writeBodyPart, or the head of a multipart.
Part(type, content, depth) ==
    [type |-> type, disposition |-> "none", cid |-> "", content |-> content, depth |-> depth]

Multipart(type, depth) == Part(type, "none", depth)

DefaultType == "application/octet-stream"

TypeOf(att) == IF att.type = "" THEN DefaultType ELSE att.type

\* writeAttachmentPart
AttachmentPart(att) ==
    [type |-> TypeOf(att), disposition |-> IF att.cid # "" THEN "inline" ELSE "attachment",
     cid |-> att.cid, content |-> att.data, depth |-> 1]

\* The only body, whichever field it is in.
MainPart(email, depth) ==
    IF email.body = "none" /\ email.html
    THEN Part("text/html", "html", depth)
    ELSE Part(IF IsHTML(email.body) THEN "text/html" ELSE "text/plain", email.body, depth)

\* The bodies, and the multipart that holds them if there are two.
Bodies(email, depth) ==
    IF HasBothBodies(email)
    THEN <<Multipart("multipart/alternative", depth),
           Part("text/plain", email.body, depth + 1), Part("text/html", "html", depth + 1)>>
    ELSE <<MainPart(email, depth)>>

\* The body of the message.
buildBody(email) ==
    IF email.attachments = <<>>
    THEN Bodies(email, 0)
    ELSE <<Multipart("multipart/mixed", 0)>> \o Bodies(email, 1)
             \o [k \in DOMAIN email.attachments |-> AttachmentPart(email.attachments[k])]

\* The caller's headers a message gets; Date and Message-ID are generated.
buildHeaders(email) == email.headers \ (Reserved \cup Trace \cup {"Date", "Message-ID"})

-----------------------------------------------------------------------------
(* Parsing *)

\* The Email before its body is read.
Unread == [body |-> "none", html |-> "none", attachments |-> <<>>, err |-> FALSE]

IsMultipart(part) == part.type \in Multiparts

\* processPart, and parseMultipart when it enters a multipart; an error ends all of
\* them, and a later text of the same type replaces an earlier one.
processPart(email, part) ==
    IF email.err THEN email ELSE
    CASE IsMultipart(part) ->
            [email EXCEPT !.err = part.depth >= maxMultipartDepth]
      [] ~IsMultipart(part) /\ part.disposition = "none" /\ part.type = "text/plain" ->
            [email EXCEPT !.body = part.content]
      [] ~IsMultipart(part) /\ part.disposition = "none" /\ part.type = "text/html" ->
            [email EXCEPT !.html = part.content]
      [] OTHER ->
            [email EXCEPT !.attachments =
                Append(@, [data |-> part.content, type |-> part.type, cid |-> part.cid])]

\* A message that is not multipart has its content in Body, whatever its type.
ParseRawEmail(message) ==
    IF IsMultipart(Head(message))
    THEN FoldLeft(processPart, Unread, message)
    ELSE [Unread EXCEPT !.body = Head(message).content]
=============================================================================
