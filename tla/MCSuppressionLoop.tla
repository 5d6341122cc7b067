------------------------- MODULE MCSuppressionLoop -------------------------
(* Instances of SuppressionLoop for TLC. *)
EXTENDS SuppressionLoop, TLC

\* Two spellings of one mailbox, another one, and no address.
MCAddresses == {"a@x", "Alice <A@x>", "b@x", ""}

MCMailbox == "a@x" :> "a@x" @@ "Alice <A@x>" :> "a@x" @@ "b@x" :> "b@x" @@ "" :> ""

\* Two recipients, and a mailbox that is named twice in two spellings.
MCLists == {<<"b@x", "a@x", "Alice <A@x>">>, <<"Alice <A@x>", "b@x">>}

\* One copy per recipient, or none.
MCEnvelopes == {<<>>, <<"a@x">>}

\* The events of a provider about one address.
EventsOf(from, outcomes, to) ==
    UNION {{[outcome |-> o, kind |-> w[1], grade |-> w[2], to |-> to] : w \in Wording(from, o)} : o \in outcomes}

Outcomes == {"permanent", "temporary", "complaint", "delivered"}

\* Every wording, from a provider whose signature is right and fresh.
Plain ==
    UNION {{[from |-> from, signature |-> "right", age |-> 0, events |-> <<e>>] :
                e \in EventsOf(from, Outcomes, "Alice <A@x>")} :
           from \in {"mail", "mailgun", "postmark"}}

\* A batch of SendGrid.
Batch ==
    {[from |-> "sendgrid", signature |-> "right", age |-> 5, events |-> <<e1, e2>>] :
        e1 \in EventsOf("sendgrid", Outcomes, "Alice <A@x>"),
        e2 \in EventsOf("sendgrid", {"permanent", "delivered"}, "b@x")}

\* Requests that are not to be believed, or too old, or from the future, or about nobody.
Doubtful ==
    {[from |-> from, signature |-> sig, age |-> age, events |-> <<e>>] :
        from \in {"mailgun"}, sig \in {"none", "wrong", "right"}, age \in {-6, 0, 6},
        e \in EventsOf("mailgun", {"permanent"}, "b@x")}
    \cup {[from |-> "postmark", signature |-> "wrong", age |-> 0, events |-> <<e>>] :
              e \in EventsOf("postmark", {"permanent"}, "b@x")}
    \cup {[from |-> "sendgrid", signature |-> "right", age |-> 0, events |-> <<e>>] :
              e \in EventsOf("sendgrid", {"permanent"}, "")}

\* SNS messages.
Notice(e) ==
    [from |-> "ses", signature |-> "right", age |-> 0, type |-> "Notification", version |-> "2",
     topic |-> "ours", cert |-> "c1", events |-> <<e>>]

\* One deviation from a message to be believed.
Deviations(n) ==
    {[n EXCEPT !.signature = "wrong"], [n EXCEPT !.signature = "none"], [n EXCEPT !.age = 6],
     [n EXCEPT !.topic = "theirs"], [n EXCEPT !.cert = "c2"], [n EXCEPT !.cert = "foreign"]}

Notices ==
    {Notice(e) : e \in EventsOf("ses", Outcomes, "Alice <A@x>")}
        \cup UNION {Deviations(Notice(e)) : e \in EventsOf("ses", {"permanent"}, "Alice <A@x>")}

MCRequests == Plain \cup Batch \cup Doubtful \cup Notices
=============================================================================
