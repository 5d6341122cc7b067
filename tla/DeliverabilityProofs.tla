------------------------ MODULE DeliverabilityProofs ------------------------
(***************************************************************************)
(* Proofs about what keeps mail deliverable.  The suppression list, of     *)
(* SuppressionLoop, for every set of senders, handlers, addresses,         *)
(* messages and requests, any size of the certificate cache, and a store   *)
(* that may fail.  The domain health checks, of DomainHealth at the end of *)
(* the module, for every set of selectors and whatever a zone publishes.   *)
(***************************************************************************)
EXTENDS SuppressionLoop, DomainHealth, SequenceLemmas, FiniteSetTheorems

-----------------------------------------------------------------------------
(* The inductive invariant *)

\* What a message has been through, and what it goes to: every recipient is still to
\* be looked up, kept, or reported while it had an entry; a recipient that stays was
\* off the list when it was looked up.
SenderShape(s) ==
    /\ listed[s] \subseteq entries
    /\ unlisted[s] \cap entries = {}
    /\ pc[s] = "out" => kept[s] = <<>>
    /\ pc[s] # "sent" => delivered[s] = {}
    /\ pc[s] \in {"send", "sent"} => headers[s] = <<>>
    /\ pc[s] \in {"lookup", "send", "sent"} =>
           \A a \in asked[s] :
               \/ a \in ToSet(headers[s]) \cup ToSet(kept[s])
               \/ a \in reported[s] /\ Mailbox[a] \notin unlisted[s]
    /\ ~ignoreErrors => MailboxesOf(kept[s]) \cap listed[s] = {}
    /\ pc[s] = "sent" /\ envelope[s] = <<>> => delivered[s] = MailboxesOf(kept[s])

\* What a parser makes of an event.
Item ==
    [is : {"bounce"}, hard : BOOLEAN, to : Addresses] \cup [is : {"complaint"}, to : Addresses]

\* The mailboxes these items put on the list.
Condemned(items) == {Mailbox[x.to] : x \in {y \in ToSet(items) : Suppresses(y)}} \ {""}

\* What a request has named and nobody has removed is on the list or about to be, and
\* what was promised is on it; an SNS message waits for its certificate.
HandlerShape ==
    /\ pending \in [Handlers -> Seq(Item)]
    /\ DOMAIN due = Handlers
    /\ \A h \in Handlers : due[h] \subseteq entries \cup Condemned(pending[h])
    /\ promised \subseteq entries
    /\ DOMAIN at = Handlers /\ DOMAIN request = Handlers
    /\ \A h \in Handlers :
          at[h] = "fetch" => request[h] \in Requests /\ request[h].from = "ses"

IInv == TypeOK /\ (\A s \in Senders : SenderShape(s)) /\ HandlerShape

\* The mailboxes that are dead or taken for dead by a known mistake.
Excused == dead \cup mistaken

\* They are all that is on the list, or about to be.
DeadShape ==
    /\ entries \subseteq Excused
    /\ \A h \in Handlers : Condemned(pending[h]) \subseteq Excused

\* What the verifiers cannot tell: a report that came by mail is the server's own.
MailIsGenuine == \A r \in Requests : r.from = "mail" => r.signature = "right"

-----------------------------------------------------------------------------
(* What the parsers make of a request *)

\* An event that is permanent, a complaint, or a block.
Severe(e) == e.outcome \in {"permanent", "complaint"} \/ Blocked(e)

\* The mailboxes of the severe ones among these events.
Taken(events) == {Mailbox[e.to] : e \in {x \in events : Severe(x)}} \ {""}

\* The mailboxes of the blocks among these events.
BlockedIn(events) == {Mailbox[e.to] : e \in {x \in ToSet(events) : Blocked(x)}}

\* Did a parser make of the event an item for its recipient that suppresses it if, and
\* only if, the event is severe?
Understood(items, e) ==
    /\ items \in Seq(Item)
    /\ Condemned(items) = Taken({e})

\* Which mailbox an item puts on the list, and that nothing comes of nothing.
LEMMA ItemCondemns ==
    ASSUME NEW x \in Item
    PROVE  /\ <<x>> \in Seq(Item)
           /\ Condemned(<<x>>) = (IF x.is = "bounce" => x.hard THEN {Mailbox[x.to]} ELSE {}) \ {""}
<1>1. ToSet(<<x>>) = {x}
  BY DEF ToSet
<1>2. x.to = "" => Mailbox[x.to] = ""
  BY MailboxAssumption DEF Item
<1>3. {y \in {x} : Suppresses(y)} = IF Suppresses(x) THEN {x} ELSE {}
  OBVIOUS
<1>4. Condemned(<<x>>) = (IF Suppresses(x) THEN {Mailbox[x.to]} ELSE {}) \ {""}
  BY <1>1, <1>3 DEF Condemned
<1>5. <<x>> \in Seq(Item)
  OBVIOUS
<1> QED
  BY <1>2, <1>4, <1>5 DEF Suppresses

\* An item made of no event suppresses nobody.
LEMMA NothingCondemns == <<>> \in Seq(Item) /\ Condemned(<<>>) = {}
<1>1. ToSet(<<>>) = {}
  BY DEF ToSet
<1>2. {y \in {} : Suppresses(y)} = {}
  OBVIOUS
<1>3. <<>> \in Seq(Item)
  OBVIOUS
<1> QED
  BY <1>1, <1>2, <1>3 DEF Condemned

\* An event of one of the providers, in its words.
LEMMA EventUnderstood ==
    ASSUME NEW from \in {"mail", "ses", "sendgrid", "mailgun", "postmark"}, NEW e,
           e.to \in Addresses, <<e.kind, e.grade>> \in Wording(from, e.outcome)
    PROVE  /\ from = "mail" => Understood(MailEvent(e), e)
           /\ from = "ses" => Understood(SESEvent(e), e)
           /\ from = "sendgrid" => Understood(SendGridEvent(e), e)
           /\ from = "mailgun" => Understood(MailgunEvent(e), e)
           /\ from = "postmark" => Understood(PostmarkEvent(e), e)
<1> DEFINE severe == e.outcome \in {"permanent", "complaint"} \/ Blocked(e)
           Hard == [is |-> "bounce", hard |-> TRUE, to |-> e.to]
           Soft == [is |-> "bounce", hard |-> FALSE, to |-> e.to]
           Angry == [is |-> "complaint", to |-> e.to]
<1>1. Taken({e}) = (IF severe THEN {Mailbox[e.to]} ELSE {}) \ {""}
  <2>1. {x \in {e} : Severe(x)} = IF severe THEN {e} ELSE {}
    BY DEF Severe
  <2> QED
    BY <2>1 DEF Taken, Severe
<1>2. ~severe => Understood(<<>>, e)
  BY <1>1, NothingCondemns DEF Understood
<1>3. ~severe => Understood(<<Soft>>, e)
  <2>1. Soft \in Item /\ Soft.is = "bounce" /\ Soft.hard = FALSE
    BY DEF Item
  <2> HIDE DEF Soft
  <2> QED
    BY <1>1, <2>1, ItemCondemns DEF Understood
<1>4. severe => Understood(<<Hard>>, e)
  <2>1. Hard \in Item /\ Hard.hard = TRUE /\ Hard.to = e.to
    BY DEF Item
  <2> HIDE DEF Hard
  <2> QED
    BY <1>1, <2>1, ItemCondemns DEF Understood
<1>5. severe => Understood(<<Angry>>, e)
  <2>1. Angry \in Item /\ Angry.is # "bounce" /\ Angry.to = e.to
    BY DEF Item
  <2> HIDE DEF Angry
  <2> QED
    BY <1>1, <2>1, ItemCondemns DEF Understood
<1>6. CASE from = "mail"
  <2>1. \/ e.outcome = "permanent" /\ e.kind = "delivery-status" /\ e.grade = 500
        \/ e.outcome = "complaint" /\ e.kind = "feedback-report"
        \/ ~severe /\ e.kind = "delivery-status" /\ e.grade \in {200, 400}
        \/ ~severe /\ e.kind = "none"
    BY <1>6 DEF Wording, Blocked
  <2>2. (500 \div 100 = 5) = TRUE /\ (400 \div 100 = 5) = FALSE /\ (200 \div 100 = 5) = FALSE
    OBVIOUS
  <2>3. \/ severe /\ MailEvent(e) \in {<<Hard>>, <<Angry>>}
        \/ ~severe /\ MailEvent(e) \in {<<Soft>>, <<>>}
    <3>1. CASE e.kind = "delivery-status" /\ e.grade = 500
      <4>1. severe /\ (e.grade \div 100 = 5) = TRUE
        BY <2>1, <2>2, <3>1
      <4>2. MailEvent(e) = <<Bounce(e.grade \div 100 = 5, e.to)>>
        BY <3>1 DEF MailEvent
      <4>3. MailEvent(e) = <<Hard>>
        BY <4>1, <4>2, Zenon DEF Bounce
      <4> QED
        BY <4>1, <4>3
    <3>2. CASE e.kind = "delivery-status" /\ e.grade \in {200, 400}
      <4>1. ~severe /\ (e.grade \div 100 = 5) = FALSE
        BY <2>1, <2>2, <3>2
      <4>2. MailEvent(e) = <<Bounce(e.grade \div 100 = 5, e.to)>>
        BY <3>2 DEF MailEvent
      <4>3. MailEvent(e) = <<Soft>>
        BY <4>1, <4>2, Zenon DEF Bounce
      <4> QED
        BY <4>1, <4>3
    <3>3. CASE e.kind # "delivery-status"
      BY <2>1, <3>3 DEF MailEvent, Complaint
    <3> QED
      BY <2>1, <3>1, <3>2, <3>3
  <2> QED
    BY <1>2, <1>3, <1>4, <1>5, <1>6, <2>3
<1>7. CASE from = "ses"
  <2>1. \/ severe /\ SESEvent(e) \in {<<Hard>>, <<Angry>>}
        \/ ~severe /\ SESEvent(e) \in {<<Soft>>, <<>>}
    BY <1>7 DEF Wording, Blocked, SESEvent, Bounce, Complaint
  <2> QED
    BY <1>2, <1>3, <1>4, <1>5, <1>7, <2>1
<1>8. CASE from = "sendgrid"
  <2>1. \/ severe /\ SendGridEvent(e) \in {<<Hard>>, <<Angry>>}
        \/ ~severe /\ SendGridEvent(e) \in {<<Soft>>, <<>>}
    BY <1>8 DEF Wording, Blocked, SendGridEvent, Bounce, Complaint
  <2> QED
    BY <1>2, <1>3, <1>4, <1>5, <1>8, <2>1
<1>9. CASE from = "mailgun"
  <2>1. \/ e.outcome = "permanent" /\ e.kind = "failed" /\ e.grade \in {500, 605}
        \/ e.outcome = "complaint" /\ e.kind = "complained"
        \/ ~severe /\ e.kind = "failed" /\ e.grade \in {0, 499}
        \/ ~severe /\ e.kind = "delivered"
    BY <1>9 DEF Wording, Blocked
  <2>2. \/ severe /\ MailgunEvent(e) \in {<<Hard>>, <<Angry>>}
        \/ ~severe /\ MailgunEvent(e) \in {<<Soft>>, <<>>}
    <3>1. CASE e.kind = "failed" /\ e.grade \in {500, 605}
      <4>1. severe /\ (e.grade >= 500) = TRUE
        BY <2>1, <3>1
      <4>2. MailgunEvent(e) = <<Bounce(e.grade >= 500, e.to)>>
        BY <3>1 DEF MailgunEvent
      <4>3. MailgunEvent(e) = <<Hard>>
        BY <4>1, <4>2, Zenon DEF Bounce
      <4> QED
        BY <4>1, <4>3
    <3>2. CASE e.kind = "failed" /\ e.grade \in {0, 499}
      <4>1. ~severe /\ (e.grade >= 500) = FALSE
        BY <2>1, <3>2
      <4>2. MailgunEvent(e) = <<Bounce(e.grade >= 500, e.to)>>
        BY <3>2 DEF MailgunEvent
      <4>3. MailgunEvent(e) = <<Soft>>
        BY <4>1, <4>2, Zenon DEF Bounce
      <4> QED
        BY <4>1, <4>3
    <3>3. CASE e.kind # "failed"
      BY <2>1, <3>3 DEF MailgunEvent, Complaint
    <3> QED
      BY <2>1, <3>1, <3>2, <3>3
  <2> QED
    BY <1>2, <1>3, <1>4, <1>5, <1>9, <2>2
<1>10. CASE from = "postmark"
  <2>1. \/ severe /\ PostmarkEvent(e) \in {<<Hard>>, <<Angry>>}
        \/ ~severe /\ PostmarkEvent(e) \in {<<Soft>>, <<>>}
    BY <1>10 DEF Wording, Blocked, PostmarkEvent, Bounce, Complaint
  <2> QED
    BY <1>2, <1>3, <1>4, <1>5, <1>10, <2>1
<1> QED
  BY <1>6, <1>7, <1>8, <1>9, <1>10

\* A request is understood as a whole: what its parser hands to Record suppresses the
\* mailboxes that its events, as far as it looks at them, say not to mail, and none but
\* those its events say not to mail and those they report a block of.
LEMMA RequestUnderstood ==
    ASSUME NEW r \in Requests
    PROVE  /\ Parse(r) \in Seq(Item)
           /\ DeadIn(Seen(r)) \subseteq Condemned(Parse(r))
           /\ Condemned(Parse(r)) \subseteq DeadIn(r.events) \cup BlockedIn(r.events)
<1> SUFFICES /\ Parse(r) \in Seq(Item) /\ Condemned(Parse(r)) = Taken(ToSet(Seen(r)))
             /\ ToSet(Seen(r)) \subseteq ToSet(r.events)
  BY DEF Taken, Severe, DeadIn, BlockedIn
<1>1. /\ r.from \in {"mail", "ses", "sendgrid", "mailgun", "postmark"}
      /\ r.events \in Seq(ToSet(r.events))
      /\ \A e \in ToSet(r.events) : e.to \in Addresses /\ <<e.kind, e.grade>> \in Wording(r.from, e.outcome)
  BY RequestsAssumption DEF Worded
<1>2. ToSet(<<>>) = {} /\ Taken({}) = {} /\ Condemned(<<>>) = {} /\ <<>> \in Seq(Item)
  BY NothingCondemns DEF ToSet, Taken
<1>3. Len(r.events) \in Nat /\ ToSet(r.events) = {r.events[i] : i \in 1..Len(r.events)}
  BY <1>1 DEF ToSet
<1>4. CASE r.from = "sendgrid"
  <2> DEFINE parsed == [i \in 1..Len(r.events) |-> SendGridEvent(r.events[i])]
  <2>1. Parse(r) = FlattenSeq(parsed) /\ Seen(r) = r.events
    <3>1. DOMAIN r.events = 1..Len(r.events)
      BY <1>1
    <3>2. [i \in DOMAIN r.events |-> SendGridEvent(r.events[i])] = parsed
      BY <3>1
    <3>3. Parse(r) = FlattenSeq([i \in DOMAIN r.events |-> SendGridEvent(r.events[i])])
      BY <1>4 DEF Parse
    <3>4. Seen(r) = r.events
      BY <1>4 DEF Seen
    <3> QED
      BY <3>2, <3>3, <3>4, Zenon
  <2>2. ASSUME NEW i \in 1..Len(r.events)
        PROVE  parsed[i] \in Seq(Item) /\ Condemned(parsed[i]) = Taken({r.events[i]})
    <3>1. r.events[i] \in ToSet(r.events)
      BY <1>3
    <3> QED
      BY <1>1, <1>4, <3>1, EventUnderstood DEF Understood
  <2>3. parsed \in Seq(Seq(Item)) /\ Len(parsed) = Len(r.events)
    <3>1. parsed \in [1..Len(r.events) -> Seq(Item)]
      BY <2>2
    <3> HIDE DEF parsed
    <3> QED
      BY <1>3, <3>1
  <2>4. /\ FlattenSeq(parsed) \in Seq(Item)
        /\ ToSet(FlattenSeq(parsed)) = UNION {ToSet(parsed[i]) : i \in 1..Len(r.events)}
    BY <2>3, FlattenSeqElements
  <2>5. Condemned(FlattenSeq(parsed)) = UNION {Condemned(parsed[i]) : i \in 1..Len(r.events)}
    <3> HIDE DEF parsed
    <3>1. ASSUME NEW m
          PROVE  m \in Condemned(FlattenSeq(parsed))
                   <=> \E i \in 1..Len(r.events) : m \in Condemned(parsed[i])
      <4>1. \A y : y \in ToSet(FlattenSeq(parsed)) <=> \E i \in 1..Len(r.events) : y \in ToSet(parsed[i])
        BY <2>4
      <4> QED
        BY <4>1 DEF Condemned
    <3> QED
      BY <3>1
  <2>6. Taken(ToSet(r.events)) = UNION {Taken({r.events[i]}) : i \in 1..Len(r.events)}
    <3>1. ASSUME NEW m
          PROVE  m \in Taken(ToSet(r.events))
                   <=> \E i \in 1..Len(r.events) : m \in Taken({r.events[i]})
      BY ZenonT(30), <1>3 DEF Taken
    <3> QED
      BY <3>1
  <2>7. {Condemned(parsed[i]) : i \in 1..Len(r.events)} = {Taken({r.events[i]}) : i \in 1..Len(r.events)}
    BY <2>2
  <2> HIDE DEF parsed
  <2> QED
    BY <2>1, <2>4, <2>5, <2>6, <2>7
<1>5. CASE r.from # "sendgrid" /\ r.events = <<>>
  <2>1. Parse(r) = <<>>
    BY <1>1, <1>5 DEF Parse
  <2>2. Seen(r) = <<>>
    BY <1>5 DEF Seen
  <2> QED
    BY <1>2, <1>5, <2>1, <2>2
<1>6. CASE r.from # "sendgrid" /\ r.events # <<>>
  <2>1. Head(r.events) \in ToSet(r.events)
    BY <1>1, <1>6
  <2>2. Seen(r) = <<Head(r.events)>> /\ ToSet(<<Head(r.events)>>) = {Head(r.events)}
    BY <1>6 DEF Seen, ToSet
  <2>3. Understood(Parse(r), Head(r.events))
    BY <1>1, <1>6, <2>1, EventUnderstood DEF Parse
  <2> QED
    BY <2>1, <2>2, <2>3 DEF Understood
<1> QED
  BY <1>4, <1>5, <1>6

-----------------------------------------------------------------------------
(* The list, and who looks it up *)


\* AddEntry and Remove of one address, as a sender sees them: what was on the list all
\* along still is, what was off it still is, and nothing else of the message changes.
LEMMA ListChanges ==
    ASSUME TypeOK, NEW a \in Addresses, AddEntry(a) \/ RemoveEntry(a), NEW s \in Senders, SenderShape(s)
    PROVE  SenderShape(s)'
<1> USE DEF TypeOK
<1>1. /\ UNCHANGED <<ignoreErrors, pc, asked, headers, kept, envelope, reported, delivered>>
      /\ listed'[s] \subseteq listed[s] /\ listed'[s] \subseteq entries'
      /\ unlisted'[s] \subseteq unlisted[s] /\ unlisted'[s] \cap entries' = {}
  <2>1. CASE AddEntry(a)
    BY <2>1 DEF AddEntry, SenderShape
  <2>2. CASE RemoveEntry(a)
    BY <2>2 DEF RemoveEntry, SenderShape
  <2> QED
    BY <2>1, <2>2
<1> QED
  BY <1>1 DEF SenderShape, MailboxesOf

\* A step of one sender leaves the messages of the others alone, and the list.
LEMMA OtherSenders ==
    ASSUME TypeOK, NEW s \in Senders, SendStep(s), NEW t \in Senders, t # s, SenderShape(t)
    PROVE  SenderShape(t)'
<1>1. /\ UNCHANGED <<ignoreErrors, entries>>
      /\ pc'[t] = pc[t] /\ asked'[t] = asked[t] /\ headers'[t] = headers[t] /\ kept'[t] = kept[t]
      /\ envelope'[t] = envelope[t] /\ reported'[t] = reported[t] /\ delivered'[t] = delivered[t]
      /\ listed'[t] = listed[t] /\ unlisted'[t] = unlisted[t]
  BY DEF SendStep, Send, Lookup, LookupFails, Filtered, Transmit, Recovered, TypeOK
<1> QED
  BY <1>1 DEF SenderShape, MailboxesOf

\* Whatever a sender does, its message keeps its shape, and every value its type.
LEMMA SenderStep ==
    ASSUME TypeOK, NEW s \in Senders, SenderShape(s), SendStep(s)
    PROVE  TypeOK' /\ SenderShape(s)'
<1> DEFINE address == Head(headers[s])
<1>1. ASSUME NEW list \in Lists, NEW env \in Envelopes, Send(s, list, env)
      PROVE  TypeOK' /\ SenderShape(s)'
  <2>1. list \in Seq(Addresses) /\ env \in Seq(Addresses)
    BY ListAssumption
  <2>2. ToSet(list) \subseteq Addresses
    BY <2>1 DEF ToSet
  <2>3. TypeOK'
    BY <1>1, <2>1, <2>2 DEF TypeOK, Send
  <2>4. kept[s] = <<>> /\ delivered[s] = {} /\ MailboxesOf(<<>>) = {}
    BY <1>1 DEF Send, SenderShape, MailboxesOf, ToSet
  <2>5. /\ pc'[s] = "lookup" /\ asked'[s] = ToSet(list) /\ headers'[s] = list /\ kept'[s] = <<>>
        /\ delivered'[s] = {} /\ listed'[s] = entries /\ unlisted'[s] = Mailboxes \ entries
        /\ UNCHANGED <<ignoreErrors, entries>>
    BY <1>1, <2>4 DEF Send, TypeOK
  <2>6. SenderShape(s)'
    BY <2>4, <2>5 DEF SenderShape, MailboxesOf
  <2> QED
    BY <2>3, <2>6
<1>2. ASSUME pc[s] = "lookup", headers[s] # <<>>
      PROVE  /\ address \in Addresses /\ Mailbox[address] \in Mailboxes
             /\ Tail(headers[s]) \in Seq(Addresses)
             /\ ToSet(headers[s]) = {address} \cup ToSet(Tail(headers[s]))
             /\ Append(kept[s], address) \in Seq(Addresses)
             /\ ToSet(Append(kept[s], address)) = ToSet(kept[s]) \cup {address}
             /\ MailboxesOf(Append(kept[s], address)) = MailboxesOf(kept[s]) \cup {Mailbox[address]}
  <2>1. headers[s] \in Seq(Addresses) /\ kept[s] \in Seq(Addresses)
    BY DEF TypeOK
  <2>2. /\ address \in Addresses /\ Tail(headers[s]) \in Seq(Addresses)
        /\ ToSet(headers[s]) = {address} \cup ToSet(Tail(headers[s]))
    BY <1>2, <2>1, ToSetTail
  <2> HIDE DEF address
  <2>3. ToSet(Append(kept[s], address)) = ToSet(kept[s]) \cup {address}
    BY <2>1, <2>2, ToSetAppend
  <2>4. Append(kept[s], address) \in Seq(Addresses)
    BY <2>1, <2>2
  <2> QED
    BY <2>2, <2>3, <2>4 DEF MailboxesOf, Mailboxes
<1> HIDE DEF address
<1>3. CASE Lookup(s)
  <2>1. /\ pc[s] = "lookup" /\ headers[s] # <<>>
        /\ headers' = [headers EXCEPT ![s] = Tail(@)]
        /\ UNCHANGED <<ignoreErrors, entries, pc, asked, envelope, delivered, listed, unlisted>>
    BY <1>3 DEF Lookup
  <2>2. CASE Mailbox[address] \in entries
    <3>1. reported' = [reported EXCEPT ![s] = @ \cup {address}] /\ UNCHANGED kept
      BY <1>3, <2>2 DEF Lookup, Suppressed, address
    <3>2. TypeOK'
      BY <1>2, <2>1, <3>1 DEF TypeOK
    <3>3. Mailbox[address] \notin unlisted[s]
      BY <2>2 DEF SenderShape
    <3>4. /\ reported'[s] = reported[s] \cup {address} /\ headers'[s] = Tail(headers[s])
      BY <2>1, <3>1 DEF TypeOK
    <3> QED
      BY <1>2, <2>1, <3>1, <3>2, <3>3, <3>4 DEF SenderShape, MailboxesOf
  <2>3. CASE Mailbox[address] \notin entries
    <3>1. kept' = [kept EXCEPT ![s] = Append(@, address)] /\ UNCHANGED reported
      BY <1>3, <2>3 DEF Lookup, Suppressed, address
    <3>2. TypeOK'
      BY <1>2, <2>1, <3>1 DEF TypeOK
    <3>3. Mailbox[address] \notin listed[s]
      BY <2>3 DEF SenderShape
    <3>4. /\ kept'[s] = Append(kept[s], address) /\ headers'[s] = Tail(headers[s])
      BY <2>1, <3>1 DEF TypeOK
    <3>5. MailboxesOf(kept[s])' = MailboxesOf(kept[s]) \cup {Mailbox[address]}
      BY <1>2, <2>1, <3>4 DEF MailboxesOf
    <3> QED
      BY <1>2, <2>1, <3>1, <3>2, <3>3, <3>4, <3>5 DEF SenderShape
  <2> QED
    BY <2>2, <2>3
<1>4. CASE LookupFails(s)
  <2>1. CASE ignoreErrors
    <3>1. /\ pc[s] = "lookup" /\ headers[s] # <<>>
          /\ kept' = [kept EXCEPT ![s] = Append(@, address)]
          /\ headers' = [headers EXCEPT ![s] = Tail(@)]
          /\ UNCHANGED <<ignoreErrors, entries, pc, asked, envelope, reported, delivered, listed, unlisted>>
      BY <1>4, <2>1 DEF LookupFails, address
    <3>2. TypeOK'
      BY <1>2, <3>1 DEF TypeOK
    <3>3. kept'[s] = Append(kept[s], address) /\ headers'[s] = Tail(headers[s])
      BY <3>1 DEF TypeOK
    <3> QED
      BY <1>2, <2>1, <3>1, <3>2, <3>3 DEF SenderShape
  <2>2. CASE ~ignoreErrors
    <3>1. /\ pc[s] = "lookup" /\ pc' = [pc EXCEPT ![s] = "failed"]
          /\ UNCHANGED <<ignoreErrors, entries, asked, headers, kept, envelope, reported, delivered,
                         listed, unlisted>>
      BY <1>4, <2>2 DEF LookupFails
    <3> QED
      BY <3>1 DEF TypeOK, SenderShape, MailboxesOf
  <2> QED
    BY <2>1, <2>2
<1>5. CASE Filtered(s)
  BY <1>5 DEF Filtered, TypeOK, SenderShape, MailboxesOf
<1>6. CASE Transmit(s)
  <2>1. /\ pc[s] = "send" /\ pc' = [pc EXCEPT ![s] = "sent"]
        /\ delivered' = [delivered EXCEPT ![s] =
               MailboxesOf(IF envelope[s] # <<>> THEN envelope[s] ELSE kept[s])]
        /\ UNCHANGED <<ignoreErrors, entries, asked, headers, kept, envelope, reported, listed, unlisted>>
    BY <1>6 DEF Transmit
  <2>2. \A q \in Seq(Addresses) : MailboxesOf(q) \subseteq Mailboxes
    BY DEF MailboxesOf, Mailboxes, ToSet
  <2>3. TypeOK'
    BY <2>1, <2>2 DEF TypeOK
  <2>4. delivered'[s] = MailboxesOf(IF envelope[s] # <<>> THEN envelope[s] ELSE kept[s]) /\ pc'[s] = "sent"
    BY <2>1 DEF TypeOK
  <2> QED
    BY <2>1, <2>3, <2>4 DEF SenderShape, MailboxesOf
<1>7. CASE Recovered(s)
  BY <1>7 DEF Recovered, TypeOK, SenderShape, MailboxesOf
<1> QED
  BY <1>1, <1>3, <1>4, <1>5, <1>6, <1>7 DEF SendStep

-----------------------------------------------------------------------------
(* The handlers and the operator *)

\* What is left of a batch once its first item is recorded.
LEMMA FirstItem ==
    ASSUME NEW items \in Seq(Item), items # <<>>
    PROVE  /\ Tail(items) \in Seq(Item) /\ Head(items).to \in Addresses
           /\ Condemned(items) =
                  ((IF Suppresses(Head(items)) THEN {Mailbox[Head(items).to]} ELSE {}) \ {""})
                      \cup Condemned(Tail(items))
<1>1. /\ Head(items) \in Item /\ Tail(items) \in Seq(Item)
      /\ ToSet(items) = {Head(items)} \cup ToSet(Tail(items))
  BY ToSetTail
<1>2. Head(items).to \in Addresses
  BY <1>1 DEF Item
<1>3. {y \in ToSet(items) : Suppresses(y)} =
          (IF Suppresses(Head(items)) THEN {Head(items)} ELSE {}) \cup {y \in ToSet(Tail(items)) : Suppresses(y)}
  BY <1>1
<1> QED
  BY <1>1, <1>2, <1>3 DEF Condemned

\* A handler that starts to record is about to record what it owes.
LEMMA StartShape ==
    ASSUME HandlerShape, NEW h \in Handlers, NEW r \in Requests, StartRecording(h, r),
           UNCHANGED <<entries, promised>>
    PROVE  HandlerShape'
<1>1. /\ pending' = [pending EXCEPT ![h] = Parse(r)] /\ due' = [due EXCEPT ![h] = DeadIn(Seen(r))]
      /\ at' = [at EXCEPT ![h] = "record"] /\ request' = [request EXCEPT ![h] = NoRequest]
  BY DEF StartRecording
<1>2. Parse(r) \in Seq(Item) /\ DeadIn(Seen(r)) \subseteq Condemned(Parse(r))
  BY RequestUnderstood
<1>3. ASSUME NEW g \in Handlers
      PROVE  /\ due'[g] \subseteq entries' \cup Condemned(pending'[g])
             /\ at'[g] = "fetch" => request'[g] \in Requests /\ request'[g].from = "ses"
  <2>1. CASE g = h
    BY <1>1, <1>2, <2>1 DEF HandlerShape
  <2>2. CASE g # h
    BY <1>1, <2>2 DEF HandlerShape
  <2> QED
    BY <2>1, <2>2
<1>4. pending' \in [Handlers -> Seq(Item)]
  BY <1>1, <1>2 DEF HandlerShape
<1> QED
  BY <1>1, <1>3, <1>4 DEF HandlerShape, Condemned, Suppresses

\* What the handlers hold depends on the entries alone, as far as senders go.
LEMMA HandlersUntouched ==
    ASSUME HandlerShape, UNCHANGED <<entries, hookVars>>
    PROVE  HandlerShape'
  BY DEF HandlerShape, hookVars, Condemned, Suppresses

\* A step of a handler, or of the operator: either the list stays as it is or one
\* address gets on it or off it, and nobody's claim on the list is lost.
LEMMA HookStep ==
    ASSUME IInv,
           \/ \E h \in Handlers : HandlerStep(h)
           \/ \E a \in Addresses : AddManually(a) \/ RemoveManually(a)
    PROVE  /\ HandlerShape'
           /\ UNCHANGED vars \/ \E a \in Addresses : AddEntry(a) \/ RemoveEntry(a)
<1> DEFINE Changes == UNCHANGED vars \/ \E a \in Addresses : AddEntry(a) \/ RemoveEntry(a)
<1> USE DEF IInv
<1>1. ASSUME NEW h \in Handlers, NEW r \in Requests, Arrive(h, r)
      PROVE  HandlerShape' /\ Changes
  <2>1. UNCHANGED <<vars, certs, promised>> /\ UNCHANGED entries
    BY <1>1 DEF Arrive, vars
  <2>2. CASE StartRecording(h, r)
    BY <2>1, <2>2, StartShape
  <2>3. CASE ~StartRecording(h, r)
    <3>1. /\ r.from = "ses" /\ at' = [at EXCEPT ![h] = "fetch"]
          /\ request' = [request EXCEPT ![h] = r] /\ UNCHANGED <<pending, due>>
      BY <1>1, <2>3 DEF Arrive
    <3> QED
      BY <2>1, <3>1 DEF HandlerShape, Condemned, Suppresses
  <2> QED
    BY <2>2, <2>3
<1>2. ASSUME NEW h \in Handlers, FetchCert(h)
      PROVE  HandlerShape' /\ Changes
  <2>1. UNCHANGED <<vars, promised>> /\ UNCHANGED entries /\ request[h] \in Requests
    BY <1>2 DEF FetchCert, vars, HandlerShape
  <2>2. CASE StartRecording(h, request[h])
    BY <2>1, <2>2, StartShape
  <2>3. CASE ~StartRecording(h, request[h])
    <3>1. /\ at' = [at EXCEPT ![h] = "idle"] /\ request' = [request EXCEPT ![h] = NoRequest]
          /\ UNCHANGED <<pending, due>>
      BY <1>2, <2>3 DEF FetchCert
    <3> QED
      BY <2>1, <3>1 DEF HandlerShape, Condemned, Suppresses
  <2> QED
    BY <2>2, <2>3
<1>3. ASSUME NEW h \in Handlers, FetchFails(h)
      PROVE  HandlerShape' /\ Changes
  <2>1. /\ UNCHANGED <<vars, pending, due, promised>> /\ UNCHANGED entries
        /\ at' = [at EXCEPT ![h] = "idle"] /\ request' = [request EXCEPT ![h] = NoRequest]
    BY <1>3 DEF FetchFails, vars
  <2> QED
    BY <2>1 DEF HandlerShape, Condemned, Suppresses
<1>4. ASSUME NEW h \in Handlers, Record(h)
      PROVE  HandlerShape' /\ Changes
  <2> DEFINE event == Head(pending[h])
  <2>1. /\ pending[h] \in Seq(Item) /\ pending[h] # <<>>
        /\ IF Suppresses(event) THEN AddEntry(event.to) ELSE UNCHANGED vars
        /\ pending' = [pending EXCEPT ![h] = Tail(@)]
        /\ UNCHANGED <<at, request, due, promised>>
    BY <1>4 DEF Record, HandlerShape
  <2>2. /\ Tail(pending[h]) \in Seq(Item) /\ event.to \in Addresses
        /\ Condemned(pending[h]) =
               ((IF Suppresses(event) THEN {Mailbox[event.to]} ELSE {}) \ {""})
                   \cup Condemned(Tail(pending[h]))
    BY <2>1, FirstItem
  <2> HIDE DEF event
  <2>3. Changes
    BY <2>1, <2>2
  <2>4. entries' = entries \cup ((IF Suppresses(event) THEN {Mailbox[event.to]} ELSE {}) \ {""})
    BY <2>1 DEF AddEntry, vars
  <2>5. pending' \in [Handlers -> Seq(Item)] /\ pending'[h] = Tail(pending[h])
    BY <2>1, <2>2 DEF HandlerShape
  <2>6. ASSUME NEW g \in Handlers
        PROVE  due'[g] \subseteq entries' \cup Condemned(pending'[g])
    <3>1. CASE g = h
      BY <2>1, <2>2, <2>4, <2>5, <3>1 DEF HandlerShape
    <3>2. CASE g # h
      BY <2>1, <2>4, <3>2 DEF HandlerShape
    <3> QED
      BY <3>1, <3>2
  <2> QED
    BY <2>1, <2>3, <2>4, <2>5, <2>6 DEF HandlerShape, Condemned, Suppresses
<1>5. ASSUME NEW h \in Handlers, Answer(h)
      PROVE  HandlerShape' /\ Changes
  <2>1. /\ pending[h] = <<>> /\ at' = [at EXCEPT ![h] = "idle"]
        /\ promised' = promised \cup due[h] /\ due' = [due EXCEPT ![h] = {}]
        /\ UNCHANGED <<vars, request, pending>> /\ UNCHANGED entries
    BY <1>5 DEF Answer, vars
  <2>2. due[h] \subseteq entries
    BY <2>1, NothingCondemns DEF HandlerShape
  <2> QED
    BY <2>1, <2>2 DEF HandlerShape, Condemned, Suppresses
<1>6. ASSUME NEW a \in Addresses, AddManually(a)
      PROVE  HandlerShape' /\ Changes
  <2>1. AddEntry(a) /\ UNCHANGED <<at, request, pending, due, promised>> /\ entries \subseteq entries'
    BY <1>6 DEF AddManually, AddEntry
  <2> QED
    BY <2>1 DEF HandlerShape, Condemned, Suppresses
<1>7. ASSUME NEW a \in Addresses, RemoveManually(a)
      PROVE  HandlerShape' /\ Changes
  <2>1. /\ RemoveEntry(a) /\ entries' = entries \ {Mailbox[a]} /\ promised' = promised \ {Mailbox[a]}
        /\ due' = [h \in Handlers |-> due[h] \ {Mailbox[a]}]
        /\ UNCHANGED <<at, request, pending>>
    BY <1>7 DEF RemoveManually, RemoveEntry
  <2> QED
    BY <2>1 DEF HandlerShape, Condemned, Suppresses
<1>8. HandlerShape' /\ Changes
  <2> HIDE DEF Changes
  <2> QED
    BY <1>1, <1>2, <1>3, <1>4, <1>5, <1>6, <1>7 DEF HandlerStep
<1> QED
  BY <1>8

\* The list holds mailboxes only.
LEMMA ListTypes ==
    ASSUME TypeOK, NEW a \in Addresses, AddEntry(a) \/ RemoveEntry(a)
    PROVE  TypeOK'
<1>1. Mailbox[a] \in Mailboxes
  BY DEF Mailboxes
<1>2. CASE AddEntry(a)
  <2>1. entries' \subseteq Mailboxes
    BY <1>1, <1>2 DEF TypeOK, AddEntry
  <2>2. unlisted' \in [Senders -> SUBSET Mailboxes]
    BY <1>2 DEF TypeOK, AddEntry
  <2> QED
    BY <1>2, <2>1, <2>2 DEF TypeOK, AddEntry
<1>3. CASE RemoveEntry(a)
  BY <1>1, <1>3 DEF TypeOK, RemoveEntry
<1> QED
  BY <1>2, <1>3

-----------------------------------------------------------------------------
(* The theorems *)

\* What senders and handlers rely on together, in every state.
THEOREM InductiveInvariant == LoopSpec => []IInv
<1>1. LoopInit => IInv
  <2> SUFFICES ASSUME LoopInit
               PROVE  IInv
    OBVIOUS
  <2>1. TypeOK
    <3>1. <<>> \in Seq(Addresses)
      OBVIOUS
    <3> QED
      BY <3>1 DEF LoopInit, Init, TypeOK
  <2>2. \A s \in Senders : SenderShape(s)
    BY DEF LoopInit, Init, SenderShape, MailboxesOf, ToSet
  <2>3. HandlerShape
    BY NothingCondemns DEF LoopInit, Init, HandlerShape
  <2> QED
    BY <2>1, <2>2, <2>3 DEF IInv
<1>2. IInv /\ [LoopNext]_loopVars => IInv'
  <2> SUFFICES ASSUME IInv, [LoopNext]_loopVars
               PROVE  IInv'
    OBVIOUS
  <2>1. ASSUME NEW s \in Senders, SendStep(s), UNCHANGED hookVars
        PROVE  IInv'
    <3>1. TypeOK' /\ \A t \in Senders : SenderShape(t)'
      BY <2>1, SenderStep, OtherSenders DEF IInv
    <3>2. UNCHANGED entries
      BY <2>1 DEF SendStep, Send, Lookup, LookupFails, Filtered, Transmit, Recovered
    <3> QED
      BY <2>1, <3>1, <3>2, HandlersUntouched DEF IInv
  <2>2. ASSUME \/ \E h \in Handlers : HandlerStep(h)
               \/ \E a \in Addresses : AddManually(a) \/ RemoveManually(a)
        PROVE  IInv'
    <3>1. HandlerShape' /\ (UNCHANGED vars \/ \E a \in Addresses : AddEntry(a) \/ RemoveEntry(a))
      BY <2>2, HookStep
    <3>2. CASE UNCHANGED vars
      BY <3>1, <3>2 DEF IInv, vars, TypeOK, SenderShape, MailboxesOf
    <3>3. CASE \E a \in Addresses : AddEntry(a) \/ RemoveEntry(a)
      BY <3>1, <3>3, ListTypes, ListChanges DEF IInv
    <3> QED
      BY <3>1, <3>2, <3>3
  <2>3. CASE UNCHANGED loopVars
    BY <2>3, HandlersUntouched DEF IInv, loopVars, vars, TypeOK, SenderShape, MailboxesOf
  <2> QED
    BY <2>1, <2>2, <2>3 DEF LoopNext
<1> QED
  BY <1>1, <1>2, PTL DEF LoopSpec

\* "SuppressionInterceptor withholds mail from suppressed recipients": nothing goes to
\* a mailbox that was on the list from the call of Send on, whatever is added, removed
\* or recorded meanwhile.
THEOREM SuppressedIsWithheld == LoopSpec => []Withheld
<1>1. IInv => Withheld
  BY DEF IInv, SenderShape, Withheld, TypeOK
<1> QED
  BY <1>1, InductiveInvariant, PTL

\* "OnSuppressed is called for each recipient removed from a message": no recipient of
\* a message that was sent is dropped in silence, or because of another one.
THEOREM NobodyIsDropped == LoopSpec => []EveryoneServed
<1>1. IInv => EveryoneServed
  <2> SUFFICES ASSUME IInv, NEW s \in Senders, pc[s] = "sent", envelope[s] = <<>>, NEW a \in asked[s]
               PROVE  Mailbox[a] \in delivered[s] \/ (a \in reported[s] /\ Mailbox[a] \notin unlisted[s])
    BY DEF EveryoneServed
  <2>1. headers[s] = <<>> /\ delivered[s] = MailboxesOf(kept[s]) /\ ToSet(<<>>) = {}
    BY DEF IInv, SenderShape, ToSet
  <2>2. a \in ToSet(kept[s]) \/ (a \in reported[s] /\ Mailbox[a] \notin unlisted[s])
    BY <2>1 DEF IInv, SenderShape
  <2> QED
    BY <2>1, <2>2 DEF MailboxesOf
<1> QED
  BY <1>1, InductiveInvariant, PTL

\* What a webhook handler has answered for stays on the list until somebody removes
\* it, whatever the providers send, however it is batched and who else records.
THEOREM AnsweredIsRecorded == LoopSpec => []AllRecorded
<1>1. IInv => AllRecorded
  BY DEF IInv, HandlerShape, AllRecorded
<1> QED
  BY <1>1, InductiveInvariant, PTL

\* A verified request is the provider's own and recent, but for those of SNS.
LEMMA VerifiedIsGenuine ==
    ASSUME MailIsGenuine, Tolerance <= DefaultWebhookTolerance, NEW r \in Requests, Verified(r)
    PROVE  r.from = "ses" \/ Genuine(r)
<1>1. Worded(r)
  BY RequestsAssumption
<1>2. CASE r.from \in {"mailgun", "sendgrid"}
  <2>1. r.signature = "right" /\ WithinTolerance(r.age) /\ r.age \in Int
    BY <1>1, <1>2 DEF Verified, TimedSignatureVerified, Worded
  <2>2. -5 <= r.age /\ r.age <= 5
    BY <2>1, ToleranceAssumption DEF WithinTolerance, DefaultWebhookTolerance
  <2> QED
    BY <2>1, <2>2 DEF Genuine, Recent
<1>3. CASE r.from = "postmark"
  BY <1>3 DEF Verified, CredentialsVerified, Genuine, Recent
<1>4. CASE r.from = "mail"
  BY <1>4 DEF MailIsGenuine, Genuine, Recent
<1> QED
  BY <1>1, <1>2, <1>3, <1>4 DEF Worded

\* What a verified request condemns is excused when the handler starts to record it.
LEMMA StartExcused ==
    ASSUME HandlerShape, DeadShape, NEW h \in Handlers, NEW r \in Requests, StartRecording(h, r),
           Genuine(r) \/ (r.from = "ses" /\ ~Recent(r)), UNCHANGED entries
    PROVE  DeadShape'
<1>1. /\ pending' = [pending EXCEPT ![h] = Parse(r)]
      /\ dead' = IF Genuine(r) THEN dead \cup DeadIn(r.events) ELSE dead
      /\ mistaken' = mistaken \cup Mistaken(r)
  BY DEF StartRecording
<1>2. Excused \subseteq Excused'
  BY <1>1 DEF Excused
<1>3. BlockedIn(r.events) \subseteq Excused'
  BY <1>1 DEF Mistaken, BlockedIn, Excused
<1>4. DeadIn(r.events) \subseteq Excused'
  <2>1. CASE Genuine(r)
    BY <1>1, <2>1 DEF Excused
  <2>2. CASE r.from = "ses" /\ ~Recent(r)
    BY <1>1, <2>2 DEF Mistaken, Excused
  <2> QED
    BY <2>1, <2>2
<1>5. ASSUME NEW g \in Handlers
      PROVE  Condemned(pending'[g]) \subseteq Excused'
  <2>1. pending'[g] = IF g = h THEN Parse(r) ELSE pending[g]
    BY <1>1 DEF HandlerShape
  <2> QED
    BY <1>2, <1>3, <1>4, <2>1, RequestUnderstood DEF DeadShape
<1> QED
  BY <1>2, <1>5 DEF DeadShape, Condemned, Suppresses

\* Only what a provider or the operator said is dead gets on the list, or is excused.
LEMMA DeadStep ==
    ASSUME MailIsGenuine, Tolerance <= DefaultWebhookTolerance, IInv, DeadShape, [LoopNext]_loopVars
    PROVE  DeadShape'
<1> USE DEF IInv
<1>1. ASSUME UNCHANGED <<entries, pending, dead, mistaken>>
      PROVE  DeadShape'
  BY <1>1 DEF DeadShape, Excused, Condemned, Suppresses
<1>2. ASSUME NEW h \in Handlers, NEW r \in Requests, Arrive(h, r)
      PROVE  DeadShape'
  <2>1. UNCHANGED entries
    BY <1>2 DEF Arrive, vars
  <2>2. CASE StartRecording(h, r)
    <3>1. r.from = "ses" => r.signature = "right"
      <4>1. at'[h] = "record"
        BY <2>2 DEF StartRecording, HandlerShape
      <4> QED
        BY <1>2, <4>1 DEF Arrive, HandlerShape
    <3>2. Genuine(r) \/ (r.from = "ses" /\ ~Recent(r))
      BY <1>2, <3>1, VerifiedIsGenuine DEF Arrive, Genuine
    <3> QED
      BY <2>1, <2>2, <3>2, StartExcused
  <2>3. CASE ~StartRecording(h, r)
    BY <1>1, <1>2, <2>1, <2>3 DEF Arrive
  <2> QED
    BY <2>2, <2>3
<1>3. ASSUME NEW h \in Handlers, FetchCert(h)
      PROVE  DeadShape'
  <2>1. UNCHANGED entries /\ request[h] \in Requests /\ request[h].from = "ses"
    BY <1>3 DEF FetchCert, vars, HandlerShape
  <2>2. CASE request[h].signature = "right"
    BY <1>3, <2>1, <2>2, StartExcused DEF FetchCert, Genuine
  <2>3. CASE request[h].signature # "right"
    BY <1>1, <1>3, <2>1, <2>3 DEF FetchCert
  <2> QED
    BY <2>2, <2>3
<1>4. ASSUME NEW h \in Handlers, Record(h)
      PROVE  DeadShape'
  <2> DEFINE event == Head(pending[h])
             first == (IF Suppresses(event) THEN {Mailbox[event.to]} ELSE {}) \ {""}
  <2>1. /\ pending[h] \in Seq(Item) /\ pending[h] # <<>> /\ entries' = entries \cup first
        /\ pending' = [pending EXCEPT ![h] = Tail(@)] /\ UNCHANGED <<dead, mistaken>>
    BY <1>4 DEF Record, HandlerShape, AddEntry, vars
  <2>2. Condemned(pending[h]) = first \cup Condemned(Tail(pending[h]))
    BY <2>1, FirstItem
  <2> HIDE DEF event, first
  <2>3. first \subseteq Excused /\ Condemned(Tail(pending[h])) \subseteq Excused /\ Excused' = Excused
    BY <2>1, <2>2 DEF DeadShape, Excused
  <2>4. ASSUME NEW g \in Handlers
        PROVE  Condemned(pending'[g]) \subseteq Excused'
    <3>1. pending'[g] = IF g = h THEN Tail(pending[h]) ELSE pending[g]
      BY <2>1 DEF HandlerShape
    <3> QED
      BY <2>1, <2>3, <3>1 DEF DeadShape
  <2> QED
    BY <2>1, <2>3, <2>4 DEF DeadShape, Condemned, Suppresses
<1>5. ASSUME NEW a \in Addresses, AddManually(a) \/ RemoveManually(a)
      PROVE  DeadShape'
  <2>1. /\ entries' \subseteq entries \cup dead'
        /\ dead \subseteq dead' /\ UNCHANGED <<pending, mistaken>>
    BY <1>5 DEF AddManually, RemoveManually, AddEntry, RemoveEntry
  <2>2. Excused \subseteq Excused' /\ dead' \subseteq Excused'
    BY <2>1 DEF Excused
  <2> QED
    BY <2>1, <2>2 DEF DeadShape, Condemned, Suppresses
<1>6. ASSUME NEW s \in Senders, SendStep(s), UNCHANGED hookVars
      PROVE  DeadShape'
  <2>1. UNCHANGED entries
    BY <1>6 DEF SendStep, Send, Lookup, LookupFails, Filtered, Transmit, Recovered
  <2> QED
    BY <1>1, <1>6, <2>1 DEF hookVars
<1>7. ASSUME NEW h \in Handlers, FetchFails(h) \/ Answer(h)
      PROVE  DeadShape'
  BY <1>1, <1>7 DEF FetchFails, Answer, vars
<1>8. CASE UNCHANGED loopVars
  BY <1>1, <1>8 DEF loopVars, vars, hookVars
<1> QED
  BY <1>2, <1>3, <1>4, <1>5, <1>6, <1>7, <1>8 DEF LoopNext, HandlerStep

\* "Suppressing hard bounces and complaints and ignoring the rest": with the default
\* tolerance or a stricter one, and bounce mails that the server itself wrote, an
\* address gets on the list only after a request its provider really sent, lately if
\* it is dated, reported it dead, or by the operator's Add, or by one of two mistakes:
\* an old message of SNS taken for a recent one, a block of SendGrid's for a bounce.
THEOREM OnlyDeadAreListed ==
    ASSUME MailIsGenuine, Tolerance <= DefaultWebhookTolerance
    PROVE  LoopSpec => []OnlyTheDead
<1>1. LoopInit => DeadShape
  BY NothingCondemns DEF LoopInit, Init, DeadShape, Excused
<1>2. IInv /\ DeadShape /\ [LoopNext]_loopVars => DeadShape'
  BY DeadStep
<1>3. DeadShape => OnlyTheDead
  BY DEF DeadShape, Excused, OnlyTheDead
<1> QED
  BY <1>1, <1>2, <1>3, InductiveInvariant, PTL DEF LoopSpec

-----------------------------------------------------------------------------
(* The domain health checks and their inductive invariant *)

\* A check that has its result has a right one, and no other has failed.
ResultsTell ==
    \A c \in Checks : IF stage[c] = "lookup" THEN c \notin failures ELSE Tells(res[c], c)

\* What a live context leaves to the collector it has stored.
Stored == ~ctxDone => \A c \in Checks : stage[c] = "done" => health[c] = res[c]

\* The collector returns when all checks are done.
ReturnedLast ==
    /\ chclosed => \A c \in Checks : stage[c] = "done"
    /\ collector = "returned" => chclosed

\* The invariant of CheckDomainHealth.
HealthInv ==
    /\ zone \in Zones
    /\ DOMAIN stage = Checks /\ DOMAIN res = Checks /\ DOMAIN health = Checks
    /\ ResultsTell
    /\ Stored
    /\ ReturnedLast

-----------------------------------------------------------------------------
(* What a check makes of an answer *)

\* What the resolver answers.
LEMMA AnswerKinds ==
    ASSUME NEW records, NEW answer \in Answers(records)
    PROVE  /\ answer.err \in {"none", "failure", "notfound"}
           /\ answer.err = "none" => answer.records = records
           /\ answer.err = "notfound" => records = <<>>
  BY DEF Answers

\* A result of a lookup, in the terms of Tells.
Verdict(r, c, records, failed) ==
    LET published == {k \in DOMAIN records : records[k] = "match" \/ c \notin {"spf", "dmarc"}}
    IN  /\ r # NoResult
        /\ r.error <=> failed
        /\ ~r.error => r.found = (published # {})
        /\ r.valid => /\ c # "mx" => Cardinality(published) = 1
                      /\ "match" \in ToSet(records)

\* The fields of the results, and that none of them is what the report holds at first.
LEMMA ResultKinds ==
    /\ NotFound # NoResult /\ Failure # NoResult
    /\ NotFound.error = FALSE /\ NotFound.found = FALSE /\ NotFound.valid = FALSE
    /\ Failure.error = TRUE /\ Failure.valid = FALSE
    /\ \A f, v \in BOOLEAN : LET r == [found |-> f, valid |-> v, error |-> FALSE]
                             IN  r # NoResult /\ r.error = FALSE /\ r.found = f /\ r.valid = v
<1>1. DOMAIN NoResult = {"found"} /\ DOMAIN NotFound = {"found", "valid", "error"}
      /\ DOMAIN Failure = {"found", "valid", "error"}
  BY DEF NoResult, NotFound, Failure
<1>2. "valid" \notin {"found"}
  OBVIOUS
<1>3. NotFound # NoResult /\ Failure # NoResult
  BY <1>1, <1>2
<1>4. ASSUME NEW f \in BOOLEAN, NEW v \in BOOLEAN
      PROVE  LET r == [found |-> f, valid |-> v, error |-> FALSE]
             IN  r # NoResult /\ r.error = FALSE /\ r.found = f /\ r.valid = v
  <2> DEFINE r == [found |-> f, valid |-> v, error |-> FALSE]
  <2>1. DOMAIN r = {"found", "valid", "error"}
    OBVIOUS
  <2>2. r # NoResult
    BY <1>1, <1>2, <2>1
  <2>3. r.error = FALSE /\ r.found = f /\ r.valid = v
    OBVIOUS
  <2> QED
    BY <2>2, <2>3
<1> QED
  BY <1>3, <1>4 DEF NotFound, Failure

\* Not found is the verdict on a name without records.
LEMMA NoRecords ==
    ASSUME NEW c, NEW records, records = <<>>
    PROVE  Verdict(NotFound, c, records, FALSE)
<1>1. DOMAIN records = {}
  OBVIOUS
<1> QED
  BY <1>1, ResultKinds DEF Verdict

\* An error is the verdict on a lookup that failed.
LEMMA NoAnswer ==
    ASSUME NEW c, NEW records
    PROVE  Verdict(Failure, c, records, TRUE)
  BY ResultKinds DEF Verdict

\* CheckMX
LEMMA MXTells ==
    ASSUME NEW records \in Seq({"match"}), NEW answer \in Answers(records)
    PROVE  Verdict(CheckMX(answer), "mx", records, answer.err = "failure")
<1>1. CASE answer.err = "failure"
  BY <1>1, NoAnswer DEF CheckMX, WithRecords
<1>2. CASE answer.err = "notfound"
  BY <1>2, AnswerKinds, NoRecords DEF CheckMX, WithRecords
<1>3. CASE answer.err = "none"
  <2>1. CASE records = <<>>
    BY <1>3, <2>1, AnswerKinds, NoRecords DEF CheckMX, WithRecords
  <2>2. CASE records # <<>>
    <3>1. CheckMX(answer) = [found |-> TRUE, valid |-> TRUE, error |-> FALSE]
      BY <1>3, <2>2, AnswerKinds DEF CheckMX, WithRecords
    <3>2. 1 \in DOMAIN records /\ records[1] = "match"
      BY <2>2
    <3> QED
      BY <1>3, <3>1, <3>2, ResultKinds DEF Verdict, ToSet
  <2> QED
    BY <2>1, <2>2
<1> QED
  BY <1>1, <1>2, <1>3, AnswerKinds

\* CheckSPF and CheckDMARC
LEMMA PolicyTells ==
    ASSUME NEW c \in {"spf", "dmarc"}, NEW records \in Seq(RecordKinds),
           NEW answer \in Answers(records)
    PROVE  Verdict(CheckPolicy(answer), c, records, answer.err = "failure")
<1>1. CASE answer.err = "failure"
  BY <1>1, NoAnswer DEF CheckPolicy, WithRecords
<1>2. CASE answer.err = "notfound"
  BY <1>2, AnswerKinds, NoRecords DEF CheckPolicy, WithRecords
<1>3. CASE answer.err = "none"
  <2>1. CASE records = <<>>
    BY <1>3, <2>1, AnswerKinds, NoRecords DEF CheckPolicy, WithRecords
  <2>2. CASE records # <<>>
    <3> DEFINE own == {k \in DOMAIN records : records[k] = "match"}
               found == own # {}
               valid == Cardinality(own) = 1
               r == [found |-> found, valid |-> valid, error |-> FALSE]
    <3>1. CheckPolicy(answer) = r
      <4>1. answer.err # "notfound" /\ answer.err # "failure" /\ answer.records = records
        BY <1>3, AnswerKinds
      <4> QED
        BY <4>1, <2>2, Zenon DEF CheckPolicy, WithRecords
    <3>2. own = {k \in DOMAIN records : records[k] = "match" \/ c \notin {"spf", "dmarc"}}
      OBVIOUS
    <3>3. valid => own # {}
      <4>1. ASSUME own = {} PROVE Cardinality(own) = 0
        BY <4>1, FS_EmptySet
      <4> QED
        BY <4>1
    <3>4. own # {} => "match" \in ToSet(records)
      BY DEF ToSet
    <3>5. found \in BOOLEAN /\ valid \in BOOLEAN
      OBVIOUS
    <3>6. r # NoResult /\ r.error = FALSE /\ r.found = found /\ r.valid = valid
      <4> HIDE DEF found, valid
      <4> QED
        BY <3>5, ResultKinds
    <3>7. Verdict(r, c, records, FALSE)
      <4> HIDE DEF r
      <4> QED
        BY <3>2, <3>3, <3>4, <3>6 DEF Verdict
    <3> QED
      BY <1>3, <3>1, <3>7
  <2> QED
    BY <2>1, <2>2
<1> QED
  BY <1>1, <1>2, <1>3, AnswerKinds

\* CheckDKIM, also without a selector.
LEMMA DKIMTells ==
    ASSUME NEW c, c \notin {"mx", "spf", "dmarc"}, NEW records \in Seq(RecordKinds),
           NEW answer \in Answers(records), c = NoSelector => answer.err = "none"
    PROVE  Verdict(CheckDKIM(c, answer), c, records, answer.err = "failure" \/ c = NoSelector)
<1>1. CASE c = NoSelector
  BY <1>1, NoAnswer DEF CheckDKIM
<1>2. CASE c # NoSelector /\ answer.err = "failure"
  BY <1>2, NoAnswer DEF CheckDKIM, WithRecords
<1>3. CASE c # NoSelector /\ answer.err = "notfound"
  BY <1>3, AnswerKinds, NoRecords DEF CheckDKIM, WithRecords
<1>4. CASE c # NoSelector /\ answer.err = "none"
  <2>1. CASE records = <<>>
    BY <1>4, <2>1, AnswerKinds, NoRecords DEF CheckDKIM, WithRecords
  <2>2. CASE records # <<>>
    <3> DEFINE valid == records = <<"match">>
               r == [found |-> TRUE, valid |-> valid, error |-> FALSE]
    <3>1. CheckDKIM(c, answer) = r
      BY <1>4, <2>2, AnswerKinds DEF CheckDKIM, WithRecords
    <3>2. DOMAIN records = {k \in DOMAIN records : records[k] = "match" \/ c \notin {"spf", "dmarc"}}
      OBVIOUS
    <3>3. DOMAIN records # {}
      <4>1. 1 \in DOMAIN records
        BY <2>2
      <4> QED
        BY <4>1
    <3>4. valid => Cardinality(DOMAIN records) = 1 /\ "match" \in ToSet(records)
      <4>1. valid => DOMAIN records = {1} /\ records[1] = "match"
        OBVIOUS
      <4> QED
        BY <4>1, FS_Singleton DEF ToSet
    <3>5. r # NoResult /\ r.error = FALSE /\ r.found = TRUE /\ r.valid = valid
      <4>1. valid \in BOOLEAN
        OBVIOUS
      <4> HIDE DEF valid
      <4> QED
        BY <4>1, ResultKinds
    <3>6. Verdict(r, c, records, FALSE)
      <4> HIDE DEF r, valid
      <4> QED
        BY <3>2, <3>3, <3>4, <3>5 DEF Verdict
    <3> QED
      BY <1>4, <3>1, <3>6
  <2> QED
    BY <2>1, <2>2
<1> QED
  BY <1>1, <1>2, <1>3, <1>4, AnswerKinds

\* A lookup returns: the check has its result, which tells what the zone publishes.
LEMMA LookupStep ==
    ASSUME HealthInv, NEW c \in Checks, LookupReturns(c)
    PROVE  HealthInv'
<1>1. /\ stage[c] = "lookup" /\ c \notin failures /\ zone \in Zones
      /\ stage' = [stage EXCEPT ![c] = "sending"]
      /\ UNCHANGED <<zone, chclosed, health, collector, ctxDone>>
  BY DEF LookupReturns, HealthInv, ResultsTell
<1>2. PICK answer \in Answers(zone[c]) :
        /\ c = NoSelector => answer.err = "none"
        /\ res' = [res EXCEPT ![c] = CASE c = "mx" -> CheckMX(answer)
                                       [] c \in {"spf", "dmarc"} -> CheckPolicy(answer)
                                       [] OTHER -> CheckDKIM(c, answer)]
        /\ failures' = IF answer.err = "failure" THEN failures \cup {c} ELSE failures
  BY DEF LookupReturns
<1> DEFINE records == zone[c]
           failed  == answer.err = "failure" \/ c = NoSelector
<1>3. records \in Seq(RecordKinds) /\ (c = "mx" => records \in Seq({"match"}))
  <2>1. zone \in [Checks -> Seq(RecordKinds)] /\ zone["mx"] \in Seq({"match"})
    BY <1>1, ZoneAssumption
  <2> QED
    BY <2>1
<1>4. c \in {"mx", "spf", "dmarc"} => c # NoSelector
  BY SelectorAssumption
<1>5. Verdict(res'[c], c, records, failed)
  <2>1. CASE c = "mx"
    <3>1. res'[c] = CheckMX(answer)
      BY <1>2, <2>1 DEF HealthInv
    <3>2. Verdict(CheckMX(answer), "mx", records, answer.err = "failure")
      BY <1>3, <2>1, MXTells
    <3> QED
      BY <1>4, <2>1, <3>1, <3>2
  <2>2. CASE c \in {"spf", "dmarc"}
    <3>1. res'[c] = CheckPolicy(answer)
      BY <1>2, <2>2 DEF HealthInv
    <3>2. Verdict(CheckPolicy(answer), c, records, answer.err = "failure")
      BY <1>3, <2>2, PolicyTells
    <3> QED
      BY <1>4, <2>2, <3>1, <3>2
  <2>3. CASE c \notin {"mx", "spf", "dmarc"}
    <3>1. res'[c] = CheckDKIM(c, answer)
      BY <1>2, <2>3 DEF HealthInv
    <3>2. Verdict(CheckDKIM(c, answer), c, records, answer.err = "failure" \/ c = NoSelector)
      BY <1>2, <1>3, <2>3, DKIMTells
    <3> QED
      BY <3>1, <3>2
  <2> QED
    BY <2>1, <2>2, <2>3
<1>6. c \in failures' <=> answer.err = "failure"
  BY <1>1, <1>2
<1>7. Tells(res[c], c)'
  <2>1. failed <=> c \in failures' \cup {NoSelector}
    BY <1>6
  <2>2. Verdict(res'[c], c, zone'[c], failed)
    BY <1>1, <1>5
  <2> QED
    BY <2>1, <2>2 DEF Verdict, Tells
<1>8. ResultsTell'
  <2> SUFFICES ASSUME NEW d \in Checks
               PROVE  IF stage'[d] = "lookup" THEN d \notin failures' ELSE Tells(res[d], d)'
    BY DEF ResultsTell
  <2>1. CASE d = c
    <3>1. stage'[d] # "lookup"
      BY <1>1, <2>1 DEF HealthInv
    <3> QED
      BY <1>7, <2>1, <3>1
  <2>2. CASE d # c
    <3>1. stage'[d] = stage[d] /\ res'[d] = res[d] /\ (d \in failures' <=> d \in failures)
      BY <1>1, <1>2, <2>2 DEF HealthInv
    <3>2. IF stage[d] = "lookup" THEN d \notin failures ELSE Tells(res[d], d)
      BY DEF HealthInv, ResultsTell
    <3>3. ASSUME stage[d] # "lookup" PROVE Tells(res[d], d)'
      BY <1>1, <3>1, <3>2, <3>3 DEF Tells
    <3> QED
      BY <3>1, <3>2, <3>3
  <2> QED
    BY <2>1, <2>2
<1>9. Stored' /\ ReturnedLast'
  <2>1. \A d \in Checks : stage'[d] = "done" <=> stage[d] = "done"
    BY <1>1 DEF HealthInv
  <2>2. \A d \in Checks : stage'[d] = "done" => d # c /\ res'[d] = res[d]
    BY <1>1, <1>2, <2>1 DEF HealthInv
  <2> QED
    BY <1>1, <2>1, <2>2 DEF HealthInv, Stored, ReturnedLast
<1> QED
  BY <1>1, <1>2, <1>8, <1>9 DEF HealthInv

\* Nothing but a lookup makes a result.
LEMMA OtherStep ==
    ASSUME HealthInv,
           (\E c \in Checks : Deliver(c) \/ GiveUp(c)) \/ CloseChannel \/ Return \/ Fail
              \/ Cancel \/ UNCHANGED healthVars
    PROVE  HealthInv'
<1>1. /\ UNCHANGED <<zone, failures, res>>
      /\ DOMAIN stage' = Checks /\ DOMAIN health' = Checks
      /\ \A c \in Checks : stage'[c] = "lookup" <=> stage[c] = "lookup"
  BY  DEF HealthInv, Deliver, GiveUp, CloseChannel, Return,
        Fail, Cancel, healthVars, dns
<1>2. ResultsTell'
  <2> SUFFICES ASSUME NEW c \in Checks
               PROVE  IF stage'[c] = "lookup" THEN c \notin failures' ELSE Tells(res[c], c)'
    BY DEF ResultsTell
  <2>1. IF stage[c] = "lookup" THEN c \notin failures ELSE Tells(res[c], c)
    BY DEF HealthInv, ResultsTell
  <2>2. ASSUME stage[c] # "lookup" PROVE Tells(res[c], c)'
    BY <1>1, <2>1, <2>2 DEF Tells
  <2> QED
    BY <1>1, <2>1, <2>2
<1>3. Stored' /\ ReturnedLast'
  BY  DEF HealthInv, Stored, ReturnedLast, Deliver, GiveUp, CloseChannel,
        Return, Fail, Cancel, healthVars, dns
<1> QED
  BY <1>1, <1>2, <1>3 DEF HealthInv

\* The invariant, which no lookup, delivery or cancellation breaks.
THEOREM HealthInvariance == HealthSpec => []HealthInv
<1>1. HealthInit => HealthInv
  BY DEF HealthInit, HealthInv, ResultsTell, Stored, ReturnedLast
<1>2. HealthInv /\ [HealthNext]_healthVars => HealthInv'
  BY LookupStep, OtherStep DEF HealthNext, Check
<1> QED
  BY <1>1, <1>2, PTL DEF HealthSpec

\* For every set of selectors and whatever the zone publishes: when CheckDomainHealth
\* returns no error and its context is still alive, the report has the result of every
\* check, and each tells an outage from an unconfigured domain.
THEOREM ReportIsComplete == HealthSpec => []Complete
<1>1. HealthInv => Complete
  BY DEF HealthInv, ResultsTell, Stored, ReturnedLast, Complete
<1> QED
  BY <1>1, HealthInvariance, PTL
=============================================================================
