--------------------------- MODULE SuppressedSend ---------------------------
(***************************************************************************)
(* Sending through SuppressionInterceptorWith and smtp.Sender while        *)
(* bounces and complaints change the suppression list (suppression.go,     *)
(* and the choice of recipients in smtp/smtp.go).                          *)
(*                                                                         *)
(* Addresses are compared after NormalizeAddress: Mailbox gives the        *)
(* mailbox an address stands for in whatever spelling.  A lookup is one    *)
(* action, as it is one critical section of MemorySuppressionList; the     *)
(* three header lists are looked up one after the other, so they are one   *)
(* sequence here.                                                          *)
(***************************************************************************)
EXTENDS Naturals, SequencesExt

CONSTANTS
    Senders,       \* goroutines, each sending one message
    Addresses,     \* addresses as they are spelled
    Mailbox,       \* the mailbox of each address
    Lists,         \* the recipients a message can have: sequences of addresses
    Envelopes,     \* the values Email.Envelope can have: sequences of addresses
    MayFail        \* can the Suppressor's store be out of reach?

Mailboxes == {Mailbox[a] : a \in Addresses}

ASSUME MailboxAssumption  == DOMAIN Mailbox = Addresses /\ ("" \in Addresses => Mailbox[""] = "")
ASSUME ListAssumption     == Lists \cup Envelopes \subseteq Seq(Addresses)
ASSUME FlagAssumption     == MayFail \in BOOLEAN

VARIABLES
    ignoreErrors, \* SuppressionOptions.IgnoreErrors, which never changes
    entries,    \* the mailboxes on the list
    pc,         \* "out", "lookup", "send" (in next), "sent" or "failed"
    asked,      \* the recipients of the message as Send got it
    headers,    \* To, Cc and Bcc still to be looked up
    kept,       \* those that stay
    envelope,   \* Email.Envelope
    reported,   \* addresses OnSuppressed was called for
    delivered,  \* mailboxes the message went to
    listed,     \* mailboxes that were on the list ever since Send was called
    unlisted    \* mailboxes that were off it ever since

vars == <<ignoreErrors, entries, pc, asked, headers, kept, envelope, reported, delivered, listed, unlisted>>

MailboxesOf(list) == {Mailbox[a] : a \in ToSet(list)}

\* The values the list and the locals of the interceptor hold; entries are keyed by
\* the normalized address.
TypeOK ==
    /\ ignoreErrors \in BOOLEAN
    /\ entries \subseteq Mailboxes
    /\ pc \in [Senders -> {"out", "lookup", "send", "sent", "failed"}]
    /\ {asked, reported} \subseteq [Senders -> SUBSET Addresses]
    /\ headers \in [Senders -> Seq(Addresses)]
    /\ kept \in [Senders -> Seq(Addresses)]
    /\ envelope \in [Senders -> Seq(Addresses)]
    /\ {delivered, listed, unlisted} \subseteq [Senders -> SUBSET Mailboxes]

Init ==
    /\ ignoreErrors \in BOOLEAN
    /\ entries = {}
    /\ pc = [s \in Senders |-> "out"]
    /\ asked = [s \in Senders |-> {}]
    /\ headers = [s \in Senders |-> <<>>]
    /\ kept = [s \in Senders |-> <<>>]
    /\ envelope = [s \in Senders |-> <<>>]
    /\ reported = [s \in Senders |-> {}]
    /\ delivered = [s \in Senders |-> {}]
    /\ listed = [s \in Senders |-> {}]
    /\ unlisted = [s \in Senders |-> {}]

-----------------------------------------------------------------------------
(* MemorySuppressionList *)

\* AddEntry: an address that normalizes to nothing is ignored.
AddEntry(address) ==
    /\ entries' = entries \cup ({Mailbox[address]} \ {""})
    /\ unlisted' = [s \in Senders |-> unlisted[s] \ {Mailbox[address]}]
    /\ UNCHANGED <<ignoreErrors, pc, asked, headers, kept, envelope, reported, delivered, listed>>

\* Remove.
RemoveEntry(address) ==
    /\ entries' = entries \ {Mailbox[address]}
    /\ listed' = [s \in Senders |-> listed[s] \ {Mailbox[address]}]
    /\ UNCHANGED <<ignoreErrors, pc, asked, headers, kept, envelope, reported, delivered, unlisted>>

-----------------------------------------------------------------------------
(* The interceptor *)

\* A sender calls Send with the interceptor in front.
Send(s, list, env) ==
    /\ pc[s] = "out"
    /\ pc' = [pc EXCEPT ![s] = "lookup"]
    /\ asked' = [asked EXCEPT ![s] = ToSet(list)]
    /\ headers' = [headers EXCEPT ![s] = list]
    /\ envelope' = [envelope EXCEPT ![s] = env]
    /\ listed' = [listed EXCEPT ![s] = entries]
    /\ unlisted' = [unlisted EXCEPT ![s] = Mailboxes \ entries]
    /\ UNCHANGED <<ignoreErrors, entries, kept, reported, delivered>>

\* Mutant of Suppressed: the list is asked for the address as it is spelled.
SuppressedVerbatim(address) == address \in entries

\* Suppressed(ctx, NormalizeAddress(addr))
Suppressed(address) == Mailbox[address] \in entries

\* Mutant of Lookup: a suppressed recipient ends the loop over its list.
LookupStops(s) ==
    /\ pc[s] = "lookup"
    /\ headers[s] # <<>>
    /\ LET address == Head(headers[s])
       IN  IF Suppressed(address)
           THEN /\ reported' = [reported EXCEPT ![s] = @ \cup {address}]
                /\ headers' = [headers EXCEPT ![s] = <<>>]
                /\ UNCHANGED kept
           ELSE /\ kept' = [kept EXCEPT ![s] = Append(@, address)]
                /\ headers' = [headers EXCEPT ![s] = Tail(@)]
                /\ UNCHANGED reported
    /\ UNCHANGED <<ignoreErrors, entries, pc, asked, envelope, delivered, listed, unlisted>>

\* One recipient: drop and report it, or keep it.
Lookup(s) ==
    /\ pc[s] = "lookup"
    /\ headers[s] # <<>>
    /\ LET address == Head(headers[s])
       IN  IF Suppressed(address)
           THEN /\ reported' = [reported EXCEPT ![s] = @ \cup {address}]
                /\ UNCHANGED kept
           ELSE /\ kept' = [kept EXCEPT ![s] = Append(@, address)]
                /\ UNCHANGED reported
    /\ headers' = [headers EXCEPT ![s] = Tail(@)]
    /\ UNCHANGED <<ignoreErrors, entries, pc, asked, envelope, delivered, listed, unlisted>>

\* The Suppressor fails: keep the recipient, or fail the send.
LookupFails(s) ==
    /\ MayFail
    /\ pc[s] = "lookup"
    /\ headers[s] # <<>>
    /\ IF ignoreErrors
       THEN /\ kept' = [kept EXCEPT ![s] = Append(@, Head(headers[s]))]
            /\ headers' = [headers EXCEPT ![s] = Tail(@)]
            /\ UNCHANGED pc
       ELSE /\ pc' = [pc EXCEPT ![s] = "failed"]
            /\ UNCHANGED <<kept, headers>>
    /\ UNCHANGED <<ignoreErrors, entries, asked, envelope, reported, delivered, listed, unlisted>>

\* Every list is done: ErrAllRecipientsSuppressed, or call next.
Filtered(s) ==
    /\ pc[s] = "lookup"
    /\ headers[s] = <<>>
    /\ pc' = [pc EXCEPT ![s] = IF kept[s] = <<>> THEN "failed" ELSE "send"]
    /\ UNCHANGED <<ignoreErrors, entries, asked, headers, kept, envelope, reported, delivered, listed, unlisted>>

-----------------------------------------------------------------------------
(* smtp.Sender *)

\* An explicit Envelope replaces the recipients derived from the headers.
Transmit(s) ==
    /\ pc[s] = "send"
    /\ delivered' = [delivered EXCEPT ![s] =
           MailboxesOf(IF envelope[s] # <<>> THEN envelope[s] ELSE kept[s])]
    /\ pc' = [pc EXCEPT ![s] = "sent"]
    /\ UNCHANGED <<ignoreErrors, entries, asked, headers, kept, envelope, reported, listed, unlisted>>

\* The sender panics, and RecoveryInterceptor, the outermost one, makes an error of it.
Recovered(s) ==
    /\ pc[s] = "send"
    /\ pc' = [pc EXCEPT ![s] = "failed"]
    /\ UNCHANGED <<ignoreErrors, entries, asked, headers, kept, envelope, reported, delivered, listed, unlisted>>

SendStep(s) ==
    \/ \E list \in Lists, env \in Envelopes : Send(s, list, env)
    \/ Lookup(s) \/ LookupFails(s) \/ Filtered(s) \/ Transmit(s) \/ Recovered(s)

-----------------------------------------------------------------------------
(* Properties *)

\* "SuppressionInterceptor withholds mail from suppressed recipients": a
\* mailbox that was on the list from the call of Send on gets nothing, however
\* its address is spelled, whatever happens to other entries meanwhile and
\* whichever lookups fail.  A bounce recorded during the call is looked at too
\* late or in time.  An explicit envelope is outside this promise, and so are
\* lookups whose errors are ignored.
Withheld ==
    \A s \in Senders : envelope[s] = <<>> /\ ~ignoreErrors => delivered[s] \cap listed[s] = {}

\* "OnSuppressed is called for each recipient removed from a message": a
\* recipient of a message that was sent either gets it, or was reported and had
\* an entry at some moment of the call; no recipient is dropped because of
\* another one, or in silence.
EveryoneServed ==
    \A s \in Senders : pc[s] = "sent" /\ envelope[s] = <<>> =>
        \A a \in asked[s] :
            \/ Mailbox[a] \in delivered[s]
            \/ a \in reported[s] /\ Mailbox[a] \notin unlisted[s]
=============================================================================
