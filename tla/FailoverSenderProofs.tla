------------------------- MODULE FailoverSenderProofs -------------------------
(***************************************************************************)
(* Proofs about FailoverSender and what it is built from, for any groups   *)
(* of providers of any APIs, any emails, any RetryConfig, whatever the     *)
(* providers answer and whenever the context dies: what a message carries  *)
(* (MimeMessage, HttpProviders), what may be retried (SendErrors), whom    *)
(* the walk asks and what it returns.                                      *)
(***************************************************************************)
EXTENDS FailoverSender, SequenceLemmas

-----------------------------------------------------------------------------
(* The inductive invariant *)

\* Where Retry runs for a provider, from its Send to the error it returns.
Asking == phase \in {"prepare", "attempt", "calling", "backoff", "senderFailed"}
Retrying == phase \in {"attempt", "calling", "backoff"}

\* Whom the walk has come to, and how often Retry may still try.
WalkShape ==
    /\ api \in ApiChoices /\ email \in Emails
    /\ g \in DOMAIN Groups
    /\ phase \in Phases
    /\ Asking => i \in DOMAIN Groups[g] /\ Provider \in Providers
    /\ config.MaxRetries \in Nat
    /\ Retrying => /\ n \in 0..config.MaxRetries
                   /\ phase = "backoff" => n # config.MaxRetries
                   /\ ~Refuses(api[Provider], email)
    /\ tries \in [Providers -> Nat] /\ allowed \in [Providers -> Nat]
    /\ answers \subseteq Providers \X Kinds
    /\ {err, inner, outer} \subseteq Seq(Kinds)
    /\ phase # "done" <=> result = "none"

\* Is an answer of this provider among these errors?
SaidIn(p, errs) == \E a \in answers : a[1] = p /\ a[2] \in errs

\* What each provider answered is on its way to the caller.
NothingUnsaid ==
    \A p \in Providers :
        /\ tries[p] > 0 =>
              \/ \E a \in answers : a[1] = p
              \/ phase = "calling" /\ p = Provider
              \/ result = "sent"
        /\ (\E a \in answers : a[1] = p) =>
              /\ Asking => SaidIn(p, ToSet(outer) \cup ToSet(inner)
                                        \cup (IF p = Provider THEN ToSet(err) ELSE {}))
              /\ phase = "groupFailed" => SaidIn(p, ToSet(outer) \cup ToSet(err))
              /\ result = "failed" => SaidIn(p, ToSet(outer))

IInv == WalkShape /\ NothingUnsaid /\ NothingDropped

-----------------------------------------------------------------------------
(* The walk *)

\* The next sender that is not nil is one of those that are left.
LEMMA MinOfRemaining ==
    ASSUME NEW h \in DOMAIN Groups, NEW k \in Nat \ {0}, Remaining(h, k) # {}
    PROVE  Min(Remaining(h, k)) \in Remaining(h, k)
<1>1. Remaining(h, k) \subseteq Nat
  BY DEF Remaining
<1>2. PICK m \in Remaining(h, k) : \A j \in Remaining(h, k) : m <= j
  <2> HIDE DEF Remaining
  <2> QED
    BY <1>1, LeastElement
<1> QED
  BY <1>2, Zenon DEF Min

\* A sender that is not nil is a provider.
LEMMA RemainingProviders ==
    ASSUME NEW h \in DOMAIN Groups, NEW k \in Nat \ {0}, NEW j \in Remaining(h, k)
    PROVE  j \in DOMAIN Groups[h] /\ j # 0 /\ Groups[h][j] \in Providers
<1>1. Groups[h] \in Seq(Providers \cup {Nil})
  BY GroupsAssumption
<1>2. j \in 1..Len(Groups[h]) /\ Groups[h][j] # Nil
  BY <1>1 DEF Remaining
<1> QED
  BY <1>1, <1>2

\* Where a group starts: at a provider, or with the error that it has none.
LEMMA Entry ==
    ASSUME NEW h \in DOMAIN Groups
    PROVE  /\ EntryPhase(h) \in {"prepare", "groupFailed"}
           /\ EntryPhase(h) = "prepare" => /\ First(h) \in DOMAIN Groups[h]
                                           /\ Groups[h][First(h)] \in Providers
           /\ EntryErr(h) \in Seq(Kinds)
           /\ EntryPhase(h) = "prepare" => EntryErr(h) = <<>>
<1>1. CASE Remaining(h, 1) = {}
  <2>1. First(h) = 0
    BY <1>1 DEF First
  <2>2. <<"permanent">> \o <<"plain">> \in Seq(Kinds)
    BY DEF Kinds
  <2> QED
    BY <2>1, <2>2 DEF EntryPhase, EntryErr, NonRetryable
<1>2. CASE Remaining(h, 1) # {}
  <2>1. First(h) \in Remaining(h, 1)
    BY <1>2, MinOfRemaining DEF First
  <2>2. First(h) \in DOMAIN Groups[h] /\ First(h) # 0 /\ Groups[h][First(h)] \in Providers
    BY <2>1, RemainingProviders
  <2> QED
    BY <2>2 DEF EntryPhase, EntryErr
<1> QED
  BY <1>1, <1>2

\* normalize leaves no negative number of retries.
LEMMA ConfigShape ==
    /\ normalize(Config).MaxRetries \in Nat
    /\ \A p : GetRetryConfig(p).MaxRetries \in Nat
<1>1. \A c : c.MaxRetries \in Int => normalize(c).MaxRetries \in Nat
  BY DEF normalize
<1>2. \A p : GetRetryConfig(p) \in {normalize(Config), normalize(NewConfig)}
  <2> HIDE DEF normalize
  <2> QED
    BY Zenon DEF GetRetryConfig
<1> QED
  BY <1>1, <1>2, ConfigAssumption

\* The next sender of the group, if the group goes on.
LEMMA NextSender ==
    ASSUME WalkShape, phase = "senderFailed", Remaining(g, i + 1) # {},
           NEW m, m = Min(Remaining(g, i + 1))
    PROVE  m \in DOMAIN Groups[g] /\ Groups[g][m] \in Providers
<1>1. i + 1 \in Nat \ {0} /\ g \in DOMAIN Groups
  <2>1. i \in DOMAIN Groups[g] /\ g \in DOMAIN Groups
    BY DEF WalkShape, Asking
  <2>2. Groups[g] \in Seq(Providers \cup {Nil})
    BY <2>1, GroupsAssumption
  <2> QED
    BY <2>1, <2>2
<1> QED
  BY <1>1, MinOfRemaining, RemainingProviders

\* The errors a list is extended with are errors.
LEMMA JoinedShape ==
    ASSUME NEW errs \in Seq(Kinds)
    PROVE  Joined(errs) \in Seq(Kinds) /\ ToSet(errs) \subseteq ToSet(Joined(errs))
<1>1. <<"canceled">> \in Seq(Kinds)
  BY DEF Kinds
<1>2. ToSet(errs \o <<"canceled">>) = ToSet(errs) \cup ToSet(<<"canceled">>)
  BY <1>1, ToSetConcat, ZenonT(40)
<1>3. errs \o <<"canceled">> \in Seq(Kinds)
  BY <1>1
<1> QED
  BY <1>2, <1>3 DEF Joined

\* No step takes the walk anywhere else.
LEMMA WalkStep ==
    ASSUME WalkShape, [Next]_vars
    PROVE  WalkShape'
<1> USE DEF WalkShape, setup, retry
<1>1. CASE Prepare
  <2>1. /\ phase = "prepare" /\ UNCHANGED <<api, email, g, i, tries, inner, outer, result>>
        /\ Provider' = Provider /\ Provider \in Providers
    BY <1>1 DEF Prepare, Provider, Asking
  <2>2. CASE Refuses(api[Provider], email)
    <3>1. /\ phase' = "senderFailed" /\ err' = <<"permanent">> \o <<"plain">>
          /\ answers' = answers \cup {<<Provider, "permanent">>}
          /\ UNCHANGED <<config, allowed>>
      BY <1>1, <2>2 DEF Prepare, NonRetryable
    <3>2. <<"permanent">> \o <<"plain">> \in Seq(Kinds) /\ "permanent" \in Kinds
      BY DEF Kinds
    <3> QED
      BY <2>1, <3>1, <3>2 DEF Asking, Retrying, Phases
  <2>3. CASE ~Refuses(api[Provider], email)
    <3>1. /\ phase' = "attempt" /\ n' = 0
          /\ config' = GetRetryConfig(Provider)
          /\ allowed' = [allowed EXCEPT ![Provider] = @ + config'.MaxRetries + 1]
          /\ UNCHANGED <<err, answers>>
      BY <1>1, <2>3 DEF Prepare
    <3>2. config'.MaxRetries \in Nat
      BY <3>1, ConfigShape
    <3>3. allowed' \in [Providers -> Nat]
      BY <2>1, <3>1, <3>2
    <3>4. ~Refuses(api'[Provider'], email')
      BY <2>1, <2>3
    <3> QED
      BY <2>1, <3>1, <3>2, <3>3, <3>4 DEF Asking, Retrying, Phases
  <2> QED
    BY <2>2, <2>3
<1>2. CASE BeginAttempt
  <2>1. tries' \in [Providers -> Nat]
    BY <1>2 DEF BeginAttempt, Asking
  <2> QED
    BY <1>2, <2>1 DEF BeginAttempt, Asking, Retrying, Phases, Provider
<1>3. CASE AttemptSucceeds
  BY <1>3 DEF AttemptSucceeds, Asking, Retrying, Phases, Provider
<1>4. ASSUME NEW kind \in Kinds, AttemptFails(kind)
      PROVE  WalkShape'
  <2>1. <<kind>> \in Seq(Kinds)
    OBVIOUS
  <2>2. /\ phase = "calling" /\ phase' \in {"backoff", "senderFailed"}
        /\ phase' = "backoff" => n < config.MaxRetries
        /\ answers' = answers \cup {<<Provider, kind>>} /\ err' = <<kind>>
        /\ UNCHANGED <<api, email, g, i, config, allowed, n, tries, inner, outer, result>>
    BY <1>4 DEF AttemptFails
  <2>3. Provider' = Provider /\ Provider \in Providers
    BY <2>2 DEF Provider, Asking
  <2> QED
    BY <2>1, <2>2, <2>3 DEF Asking, Retrying, Phases
<1>5. CASE TimerFires
  BY <1>5 DEF TimerFires, Asking, Retrying, Phases, Provider
<1>6. CASE Cancelled
  <2>1. <<"canceled">> \in Seq(Kinds)
    BY DEF Kinds
  <2>2. <<"canceled">> \o err \in Seq(Kinds)
    BY <2>1
  <2> QED
    BY <1>6, <2>2 DEF Cancelled, Asking, Retrying, Phases, Provider
<1>7. CASE GroupStep
  <2> DEFINE m == Min(Remaining(g, i + 1))
  <2>1. inner \o err \in Seq(Kinds) /\ <<>> \in Seq(Kinds) /\ Joined(inner \o err) \in Seq(Kinds)
    <3>1. inner \o err \in Seq(Kinds)
      OBVIOUS
    <3>2. <<>> \in Seq(Kinds)
      OBVIOUS
    <3> QED
      BY <3>1, <3>2, JoinedShape
  <2>2. CASE WalksOn /\ Remaining(g, i + 1) # {}
    <3>1. /\ g' = g /\ i' = m /\ phase' = "prepare" /\ err' = <<>> /\ inner' = inner \o err
          /\ UNCHANGED <<api, email, config, allowed, outer, tries, answers, result>>
      BY <1>7, <2>2 DEF GroupStep, Ask
    <3>2. m \in DOMAIN Groups[g] /\ Groups[g][m] \in Providers
      BY <1>7, <2>2, NextSender DEF GroupStep
    <3> HIDE DEF m
    <3> QED
      BY <1>7, <2>1, <3>1, <3>2 DEF GroupStep, Asking, Retrying, Phases, Provider
  <2>3. CASE ~(WalksOn /\ Remaining(g, i + 1) # {})
    <3>1. /\ phase' = "groupFailed" /\ err' = Joined(inner \o err) /\ inner' = <<>>
          /\ UNCHANGED <<api, email, g, i, config, allowed, outer, tries, answers, result>>
      BY <1>7, <2>3 DEF GroupStep
    <3> QED
      BY <1>7, <2>1, <3>1 DEF GroupStep, Asking, Retrying, Phases
  <2> QED
    BY <2>2, <2>3
<1>8. CASE OuterStep
  <2>1. outer \o err \in Seq(Kinds) /\ Joined(outer \o err) \in Seq(Kinds)
    <3>1. outer \o err \in Seq(Kinds)
      OBVIOUS
    <3> QED
      BY <3>1, JoinedShape
  <2>2. CASE WalksOn /\ g < Len(Groups)
    <3>1. /\ g' = g + 1 /\ i' = First(g + 1) /\ phase' = EntryPhase(g + 1)
          /\ err' = EntryErr(g + 1) /\ outer' = outer \o err
          /\ UNCHANGED <<api, email, config, allowed, inner, tries, answers, result>>
      BY <1>8, <2>2 DEF OuterStep, Ask
    <3>2. g + 1 \in DOMAIN Groups
      BY <2>2, GroupsAssumption
    <3> QED
      BY <1>8, <2>1, <3>1, <3>2, Entry DEF OuterStep, Asking, Retrying, Phases, Provider
  <2>3. CASE ~(WalksOn /\ g < Len(Groups))
    BY <1>8, <2>1, <2>3 DEF OuterStep, Asking, Retrying, Phases
  <2> QED
    BY <2>2, <2>3
<1>9. CASE SetRetryConfig \/ Cancel \/ UNCHANGED vars
  BY <1>9 DEF SetRetryConfig, Cancel, vars, Asking, Retrying, Phases, Provider
<1>10. "canceled" \in Kinds /\ Outcomes \subseteq Kinds
  BY OutcomeAssumption DEF Kinds
<1> QED
  BY <1>1, <1>2, <1>3, <1>4, <1>5, <1>6, <1>7, <1>8, <1>9, <1>10 DEF Next, Step

-----------------------------------------------------------------------------
(* What each provider answered *)

\* Who gives an answer is heard among the errors that name it.
LEMMA AnswerSaid ==
    ASSUME WalkShape, NothingUnsaid, Asking,
           UNCHANGED <<g, i, tries, inner, outer, result>>,
           phase' \in {"backoff", "senderFailed"},
           NEW kind, kind \in ToSet(err'), answers' = answers \cup {<<Provider, kind>>}
    PROVE  NothingUnsaid'
<1>1. Provider' = Provider /\ result = "none" /\ Asking' /\ phase' # "groupFailed"
  BY DEF Provider, WalkShape, Asking
<1>2. ASSUME NEW p \in Providers
      PROVE  /\ tries'[p] > 0 => \E a \in answers' : a[1] = p
             /\ (\E a \in answers' : a[1] = p) =>
                   SaidIn(p, ToSet(outer) \cup ToSet(inner)
                                \cup (IF p = Provider THEN ToSet(err) ELSE {}))'
  <2>1. CASE p = Provider
    <3>1. <<p, kind>> \in answers' /\ <<p, kind>>[1] = p /\ <<p, kind>>[2] = kind
      BY <2>1
    <3> QED
      BY <1>1, <2>1, <3>1 DEF SaidIn
  <2>2. CASE p # Provider
    <3>1. \A a \in answers' : a[1] = p => a \in answers
      BY <2>2
    <3>2. (\E a \in answers : a[1] = p) => SaidIn(p, ToSet(outer) \cup ToSet(inner))
      BY <2>2 DEF NothingUnsaid
    <3>3. tries[p] > 0 => \E a \in answers : a[1] = p
      BY <1>1, <2>2 DEF NothingUnsaid
    <3> QED
      BY <1>1, <2>2, <3>1, <3>2, <3>3 DEF SaidIn
  <2> QED
    BY <2>1, <2>2
<1> QED
  BY <1>1, <1>2 DEF NothingUnsaid

\* What was on its way still is, when nobody answers.
LEMMA StillSaid ==
    ASSUME WalkShape, NothingUnsaid, UNCHANGED <<answers, tries>>,
           phase # "calling", result = "none",
           NEW said, NEW said2, said \subseteq said2,
           \A p \in Providers : (\E a \in answers : a[1] = p) => SaidIn(p, said),
           \A p \in Providers :
              /\ Asking' => said2 \subseteq (ToSet(outer) \cup ToSet(inner)
                                                \cup (IF p = Provider THEN ToSet(err) ELSE {}))'
              /\ phase' = "groupFailed" => said2 \subseteq (ToSet(outer) \cup ToSet(err))'
              /\ result' = "failed" => said2 \subseteq ToSet(outer)'
    PROVE  NothingUnsaid'
  BY DEF NothingUnsaid, SaidIn

\* No step loses an answer.
LEMMA SaidStep ==
    ASSUME WalkShape, NothingUnsaid, [Next]_vars
    PROVE  NothingUnsaid'
<1> USE DEF setup, retry
<1>1. CASE Prepare
  <2>1. CASE Refuses(api[Provider], email)
    <3>1. /\ phase = "prepare" /\ phase' = "senderFailed" /\ err' = <<"permanent">> \o <<"plain">>
          /\ answers' = answers \cup {<<Provider, "permanent">>}
          /\ UNCHANGED <<g, i, tries, inner, outer, result>>
      BY <1>1, <2>1 DEF Prepare, NonRetryable
    <3>2. "permanent" \in ToSet(err')
      BY <3>1 DEF ToSet
    <3> QED
      BY <3>1, <3>2, AnswerSaid DEF Asking
  <2>2. CASE ~Refuses(api[Provider], email)
    BY <1>1, <2>2 DEF Prepare, NothingUnsaid, SaidIn, Asking, Provider
  <2> QED
    BY <2>1, <2>2
<1>2. CASE BeginAttempt
  <2>1. ASSUME NEW p \in Providers, p # Provider PROVE tries'[p] = tries[p]
    BY <1>2, <2>1 DEF BeginAttempt, WalkShape
  <2> QED
    BY <1>2, <2>1 DEF BeginAttempt, NothingUnsaid, SaidIn, Asking, Provider
<1>3. CASE AttemptSucceeds
  BY <1>3 DEF AttemptSucceeds, NothingUnsaid, SaidIn, Asking, Provider
<1>4. ASSUME NEW kind \in Kinds, AttemptFails(kind)
      PROVE  NothingUnsaid'
  <2>1. /\ phase = "calling" /\ phase' \in {"backoff", "senderFailed"}
        /\ answers' = answers \cup {<<Provider, kind>>} /\ err' = <<kind>>
        /\ UNCHANGED <<g, i, tries, inner, outer, result>>
    BY <1>4 DEF AttemptFails
  <2>2. kind \in ToSet(err')
    BY <2>1 DEF ToSet
  <2> QED
    BY <2>1, <2>2, AnswerSaid DEF Asking
<1>5. CASE TimerFires
  BY <1>5 DEF TimerFires, NothingUnsaid, SaidIn, Asking, Provider
<1>6. CASE Cancelled
  <2>1. <<"canceled">> \in Seq(Kinds)
    BY DEF Kinds
  <2>2. ToSet(err') = ToSet(<<"canceled">>) \cup ToSet(err)
    <3>1. err \in Seq(Kinds) /\ err' = <<"canceled">> \o err
      BY <1>6 DEF Cancelled, WalkShape
    <3> QED
      BY <2>1, <3>1, ToSetConcat, ZenonT(40)
  <2> QED
    BY <1>6, <2>2 DEF Cancelled, NothingUnsaid, SaidIn, Asking, Provider
<1>7. CASE GroupStep
  <2> DEFINE said == ToSet(outer) \cup ToSet(inner) \cup ToSet(err)
  <2>1. /\ UNCHANGED <<answers, tries, outer, result>> /\ phase = "senderFailed"
        /\ phase' \in {"prepare", "groupFailed"} /\ result = "none"
    BY <1>7 DEF GroupStep, WalkShape
  <2>2. \A p \in Providers : (\E a \in answers : a[1] = p) => SaidIn(p, said)
    BY <2>1 DEF NothingUnsaid, SaidIn, Asking
  <2>3. inner \o err \in Seq(Kinds) /\ ToSet(inner \o err) = ToSet(inner) \cup ToSet(err)
    <3>1. inner \in Seq(Kinds) /\ err \in Seq(Kinds)
      BY DEF WalkShape
    <3>2. inner \o err \in Seq(Kinds)
      BY <3>1
    <3> QED
      BY <3>1, <3>2, ToSetConcat
  <2>4. phase' = "prepare" => inner' = inner \o err
    BY <1>7 DEF GroupStep
  <2>5. phase' = "groupFailed" => err' = Joined(inner \o err)
    BY <1>7 DEF GroupStep
  <2>6. phase' = "groupFailed" => said \subseteq (ToSet(outer) \cup ToSet(err))'
    BY <2>1, <2>3, <2>5, JoinedShape
  <2>7. phase' = "prepare" => said \subseteq (ToSet(outer) \cup ToSet(inner))'
    BY <2>1, <2>3, <2>4
  <2>8. result' # "failed"
    BY <2>1
  <2> HIDE DEF said
  <2> QED
    BY <2>1, <2>2, <2>6, <2>7, <2>8, StillSaid DEF Asking
<1>8. CASE OuterStep
  <2> DEFINE said == ToSet(outer) \cup ToSet(err)
  <2>1. UNCHANGED <<answers, tries, inner>> /\ phase = "groupFailed" /\ result = "none"
    BY <1>8 DEF OuterStep, WalkShape
  <2>2. \A p \in Providers : (\E a \in answers : a[1] = p) => SaidIn(p, said)
    BY <2>1 DEF NothingUnsaid
  <2>3. outer \o err \in Seq(Kinds) /\ ToSet(outer \o err) = said
    <3>1. outer \in Seq(Kinds) /\ err \in Seq(Kinds)
      BY DEF WalkShape
    <3>2. outer \o err \in Seq(Kinds)
      BY <3>1
    <3> QED
      BY <3>1, <3>2, ToSetConcat
  <2>4. outer' \in {outer \o err, Joined(outer \o err)}
    BY <1>8 DEF OuterStep
  <2>5. said \subseteq ToSet(outer)'
    BY <2>3, <2>4, JoinedShape
  <2> HIDE DEF said
  <2> QED
    BY <2>1, <2>2, <2>5, StillSaid
<1>9. CASE SetRetryConfig \/ Cancel \/ UNCHANGED vars
  BY <1>9 DEF SetRetryConfig, Cancel, vars, NothingUnsaid, SaidIn, Asking, Provider
<1>10. "canceled" \in Kinds /\ Outcomes \subseteq Kinds
  BY OutcomeAssumption DEF Kinds
<1> QED
  BY <1>1, <1>2, <1>3, <1>4, <1>5, <1>6, <1>7, <1>8, <1>9, <1>10 DEF Next, Step

-----------------------------------------------------------------------------
(* What Retry has spent *)

\* The errors of one kind that may be retried.
LEMMA RetryableKinds ==
    ASSUME NEW kind \in Kinds
    PROVE  IsRetryable(<<kind>>) <=> kind \in {"plain", "unavailable", "throttled"}
<1> DEFINE err1 == <<kind>>
           deciders == {k \in DOMAIN err1 : err1[k] \in Deciders}
<1>1. DOMAIN err1 = {1} /\ err1[1] = kind /\ err1 # <<>>
  OBVIOUS
<1>2. deciders # {} => deciders = {1}
  BY <1>1
<1>3. Min({1}) = 1
  BY DEF Min
<1>4. deciders # {} <=> kind \in Deciders
  BY <1>1
<1>5. IsRetryable(err1) <=> /\ kind \notin {"canceled", "timeout"}
                            /\ kind \in Deciders => HTTPRetryable(kind)
  <2> HIDE DEF err1
  <2> QED
    BY <1>1, <1>2, <1>3, <1>4 DEF IsRetryable
<1> QED
  BY <1>5 DEF Kinds, Deciders, HTTPRetryable

\* What is marked by NonRetryable may not.
LEMMA MarkedIsFinal == ~IsRetryable(<<"permanent">> \o <<"plain">>)
<1> DEFINE e == <<"permanent", "plain">>
           deciders == {k \in DOMAIN e : e[k] \in Deciders}
<1>1. DOMAIN e = {1, 2} /\ e[1] = "permanent" /\ e[2] = "plain"
  OBVIOUS
<1>2. deciders = {1}
  BY <1>1 DEF Deciders
<1>3. Min({1}) = 1
  BY DEF Min
<1>4. e = <<"permanent">> \o <<"plain">>
  OBVIOUS
<1>5. ~IsRetryable(e)
  <2> HIDE DEF e
  <2> QED
    BY <1>1, <1>2, <1>3 DEF IsRetryable, HTTPRetryable
<1> QED
  BY <1>4, <1>5

\* How many attempts Retry may still make at a provider.
Left(p) ==
    IF p = Provider /\ Retrying
    THEN IF phase = "attempt" THEN config.MaxRetries - n + 1 ELSE config.MaxRetries - n
    ELSE 0

\* A live context, no rejection and no timeout: what is not spent is left.
Spent ==
    ~ctxDone /\ ~Rejected /\ ~TimedOut /\ result # "sent" =>
        \A p \in Providers : tries[p] + Left(p) = allowed[p]

\* No attempt is left out, unless a timeout ends Retry as cancellation does.
LEMMA SpentStep ==
    ASSUME WalkShape, Spent, [Next]_vars
    PROVE  Spent'
<1> SUFFICES ASSUME ~ctxDone', ~Rejected', ~TimedOut', result' # "sent", NEW p \in Providers
             PROVE  (tries[p] + Left(p) = allowed[p])'
  BY DEF Spent
<1> USE DEF setup, retry
<1>1. ctxDone => ctxDone'
  BY DEF Next, Step, Prepare, BeginAttempt, AttemptSucceeds, AttemptFails, TimerFires, Cancelled,
         GroupStep, OuterStep, SetRetryConfig, Cancel, vars
<1>2. answers \subseteq answers'
  BY DEF Next, Step, Prepare, BeginAttempt, AttemptSucceeds, AttemptFails, TimerFires, Cancelled,
         GroupStep, OuterStep, SetRetryConfig, Cancel, vars
<1>3. ~ctxDone /\ ~Rejected /\ ~TimedOut
  BY <1>1, <1>2 DEF Rejected, TimedOut
<1>4. result # "sent" => tries[p] + Left(p) = allowed[p] /\ tries[p] \in Nat /\ allowed[p] \in Nat
  BY <1>3 DEF Spent, WalkShape
<1>5. phase # "done" => result # "sent"
  BY DEF WalkShape
<1>6. CASE Prepare
  <2>1. CASE Refuses(api[Provider], email)
    <3>1. <<Provider, "permanent">> \in answers'
      BY <1>6, <2>1 DEF Prepare
    <3>2. <<Provider, "permanent">>[2] = "permanent"
      OBVIOUS
    <3>3. Rejected'
      BY <3>1, <3>2 DEF Rejected
    <3> QED
      BY <3>3
  <2>2. CASE ~Refuses(api[Provider], email)
    <3>1. /\ phase = "prepare" /\ phase' = "attempt" /\ n' = 0
          /\ config' = GetRetryConfig(Provider) /\ Provider' = Provider /\ tries' = tries
          /\ allowed' = [allowed EXCEPT ![Provider] = @ + config'.MaxRetries + 1]
      BY <1>6, <2>2 DEF Prepare, Provider
    <3>2. config'.MaxRetries \in Nat
      BY <3>1, ConfigShape
    <3>3. allowed'[p] = IF p = Provider THEN allowed[p] + config'.MaxRetries + 1 ELSE allowed[p]
      BY <3>1 DEF WalkShape
    <3>4. Left(p) = 0 /\ Left(p)' = IF p = Provider THEN config'.MaxRetries + 1 ELSE 0
      BY <3>1, <3>2 DEF Left, Retrying
    <3> QED
      BY <1>4, <1>5, <3>1, <3>2, <3>3, <3>4
  <2> QED
    BY <2>1, <2>2
<1>7. CASE BeginAttempt
  <2>1. /\ phase = "attempt" /\ phase' = "calling" /\ UNCHANGED <<n, config, allowed>>
        /\ Provider' = Provider /\ tries' = [tries EXCEPT ![Provider] = @ + 1]
    BY <1>7 DEF BeginAttempt, Provider
  <2>2. config.MaxRetries \in Nat /\ n \in 0..config.MaxRetries
    BY <2>1 DEF WalkShape, Retrying
  <2>3. tries'[p] = IF p = Provider THEN tries[p] + 1 ELSE tries[p]
    BY <2>1 DEF WalkShape
  <2>4. Left(p) = IF p = Provider THEN config.MaxRetries - n + 1 ELSE 0
    BY <2>1 DEF Left, Retrying
  <2>5. Left(p)' = IF p = Provider THEN config.MaxRetries - n ELSE 0
    BY <2>1 DEF Left, Retrying
  <2> QED
    BY <1>4, <1>5, <2>1, <2>2, <2>3, <2>4, <2>5
<1>8. CASE AttemptSucceeds
  BY <1>8 DEF AttemptSucceeds
<1>9. ASSUME NEW kind \in Outcomes, AttemptFails(kind)
      PROVE  (tries[p] + Left(p) = allowed[p])'
  <2>1. /\ phase = "calling" /\ UNCHANGED <<n, config, allowed, tries>> /\ Provider' = Provider
        /\ answers' = answers \cup {<<Provider, kind>>} /\ err' = <<kind>>
    BY <1>9 DEF AttemptFails, Provider
  <2>2. kind \in Kinds /\ kind # "canceled"
    BY OutcomeAssumption
  <2>3. kind \notin {"permanent", "badRequest", "timeout"}
    <3>1. <<Provider, kind>> \in answers' /\ <<Provider, kind>>[2] = kind
      BY <2>1
    <3> QED
      BY <3>1 DEF Rejected, TimedOut
  <2>4. IsRetryable(err')
    BY <2>1, <2>2, <2>3, RetryableKinds DEF Kinds
  <2>5. config.MaxRetries \in Nat /\ n \in 0..config.MaxRetries
    BY <2>1 DEF WalkShape, Retrying
  <2>6. phase' = IF n < config.MaxRetries THEN "backoff" ELSE "senderFailed"
    BY <1>9, <2>4 DEF AttemptFails
  <2>7. Left(p) = IF p = Provider THEN config.MaxRetries - n ELSE 0
    BY <2>1 DEF Left, Retrying
  <2>8. Left(p)' = IF p = Provider /\ n < config.MaxRetries THEN config.MaxRetries - n ELSE 0
    BY <2>1, <2>6 DEF Left, Retrying
  <2> QED
    BY <1>4, <1>5, <2>1, <2>5, <2>7, <2>8
<1>10. CASE TimerFires
  <2>1. /\ phase = "backoff" /\ phase' = "attempt" /\ n' = n + 1
        /\ UNCHANGED <<config, allowed, tries>> /\ Provider' = Provider
    BY <1>10 DEF TimerFires, Provider
  <2>2. config.MaxRetries \in Nat /\ n \in 0..config.MaxRetries
    BY <2>1 DEF WalkShape, Retrying
  <2>3. Left(p) = IF p = Provider THEN config.MaxRetries - n ELSE 0
    BY <2>1 DEF Left, Retrying
  <2>4. Left(p)' = IF p = Provider THEN config.MaxRetries - (n + 1) + 1 ELSE 0
    BY <2>1 DEF Left, Retrying
  <2> QED
    BY <1>4, <1>5, <2>1, <2>2, <2>3, <2>4
<1>11. CASE GroupStep \/ OuterStep
  <2>1. /\ phase \in {"senderFailed", "groupFailed"} /\ UNCHANGED <<tries, allowed>>
        /\ phase' \in {"prepare", "groupFailed", "done"}
    BY <1>11, Entry DEF GroupStep, OuterStep, EntryPhase
  <2>2. Left(p) = 0 /\ Left(p)' = 0
    BY <2>1 DEF Left, Retrying
  <2> QED
    BY <1>4, <1>5, <2>1, <2>2
<1>12. CASE SetRetryConfig \/ Cancel \/ UNCHANGED vars
  <2>1. UNCHANGED <<result, phase, tries, allowed, n, config, Provider>>
    BY <1>12 DEF SetRetryConfig, Cancel, vars, Provider
  <2> QED
    BY <1>4, <2>1 DEF Left, Retrying
<1> QED
  BY <1>3, <1>6, <1>7, <1>8, <1>9, <1>10, <1>11, <1>12 DEF Next, Step, Cancelled

-----------------------------------------------------------------------------
(* Who has rejected the message *)

\* A group in which somebody has is not asked any more.
Over ==
    \A a \in answers : a[2] \in {"permanent", "badRequest"} =>
        \E h \in DOMAIN Groups :
            /\ a[1] \in ToSet(Groups[h]) /\ h <= g
            /\ h = g => \/ phase = "senderFailed" /\ ~IsRetryable(err)
                        \/ phase \in {"groupFailed", "done"}

\* A rejection ends the group it comes from, and the walk does not come back to it.
LEMMA OverStep ==
    ASSUME WalkShape, Over, [Next]_vars
    PROVE  Over'
<1> USE DEF setup, retry
<1>0. g \in Nat /\ DOMAIN Groups = 1..Len(Groups)
  BY GroupsAssumption DEF WalkShape
<1>1. ASSUME NEW kind \in Kinds, phase' = "senderFailed" \/ phase' = "backoff", Asking,
             phase # "senderFailed", UNCHANGED <<g, i>>,
             answers' = answers \cup {<<Provider, kind>>},
             kind \in {"permanent", "badRequest"} => phase' = "senderFailed" /\ ~IsRetryable(err')
      PROVE  Over'
  <2>1. Provider \in ToSet(Groups[g])
    BY <1>1 DEF WalkShape, Provider, ToSet
  <2> SUFFICES ASSUME NEW a \in answers', a[2] \in {"permanent", "badRequest"}
               PROVE  \E h \in DOMAIN Groups :
                         /\ a[1] \in ToSet(Groups[h]) /\ h <= g'
                         /\ h = g' => \/ phase' = "senderFailed" /\ ~IsRetryable(err')
                                      \/ phase' \in {"groupFailed", "done"}
    BY DEF Over
  <2>2. CASE a = <<Provider, kind>>
    <3>1. a[1] = Provider /\ a[2] = kind /\ g' = g
      BY <1>1, <2>2
    <3>2. g \in DOMAIN Groups /\ g <= g
      BY <1>0 DEF WalkShape
    <3>3. phase' = "senderFailed" /\ ~IsRetryable(err')
      BY <1>1, <3>1
    <3> QED
      BY <2>1, <3>1, <3>2, <3>3
  <2>3. CASE a \in answers
    <3>1. PICK h \in DOMAIN Groups : /\ a[1] \in ToSet(Groups[h]) /\ h <= g
                                     /\ h # g
      BY <1>1, <2>3 DEF Over, Asking
    <3> QED
      BY <1>1, <3>1
  <2> QED
    BY <1>1, <2>2, <2>3
<1>2. CASE Prepare
  <2>1. CASE Refuses(api[Provider], email)
    <3>1. /\ phase = "prepare" /\ phase' = "senderFailed" /\ err' = <<"permanent">> \o <<"plain">>
          /\ answers' = answers \cup {<<Provider, "permanent">>}
          /\ UNCHANGED <<g, i>>
      BY <1>2, <2>1 DEF Prepare, NonRetryable
    <3>2. "permanent" \in Kinds /\ ~IsRetryable(err')
      BY <3>1, MarkedIsFinal DEF Kinds
    <3> QED
      BY <1>1, <3>1, <3>2 DEF Asking
  <2>2. CASE ~Refuses(api[Provider], email)
    <3>1. phase = "prepare" /\ UNCHANGED <<g, answers>>
      BY <1>2, <2>2 DEF Prepare
    <3> QED
      BY <3>1 DEF Over
  <2> QED
    BY <2>1, <2>2
<1>3. ASSUME NEW kind \in Kinds, AttemptFails(kind)
      PROVE  Over'
  <2>1. /\ phase = "calling" /\ phase' \in {"backoff", "senderFailed"}
        /\ ~IsRetryable(err') => phase' = "senderFailed"
        /\ answers' = answers \cup {<<Provider, kind>>} /\ err' = <<kind>>
        /\ UNCHANGED <<g, i>>
    BY <1>3 DEF AttemptFails
  <2>2. kind \in {"permanent", "badRequest"} => ~IsRetryable(err')
    BY <2>1, RetryableKinds
  <2> QED
    BY <1>1, <2>1, <2>2 DEF Asking
<1>4. CASE BeginAttempt \/ AttemptSucceeds \/ TimerFires \/ Cancelled
  <2>1. phase \in {"attempt", "calling", "backoff"} /\ UNCHANGED <<g, answers>>
    BY <1>4 DEF BeginAttempt, AttemptSucceeds, TimerFires, Cancelled
  <2> QED
    BY <2>1 DEF Over
<1>5. CASE GroupStep
  <2>1. CASE WalksOn /\ Remaining(g, i + 1) # {}
    <3>1. phase = "senderFailed" /\ UNCHANGED <<g, answers>> /\ IsRetryable(err)
      BY <1>5, <2>1 DEF GroupStep, Ask, WalksOn
    <3> QED
      BY <3>1 DEF Over
  <2>2. CASE ~(WalksOn /\ Remaining(g, i + 1) # {})
    <3>1. phase' = "groupFailed" /\ UNCHANGED <<g, answers>>
      BY <1>5, <2>2 DEF GroupStep
    <3> QED
      BY <3>1 DEF Over
  <2> QED
    BY <2>1, <2>2
<1>6. CASE OuterStep
  <2>1. answers' = answers /\ ((g' = g /\ phase' = "done") \/ g' = g + 1)
    BY <1>6 DEF OuterStep, Ask
  <2>2. g + 1 \in Nat /\ \A h \in 1..Len(Groups) : h <= g => h <= g + 1 /\ h # g + 1
    BY <1>0
  <2> QED
    BY <1>0, <2>1, <2>2 DEF Over
<1>7. CASE SetRetryConfig \/ Cancel \/ UNCHANGED vars
  <2>1. UNCHANGED <<phase, g, err, answers>>
    BY <1>7 DEF SetRetryConfig, Cancel, vars
  <2> QED
    BY <2>1 DEF Over
<1>8. "canceled" \in Kinds /\ Outcomes \subseteq Kinds
  BY OutcomeAssumption DEF Kinds
<1> QED
  BY <1>2, <1>3, <1>4, <1>5, <1>6, <1>7, <1>8 DEF Next, Step

-----------------------------------------------------------------------------
(* What a message carries *)

\* What is read of a message after each of its parts.
Reads(m, read) ==
    read[0] = Unread /\ \A k \in 1..Len(m) : read[k] = processPart(read[k - 1], m[k])

\* The reader goes through the parts in their order.
LEMMA ReadSteps ==
    ASSUME NEW Kept, NEW m \in Seq(Kept), NEW read, Reads(m, read)
    PROVE  FoldLeft(processPart, Unread, m) = read[Len(m)]
<1> DEFINE N == Len(m)
           Folds(f, k) == \A s \in SUBSET (1..k) :
               f[s] = IF s = {} THEN Unread ELSE processPart(f[s \ {Max(s)}], m[Max(s)])
           Unfolds(f) == f = [s \in SUBSET (1..N) |->
               IF s = {} THEN Unread ELSE processPart(f[s \ {Max(s)}], m[Max(s)])]
           iter == CHOOSE f : Unfolds(f)
<1>1. N \in Nat /\ DOMAIN m = 1..N
  OBVIOUS
<1> USE DEF Reads
<1>2. \A k \in Nat : \A s \in SUBSET (1..(k + 1)) : k + 1 \in s => Max(s) = k + 1
  <2> SUFFICES ASSUME NEW k \in Nat, NEW s \in SUBSET (1..(k + 1)), k + 1 \in s
               PROVE  Max(s) = k + 1
    OBVIOUS
  <2>1. \A y \in s : k + 1 >= y
    OBVIOUS
  <2>2. \A x \in s : (\A y \in s : x >= y) => x = k + 1
    <3> SUFFICES ASSUME NEW x \in s, \A y \in s : x >= y PROVE x = k + 1
      OBVIOUS
    <3>1. x >= k + 1 /\ k + 1 >= x /\ x \in Nat
      BY <2>1
    <3> QED
      BY <3>1
  <2> QED
    BY <2>1, <2>2 DEF Max
<1>3. \E f : Unfolds(f)
  <2> DEFINE Solves(f, k) == f = [s \in SUBSET (1..k) |-> f[s]] /\ Folds(f, k)
             S == {k \in 0..N : \E f : Solves(f, k)}
  <2>1. 0 \in S
    <3>1. Solves([s \in SUBSET (1..0) |-> Unread], 0)
      <4>1. \A s \in SUBSET (1..0) : s = {}
        OBVIOUS
      <4> QED
        BY <4>1
    <3> HIDE DEF Solves
    <3>2. \E f : Solves(f, 0)
      BY <3>1, Zenon
    <3> QED
      BY <1>1, <3>2
  <2>2. ASSUME NEW k \in 0..(N - 1), k \in S
        PROVE  k + 1 \in S
    <3>1. PICK f : Solves(f, k)
      BY <2>2
    <3> DEFINE h == [s \in SUBSET (1..(k + 1)) |->
                        IF k + 1 \in s THEN processPart(f[s \ {k + 1}], m[k + 1]) ELSE f[s]]
    <3>2. ASSUME NEW s \in SUBSET (1..(k + 1))
          PROVE  h[s] = IF s = {} THEN Unread ELSE processPart(h[s \ {Max(s)}], m[Max(s)])
      <4>1. CASE k + 1 \in s
        <5>1. Max(s) = k + 1
          BY <1>1, <1>2, <4>1
        <5>2. s \ {k + 1} \in SUBSET (1..(k + 1)) /\ k + 1 \notin s \ {k + 1} /\ s # {}
          BY <4>1
        <5>3. h[s] = processPart(f[s \ {k + 1}], m[k + 1]) /\ h[s \ {k + 1}] = f[s \ {k + 1}]
          BY <4>1, <5>2
        <5> HIDE DEF h
        <5> QED
          BY <5>1, <5>2, <5>3
      <4>2. CASE k + 1 \notin s
        <5>1. s \in SUBSET (1..k) /\ \A x : s \ {x} \in SUBSET (1..(k + 1)) /\ k + 1 \notin s \ {x}
          <6>1. \A y \in 1..(k + 1) : y # k + 1 => y \in 1..k
            BY <1>1
          <6> QED
            BY <4>2, <6>1
        <5>2. h[s] = f[s] /\ h[s \ {Max(s)}] = f[s \ {Max(s)}]
          BY <4>2, <5>1
        <5>3. f[s] = IF s = {} THEN Unread ELSE processPart(f[s \ {Max(s)}], m[Max(s)])
          BY <3>1, <5>1
        <5> HIDE DEF h
        <5> QED
          BY <5>2, <5>3
      <4> QED
        BY <4>1, <4>2
    <3>3. Solves(h, k + 1)
      <4>1. h = [s \in SUBSET (1..(k + 1)) |-> h[s]]
        OBVIOUS
      <4> HIDE DEF h
      <4> QED
        BY <3>2, <4>1
    <3> HIDE DEF Solves, h
    <3>4. \E e : Solves(e, k + 1)
      BY <3>3, Zenon
    <3> QED
      BY <1>1, <3>4
  <2>3. N \in S
    <3> HIDE DEF S, N
    <3>1. 0..N \subseteq S
      BY <1>1, <2>1, <2>2, Induction
    <3> QED
      BY <1>1, <3>1
  <2>4. PICK f : Solves(f, N)
    BY <2>3
  <2>5. Unfolds(f)
    BY <2>4
  <2> QED
    BY <2>5, Zenon
<1>4. Unfolds(iter)
  <2> HIDE DEF Unfolds
  <2> QED
    BY <1>3, Zenon
<1>5. Folds(iter, N)
  <2> HIDE DEF iter
  <2> QED
    BY <1>4
<1>6. FoldLeft(processPart, Unread, m) = iter[1..N]
  BY <1>1 DEF FoldLeft, MapThenFoldSet
<1> HIDE DEF iter
<1> DEFINE Right == {k \in 0..N : iter[1..k] = read[k]}
<1>7. 0 \in Right
  <2>1. 1..0 = {} /\ {} \in SUBSET (1..N) /\ 0 \in 0..N
    BY <1>1
  <2>2. iter[{}] = Unread
    BY <1>5, <2>1
  <2> QED
    BY <2>1, <2>2
<1>8. ASSUME NEW k \in 0..(N - 1), k \in Right
      PROVE  k + 1 \in Right
  <2>1. /\ 1..(k + 1) \in SUBSET (1..N) /\ 1..(k + 1) # {} /\ k + 1 \in 1..N
        /\ (1..(k + 1)) \ {k + 1} = 1..k /\ (k + 1) - 1 = k
    <3>1. k \in Nat /\ k + 1 \in 1..N /\ k + 1 \in 1..(k + 1) /\ (k + 1) - 1 = k
      BY <1>1
    <3>2. \A y \in 1..(k + 1) : y \in 1..N /\ (y # k + 1 => y \in 1..k)
      BY <1>1
    <3>3. \A y \in 1..k : y \in 1..(k + 1) /\ y # k + 1
      BY <3>1
    <3> HIDE DEF N
    <3> QED
      BY <3>1, <3>2, <3>3
  <2>2. Max(1..(k + 1)) = k + 1
    BY <1>1, <1>2, <2>1
  <2>3. iter[1..(k + 1)] = processPart(iter[1..k], m[k + 1])
    BY <1>5, <2>1, <2>2
  <2>4. read[k + 1] = processPart(read[k], m[k + 1])
    BY <2>1
  <2> QED
    BY <1>1, <1>8, <2>1, <2>3, <2>4
<1>9. 0..N \subseteq Right
  <2> HIDE DEF Right, N
  <2> QED
    BY <1>1, <1>7, <1>8, Induction
<1> QED
  BY <1>1, <1>6, <1>9

\* The attachments as parts of a message.
Files(atts) == [k \in DOMAIN atts |-> AttachmentPart(atts[k])]

\* An attachment as a reader gets it.
ReadBack(att) == [data |-> att.data, type |-> TypeOf(att), cid |-> att.cid]

AllReadBack(atts) == [k \in DOMAIN atts |-> ReadBack(atts[k])]

\* What the reader has of a message.
State(body, html, files) == [body |-> body, html |-> html, attachments |-> files, err |-> FALSE]

\* A part that is no attachment says what it is.
LEMMA PartIs ==
    ASSUME NEW t, NEW c, NEW d
    PROVE  Part(t, c, d).type = t /\ Part(t, c, d).content = c
  BY DEF Part

\* A multipart adds nothing of its own for the reader: messages are two levels deep.
LEMMA MultipartRead ==
    ASSUME NEW b, NEW h, NEW files, NEW d \in {0, 1}
    PROVE  /\ processPart(State(b, h, files), Multipart("multipart/mixed", d)) = State(b, h, files)
           /\ processPart(State(b, h, files), Multipart("multipart/alternative", d))
                = State(b, h, files)
<1>1. (d >= maxMultipartDepth) = FALSE
  BY DEF maxMultipartDepth
<1> QED
  BY <1>1 DEF State, processPart, IsMultipart, Multiparts, Part, Multipart

\* A text becomes the body of its type.
LEMMA BodyRead ==
    ASSUME NEW b, NEW h, NEW files, NEW d, NEW c
    PROVE  /\ processPart(State(b, h, files), Part("text/plain", c, d)) = State(c, h, files)
           /\ processPart(State(b, h, files), Part("text/html", c, d)) = State(b, c, files)
  BY DEF State, processPart, IsMultipart, Multiparts, Part, Multipart

\* No attachment is taken for a multipart, and each has a type.
LEMMA TypeIsSet ==
    ASSUME NEW f \in Attachment
    PROVE  TypeOf(f) \notin Multiparts /\ TypeOf(f) # ""
<1>1. f.type \notin Multiparts
  BY DEF Attachment
<1>2. DefaultType \notin Multiparts /\ DefaultType # ""
  BY DEF DefaultType, Multiparts
<1> QED
  BY <1>1, <1>2 DEF TypeOf

\* Any other part becomes an attachment, inline as it was.
LEMMA FileRead ==
    ASSUME NEW b, NEW h, NEW files, NEW f \in Attachment
    PROVE  processPart(State(b, h, files), AttachmentPart(f)) = State(b, h, Append(files, ReadBack(f)))
<1> DEFINE part == AttachmentPart(f)
<1>1. /\ part.type = TypeOf(f) /\ part.disposition \in {"inline", "attachment"}
      /\ part.content = f.data /\ part.cid = f.cid
  BY DEF AttachmentPart
<1> HIDE DEF part
<1>2. State(b, h, files).err = FALSE /\ State(b, h, files).attachments = files
  BY DEF State
<1>3. ~IsMultipart(part) /\ part.disposition # "none"
  BY <1>1, TypeIsSet DEF IsMultipart
<1>4. processPart(State(b, h, files), part)
        = [State(b, h, files) EXCEPT !.attachments = Append(files, ReadBack(f))]
  BY <1>1, <1>2, <1>3 DEF processPart, ReadBack
<1> QED
  BY <1>4 DEF State, part

\* The reader gets the attachments that follow the bodies, in their order.
LEMMA AttachmentsRead ==
    ASSUME NEW Leading, NEW prefix \in Seq(Leading), NEW read, NEW atts \in Seq(Attachment),
           Reads(prefix, read),
           NEW b, NEW h, read[Len(prefix)] = State(b, h, <<>>)
    PROVE  FoldLeft(processPart, Unread, prefix \o Files(atts))
             = State(b, h, AllReadBack(atts))
<1> DEFINE parts == Files(atts)
           m == prefix \o parts
           P == Len(prefix)
           backs == AllReadBack(atts)
           Readings == {ReadBack(f) : f \in Attachment}
           Kept == Leading \cup {AttachmentPart(f) : f \in Attachment}
           all == [k \in 0..(P + Len(atts)) |->
                      IF k <= P THEN read[k] ELSE State(b, h, SubSeq(backs, 1, k - P))]
<1>1. /\ P \in Nat /\ Len(atts) \in Nat /\ DOMAIN atts = 1..Len(atts)
      /\ \A k \in 1..Len(atts) : atts[k] \in Attachment
  OBVIOUS
<1>0. backs \in Seq(Readings) /\ Len(backs) = Len(atts)
      /\ \A k \in 1..Len(atts) : backs[k] = ReadBack(atts[k])
  BY <1>1 DEF AllReadBack
<1> HIDE DEF backs, Readings
<1>2. prefix \in Seq(Kept) /\ \A f \in Attachment : AttachmentPart(f) \in Kept
  BY <1>1
<1>3. parts \in Seq(Kept) /\ Len(parts) = Len(atts)
      /\ \A k \in 1..Len(atts) : parts[k] = AttachmentPart(atts[k])
  BY <1>1, <1>2 DEF Files
<1> HIDE DEF parts, Kept
<1>4. /\ m \in Seq(Kept) /\ Len(m) = P + Len(atts)
      /\ \A k \in 1..(P + Len(atts)) : m[k] = IF k <= P THEN prefix[k] ELSE parts[k - P]
  <2>1. m \in Seq(Kept)
    BY <1>2, <1>3
  <2>2. Len(prefix \o parts) = Len(prefix) + Len(parts)
    BY <1>2, <1>3, ConcatProperties
  <2>3. \A k \in 1..(Len(prefix) + Len(parts)) :
              (prefix \o parts)[k] = IF k <= Len(prefix) THEN prefix[k] ELSE parts[k - Len(prefix)]
    BY <1>2, <1>3, ConcatProperties
  <2> QED
    BY <1>3, <2>1, <2>2, <2>3
<1>5. SubSeq(backs, 1, 0) = <<>>
  BY SubSeqEmpty
<1>6. ASSUME NEW k \in 1..Len(atts)
      PROVE  /\ SubSeq(backs, 1, k - 1) \in Seq(Readings)
             /\ SubSeq(backs, 1, k) = Append(SubSeq(backs, 1, k - 1), backs[k])
  <2>1. SubSeq(backs, 1, k - 1) \in Seq(Readings)
    <3>1. \A j \in 1..(k - 1) : backs[j] \in Readings
      BY <1>0, <1>1
    <3> QED
      BY <3>1, SubSeqProperties
  <2>2. SubSeq(backs, 1, k) = SubSeq(backs, 1, k - 1) \o <<backs[k]>>
    <3>1. 1 \in 1..Len(backs) /\ k \in 1..Len(backs)
      BY <1>0, <1>1
    <3> QED
      BY <1>0, <3>1, SubSeqRecursiveSecond
  <2> QED
    BY <1>0, <1>1, <2>1, <2>2
<1>7. all[0] = Unread
  BY <1>1 DEF Reads
<1>8. \A k \in 0..P : all[k] = read[k]
  BY <1>1
<1>9. \A k \in 0..Len(atts) : all[P + k] = State(b, h, SubSeq(backs, 1, k))
  <2>1. all[P] = State(b, h, SubSeq(backs, 1, 0))
    <3>1. P \in 0..P
      BY <1>1
    <3> HIDE DEF all
    <3> QED
      BY <1>5, <1>8, <3>1
  <2>2. ASSUME NEW k \in 1..Len(atts) PROVE all[P + k] = State(b, h, SubSeq(backs, 1, k))
    <3>1. P + k \in 0..(P + Len(atts)) /\ ~(P + k <= P) /\ (P + k) - P = k
      BY <1>1
    <3> HIDE DEF P
    <3> QED
      BY <3>1
  <2>3. P + 0 = P
    BY <1>1
  <2>4. \A k \in 0..Len(atts) : k = 0 \/ k \in 1..Len(atts)
    BY <1>1
  <2> HIDE DEF all, P
  <2> QED
    BY <2>1, <2>2, <2>3, <2>4
<1> HIDE DEF all, m
<1>10. \A k \in 1..Len(m) : all[k] = processPart(all[k - 1], m[k])
  <2> TAKE k \in 1..Len(m)
  <2>1. CASE k <= P
    <3>1. k \in 1..P /\ k - 1 \in 0..P /\ k \in 0..P
      BY <1>1, <1>4, <2>1
    <3>2. m[k] = prefix[k]
      BY <1>4, <2>1
    <3>3. all[k] = read[k] /\ all[k - 1] = read[k - 1]
      BY <1>8, <3>1
    <3>4. read[k] = processPart(read[k - 1], prefix[k])
      BY <3>1 DEF Reads
    <3> QED
      BY <3>2, <3>3, <3>4
  <2>2. CASE ~(k <= P)
    <3> DEFINE j == k - P
    <3>1. j \in 1..Len(atts) /\ j - 1 \in 0..Len(atts) /\ k = P + j /\ k - 1 = P + (j - 1)
      BY <1>1, <1>4, <2>2
    <3> HIDE DEF j
    <3>2. m[k] = AttachmentPart(atts[j])
      BY <1>3, <1>4, <2>2, <3>1 DEF j
    <3>3. all[k - 1] = State(b, h, SubSeq(backs, 1, j - 1))
      BY <1>9, <3>1
    <3>4. all[k] = State(b, h, SubSeq(backs, 1, j))
      BY <1>1, <1>9, <3>1
    <3>5. SubSeq(backs, 1, j) = Append(SubSeq(backs, 1, j - 1), ReadBack(atts[j]))
      BY <1>0, <1>6, <3>1
    <3>6. atts[j] \in Attachment
      BY <1>1, <3>1
    <3>7. processPart(State(b, h, SubSeq(backs, 1, j - 1)), AttachmentPart(atts[j]))
            = State(b, h, Append(SubSeq(backs, 1, j - 1), ReadBack(atts[j])))
      BY <3>6, FileRead
    <3> QED
      BY <3>2, <3>3, <3>4, <3>5, <3>7
  <2> QED
    BY <2>1, <2>2
<1>11. FoldLeft(processPart, Unread, m) = all[Len(m)]
  BY <1>4, <1>7, <1>10, ReadSteps DEF Reads
<1>12. all[Len(m)] = State(b, h, backs)
  <2>1. SubSeq(backs, 1, Len(atts)) = backs
    BY <1>0, SubSeqFull
  <2>2. all[P + Len(atts)] = State(b, h, SubSeq(backs, 1, Len(atts)))
    BY <1>1, <1>9
  <2> QED
    BY <1>4, <2>1, <2>2
<1> QED
  BY <1>11, <1>12 DEF m, parts, backs

\* The texts that are there.
Given(texts) == {t \in texts : t[2] # "none"}

\* The texts of a rendered email, each with the type its reader sees.
TextsRendered(e) ==
    IF IsHTML(e.body) /\ ~e.html
    THEN {<<"text/html", e.body>>}
    ELSE Given(Typed(e.body, HTMLBody(e)))

\* What is given of one text, and of two.
LEMMA GivenTexts ==
    ASSUME NEW c, NEW h
    PROVE  /\ Given(Typed(c, "none")) = Given({<<"text/plain", c>>})
           /\ Given(Typed("none", c)) = Given({<<"text/html", c>>})
           /\ c # "none" => \A t : Given({<<t, c>>}) = {<<t, c>>}
  BY DEF Given, Typed

\* The only body, whichever field it is in.
LEMMA MainPartIs ==
    ASSUME NEW e \in Email, ~HasBothBodies(e), NEW d \in {0, 1}
    PROVE  \E t \in {"text/plain", "text/html"}, c \in {"none", "prose", "markup", "html"} :
              MainPart(e, d) = Part(t, c, d) /\ Given({<<t, c>>}) = TextsRendered(e)
<1>1. e.body \in {"none", "prose", "markup"} /\ e.html \in BOOLEAN
  BY DEF Email
<1>2. CASE e.body = "none" /\ e.html
  <2>1. MainPart(e, d) = Part("text/html", "html", d)
    BY <1>2 DEF MainPart
  <2>2. TextsRendered(e) = Given(Typed("none", "html"))
    BY <1>2 DEF TextsRendered, IsHTML, HTMLBody
  <2> QED
    BY <2>1, <2>2, GivenTexts
<1>3. CASE ~(e.body = "none" /\ e.html)
  <2>1. ~e.html
    BY <1>1, <1>3 DEF HasBothBodies
  <2>2. CASE e.body = "markup"
    <3>1. MainPart(e, d) = Part("text/html", "markup", d)
      BY <1>3, <2>2 DEF MainPart, IsHTML
    <3>2. TextsRendered(e) = {<<"text/html", "markup">>}
      BY <2>1, <2>2 DEF TextsRendered, IsHTML
    <3> QED
      BY <3>1, <3>2, GivenTexts
  <2>3. CASE e.body # "markup"
    <3>1. MainPart(e, d) = Part("text/plain", e.body, d)
      BY <1>3, <2>3 DEF MainPart, IsHTML
    <3>2. TextsRendered(e) = Given(Typed(e.body, "none"))
      BY <2>1, <2>3 DEF TextsRendered, IsHTML, HTMLBody
    <3> QED
      BY <1>1, <3>1, <3>2, GivenTexts
  <2> QED
    BY <2>2, <2>3
<1> QED
  BY <1>2, <1>3

\* What a message that was rendered holds for its reader.
LEMMA RawIsWhole ==
    ASSUME NEW e \in Email
    PROVE  /\ Given(IF IsMultipart(Head(buildBody(e)))
                    THEN Typed(ParseRawEmail(buildBody(e)).body, ParseRawEmail(buildBody(e)).html)
                    ELSE {<<Head(buildBody(e)).type, ParseRawEmail(buildBody(e)).body>>})
                = TextsRendered(e)
           /\ ParseRawEmail(buildBody(e)).attachments = AllReadBack(e.attachments)
<1> DEFINE held == TextsRendered(e)
           read == ParseRawEmail(buildBody(e))
           head == Head(buildBody(e))
           files == AllReadBack(e.attachments)
           Whole(r) == /\ Given(IF IsMultipart(head) THEN Typed(r.body, r.html) ELSE {<<head.type, r.body>>})
                             = held
                       /\ r.attachments = files
           parts == Files(e.attachments)
           mixed == Multipart("multipart/mixed", 0)
           alt(d) == Multipart("multipart/alternative", d)
           plain(d) == Part("text/plain", e.body, d)
           html(d) == Part("text/html", "html", d)
<1>1. /\ e.body \in {"none", "prose", "markup"} /\ e.html \in BOOLEAN
      /\ e.attachments \in Seq(Attachment)
  BY DEF Email
<1>2. Unread = State("none", "none", <<>>)
  BY DEF Unread, State
<1>3. \A b, h, fs : /\ State(b, h, fs).body = b /\ State(b, h, fs).html = h
                    /\ State(b, h, fs).attachments = fs
  BY DEF State
<1>4. IsMultipart(mixed) /\ IsMultipart(alt(0))
  BY DEF Multipart, Part, IsMultipart, Multiparts
<1>9. e.attachments = <<>> => files = <<>>
  BY DEF AllReadBack
<1>10. HasBothBodies(e) => held = Given(Typed(e.body, "html"))
  BY DEF HasBothBodies, TextsRendered, HTMLBody
<1>5. ASSUME e.attachments = <<>>, HasBothBodies(e)
      PROVE  Whole(read)
  <2> DEFINE m == <<alt(0), plain(1), html(1)>>
             Kept == {alt(0), plain(1), html(1)}
             r == [k \in 0..3 |-> CASE k = 0 -> Unread [] k = 1 -> Unread
                                    [] k = 2 -> State(e.body, "none", <<>>)
                                    [] k = 3 -> State(e.body, "html", <<>>)]
  <2>1. buildBody(e) = m
    BY <1>5 DEF buildBody, Bodies, Multipart
  <2>2. m \in Seq(Kept) /\ Len(m) = 3 /\ m[1] = alt(0) /\ m[2] = plain(1) /\ m[3] = html(1)
        /\ Head(m) = alt(0)
    <3> HIDE DEF alt, plain, html
    <3> QED
      OBVIOUS
  <2>3. r[0] = Unread /\ r[1] = Unread /\ r[2] = State(e.body, "none", <<>>)
        /\ r[3] = State(e.body, "html", <<>>)
    OBVIOUS
  <2>4. /\ processPart(Unread, alt(0)) = Unread
        /\ processPart(Unread, plain(1)) = State(e.body, "none", <<>>)
        /\ processPart(State(e.body, "none", <<>>), html(1)) = State(e.body, "html", <<>>)
    BY <1>2, MultipartRead, BodyRead
  <2> HIDE DEF m, r, alt, plain, html, Kept
  <2>5. Reads(m, r)
    <3>1. \A k \in 1..3 : k = 1 \/ k = 2 \/ k = 3
      OBVIOUS
    <3> QED
      BY <2>2, <2>3, <2>4, <3>1 DEF Reads
  <2>6. FoldLeft(processPart, Unread, m) = r[3]
    BY <2>2, <2>5, ReadSteps
  <2>7. read = State(e.body, "html", <<>>) /\ IsMultipart(head)
    BY <1>4, <2>1, <2>2, <2>3, <2>6 DEF ParseRawEmail
  <2> HIDE DEF held, read, head, files
  <2> QED
    BY <1>3, <1>5, <1>9, <1>10, <2>7
<1>6. ASSUME e.attachments = <<>>, ~HasBothBodies(e)
      PROVE  Whole(read)
  <2>1. PICK t \in {"text/plain", "text/html"}, c \in {"none", "prose", "markup", "html"} :
                 MainPart(e, 0) = Part(t, c, 0) /\ Given({<<t, c>>}) = held
    BY <1>6, MainPartIs
  <2>2. buildBody(e) = <<MainPart(e, 0)>> /\ Head(<<MainPart(e, 0)>>) = MainPart(e, 0)
    BY <1>6 DEF buildBody, Bodies
  <2>3. ~IsMultipart(MainPart(e, 0)) /\ MainPart(e, 0).content = c /\ MainPart(e, 0).type = t
    <3>1. MainPart(e, 0).type = t /\ MainPart(e, 0).content = c
      BY <2>1, PartIs
    <3>2. t \notin Multiparts
      BY DEF Multiparts
    <3> QED
      BY <3>1, <3>2 DEF IsMultipart
  <2>4. read = [Unread EXCEPT !.body = c]
    BY <2>2, <2>3 DEF ParseRawEmail
  <2>5. read = State(c, "none", <<>>)
    BY <2>4 DEF Unread, State
  <2>6. head = MainPart(e, 0)
    BY <2>2
  <2>7. files = <<>>
    BY <1>6, <1>9
  <2> HIDE DEF held, read, head, files
  <2>8. read.body = c /\ read.attachments = files
    BY <1>3, <2>5, <2>7
  <2>9. ~IsMultipart(head) /\ head.type = t
    BY <2>3, <2>6
  <2> QED
    BY <2>1, <2>8, <2>9
<1>7. ASSUME e.attachments # <<>>, HasBothBodies(e)
      PROVE  Whole(read)
  <2> DEFINE prefix == <<mixed>> \o <<alt(1), plain(2), html(2)>>
             Kept == {mixed, alt(1), plain(2), html(2)}
             r == [k \in 0..4 |-> CASE k = 0 -> Unread [] k = 1 -> Unread [] k = 2 -> Unread
                                    [] k = 3 -> State(e.body, "none", <<>>)
                                    [] k = 4 -> State(e.body, "html", <<>>)]
  <2>1. buildBody(e) = prefix \o parts
    BY <1>7 DEF buildBody, Bodies, Files
  <2>2. /\ prefix \in Seq(Kept) /\ Len(prefix) = 4 /\ prefix[1] = mixed /\ prefix[2] = alt(1)
        /\ prefix[3] = plain(2) /\ prefix[4] = html(2)
    <3> HIDE DEF mixed, alt, plain, html
    <3>1. <<mixed>> \in Seq(Kept) /\ <<alt(1), plain(2), html(2)>> \in Seq(Kept)
      OBVIOUS
    <3> HIDE DEF Kept
    <3>2. <<mixed>> \o <<alt(1), plain(2), html(2)>> \in Seq(Kept)
      BY <3>1
    <3> QED
      BY <3>1, <3>2
  <2>3. r[0] = Unread /\ r[1] = Unread /\ r[2] = Unread /\ r[3] = State(e.body, "none", <<>>)
        /\ r[4] = State(e.body, "html", <<>>)
    OBVIOUS
  <2>4. /\ processPart(Unread, mixed) = Unread
        /\ processPart(Unread, alt(1)) = Unread
        /\ processPart(Unread, plain(2)) = State(e.body, "none", <<>>)
        /\ processPart(State(e.body, "none", <<>>), html(2)) = State(e.body, "html", <<>>)
    BY <1>2, MultipartRead, BodyRead
  <2>5. Head(prefix \o parts) = mixed
    BY DEF Files
  <2> HIDE DEF prefix, parts, Kept, r, mixed, alt, plain, html
  <2>6. Reads(prefix, r)
    <3>1. \A k \in 1..4 : k = 1 \/ k = 2 \/ k = 3 \/ k = 4
      OBVIOUS
    <3> QED
      BY <2>2, <2>3, <2>4, <3>1 DEF Reads
  <2>7. r[Len(prefix)] = State(e.body, "html", <<>>)
    BY <2>2, <2>3
  <2>8. FoldLeft(processPart, Unread, prefix \o parts) = State(e.body, "html", files)
    <3>1. \A atts \in Seq(Attachment) :
             FoldLeft(processPart, Unread, prefix \o Files(atts)) = State(e.body, "html", AllReadBack(atts))
      <4> DEFINE b == e.body
                 h == "html"
      <4>1. prefix \in Seq(Kept) /\ Reads(prefix, r) /\ r[Len(prefix)] = State(b, h, <<>>)
        BY <2>2, <2>6, <2>7
      <4> HIDE DEF b, h
      <4>2. \A atts \in Seq(Attachment) :
             FoldLeft(processPart, Unread, prefix \o Files(atts)) = State(b, h, AllReadBack(atts))
        BY <4>1, AttachmentsRead
      <4> QED
        BY <4>2 DEF b, h
    <3> QED
      BY <1>1, <3>1 DEF parts
  <2>9. read = State(e.body, "html", files) /\ IsMultipart(head)
    BY <1>4, <2>1, <2>5, <2>8 DEF ParseRawEmail
  <2> HIDE DEF held, read, head, files
  <2> QED
    BY <1>3, <1>7, <1>10, <2>9
<1>8. ASSUME e.attachments # <<>>, ~HasBothBodies(e)
      PROVE  Whole(read)
  <2> DEFINE body == MainPart(e, 1)
             prefix == <<mixed>> \o <<body>>
             Kept == {mixed, body}
             r == [k \in 0..2 |-> IF k = 2 THEN processPart(Unread, body) ELSE Unread]
  <2>1. PICK t \in {"text/plain", "text/html"}, c \in {"none", "prose", "markup", "html"} :
            body = Part(t, c, 1) /\ Given({<<t, c>>}) = held
    BY <1>8, MainPartIs
  <2>3. buildBody(e) = prefix \o parts
    BY <1>8 DEF buildBody, Bodies, Files
  <2> HIDE DEF body
  <2>4. prefix \in Seq(Kept) /\ Len(prefix) = 2 /\ prefix[1] = mixed /\ prefix[2] = body
    <3> HIDE DEF mixed
    <3>1. <<mixed>> \in Seq(Kept) /\ <<body>> \in Seq(Kept)
      OBVIOUS
    <3> HIDE DEF Kept
    <3>2. <<mixed>> \o <<body>> \in Seq(Kept)
      BY <3>1
    <3> QED
      BY <3>1, <3>2
  <2>5. r[0] = Unread /\ r[1] = Unread /\ r[2] = processPart(Unread, body)
    OBVIOUS
  <2>6. processPart(Unread, mixed) = Unread
    BY <1>2, MultipartRead, BodyRead
  <2>7. Head(prefix \o parts) = mixed
    BY DEF Files
  <2> HIDE DEF prefix, parts, Kept, r, mixed
  <2>8. Reads(prefix, r)
    <3>1. \A k \in 1..2 : k = 1 \/ k = 2
      OBVIOUS
    <3> QED
      BY <2>4, <2>5, <2>6, <3>1 DEF Reads
  <2>9. ASSUME NEW b, NEW h, Given(Typed(b, h)) = held, processPart(Unread, body) = State(b, h, <<>>)
        PROVE  Whole(read)
    <3>1. r[Len(prefix)] = State(b, h, <<>>)
      BY <2>4, <2>5, <2>9
    <3>2. FoldLeft(processPart, Unread, prefix \o parts) = State(b, h, files)
      <4>1. \A atts \in Seq(Attachment) :
               FoldLeft(processPart, Unread, prefix \o Files(atts)) = State(b, h, AllReadBack(atts))
        <5>1. prefix \in Seq(Kept) /\ Reads(prefix, r) /\ r[Len(prefix)] = State(b, h, <<>>)
          BY <2>4, <2>8, <3>1
        <5> QED
          BY <5>1, AttachmentsRead
      <4> QED
        BY <1>1, <4>1 DEF parts
    <3>3. read = State(b, h, files) /\ IsMultipart(head)
      BY <1>4, <2>3, <2>7, <3>2 DEF ParseRawEmail
    <3> HIDE DEF held, read, head, files
    <3> QED
      BY <1>3, <2>9, <3>3
  <2>11. CASE t = "text/plain"
    <3>1. processPart(Unread, body) = State(c, "none", <<>>)
      BY <1>2, <2>1, <2>11, BodyRead
    <3> QED
      <4>1. Given(Typed(c, "none")) = held
        BY <2>1, <2>11, GivenTexts
      <4> HIDE DEF Whole
      <4> QED
        BY <2>9, <3>1, <4>1
  <2>12. CASE t = "text/html"
    <3>1. processPart(Unread, body) = State("none", c, <<>>)
      BY <1>2, <2>1, <2>12, BodyRead
    <3> QED
      <4>1. Given(Typed("none", c)) = held
        BY <2>1, <2>12, GivenTexts
      <4> HIDE DEF Whole
      <4> QED
        BY <2>9, <3>1, <4>1
  <2> QED
    BY <2>1, <2>11, <2>12
<1> QED
  BY <1>5, <1>6, <1>7, <1>8

\* A reader who is given the files of a message sees what their sender gave.
LEMMA ShownAsSent ==
    ASSUME NEW e \in Email
    PROVE  ShownAll(AllReadBack(e.attachments)) = ShownAll(e.attachments)
<1>1. e.attachments \in Seq(Attachment)
  BY DEF Email
<1>2. \A k \in DOMAIN e.attachments : e.attachments[k] \in Attachment
  BY <1>1
<1>3. ASSUME NEW f \in Attachment PROVE Shown(ReadBack(f)) = Shown(f)
  <2>1. TypeOf(ReadBack(f)) = TypeOf(f)
    BY TypeIsSet DEF ReadBack, TypeOf
  <2> QED
    BY <2>1 DEF Shown, ReadBack
<1>4. DOMAIN AllReadBack(e.attachments) = DOMAIN e.attachments
      /\ \A k \in DOMAIN e.attachments : AllReadBack(e.attachments)[k] = ReadBack(e.attachments[k])
  BY DEF AllReadBack
<1> QED
  BY <1>2, <1>3, <1>4 DEF ShownAll

\* What a rendered message carries.
LEMMA RawCarries ==
    ASSUME NEW e \in Email
    PROVE  CarriedRaw(e) = [texts |-> TextsRendered(e), files |-> ShownAll(e.attachments),
                            headers |-> Contents(e).headers]
<1> DEFINE read == ParseRawEmail(buildBody(e))
           head == Head(buildBody(e))
           texts == IF IsMultipart(head) THEN Typed(read.body, read.html) ELSE {<<head.type, read.body>>}
<1>1. Given(texts) = TextsRendered(e) /\ read.attachments = AllReadBack(e.attachments)
  BY RawIsWhole
<1>2. CarriedRaw(e) = Content(texts, ShownAll(read.attachments), buildHeaders(e))
  BY DEF CarriedRaw
<1> HIDE DEF read, head, texts
<1>3. buildHeaders(e) \ {"Date", "Message-ID"} = Contents(e).headers
  BY DEF buildHeaders, CustomHeaders, Contents, Content
<1>4. CarriedRaw(e) = [texts |-> Given(texts), files |-> ShownAll(read.attachments),
                       headers |-> buildHeaders(e) \ {"Date", "Message-ID"}]
  BY <1>2 DEF Content, Given
<1> QED
  BY <1>1, <1>3, <1>4, ShownAsSent

\* What whoever accepts an email shows of it.
LEMMA CarriedIsWhole ==
    ASSUME NEW a \in Apis, NEW e \in Email
    PROVE  /\ Carried(a, e).texts = IF Renders(a, e) /\ IsHTML(e.body) /\ ~e.html
                                    THEN {<<"text/html", e.body>>} ELSE Contents(e).texts
           /\ Carried(a, e).files =
                 IF a = "mailgun"
                 THEN [k \in DOMAIN e.attachments |->
                          [Shown(e.attachments[k]) EXCEPT !.type = DefaultType, !.cid = ""]]
                 ELSE ShownAll(e.attachments)
           /\ Carried(a, e).headers = Contents(e).headers
<1>1. /\ Contents(e).texts = Given(Typed(e.body, HTMLBody(e)))
      /\ Contents(e).files = ShownAll(e.attachments)
      /\ Contents(e).headers = CustomHeaders(e.headers) \ {"Date", "Message-ID"}
  BY DEF Contents, Content, Given
<1>2. CASE Renders(a, e)
  <2>1. Carried(a, e) = CarriedRaw(e) /\ a # "mailgun"
    BY <1>2 DEF Carried, Renders
  <2> QED
    BY <1>1, <1>2, <2>1, RawCarries DEF TextsRendered
<1>3. CASE a = "ses" /\ ~NeedsRaw(e)
  <2>1. Carried(a, e) = Content(Typed(e.body, HTMLBody(e)), <<>>, {}) /\ ~Renders(a, e)
    BY <1>3 DEF Carried, CarriedSimple, Renders
  <2>2. e.attachments = <<>> /\ e.headers = {}
    BY <1>3 DEF NeedsRaw
  <2>3. ShownAll(<<>>) = <<>> /\ CustomHeaders({}) = {}
    BY DEF ShownAll, CustomHeaders
  <2> QED
    BY <1>1, <1>3, <2>1, <2>2, <2>3 DEF Content, Given
<1>4. CASE a = "sendgrid"
  <2>1. Carried(a, e) = SendGridShows(SendGridRequest(e)) /\ ~Renders(a, e)
    BY <1>4 DEF Carried, Renders
  <2>2. SendGridShows(SendGridRequest(e)).files = ShownAll(e.attachments)
    BY DEF SendGridShows, SendGridRequest, Content, ShownAll, Shown, TypeOf
  <2>3. /\ SendGridShows(SendGridRequest(e)).texts = Given(Typed(e.body, HTMLBody(e)))
        /\ SendGridShows(SendGridRequest(e)).headers = CustomHeaders(e.headers) \ {"Date", "Message-ID"}
    BY DEF SendGridShows, SendGridRequest, Content, Given
  <2> QED
    BY <1>1, <1>4, <2>1, <2>2, <2>3
<1>5. CASE a = "mailgun"
  <2>1. Carried(a, e) = MailgunShows(MailgunForm(e)) /\ ~Renders(a, e)
    BY <1>5 DEF Carried, Renders
  <2>2. MailgunShows(MailgunForm(e)).files =
           [k \in DOMAIN e.attachments |-> [Shown(e.attachments[k]) EXCEPT !.type = DefaultType, !.cid = ""]]
    BY DEF MailgunShows, MailgunForm, Content, Shown
  <2>3. /\ MailgunShows(MailgunForm(e)).texts = Given(Typed(e.body, HTMLBody(e)))
        /\ MailgunShows(MailgunForm(e)).headers = CustomHeaders(e.headers) \ {"Date", "Message-ID"}
    BY DEF MailgunShows, MailgunForm, Content, Given
  <2> QED
    BY <1>1, <1>5, <2>1, <2>2, <2>3
<1>6. CASE a = "postmark"
  <2>1. Carried(a, e) = PostmarkShows(PostmarkRequest(e)) /\ ~Renders(a, e)
    BY <1>6 DEF Carried, Renders
  <2>2. PostmarkShows(PostmarkRequest(e)).files = ShownAll(e.attachments)
    BY DEF PostmarkShows, PostmarkRequest, Content, ShownAll, Shown, TypeOf
  <2>3. /\ PostmarkShows(PostmarkRequest(e)).texts = Given(Typed(e.body, HTMLBody(e)))
        /\ PostmarkShows(PostmarkRequest(e)).headers = CustomHeaders(e.headers) \ {"Date", "Message-ID"}
    BY DEF PostmarkShows, PostmarkRequest, Content, Given
  <2> QED
    BY <1>1, <1>6, <2>1, <2>2, <2>3
<1> QED
  BY <1>2, <1>3, <1>4, <1>5, <1>6 DEF Apis, Renders

\* A message is accepted whole, but for what is known to be lost.
LEMMA DroppedStep ==
    ASSUME WalkShape, NothingDropped, [Next]_vars
    PROVE  NothingDropped'
<1> USE DEF setup, retry
<1>1. CASE AttemptSucceeds
  <2>1. /\ phase = "calling" /\ received' = Carried(api[Provider], email)
        /\ UNCHANGED <<api, email>> /\ Provider' = Provider
    BY <1>1 DEF AttemptSucceeds, Provider
  <2>2. Provider \in Providers
    BY <2>1 DEF WalkShape, Asking, Retrying
  <2>3. api[Provider] \in Apis /\ email \in Email
    BY <2>2, SetupAssumption DEF WalkShape
  <2>4. /\ received'.texts = TextsSent
        /\ received'.files = FilesSent
        /\ received'.headers = Contents(email).headers
    BY <2>1, <2>3, CarriedIsWhole DEF TextsSent, FilesSent
  <2>5. TextsSent' = TextsSent /\ FilesSent' = FilesSent /\ Contents(email)' = Contents(email)
    BY <2>1 DEF TextsSent, FilesSent
  <2> QED
    BY <2>4, <2>5 DEF NothingDropped
<1>2. ASSUME ~AttemptSucceeds, result' = "sent"
      PROVE  NothingDropped'
  <2>1. result = "sent" /\ UNCHANGED <<received, email, api>>
    BY <1>2 DEF Next, Step, Prepare, BeginAttempt, AttemptFails, TimerFires, Cancelled,
                GroupStep, OuterStep, SetRetryConfig, Cancel, vars
  <2>2. phase = "done"
    BY <2>1 DEF WalkShape
  <2>3. Provider' = Provider
    BY <1>2, <2>2 DEF Next, Step, Prepare, BeginAttempt, AttemptFails, TimerFires, Cancelled,
                      GroupStep, OuterStep, SetRetryConfig, Cancel, vars, Provider
  <2>4. TextsSent' = TextsSent /\ FilesSent' = FilesSent /\ Contents(email)' = Contents(email)
    BY <2>1, <2>3 DEF TextsSent, FilesSent
  <2> QED
    BY <2>1, <2>4 DEF NothingDropped
<1> QED
  BY <1>1, <1>2 DEF NothingDropped

-----------------------------------------------------------------------------
(* The theorems *)

\* Nobody has been asked when Send is called.
LEMMA InitWalk == Init => IInv /\ Over /\ Spent
<1> SUFFICES ASSUME Init PROVE IInv /\ Over /\ Spent
  OBVIOUS
<1> USE DEF Init
<1>1. 1 \in DOMAIN Groups
  BY GroupsAssumption
<1>2. WalkShape
  <2>1. /\ EntryPhase(1) \in {"prepare", "groupFailed"}
        /\ EntryPhase(1) = "prepare" => /\ First(1) \in DOMAIN Groups[1]
                                        /\ Groups[1][First(1)] \in Providers
        /\ EntryErr(1) \in Seq(Kinds)
    BY <1>1, Entry
  <2>2. config.MaxRetries \in Nat
    BY ConfigShape
  <2>3. <<>> \in Seq(Kinds)
    OBVIOUS
  <2> QED
    BY <1>1, <2>1, <2>2, <2>3 DEF WalkShape, Asking, Retrying, Phases, Provider
<1>3. NothingUnsaid /\ Over /\ NothingDropped
  BY DEF NothingUnsaid, Over, NothingDropped
<1>4. Spent
  <2>1. phase \in {"prepare", "groupFailed"}
    BY <1>1, Entry
  <2> QED
    BY <2>1 DEF Spent, Left, Retrying
<1> QED
  BY <1>2, <1>3, <1>4 DEF IInv

\* Wherever the walk of a failover has come, Retry is within its configuration, every
\* provider that was asked is heard among the errors, and what was accepted is whole.
THEOREM FailoverInvariance == Spec => []IInv
<1>1. IInv /\ [Next]_vars => IInv'
  BY WalkStep, SaidStep, DroppedStep DEF IInv
<1> QED
  BY <1>1, InitWalk, PTL DEF Spec

\* ses.Send's "no part of the Email is silently dropped": for every email, and providers
\* of any APIs, whoever accepts the message after whichever failures of others shows all
\* that the email holds for its reader, but for the type of a sniffed Body and what
\* Mailgun's form has no place for.
THEOREM NothingIsDropped == Spec => []NothingDropped
<1>1. IInv => NothingDropped
  BY DEF IInv
<1> QED
  BY <1>1, FailoverInvariance, PTL

\* "Every sender's error is joined into the returned error": a Send that fails says what
\* every provider that was asked answered, however the senders are grouped.
THEOREM FailureSaysWhatEachDid == Spec => []FailureSaysAll
<1>1. IInv => FailureSaysAll
  <2> SUFFICES ASSUME IInv, result = "failed", NEW p \in Providers,
                      tries[p] > 0 \/ \E a \in answers : a[1] = p
               PROVE  \E a \in answers : a[1] = p /\ a[2] \in ToSet(outer)
    BY DEF FailureSaysAll
  <2>1. phase # "calling" /\ result # "sent"
    BY DEF IInv, WalkShape
  <2>2. \E a \in answers : a[1] = p
    BY <2>1 DEF IInv, NothingUnsaid
  <2> QED
    BY <2>2 DEF IInv, NothingUnsaid, SaidIn
<1> QED
  BY <1>1, FailoverInvariance, PTL

\* A Send that fails on a live context, without a rejection and without a timeout of a
\* provider's own, has spent every attempt that Retry was configured for when it began at
\* each provider, whatever errors the attempts ended with and whenever SetRetryConfig comes.
THEOREM TransientErrorsAreRetried == Spec => []TransientIsRetried
<1>1. IInv /\ Spent /\ [Next]_vars => Spent'
  BY SpentStep DEF IInv
<1>2. Spec => []Spent
  BY <1>1, InitWalk, FailoverInvariance, PTL DEF Spec
<1>3. IInv /\ Spent => TransientIsRetried
  <2> SUFFICES ASSUME IInv, Spent, result = "failed", ~ctxDone, ~Rejected, ~TimedOut,
                      NEW p \in Providers
               PROVE  tries[p] = allowed[p]
    BY DEF TransientIsRetried
  <2>1. tries[p] + Left(p) = allowed[p]
    BY DEF Spent
  <2>2. phase = "done" /\ tries[p] \in Nat
    BY DEF IInv, WalkShape, Phases
  <2>3. Left(p) = 0
    BY <2>2 DEF Left, Retrying
  <2> QED
    BY <2>1, <2>2, <2>3
<1> QED
  BY <1>2, <1>3, FailoverInvariance, PTL

\* Only an attempt is counted, and only a live context has one made.
LEMMA OnlyAttempts ==
    ASSUME [Next]_vars, tries' # tries
    PROVE  BeginAttempt
  BY DEF Next, Step, Prepare, AttemptSucceeds, AttemptFails, TimerFires, Cancelled,
         GroupStep, OuterStep, SetRetryConfig, Cancel, vars

\* "Context cancellation stops the walk": once the context is dead no provider is asked
\* again.
THEOREM CancellationIsFinal == Spec => CancelIsFinal
<1>1. [Next]_vars => [ctxDone => tries' = tries]_vars
  BY OnlyAttempts DEF BeginAttempt
<1> QED
  BY <1>1, PTL DEF Spec, CancelIsFinal

\* A sender whose provider rejected the message asks none of its others, if no provider
\* is in two groups: a group with a transient error before its rejection is walked past.
THEOREM RejectionEndsTheGroup ==
    ASSUME \A h1, h2 \in DOMAIN Groups :
              h1 # h2 => ToSet(Groups[h1]) \cap ToSet(Groups[h2]) \subseteq {Nil}
    PROVE  Spec => RejectionEndsGroup
<1> DEFINE Kept == \A a \in answers : a[2] \in {"permanent", "badRequest"} =>
                      \A h \in DOMAIN Groups : a[1] \in ToSet(Groups[h]) =>
                          \A p \in ToSet(Groups[h]) \ {Nil} : tries'[p] = tries[p]
<1>1. IInv /\ Over /\ [Next]_vars => Over'
  BY OverStep DEF IInv
<1>2. Spec => []Over
  BY <1>1, InitWalk, FailoverInvariance, PTL DEF Spec
<1>3. IInv /\ Over /\ [Next]_vars => [Kept]_vars
  <2> SUFFICES ASSUME IInv, Over, BeginAttempt,
                      NEW a \in answers, a[2] \in {"permanent", "badRequest"},
                      NEW h \in DOMAIN Groups, a[1] \in ToSet(Groups[h]),
                      NEW p \in ToSet(Groups[h]) \ {Nil}
               PROVE  tries'[p] = tries[p]
    BY OnlyAttempts
  <2>1. phase = "attempt" /\ tries' = [tries EXCEPT ![Provider] = @ + 1]
    BY DEF BeginAttempt
  <2>2. i \in DOMAIN Groups[g] /\ Provider \in Providers /\ g \in DOMAIN Groups
        /\ answers \subseteq Providers \X Kinds /\ tries \in [Providers -> Nat]
    BY <2>1 DEF IInv, WalkShape, Asking
  <2>3. PICK h1 \in DOMAIN Groups : a[1] \in ToSet(Groups[h1]) /\ h1 # g
    BY <2>1 DEF Over
  <2>4. a[1] \in Providers /\ a[1] # Nil
    <3>1. a[1] \in Providers
      BY <2>2
    <3> QED
      BY <3>1 DEF Providers
  <2>5. h1 = h
    BY <2>3, <2>4
  <2>6. Provider \in ToSet(Groups[g])
    BY <2>2 DEF Provider, ToSet
  <2>7. p # Provider
    BY <2>2, <2>3, <2>5, <2>6
  <2> QED
    BY <2>1, <2>2, <2>7
<1> QED
  BY <1>2, <1>3, FailoverInvariance, PTL DEF Spec, RejectionEndsGroup
=============================================================================
