---------------------------- MODULE ReceiverProofs ----------------------------
(***************************************************************************)
(* Proofs about the receivers, for every mailbox, limit, number of workers *)
(* and of retries.  IMAP, of ImapReceive and the fetch under it: one       *)
(* command at a time on the connection, nothing marked \Seen is forgotten, *)
(* and a call that reports no error returns the newest messages.  POP3, of *)
(* Pop3Receive: deletion after retrieval loses no mail where the server    *)
(* cannot refuse a DELE, or nobody tries again.  And the operations that   *)
(* change an IMAP mailbox, of ImapMailbox: for every set of callers,       *)
(* messages and calls, with and without MOVE, however many commands fail   *)
(* and are retried, no message is lost and what is reported done is.       *)
(***************************************************************************)
EXTENDS ImapReceive, Pop3Receive, ImapMailbox, SequenceLemmas, FiniteSetTheorems

-----------------------------------------------------------------------------
(* The inductive invariant *)

\* Every update on the wire is about a message of its own.
WireShape == wire <= arrived

\* Only Idle has an IDLE goroutine, and it does not look at the mailbox before done
\* has told it of that goroutine's end.
IdleShape ==
    /\ mode # "idle" => ~idler /\ loc \in {"connect", "search", "fetch", "logout", "decide", "ended"}
    /\ mode = "idle" => loc # "decide"
    /\ idler => loc \in {"waiting", "ending", "leaving", "logout", "ended"} /\ idleDone = "none"

\* The messages of the FETCH are in the order of arrival, and each is lost from the
\* pipeline only because it cannot be parsed or the context is done.
FetchShape ==
    /\ batch \in Seq(1..arrived) /\ Ascending(batch)
    /\ done \in {"running", "ok", "error"}
    /\ done = "ok" => got = Len(batch)
    /\ forwarded < read => ctxDone
    /\ parsing \in [Workers -> 0..taken]
    /\ \A w \in left : w \in Workers /\ parsing[w] = 0
    /\ \A p \in collected : batch[p] \notin Unreadable
    /\ \A p \in 1..taken : \/ p \in collected \/ batch[p] \in Unreadable
                           \/ ctxDone \/ \E w \in Workers : parsing[w] = p
    /\ left = Workers => ctxDone \/ Drained

\* "unseen" says what Search asks for, and an attempt that failed has changed it.
SameQuestion == mode # "idle" /\ (mode = "unseen" => attempt = 0)

\* What Receive and Search fetch is the end of the mailbox as they found it, and what
\* they return without an error is the readable part of it.
Newest ==
    LET n == IF batch = <<>> THEN 0 ELSE Last(batch)
    IN  /\ n >= initial
        /\ ToSet(emails) = {m \in 1..n : m > n - Limit /\ m \notin Unreadable}
        /\ \A k, l \in DOMAIN emails : k < l => emails[k] > emails[l]

AnswerShape ==
    /\ initial <= arrived
    /\ mode # "idle" /\ loc \in {"search", "fetch"} => ~err
    /\ mode = "unseen" /\ attempt = 0 /\ loc \in {"connect", "search"} => seen = {}
    /\ SameQuestion /\ loc = "fetch" =>
          \E n \in 1..arrived : n >= initial /\ batch = LastOf(UpTo(n), Limit)
    /\ SameQuestion /\ ~err /\ loc \in {"logout", "decide", "ended"} => Newest

\* What Idle has fetched for its caller is marked, and what a FETCH is about to mark
\* is not among it.
MailShape ==
    mode = "idle" /\ ~Quit =>
        LET ahead == handed \o emailChan \o emails
        IN  /\ loc # "deliver" => emails = <<>>
            /\ ToSet(ahead) \subseteq seen
            /\ loc = "fetch" => /\ ToSet(batch) \cap ToSet(ahead) = {}
                                /\ \A p \in 1..got : batch[p] \in seen

\* The invariant of the call.
IInv ==
    /\ TypeOK /\ WireShape /\ IdleShape /\ FetchShape /\ AnswerShape
    /\ MailShape /\ NothingForgotten

-----------------------------------------------------------------------------
(* Selecting from a sequence *)

\* The elements at some positions, and no other.
LEMMA AtPositionsElements ==
    ASSUME NEW S, NEW s \in Seq(S), NEW P
    PROVE  /\ AtPositions(s, P) \in Seq(S)
           /\ ToSet(AtPositions(s, P)) = {s[k] : k \in P \cap DOMAIN s}
<1> DEFINE seqs == [k \in 1..Len(s) |-> IF k \in P THEN <<s[k]>> ELSE <<>>]
<1>1. Len(s) \in Nat /\ DOMAIN s = 1..Len(s) /\ \A k \in 1..Len(s) : s[k] \in S
  OBVIOUS
<1>2. \A x \in S : <<x>> \in Seq(S) /\ ToSet(<<x>>) = {x}
  BY DEF ToSet
<1>3. <<>> \in Seq(S) /\ ToSet(<<>>) = {}
  BY DEF ToSet
<1>4. seqs \in [1..Len(s) -> Seq(S)]
  BY <1>1, <1>2, <1>3
<1>5. /\ seqs \in Seq(Seq(S)) /\ Len(seqs) = Len(s)
      /\ \A k \in 1..Len(s) : ToSet(seqs[k]) = IF k \in P THEN {s[k]} ELSE {}
  <2>1. seqs \in Seq(Seq(S))
    <3> HIDE DEF seqs
    <3> QED
      BY <1>1, <1>4, SeqDef
  <2>2. Len(seqs) = Len(s)
    BY <1>1, <2>1
  <2>3. \A k \in 1..Len(s) : ToSet(seqs[k]) = IF k \in P THEN {s[k]} ELSE {}
    BY <1>1, <1>2, <1>3
  <2> HIDE DEF seqs
  <2> QED
    BY <2>1, <2>2, <2>3
<1>6. FlattenSeq(seqs) \in Seq(S)
      /\ ToSet(FlattenSeq(seqs)) = UNION {ToSet(seqs[k]) : k \in 1..Len(s)}
  <2> HIDE DEF seqs
  <2> QED
    BY <1>5, FlattenSeqElements
<1>7. UNION {ToSet(seqs[k]) : k \in 1..Len(s)} = {s[k] : k \in P \cap DOMAIN s}
  <2> HIDE DEF seqs
  <2> QED
    BY <1>1, <1>5
<1> QED
  BY <1>6, <1>7 DEF AtPositions

\* They are in the order of the sequence, and all of them are the sequence.
LEMMA AtPositionsOrder ==
    ASSUME NEW s \in Seq(Int), Ascending(s), NEW P
    PROVE  /\ Ascending(AtPositions(s, P))
           /\ DOMAIN s \subseteq P => AtPositions(s, P) = s
<1> DEFINE n == Len(s)
           seqs == [k \in 1..n |-> IF k \in P THEN <<s[k]>> ELSE <<>>]
<1>1. n \in Nat /\ DOMAIN s = 1..n /\ \A k \in 1..n : s[k] \in Int
  OBVIOUS
<1>2. seqs \in [1..n -> Seq(Int)]
  BY <1>1
<1>3. /\ seqs \in Seq(Seq(Int)) /\ Len(seqs) = n
      /\ \A k \in 1..n : seqs[k] = IF k \in P THEN <<s[k]>> ELSE <<>>
  <2>1. seqs \in Seq(Seq(Int))
    <3> HIDE DEF seqs, n
    <3> QED
      BY <1>1, <1>2, SeqDef
  <2>2. Len(seqs) = n
    BY <1>1, <2>1
  <2>3. \A k \in 1..n : seqs[k] = IF k \in P THEN <<s[k]>> ELSE <<>>
    BY <1>1
  <2> HIDE DEF seqs
  <2> QED
    BY <2>1, <2>2, <2>3
<1> HIDE DEF seqs
<1>4. PICK g \in [0..n -> Seq(Int)] :
         /\ g[0] = <<>>
         /\ \A k \in 1..n : g[k] = g[k - 1] \o seqs[k]
         /\ FlattenSeq(seqs) = g[n]
  <2>1. \E g \in [0..Len(seqs) -> Seq(Int)] :
           /\ g[0] = <<>>
           /\ \A k \in 1..Len(seqs) : g[k] = g[k - 1] \o seqs[k]
           /\ FlattenSeq(seqs) = g[Len(seqs)]
    BY <1>3, FlattenSeqSteps
  <2> QED
    BY <1>3, <2>1
<1>5. ASSUME NEW k \in 0..(n - 1)
      PROVE  /\ k + 1 \in 1..n /\ g[k] \in Seq(Int) /\ s[k + 1] \in Int
             /\ g[k + 1] = IF k + 1 \in P THEN Append(g[k], s[k + 1]) ELSE g[k]
  <2>1. k + 1 \in 1..n /\ (k + 1) - 1 = k /\ k \in 0..n
    BY <1>1
  <2>2. g[k] \in Seq(Int) /\ s[k + 1] \in Int
    BY <1>1, <1>4, <2>1
  <2>3. g[k + 1] = g[k] \o (IF k + 1 \in P THEN <<s[k + 1]>> ELSE <<>>)
    BY <1>3, <1>4, <2>1
  <2>4. g[k] \o <<>> = g[k] /\ g[k] \o <<s[k + 1]>> = Append(g[k], s[k + 1])
    BY <2>2, ConcatEmptySeq, AppendIsConcat
  <2> QED
    BY <2>1, <2>2, <2>3, <2>4
<1>6. Ascending(g[n])
  <2> DEFINE Right == {k \in 0..n : Ascending(g[k]) /\ ToSet(g[k]) \subseteq {s[j] : j \in 1..k}}
  <2>1. 0 \in Right
    <3>1. Ascending(g[0]) /\ ToSet(g[0]) = {}
      BY <1>4 DEF Ascending, ToSet
    <3> QED
      BY <1>1, <3>1
  <2>2. ASSUME NEW k \in 0..(n - 1), k \in Right
        PROVE  k + 1 \in Right
    <3>1. Ascending(g[k]) /\ ToSet(g[k]) \subseteq {s[j] : j \in 1..k}
      BY <2>2
    <3>2. \A x \in ToSet(g[k]) : x < s[k + 1]
      <4>1. \A j \in 1..k : j \in 1..n /\ j < k + 1 /\ k + 1 \in 1..n
        BY <1>1
      <4>2. \A j \in 1..k : s[j] < s[k + 1]
        BY <1>1, <4>1 DEF Ascending
      <4> QED
        BY <3>1, <4>2
    <3>3. Ascending(g[k + 1])
      BY <1>5, <3>1, <3>2, AscendingAppend
    <3>4. ToSet(g[k + 1]) \subseteq ToSet(g[k]) \cup {s[k + 1]}
      <4>1. g[k] \in Seq(Int) /\ s[k + 1] \in Int
        BY <1>5
      <4>2. ToSet(Append(g[k], s[k + 1])) = ToSet(g[k]) \cup {s[k + 1]}
        BY <4>1, ToSetAppend
      <4> QED
        BY <1>5, <4>2
    <3>5. {s[j] : j \in 1..k} \cup {s[k + 1]} \subseteq {s[j] : j \in 1..(k + 1)}
      <4>1. \A j \in 1..k : j \in 1..(k + 1)
        BY <1>1
      <4>2. k + 1 \in 1..(k + 1)
        BY <1>1
      <4> QED
        BY <4>1, <4>2
    <3>6. k + 1 \in 0..n
      BY <1>1
    <3> QED
      BY <3>1, <3>3, <3>4, <3>5, <3>6
  <2>3. 0..n \subseteq Right
    <3> HIDE DEF Right
    <3> QED
      BY <1>1, <2>1, <2>2, Induction
  <2> QED
    BY <1>1, <2>3
<1>7. ASSUME DOMAIN s \subseteq P
      PROVE  g[n] = s
  <2> DEFINE Right == {k \in 0..n : Len(g[k]) = k /\ \A j \in 1..k : g[k][j] = s[j]}
  <2>1. 0 \in Right
    BY <1>1, <1>4
  <2>2. ASSUME NEW k \in 0..(n - 1), k \in Right
        PROVE  k + 1 \in Right
    <3>1. Len(g[k]) = k /\ (\A j \in 1..k : g[k][j] = s[j]) /\ k + 1 \in P
      BY <1>1, <1>5, <1>7, <2>2
    <3>2. /\ Len(Append(g[k], s[k + 1])) = k + 1
          /\ \A j \in 1..k : Append(g[k], s[k + 1])[j] = g[k][j]
          /\ Append(g[k], s[k + 1])[k + 1] = s[k + 1]
      BY <1>5, <3>1, AppendProperties
    <3>3. Len(g[k + 1]) = k + 1 /\ \A j \in 1..(k + 1) : g[k + 1][j] = s[j]
      <4>1. \A j \in 1..(k + 1) : j \in 1..k \/ j = k + 1
        BY <1>1
      <4>2. g[k + 1] = Append(g[k], s[k + 1])
        BY <1>5, <3>1
      <4>3. Len(g[k + 1]) = k + 1 /\ (\A j \in 1..k : g[k + 1][j] = s[j]) /\ g[k + 1][k + 1] = s[k + 1]
        BY <3>1, <3>2, <4>2
      <4> QED
        BY <4>1, <4>3
    <3>4. k + 1 \in 0..n
      BY <1>1
    <3> QED
      BY <3>3, <3>4
  <2>3. 0..n \subseteq Right
    <3> HIDE DEF Right
    <3> QED
      BY <1>1, <2>1, <2>2, Induction
  <2>4. g[n] \in Seq(Int) /\ Len(g[n]) = n /\ \A j \in 1..n : g[n][j] = s[j]
    BY <1>1, <1>4, <2>3
  <2> QED
    BY <2>4, SeqEqual
<1>8. AtPositions(s, P) = g[n]
  BY <1>4 DEF AtPositions, seqs
<1> QED
  BY <1>6, <1>7, <1>8

\* Where LastOf begins.
First(s, limit) == IF Len(s) >= limit THEN Len(s) - limit + 1 ELSE 1

\* It keeps at least the last element, and no more than limit.
LEMMA LastOfElements ==
    ASSUME NEW S, NEW s \in Seq(S), s # <<>>, NEW limit \in Nat \ {0}
    PROVE  /\ First(s, limit) \in 1..Len(s)
           /\ LastOf(s, limit) \in Seq(S)
           /\ Len(LastOf(s, limit)) = Len(s) - First(s, limit) + 1
           /\ \A k \in 1..(Len(s) - First(s, limit) + 1) :
                 /\ First(s, limit) + k - 1 \in 1..Len(s)
                 /\ LastOf(s, limit)[k] = s[First(s, limit) + k - 1]
<1> DEFINE f == First(s, limit)
<1>1. Len(s) \in Nat /\ Len(s) # 0 /\ \A k \in 1..Len(s) : s[k] \in S
  OBVIOUS
<1>2. f \in 1..Len(s)
  BY <1>1 DEF First
<1>3. Max({1, Len(s) - limit + 1}) = f
  <2>1. Max({1, Len(s) - limit + 1}) = IF 1 >= Len(s) - limit + 1 THEN 1 ELSE Len(s) - limit + 1
    BY <1>1, MaxMinOfTwo
  <2> QED
    BY <1>1, <2>1 DEF First
<1> HIDE DEF f
<1>4. LastOf(s, limit) = SubSeq(s, f, Len(s))
  BY <1>3 DEF LastOf
<1>5. \A k \in f..Len(s) : s[k] \in S
  BY <1>1, <1>2
<1>6. /\ SubSeq(s, f, Len(s)) \in Seq(S)
      /\ Len(SubSeq(s, f, Len(s))) = IF f <= Len(s) THEN Len(s) - f + 1 ELSE 0
      /\ \A k \in 1..(Len(s) - f + 1) : SubSeq(s, f, Len(s))[k] = s[f + k - 1]
  BY <1>1, <1>2, <1>5, SubSeqProperties
<1>7. \A k \in 1..(Len(s) - f + 1) : f + k - 1 \in 1..Len(s)
  BY <1>1, <1>2
<1>8. f <= Len(s)
  BY <1>1, <1>2
<1>9. LastOf(s, limit) \in Seq(S) /\ Len(LastOf(s, limit)) = Len(s) - f + 1
  BY <1>4, <1>6, <1>8
<1>10. \A k \in 1..(Len(s) - f + 1) : f + k - 1 \in 1..Len(s) /\ LastOf(s, limit)[k] = s[f + k - 1]
  BY <1>4, <1>6, <1>7
<1> QED
  BY <1>2, <1>9, <1>10 DEF f

\* What is kept of an ascending sequence is ascending.
LEMMA LastOfOrder ==
    ASSUME NEW S, NEW s \in Seq(S), s # <<>>, NEW limit \in Nat \ {0}, Ascending(s)
    PROVE  /\ LastOf(s, limit) \in Seq(S) /\ LastOf(s, limit) # <<>>
           /\ Ascending(LastOf(s, limit))
           /\ ToSet(LastOf(s, limit)) \subseteq ToSet(s)
<1> DEFINE t == LastOf(s, limit)
           f == First(s, limit)
<1>1. /\ f \in 1..Len(s)
      /\ t \in Seq(S) /\ Len(t) = Len(s) - f + 1
      /\ \A k \in 1..(Len(s) - f + 1) : f + k - 1 \in 1..Len(s) /\ t[k] = s[f + k - 1]
  BY LastOfElements
<1> HIDE DEF t, f
<1>2. /\ Len(s) \in Nat /\ DOMAIN s = 1..Len(s) /\ Len(t) # 0
      /\ DOMAIN t = 1..(Len(s) - f + 1)
  BY <1>1
<1>3. t # <<>>
  BY <1>2
<1>4. \A k, l \in 1..(Len(s) - f + 1) : k < l => f + k - 1 < f + l - 1
  BY <1>1, <1>2
<1>5. Ascending(t)
  BY <1>1, <1>2, <1>4 DEF Ascending
<1>6. ToSet(t) \subseteq ToSet(s)
  BY <1>1, <1>2 DEF ToSet
<1> QED
  BY <1>1, <1>3, <1>5, <1>6 DEF t

\* The messages of a mailbox.
LEMMA UpToElements ==
    ASSUME NEW n \in Nat
    PROVE  /\ UpTo(n) \in Seq(1..n) /\ Len(UpTo(n)) = n /\ DOMAIN UpTo(n) = 1..n
           /\ \A k \in 1..n : UpTo(n)[k] = k
           /\ Ascending(UpTo(n))
<1>1. UpTo(n) \in [1..n -> 1..n] /\ \A k \in 1..n : UpTo(n)[k] = k
  BY DEF UpTo
<1>2. UpTo(n) \in Seq(1..n) /\ Len(UpTo(n)) = n /\ DOMAIN UpTo(n) = 1..n
  <2>1. UpTo(n) \in Seq(1..n)
    BY <1>1, SeqDef
  <2> QED
    BY <1>1, <2>1
<1> QED
  BY <1>1, <1>2 DEF Ascending

\* The newest of them.
LEMMA NewestOfMailbox ==
    ASSUME NEW n \in Nat \ {0}
    PROVE  LET b == LastOf(UpTo(n), Limit)
           IN  /\ b # <<>> /\ Last(b) = n
               /\ ToSet(b) = {m \in 1..n : m > n - Limit}
<1> DEFINE b == LastOf(UpTo(n), Limit)
<1>1. UpTo(n) \in Seq(1..n) /\ Len(UpTo(n)) = n /\ (\A k \in 1..n : UpTo(n)[k] = k) /\ UpTo(n) # <<>>
  BY UpToElements
<1> DEFINE f == First(UpTo(n), Limit)
<1>2. /\ f \in 1..n
      /\ f = IF n >= Limit THEN n - Limit + 1 ELSE 1
      /\ b \in Seq(1..n) /\ Len(b) = n - f + 1
      /\ \A k \in 1..(n - f + 1) : f + k - 1 \in 1..n /\ b[k] = UpTo(n)[f + k - 1]
  <2>1. /\ f \in 1..Len(UpTo(n))
        /\ b \in Seq(1..n) /\ Len(b) = Len(UpTo(n)) - f + 1
        /\ \A k \in 1..(Len(UpTo(n)) - f + 1) :
              f + k - 1 \in 1..Len(UpTo(n)) /\ b[k] = UpTo(n)[f + k - 1]
    BY <1>1, LastOfElements, LimitAssumption
  <2>2. f = IF n >= Limit THEN n - Limit + 1 ELSE 1
    BY <1>1 DEF First
  <2> HIDE DEF b, f
  <2> QED
    BY <1>1, <2>1, <2>2
<1> HIDE DEF b, f
<1>3. \A k \in 1..(n - f + 1) : b[k] = f + k - 1
  BY <1>1, <1>2
<1>4. DOMAIN b = 1..(n - f + 1) /\ b # <<>> /\ Last(b) = n
  <2>1. n - f + 1 \in 1..(n - f + 1) /\ f + (n - f + 1) - 1 = n
    BY <1>2
  <2>2. Len(b) = n - f + 1 /\ Len(b) # 0 /\ DOMAIN b = 1..Len(b)
    BY <1>2
  <2>3. b[n - f + 1] = n
    BY <1>3, <2>1
  <2>4. b # <<>>
    BY <2>2
  <2> QED
    BY <2>2, <2>3, <2>4 DEF Last
<1>5. ToSet(b) = {m \in 1..n : m > n - Limit}
  <2>1. ToSet(b) = {f + k - 1 : k \in 1..(n - f + 1)}
    BY <1>3, <1>4 DEF ToSet
  <2>2. \A k \in 1..(n - f + 1) : f + k - 1 \in 1..n /\ f + k - 1 > n - Limit
    BY <1>2, LimitAssumption
  <2>3. \A m \in 1..n : m > n - Limit => m - f + 1 \in 1..(n - f + 1) /\ f + (m - f + 1) - 1 = m
    BY <1>2, LimitAssumption
  <2> QED
    BY <2>1, <2>2, <2>3
<1> QED
  BY <1>4, <1>5 DEF b

\* SEARCH answers the matching messages, in the order of arrival.
LEMMA FoundElements ==
    ASSUME arrived \in Nat
    PROVE  /\ Found \in Seq(1..arrived) /\ Ascending(Found)
           /\ ToSet(Found) = Matching
           /\ Matching = 1..arrived => Found = UpTo(arrived)
<1> DEFINE u == UpTo(arrived)
<1>1. /\ u \in Seq(1..arrived) /\ u \in Seq(Int) /\ DOMAIN u = 1..arrived
      /\ Ascending(u) /\ \A k \in 1..arrived : u[k] = k
  <2>1. u \in Seq(1..arrived)
    BY UpToElements
  <2>2. u \in Seq(Int)
    BY <2>1, SeqOfNumbers
  <2> QED
    BY <2>1, <2>2, UpToElements
<1> HIDE DEF u
<1>2. /\ AtPositions(u, Matching) \in Seq(1..arrived)
      /\ ToSet(AtPositions(u, Matching)) = {u[k] : k \in Matching \cap DOMAIN u}
  BY <1>1, AtPositionsElements
<1>3. /\ Ascending(AtPositions(u, Matching))
      /\ DOMAIN u \subseteq Matching => AtPositions(u, Matching) = u
  BY <1>1, AtPositionsOrder
<1>4. {u[k] : k \in Matching \cap DOMAIN u} = Matching
  BY <1>1 DEF Matching
<1> QED
  BY <1>1, <1>2, <1>3, <1>4 DEF Found, u

-----------------------------------------------------------------------------
(* What fetch returns *)

\* Whatever came out of the workers, in whatever order.
LEMMA FetchedElements ==
    ASSUME TypeOK, FetchShape
    PROVE  /\ Fetched \in Seq(1..arrived)
           /\ IsInjective(Fetched)
           /\ ToSet(Fetched) = {batch[p] : p \in collected}
<1> DEFINE kept == AtPositions(batch, collected)
<1>1. /\ batch \in Seq(1..arrived) /\ batch \in Seq(Int) /\ Ascending(batch)
      /\ arrived \in Nat /\ collected \subseteq DOMAIN batch
  <2>1. batch \in Seq(1..arrived) /\ Ascending(batch)
    BY DEF FetchShape
  <2>2. batch \in Seq(Int)
    BY <2>1, SeqOfNumbers
  <2>3. arrived \in Nat /\ collected \subseteq DOMAIN batch
    BY <2>1, NumbersAssumption DEF TypeOK
  <2> QED
    BY <2>1, <2>2, <2>3
<1>2. /\ kept \in Seq(1..arrived)
      /\ ToSet(kept) = {batch[k] : k \in collected \cap DOMAIN batch}
      /\ Ascending(kept)
  BY <1>1, AtPositionsElements, AtPositionsOrder
<1>3. collected \cap DOMAIN batch = collected
  BY <1>1
<1> HIDE DEF kept
<1>4. IsInjective(kept)
  <2>1. kept \in Seq(Int)
    BY <1>2, SeqOfNumbers
  <2> QED
    BY <1>2, <2>1, AscendingAppend
<1>5. /\ Reverse(kept) \in Seq(1..arrived) /\ ToSet(Reverse(kept)) = ToSet(kept)
      /\ IsInjective(Reverse(kept))
  BY <1>2, <1>4, ReverseElements
<1>6. Fetched = kept \/ Fetched = Reverse(kept)
  BY DEF Fetched, kept
<1> QED
  BY <1>2, <1>3, <1>4, <1>5, <1>6

\* Without an error it is every message of the batch that can be parsed, newest first.
LEMMA FetchedWithoutError ==
    ASSUME TypeOK, FetchShape, Finished, ~FetchErr
    PROVE  /\ collected = {p \in DOMAIN batch : batch[p] \notin Unreadable}
           /\ ToSet(Fetched) = ToSet(batch) \ Unreadable
           /\ \A k, l \in DOMAIN Fetched : k < l => Fetched[k] > Fetched[l]
<1> DEFINE kept == AtPositions(batch, collected)
<1>1. ~ctxDone /\ done = "ok" /\ left = Workers /\ Drained
  BY DEF FetchErr, Finished, FetchShape
<1>2. /\ batch \in Seq(1..arrived) /\ Len(batch) \in Nat /\ DOMAIN batch = 1..Len(batch)
      /\ taken = Len(batch)
  <2>1. batch \in Seq(1..arrived)
    BY DEF FetchShape
  <2>2. Len(batch) \in Nat /\ DOMAIN batch = 1..Len(batch)
    BY <2>1
  <2>3. got = Len(batch) /\ read = got /\ taken = forwarded /\ ~(forwarded < read)
    BY <1>1 DEF FetchShape, Drained
  <2>4. forwarded \in 0..read /\ read \in 0..got
    BY DEF TypeOK
  <2>5. taken = Len(batch)
    <3>1. read = Len(batch) /\ forwarded \in 0..Len(batch) /\ ~(forwarded < Len(batch))
      BY <2>3, <2>4, Zenon
    <3>2. \A a \in Nat : \A b \in 0..a : ~(b < a) => b = a
      OBVIOUS
    <3> QED
      BY <2>2, <2>3, <3>1, <3>2, Zenon
  <2> QED
    BY <2>1, <2>2, <2>5
<1>3. collected = {p \in DOMAIN batch : batch[p] \notin Unreadable}
  <2>1. \A p \in 1..taken : p \in collected \/ batch[p] \in Unreadable \/ \E w \in Workers : parsing[w] = p
    BY <1>1 DEF FetchShape
  <2>2. \A w \in Workers : parsing[w] = 0
    BY <1>1 DEF FetchShape
  <2>3. \A p \in collected : p \in 1..taken /\ batch[p] \notin Unreadable
    BY DEF FetchShape, TypeOK
  <2>4. \A p \in 1..taken : p # 0
    BY <1>2
  <2> QED
    BY <1>2, <2>1, <2>2, <2>3, <2>4
<1>4. ToSet(Fetched) = ToSet(batch) \ Unreadable
  <2>1. ToSet(Fetched) = {batch[p] : p \in collected}
    BY FetchedElements
  <2> QED
    BY <1>3, <2>1 DEF ToSet
<1>5. Fetched = Reverse(kept)
  BY DEF Fetched
<1>6. kept \in Seq(Int) /\ Ascending(kept)
  <2>1. batch \in Seq(Int) /\ Ascending(batch)
    BY <1>2, SeqOfNumbers DEF FetchShape
  <2> QED
    BY <2>1, AtPositionsElements, AtPositionsOrder
<1> HIDE DEF kept
<1>7. /\ Len(kept) \in Nat /\ DOMAIN kept = 1..Len(kept) /\ DOMAIN Fetched = 1..Len(kept)
      /\ \A k \in 1..Len(kept) : Fetched[k] = kept[Len(kept) - k + 1]
  <2>1. /\ Reverse(kept) \in Seq(Int) /\ Len(Reverse(kept)) = Len(kept)
        /\ \A k \in 1..Len(kept) : Reverse(kept)[k] = kept[Len(kept) - k + 1]
    BY <1>6, ReverseElements
  <2> QED
    BY <1>5, <1>6, <2>1
<1>8. ASSUME NEW k \in DOMAIN Fetched, NEW l \in DOMAIN Fetched, k < l
      PROVE  Fetched[k] > Fetched[l]
  <2>1. /\ Len(kept) - k + 1 \in 1..Len(kept) /\ Len(kept) - l + 1 \in 1..Len(kept)
        /\ Len(kept) - l + 1 < Len(kept) - k + 1
    BY <1>7, <1>8
  <2>2. kept[Len(kept) - l + 1] < kept[Len(kept) - k + 1]
    BY <1>6, <1>7, <2>1 DEF Ascending
  <2>3. kept[Len(kept) - l + 1] \in Int /\ kept[Len(kept) - k + 1] \in Int
    BY <1>6, <1>7, <2>1
  <2> QED
    BY <1>7, <2>2, <2>3
<1> QED
  BY <1>3, <1>4, <1>8

-----------------------------------------------------------------------------
(* Every step keeps the invariant: the call and its goroutines *)

\* The IDLE goroutine is started by the call and outlives its round only if the call ends.
LEMMA IdleStep ==
    ASSUME IdleShape, [Next]_vars
    PROVE  IdleShape'
<1> USE DEF IdleShape, UnchangedIdle, idleVars
<1>1. CASE Connect \/ ConnectFails
  BY <1>1 DEF Connect, ConnectFails
<1>2. CASE StartIdle
  BY <1>2 DEF StartIdle
<1>3. CASE SelectDone \/ SelectPoke
  BY <1>3 DEF SelectDone, SelectPoke, Goes
<1>4. CASE RoundGoesOn
  BY <1>4 DEF RoundGoesOn, OwnsConnection, Goes
<1>5. CASE EndIdleTimesOut \/ LeaveIdle
  BY <1>5 DEF EndIdleTimesOut, LeaveIdle, Goes
<1>6. CASE Deliver \/ Delivered \/ DeliverCancelled
  BY <1>6 DEF Deliver, Delivered, DeliverCancelled, Goes
<1>7. CASE SearchAnswered \/ SearchFails
  BY <1>7 DEF SearchAnswered, SearchFails, Goes
<1>8. CASE FetchReturns
  BY <1>8 DEF FetchReturns, Goes
<1>9. CASE Logout \/ Decide
  BY <1>9 DEF Logout, Decide
<1>10. CASE ReadUpdate \/ Drain
  BY <1>10 DEF ReadUpdate, Drain
<1>11. CASE IdleEnds \/ IdleElapses
  BY <1>11 DEF IdleEnds, IdleElapses, IdleReturns
<1>12. CASE Fetching
  BY <1>12 DEF Fetching
<1>13. CASE Take \/ NewMail \/ Fault \/ Cancel
  BY <1>13 DEF Take, NewMail, Fault, Cancel
<1>14. CASE UNCHANGED vars
  BY <1>14 DEF vars
<1> QED
  BY <1>1, <1>2, <1>3, <1>4, <1>5, <1>6, <1>7, <1>8, <1>9, <1>10, <1>11, <1>12, <1>13, <1>14
     DEF Next, CallStep

\* The server announces a message once, and to a listening session only.
LEMMA WireStep ==
    ASSUME TypeOK, WireShape, [Next]_vars
    PROVE  WireShape' /\ wire' \in 0..MaxMail /\ arrived' \in 0..MaxMail /\ arrived' >= arrived
<1> USE NumbersAssumption DEF TypeOK, WireShape, UnchangedIdle, idleVars
<1>1. CASE NewMail
  BY <1>1 DEF NewMail
<1>2. CASE ReadUpdate
  BY <1>2 DEF ReadUpdate
<1>3. CASE UNCHANGED <<wire, arrived>>
  BY <1>3
<1>4. [Next]_vars => NewMail \/ ReadUpdate \/ UNCHANGED <<wire, arrived>>
  BY  DEF Next, CallStep, vars, Connect, ConnectFails, StartIdle, SelectDone, SelectPoke,
        RoundGoesOn,
         EndIdleTimesOut, LeaveIdle, Deliver, Delivered, DeliverCancelled, SearchAnswered, SearchFails,
         FetchReturns, Logout, Decide, Drain, IdleEnds, IdleElapses, IdleReturns, Fetching, Take, Fault,
         Cancel, Goes
<1> QED
  BY <1>1, <1>2, <1>3, <1>4

-----------------------------------------------------------------------------
(* The fetch *)

\* The context stays done, and the mailbox does not shrink.
LEMMA OutsideFetch ==
    ASSUME TypeOK, FetchShape, UNCHANGED fetchVars, ctxDone => ctxDone',
           arrived' \in Nat, arrived' >= arrived
    PROVE  FetchShape'
<1>1. batch' \in Seq(1..arrived')
  <2>1. arrived \in Nat /\ 1..arrived \subseteq 1..arrived'
    BY NumbersAssumption DEF TypeOK
  <2> QED
    BY <2>1, SeqMonotonic DEF FetchShape, fetchVars
<1> QED
  BY <1>1 DEF FetchShape, fetchVars, Drained, Ascending

\* A fetch that is called with messages in the order of arrival.
LEMMA InsideFetch ==
    ASSUME NEW messages, NEW limit, StartFetch(messages, limit), limit \in Nat \ {0},
           messages \in Seq(1..arrived), Ascending(messages), arrived' = arrived
    PROVE  FetchShape' /\ left' # Workers
<1> USE DEF StartFetch
<1>1. PICK crew \in SUBSET Workers :
         /\ Cardinality(crew) = Min({Cardinality(Workers), Max({limit, 1})})
         /\ left' = Workers \ crew
  OBVIOUS
<1>2. crew # {}
  <2>1. Cardinality(Workers) \in Nat \ {0}
    BY WorkersAssumption, FS_CardinalityType, FS_EmptySet
  <2>2. Max({limit, 1}) \in Nat \ {0}
    BY MaxMinOfTwo
  <2>3. Min({Cardinality(Workers), Max({limit, 1})}) \in Nat \ {0}
    <3>1. \A a, b \in Nat \ {0} : Min({a, b}) \in Nat \ {0}
      BY MaxMinOfTwo
    <3> QED
      BY <2>1, <2>2, <3>1, Zenon
  <2>4. Cardinality({}) = 0
    BY FS_EmptySet
  <2> QED
    BY <1>1, <2>3, <2>4
<1>3. left' # Workers /\ left' \subseteq Workers
  BY <1>1, <1>2
<1>4. batch' \in Seq(1..arrived') /\ Ascending(batch')
  OBVIOUS
<1>5. parsing' \in [Workers -> 0..taken']
  OBVIOUS
<1>6. /\ \A w \in left' : w \in Workers /\ parsing'[w] = 0
      /\ \A p \in collected' : batch'[p] \notin Unreadable
      /\ 1..taken' = {}
      /\ done' = "running" /\ ~(forwarded' < read')
  BY <1>3
<1>7. FetchShape'
  BY <1>3, <1>4, <1>5, <1>6 DEF FetchShape, Ascending
<1> QED
  BY <1>3, <1>7

\* One step of the command, the watchdog, the indexer or a worker.
LEMMA FetchingStep ==
    ASSUME TypeOK, FetchShape, Fetching
    PROVE  /\ FetchShape'
           /\ taken' \in 0..forwarded' /\ forwarded' \in 0..read' /\ read' \in 0..got'
           /\ got' \in 0..Len(batch') /\ collected' \subseteq 1..taken'
           /\ seen \subseteq seen' /\ seen' \subseteq seen \cup ToSet(batch)
           /\ \A p \in 1..got' : p \in 1..got \/ batch[p] \in seen'
           /\ conn' \in {"up", "down", "wedged"}
<1>1. /\ arrived' = arrived /\ arrived \in Nat
      /\ batch \in Seq(1..arrived) /\ Len(batch) \in Nat /\ DOMAIN batch = 1..Len(batch)
      /\ taken \in 0..forwarded /\ forwarded \in 0..read /\ read \in 0..got
      /\ got \in 0..Len(batch) /\ collected \subseteq 1..taken
      /\ taken \in Nat /\ forwarded \in Nat /\ read \in Nat /\ got \in Nat
      /\ conn \in {"up", "down", "wedged"}
  <2>1. arrived' = arrived
    BY DEF Fetching, UnchangedIdle
  <2>2. batch \in Seq(1..arrived)
    BY DEF FetchShape
  <2>3. Len(batch) \in Nat /\ DOMAIN batch = 1..Len(batch)
    BY <2>2
  <2>4. /\ taken \in 0..forwarded /\ forwarded \in 0..read /\ read \in 0..got
        /\ got \in 0..Len(batch)
    BY DEF TypeOK
  <2>5. got \in Nat
    BY <2>3, <2>4
  <2>6. read \in Nat
    BY <2>4, <2>5
  <2>7. forwarded \in Nat
    BY <2>4, <2>6
  <2>8. taken \in Nat
    BY <2>4, <2>7
  <2> QED
    BY <2>1, <2>2, <2>3, <2>4, <2>5, <2>6, <2>7, <2>8, NumbersAssumption DEF TypeOK
<1>2. \A p \in 1..Len(batch) : batch[p] \in ToSet(batch)
  BY <1>1 DEF ToSet
<1>2a. parsing \in [Workers -> 0..taken]
  BY DEF FetchShape
<1>3. CASE Respond
  <2>1. got + 1 \in 1..Len(batch) /\ got' = got + 1 /\ done = "running"
    BY <1>1, <1>3 DEF Respond
  <2>2. FetchShape'
    BY <1>1, <1>3, <2>1 DEF Respond, FetchShape, Drained, Ascending
  <2>3. \A p \in 1..got' : p \in 1..got \/ p = got + 1
    BY <1>1, <2>1
  <2> QED
    BY <1>1, <1>2, <1>3, <2>1, <2>2, <2>3 DEF Respond
<1>4. CASE Answer
  BY <1>1, <1>4 DEF Answer, FetchShape, Drained, Ascending
<1>5. CASE Broken
  <2>1. PICK sent \in got..Len(batch) : seen' = seen \cup ToSet(SubSeq(batch, 1, sent))
    BY <1>5 DEF Broken
  <2>2. ToSet(SubSeq(batch, 1, sent)) \subseteq ToSet(batch)
    <3>1. sent \in Nat /\ sent <= Len(batch)
      BY <1>1
    <3>2. \A p \in 1..sent : batch[p] \in ToSet(batch)
      BY <1>1, <1>2, <3>1
    <3>3. SubSeq(batch, 1, sent) \in Seq(ToSet(batch))
      BY <3>1, <3>2, SubSeqProperties
    <3> QED
      BY <3>3, ToSetWithin
  <2>3. FetchShape'
    BY <1>1, <1>5 DEF Broken, FetchShape, Drained, Ascending
  <2> QED
    BY <1>1, <1>5, <2>1, <2>2, <2>3 DEF Broken
<1>6. CASE Watchdog
  BY <1>1, <1>6 DEF Watchdog, fetchVars, FetchShape, Drained, Ascending
<1>7. CASE Forward
  <2>1. /\ read' = read + 1 /\ forwarded' = forwarded + 1 /\ read < got /\ forwarded = read
        /\ UNCHANGED <<ctxDone, conn, seen, batch, done, got, taken, parsing, left, collected>>
    BY <1>7 DEF Forward
  <2>2. taken' \in 0..forwarded' /\ forwarded' \in 0..read' /\ read' \in 0..got' /\ forwarded' = read'
    BY <1>1, <2>1
  <2>3. left = Workers => ctxDone
    BY <1>1, <2>1 DEF FetchShape, Drained
  <2>4. ~(forwarded' < read')
    BY <1>1, <2>2
  <2>5. FetchShape'
    BY <1>1, <2>1, <2>3, <2>4 DEF FetchShape, Ascending
  <2> QED
    BY <1>1, <2>1, <2>2, <2>5
<1>8. CASE Discard
  <2>1. /\ read' = read + 1 /\ read < got
        /\ UNCHANGED <<ctxDone, conn, seen, batch, done, got, forwarded, taken, parsing, left, collected>>
        /\ ctxDone
    BY <1>8 DEF Discard, FetchShape
  <2>2. taken' \in 0..forwarded' /\ forwarded' \in 0..read' /\ read' \in 0..got'
    BY <1>1, <2>1
  <2>3. FetchShape'
    BY <1>1, <2>1 DEF FetchShape, Ascending
  <2> QED
    BY <1>1, <2>1, <2>2, <2>3
<1>9. ASSUME NEW w \in Workers, Receive(w)
      PROVE  /\ FetchShape'
             /\ taken' \in 0..forwarded' /\ collected' \subseteq 1..taken'
             /\ UNCHANGED <<forwarded, read, got, batch, seen, conn>>
  <2>1. /\ taken' = taken + 1 /\ taken' \in 0..forwarded' /\ collected' \subseteq 1..taken'
        /\ UNCHANGED <<ctxDone, forwarded, read, got, batch, seen, conn, done, collected>>
        /\ w \notin left /\ parsing[w] = 0 /\ taken < forwarded
    BY <1>1, <1>9 DEF Receive
  <2>2. parsing' \in [Workers -> 0..taken']
    <3>1. parsing \in [Workers -> 0..taken] /\ 0..taken \subseteq 0..taken' /\ taken' \in 0..taken'
      BY <1>1, <1>2a, <2>1
    <3>2. parsing' = parsing \/ parsing' = [parsing EXCEPT ![w] = taken']
      BY <1>9, <2>1 DEF Receive
    <3> QED
      BY <3>1, <3>2
  <2>3. \A v \in left' : v \in Workers /\ parsing'[v] = 0
    BY <1>9, <2>1 DEF Receive, FetchShape
  <2>4. ASSUME NEW p \in 1..taken'
        PROVE  \/ p \in collected' \/ batch'[p] \in Unreadable
               \/ ctxDone' \/ \E v \in Workers : parsing'[v] = p
    <3>1. CASE p = taken + 1
      BY <1>9, <2>1, <3>1 DEF Receive, FetchShape
    <3>2. CASE p # taken + 1
      <4>1. p \in 1..taken
        BY <1>1, <2>1, <3>2
      <4>2. CASE \E v \in Workers : parsing[v] = p
        <5>1. PICK v \in Workers : parsing[v] = p
          BY <4>2
        <5>2. v # w
          BY <1>1, <2>1, <4>1, <5>1
        <5> QED
          BY <1>9, <5>1, <5>2 DEF Receive, FetchShape
      <4> QED
        BY <2>1, <4>1, <4>2 DEF FetchShape
    <3> QED
      BY <3>1, <3>2
  <2>5. left' = Workers => ctxDone'
    BY <1>9, <2>1 DEF Receive
  <2> HIDE <1>9
  <2>6. FetchShape'
    BY <1>1, <2>1, <2>2, <2>3, <2>4, <2>5 DEF FetchShape, Ascending
  <2> QED
    BY <2>1, <2>6
<1>10. ASSUME NEW w \in Workers, Parse(w)
       PROVE  /\ FetchShape'
              /\ collected' \subseteq 1..taken'
              /\ UNCHANGED <<taken, forwarded, read, got, batch, seen, conn>>
  <2>1. /\ parsing' = [parsing EXCEPT ![w] = 0] /\ parsing[w] # 0 /\ parsing[w] \in 0..taken
        /\ UNCHANGED <<ctxDone, taken, forwarded, read, got, batch, seen, conn, done, left>>
        /\ collected' = IF batch[parsing[w]] \in Unreadable THEN collected ELSE collected \cup {parsing[w]}
    BY <1>10 DEF Parse, FetchShape
  <2>2. /\ parsing' \in [Workers -> 0..taken']
        /\ \A v \in left' : v \in Workers /\ parsing'[v] = 0
        /\ \A p \in collected' : batch'[p] \notin Unreadable
        /\ collected' \subseteq 1..taken'
    <3>1. parsing' \in [Workers -> 0..taken']
      <4>1. parsing \in [Workers -> 0..taken] /\ 0 \in 0..taken
        BY <1>1, <1>2a
      <4> QED
        BY <2>1, <4>1
    <3>2. \A v \in left' : v \in Workers /\ parsing'[v] = 0
      BY <2>1 DEF FetchShape
    <3>3. (\A p \in collected' : batch'[p] \notin Unreadable) /\ collected' \subseteq 1..taken'
      <4>1. parsing[w] \in 1..taken
        BY <1>1, <2>1
      <4> QED
        BY <1>1, <2>1, <4>1 DEF FetchShape
    <3> QED
      BY <3>1, <3>2, <3>3
  <2>3. ASSUME NEW p \in 1..taken'
        PROVE  \/ p \in collected' \/ batch'[p] \in Unreadable
               \/ ctxDone' \/ \E v \in Workers : parsing'[v] = p
    <3>1. CASE p = parsing[w]
      BY <2>1, <3>1
    <3>2. CASE p # parsing[w]
      BY <1>1, <2>1, <3>2 DEF FetchShape
    <3> QED
      BY <3>1, <3>2
  <2> HIDE <1>10
  <2>4. FetchShape'
    BY <1>1, <2>1, <2>2, <2>3 DEF FetchShape, Ascending, Drained
  <2> QED
    BY <2>1, <2>2, <2>4
<1>11. ASSUME NEW w \in Workers, Leave(w)
       PROVE  FetchShape' /\ UNCHANGED <<taken, forwarded, read, got, batch, seen, conn, collected>>
  BY <1>1, <1>11 DEF Leave, FetchShape, Drained, Ascending
<1>12. FetchStep
  BY DEF Fetching
<1> QED
  BY <1>1, <1>3, <1>4, <1>5, <1>6, <1>7, <1>8, <1>9, <1>10, <1>11, <1>12 DEF FetchStep, WorkerStep

\* What a call fetches: the end of what SELECT or SEARCH told it of.
Called(messages, limit) ==
    /\ limit \in Nat \ {0}
    /\ messages \in Seq(1..arrived) /\ messages # <<>> /\ Ascending(messages)
    /\ StartFetch(messages, limit)
    /\ UNCHANGED <<ctxDone, seen, arrived>>

\* Receive asks for the last messages, Search for the last it found, Idle for all it found.
LEMMA ConnectCalls ==
    ASSUME TypeOK, Connect, mode = "receive", arrived > 0
    PROVE  LET messages == LastOf(UpTo(arrived), Limit)
           IN  Called(messages, Limit)
<1>1. arrived \in Nat \ {0} /\ Limit \in Nat \ {0}
  BY LimitAssumption DEF TypeOK
<1>2. UpTo(arrived) \in Seq(1..arrived) /\ UpTo(arrived) # <<>> /\ Ascending(UpTo(arrived))
  BY <1>1, UpToElements
<1>3. /\ LastOf(UpTo(arrived), Limit) \in Seq(1..arrived) /\ LastOf(UpTo(arrived), Limit) # <<>>
      /\ Ascending(LastOf(UpTo(arrived), Limit))
  BY <1>1, <1>2, LastOfOrder
<1>4. StartFetch(LastOf(UpTo(arrived), Limit), Limit) /\ UNCHANGED <<ctxDone, seen, arrived>>
  BY DEF Connect, UnchangedIdle
<1> QED
  BY <1>1, <1>3, <1>4 DEF Called

\* What SEARCH answered is fetched in full by Idle, and from its end by Search.
LEMMA SearchCalls ==
    ASSUME TypeOK, SearchAnswered, Found # <<>>
    PROVE  LET limit == IF mode = "idle" THEN Max({1, Len(Found)}) ELSE Limit
           IN  /\ Called(LastOf(Found, limit), limit)
               /\ ToSet(LastOf(Found, limit)) \subseteq Matching
<1> DEFINE limit == IF mode = "idle" THEN Max({1, Len(Found)}) ELSE Limit
<1>1. arrived \in Nat
  BY NumbersAssumption DEF TypeOK
<1>2. Found \in Seq(1..arrived) /\ Ascending(Found) /\ ToSet(Found) = Matching
  BY <1>1, FoundElements
<1>3. limit \in Nat \ {0}
  <2>1. Len(Found) \in Nat
    BY <1>2
  <2>2. Max({1, Len(Found)}) \in Nat \ {0}
    BY <2>1, MaxMinOfTwo
  <2> QED
    BY <2>2, LimitAssumption
<1>4. StartFetch(LastOf(Found, limit), limit) /\ UNCHANGED <<ctxDone, seen, arrived>>
  BY DEF SearchAnswered, UnchangedIdle
<1> HIDE DEF limit
<1>5. /\ LastOf(Found, limit) \in Seq(1..arrived) /\ LastOf(Found, limit) # <<>>
      /\ Ascending(LastOf(Found, limit))
      /\ ToSet(LastOf(Found, limit)) \subseteq ToSet(Found)
  BY <1>2, <1>3, LastOfOrder
<1> QED
  BY <1>2, <1>3, <1>4, <1>5 DEF Called, limit

\* Every step is one of the fetch, calls it, or leaves it alone.
LEMMA FetchUse ==
    ASSUME TypeOK, [Next]_vars
    PROVE  \/ Fetching
           \/ UNCHANGED <<fetchVars, seen>> /\ (ctxDone => ctxDone')
           \/ \E messages, limit : Called(messages, limit)
<1>1. CASE Connect
  <2>1. CASE mode = "receive" /\ arrived > 0
    BY <1>1, <2>1, ConnectCalls, Zenon
  <2>2. CASE ~(mode = "receive" /\ arrived > 0)
    BY <1>1, <2>2 DEF Connect
  <2> QED
    BY <2>1, <2>2
<1>2. CASE SearchAnswered
  <2>1. CASE Found # <<>>
    BY <1>2, <2>1, SearchCalls, Zenon
  <2>2. CASE Found = <<>>
    BY <1>2, <2>2 DEF SearchAnswered
  <2> QED
    BY <2>1, <2>2
<1>3. CASE ConnectFails \/ StartIdle \/ Logout \/ Decide \/ ReadUpdate \/ Drain \/ Take \/ NewMail
              \/ Fault \/ Cancel
  BY <1>3 DEF ConnectFails, StartIdle, Logout, Decide, ReadUpdate, Drain, Take, NewMail, Fault,
        Cancel
<1>4. CASE SelectDone \/ SelectPoke \/ RoundGoesOn \/ EndIdleTimesOut \/ LeaveIdle \/ Deliver
              \/ Delivered \/ DeliverCancelled \/ SearchFails \/ FetchReturns
  BY <1>4 DEF SelectDone, SelectPoke, RoundGoesOn, EndIdleTimesOut, LeaveIdle, Deliver, Delivered,
              DeliverCancelled, SearchFails, FetchReturns, Goes
<1>5. CASE IdleEnds \/ IdleElapses
  BY <1>5 DEF IdleEnds, IdleElapses, IdleReturns
<1>6. CASE UNCHANGED vars
  BY <1>6 DEF vars
<1> QED
  BY <1>1, <1>2, <1>3, <1>4, <1>5, <1>6 DEF Next, CallStep

\* The fetch, and what it marks.
LEMMA FetchStays ==
    ASSUME TypeOK, WireShape, FetchShape, [Next]_vars
    PROVE  /\ FetchShape'
           /\ taken' \in 0..forwarded' /\ forwarded' \in 0..read' /\ read' \in 0..got'
           /\ got' \in 0..Len(batch') /\ collected' \subseteq 1..taken'
           /\ seen' \subseteq 1..arrived'
<1>1. arrived \in Nat /\ arrived' \in Nat /\ arrived' >= arrived /\ 1..arrived \subseteq 1..arrived'
  BY WireStep, NumbersAssumption DEF TypeOK
<1>2. CASE Fetching
  <2>1. ToSet(batch) \subseteq 1..arrived
    <3>1. batch \in Seq(1..arrived)
      BY DEF FetchShape
    <3> QED
      BY <3>1, ToSetWithin
  <2>2. seen \subseteq 1..arrived
    BY DEF TypeOK
  <2> QED
    BY <1>1, <1>2, <2>1, <2>2, FetchingStep
<1>3. CASE UNCHANGED <<fetchVars, seen>> /\ (ctxDone => ctxDone')
  BY <1>1, <1>3, OutsideFetch DEF TypeOK, fetchVars
<1>4. CASE \E messages, limit : Called(messages, limit)
  <2>1. PICK messages, limit : Called(messages, limit)
    BY <1>4
  <2>2. FetchShape'
    BY <2>1, InsideFetch DEF Called
  <2>3. /\ taken' = 0 /\ forwarded' = 0 /\ read' = 0 /\ got' = 0 /\ collected' = {}
        /\ batch' \in Seq(1..arrived) /\ UNCHANGED <<seen, arrived>>
    BY <2>1 DEF Called, StartFetch
  <2> QED
    BY <2>2, <2>3 DEF TypeOK
<1> QED
  BY <1>2, <1>3, <1>4, FetchUse

-----------------------------------------------------------------------------
(* The values of the variables *)

\* Emails move from the fetch to the caller, and nothing else is put there.
LEMMA ListsStep ==
    ASSUME TypeOK, WireShape, FetchShape, [Next]_vars
    PROVE  {emails', emailChan', handed'} \subseteq Seq(1..arrived')
<1>1. /\ emails \in Seq(1..arrived) /\ emailChan \in Seq(1..arrived) /\ handed \in Seq(1..arrived)
      /\ <<>> \in Seq(1..arrived) /\ Seq(1..arrived) \subseteq Seq(1..arrived')
  <2>1. arrived \in Nat /\ arrived' \in Nat /\ arrived' >= arrived
    BY WireStep, NumbersAssumption DEF TypeOK
  <2>2. 1..arrived \subseteq 1..arrived'
    BY <2>1
  <2>3. Seq(1..arrived) \subseteq Seq(1..arrived')
    BY <2>2, SeqMonotonic
  <2> QED
    BY <2>3 DEF TypeOK
<1>2. CASE Deliver
  <2>1. /\ emails # <<>> /\ emailChan' = Append(emailChan, Head(emails)) /\ emails' = Tail(emails)
        /\ UNCHANGED handed
    BY <1>2 DEF Deliver, Goes
  <2>2. Head(emails) \in 1..arrived /\ Tail(emails) \in Seq(1..arrived)
    BY <1>1, <2>1, HeadTailProperties
  <2>3. emailChan' \in Seq(1..arrived)
    BY <1>1, <2>1, <2>2, AppendProperties
  <2> QED
    BY <1>1, <2>1, <2>2, <2>3
<1>3. CASE Take
  <2>1. /\ emailChan # <<>> /\ handed' = Append(handed, Head(emailChan))
        /\ emailChan' = Tail(emailChan) /\ UNCHANGED emails
    BY <1>3 DEF Take
  <2>2. Head(emailChan) \in 1..arrived /\ Tail(emailChan) \in Seq(1..arrived)
    BY <1>1, <2>1, HeadTailProperties
  <2>3. handed' \in Seq(1..arrived)
    BY <1>1, <2>1, <2>2, AppendProperties
  <2> QED
    BY <1>1, <2>1, <2>2, <2>3
<1>4. CASE emails' \in {<<>>, emails, Fetched} /\ UNCHANGED <<emailChan, handed>>
  BY <1>1, <1>4, FetchedElements
<1>5. Connect \/ SearchAnswered \/ FetchReturns
        => emails' \in {<<>>, emails, Fetched} /\ UNCHANGED <<emailChan, handed>>
  BY DEF Connect, SearchAnswered, FetchReturns, Goes, UnchangedIdle, idleVars
<1>6. [Next]_vars => \/ Deliver \/ Take \/ Connect \/ SearchAnswered \/ FetchReturns
                     \/ UNCHANGED <<emails, emailChan, handed>>
  BY DEF Next, CallStep, vars, ConnectFails, StartIdle, SelectDone, SelectPoke, RoundGoesOn,
         EndIdleTimesOut, LeaveIdle, Delivered, DeliverCancelled, SearchFails, Logout, Decide,
         ReadUpdate, Drain, IdleEnds, IdleElapses, IdleReturns, Fetching, NewMail, Fault, Cancel, Goes,
         UnchangedIdle, idleVars
<1> QED
  BY <1>2, <1>3, <1>4, <1>5, <1>6

\* Every step keeps the values in their types.
LEMMA TypeStep ==
    ASSUME TypeOK, WireShape, FetchShape, [Next]_vars
    PROVE  TypeOK'
<1>1. /\ arrived \in Nat /\ arrived' \in 0..MaxMail /\ arrived' >= arrived /\ wire' \in 0..MaxMail
      /\ 1..arrived \subseteq 1..arrived'
  BY WireStep, NumbersAssumption DEF TypeOK
<1>2. /\ seen' \subseteq 1..arrived'
      /\ taken' \in 0..forwarded' /\ forwarded' \in 0..read' /\ read' \in 0..got'
      /\ got' \in 0..Len(batch') /\ collected' \subseteq 1..taken'
  BY FetchStays
<1>3. {emails', emailChan', handed'} \subseteq Seq(1..arrived')
  BY ListsStep
<1> DEFINE Rest == /\ mode \in Modes /\ initial \in Waiting /\ loc \in Locations
                   /\ conn \in {"up", "down", "wedged"} /\ ctxDone \in BOOLEAN
                   /\ idler \in BOOLEAN /\ idleDone \in {"none", "nil", "error"}
                   /\ updates \in 0..UpdateCap /\ poke \in BOOLEAN
                   /\ err \in BOOLEAN /\ attempt \in 0..MaxRetries /\ faults \in 0..MaxFaults
                   /\ heard \subseteq 1..arrived
<1>4. Rest
  BY DEF TypeOK
<1>5. Rest'
  <2> USE <1>4 DEF Locations, UnchangedIdle, idleVars
  <2>1. CASE Connect
    BY <2>1, <1>1 DEF Connect
  <2>2. CASE ConnectFails
    BY <2>2, <1>1, BoundsAssumption DEF ConnectFails
  <2>3. CASE StartIdle \/ Take
    BY <2>3, <1>1 DEF StartIdle, Take
  <2>4. CASE SelectDone \/ SelectPoke \/ RoundGoesOn \/ EndIdleTimesOut \/ LeaveIdle
    BY <2>4, <1>1 DEF SelectDone, SelectPoke, RoundGoesOn, EndIdleTimesOut, LeaveIdle, Goes
  <2>5. CASE Deliver \/ Delivered \/ DeliverCancelled \/ SearchFails
    BY <2>5, <1>1 DEF Deliver, Delivered, DeliverCancelled, SearchFails, Goes
  <2>6. CASE SearchAnswered
    BY <2>6, <1>1 DEF SearchAnswered
  <2>7. CASE FetchReturns
    <3>1. FetchErr \in BOOLEAN /\ (~ctxDone) \in BOOLEAN
      BY DEF FetchErr
    <3> QED
      BY <2>7, <1>1, <3>1 DEF FetchReturns, Goes
  <2>8. CASE Logout
    BY <2>8, <1>1 DEF Logout
  <2>9. CASE Decide
    BY <2>9, <1>1, BoundsAssumption DEF Decide
  <2>10. CASE ReadUpdate
    BY <2>10, <1>1, NumbersAssumption DEF ReadUpdate
  <2>11. CASE Drain
    BY <2>11, <1>1, NumbersAssumption DEF Drain
  <2>12. CASE IdleEnds \/ IdleElapses
    BY <2>12, <1>1 DEF IdleEnds, IdleElapses, IdleReturns
  <2>13. CASE Fetching
    <3>1. conn' \in {"up", "down", "wedged"}
      BY <2>13, FetchingStep
    <3>2. ctxDone' = ctxDone
      BY <2>13 DEF Fetching, FetchStep, Respond, Answer, Broken, Watchdog, Forward, Discard,
            WorkerStep,
                   Receive, Parse, Leave
    <3> QED
      BY <2>13, <1>1, <3>1, <3>2 DEF Fetching
  <2>14. CASE NewMail
    <3>1. arrived' = arrived + 1 /\ heard' \subseteq heard \cup {arrived + 1}
      BY <2>14 DEF NewMail
    <3>2. heard' \subseteq 1..arrived'
      BY <1>1, <3>1
    <3> QED
      BY <2>14, <3>2 DEF NewMail
  <2>15. CASE Fault
    BY <2>15, <1>1, BoundsAssumption DEF Fault
  <2>16. CASE Cancel
    BY <2>16, <1>1 DEF Cancel
  <2>17. CASE UNCHANGED vars
    BY <2>17 DEF vars
  <2> HIDE DEF Rest
  <2> QED
    BY <2>1, <2>2, <2>3, <2>4, <2>5, <2>6, <2>7, <2>8, <2>9, <2>10, <2>11, <2>12, <2>13, <2>14,
       <2>15, <2>16, <2>17 DEF Next, CallStep
<1> QED
  BY <1>1, <1>2, <1>3, <1>5 DEF TypeOK

-----------------------------------------------------------------------------
(* Receive and Search *)

\* The first n messages, and of them the newest.
LEMMA AnswerOfFetch ==
    ASSUME TypeOK, FetchShape, Finished, ~FetchErr, emails' = Fetched,
           NEW n \in 1..arrived, n >= initial, batch = LastOf(UpTo(n), Limit), batch' = batch,
           initial' = initial
    PROVE  Newest'
<1>1. n \in Nat \ {0}
  BY NumbersAssumption DEF TypeOK
<1>2. batch # <<>> /\ Last(batch) = n /\ ToSet(batch) = {m \in 1..n : m > n - Limit}
  BY <1>1, NewestOfMailbox
<1>3. /\ ToSet(Fetched) = ToSet(batch) \ Unreadable
      /\ \A k, l \in DOMAIN Fetched : k < l => Fetched[k] > Fetched[l]
  BY FetchedWithoutError
<1>4. ToSet(emails') = {m \in 1..n : m > n - Limit /\ m \notin Unreadable}
  BY <1>2, <1>3
<1> QED
  BY <1>2, <1>3, <1>4 DEF Newest

\* An empty mailbox was empty at first.
LEMMA AnswerOfNothing ==
    ASSUME TypeOK, FetchShape, AnswerShape, arrived = 0, emails' = <<>>, batch' = batch,
           initial' = initial
    PROVE  Newest'
<1>1. batch = <<>>
  <2>1. batch \in Seq(1..0)
    BY DEF FetchShape
  <2>2. Len(batch) \in Nat /\ \A k \in 1..Len(batch) : batch[k] \in 1..0
    BY <2>1
  <2>3. Len(batch) = 0
    <3>1. Len(batch) # 0 => 1 \in 1..Len(batch)
      BY <2>2
    <3> QED
      BY <2>2, <3>1
  <2> QED
    BY <2>1, <2>3
<1>2. initial \in Nat /\ initial <= 0
  BY NumbersAssumption DEF TypeOK, AnswerShape
<1>3. ToSet(emails') = {} /\ DOMAIN emails' = {}
  BY DEF ToSet
<1> QED
  BY <1>1, <1>2, <1>3 DEF Newest

\* Every step of Receive, Search and Retry keeps what is returned the end of the
\* mailbox that was found.
LEMMA AnswerStep ==
    ASSUME TypeOK, IdleShape, FetchShape, AnswerShape, [Next]_vars
    PROVE  AnswerShape'
<1>1. /\ initial \in Nat /\ arrived \in Nat /\ initial <= arrived /\ attempt \in Nat
  BY NumbersAssumption DEF TypeOK, AnswerShape
<1> USE DEF SameQuestion, UnchangedIdle, idleVars
<1>2. CASE Connect
  <2>1. /\ initial' = initial /\ arrived' = arrived /\ mode' = mode /\ attempt' = attempt /\ ~err'
        /\ seen' = seen /\ loc = "connect"
    BY <1>2 DEF Connect
  <2>2. CASE mode = "receive" /\ arrived > 0
    <3>1. loc' = "fetch" /\ batch' = LastOf(UpTo(arrived), Limit)
      BY <1>2, <2>2 DEF Connect, StartFetch
    <3>2. arrived \in 1..arrived' /\ arrived >= initial'
      BY <1>1, <2>1, <2>2
    <3> QED
      BY <2>1, <2>2, <3>1, <3>2 DEF AnswerShape
  <2>3. CASE mode = "receive" /\ ~(arrived > 0)
    <3>1. arrived = 0
      BY <1>1, <2>3
    <3>2. loc' = "logout" /\ emails' = <<>> /\ batch' = batch
      BY <1>2, <2>3, <3>1 DEF Connect, fetchVars
    <3>3. Newest'
      BY <2>1, <3>1, <3>2, AnswerOfNothing
    <3> QED
      BY <1>1, <2>1, <2>3, <3>2, <3>3 DEF AnswerShape
  <2>4. CASE mode # "receive"
    <3>1. loc' = IF mode = "idle" THEN "round" ELSE "search"
      BY <1>2, <2>4 DEF Connect
    <3> QED
      BY <1>1, <2>1, <2>4, <3>1 DEF AnswerShape
  <2> QED
    BY <2>2, <2>3, <2>4
<1>3. CASE SearchAnswered
  <2>1. /\ initial' = initial /\ arrived' = arrived /\ mode' = mode /\ attempt' = attempt
        /\ seen' = seen /\ loc = "search" /\ err' = err
    BY <1>3 DEF SearchAnswered
  <2>2. CASE mode = "idle"
    BY <1>1, <1>3, <2>1, <2>2 DEF SearchAnswered, AnswerShape
  <2>3. CASE mode # "idle" /\ ~SameQuestion
    BY <1>1, <1>3, <2>1, <2>3 DEF SearchAnswered, AnswerShape
  <2>4. CASE SameQuestion
    <3>1. Found = UpTo(arrived)
      <4>1. mode = "unseen" => seen = {}
        BY <2>1, <2>4 DEF AnswerShape
      <4>2. Matching = 1..arrived
        BY <2>4, <4>1 DEF Matching
      <4> QED
        BY <1>1, <4>2, FoundElements
    <3>2. Len(UpTo(arrived)) = arrived
      BY <1>1, UpToElements
    <3>3. CASE Found = <<>>
      <4>1. arrived = 0
        BY <3>1, <3>2, <3>3
      <4>2. loc' = "logout" /\ emails' = <<>> /\ batch' = batch
        BY <1>3, <2>4, <3>3 DEF SearchAnswered, fetchVars
      <4>3. Newest'
        BY <2>1, <4>1, <4>2, AnswerOfNothing
      <4> QED
        BY <1>1, <2>1, <2>4, <4>2, <4>3 DEF AnswerShape
    <3>4. CASE Found # <<>>
      <4>1. loc' = "fetch" /\ batch' = LastOf(UpTo(arrived), Limit)
        BY <1>3, <2>4, <3>1, <3>4 DEF SearchAnswered, StartFetch
      <4>2. arrived \in 1..arrived' /\ arrived >= initial'
        <5>1. arrived # 0
          <6>1. UpTo(arrived) \in Seq(1..arrived)
            BY <1>1, UpToElements
          <6> QED
            BY <3>1, <3>2, <3>4, <6>1
        <5> QED
          BY <1>1, <2>1, <5>1
      <4>3. ~err'
        BY <2>1, <2>4 DEF AnswerShape
      <4> QED
        BY <2>1, <2>4, <4>1, <4>2, <4>3 DEF AnswerShape
    <3> QED
      BY <3>3, <3>4
  <2> QED
    BY <2>2, <2>3, <2>4
<1>4. CASE FetchReturns
  <2>1. /\ initial' = initial /\ arrived' = arrived /\ mode' = mode /\ attempt' = attempt
        /\ seen' = seen /\ loc = "fetch" /\ batch' = batch /\ Finished
    BY <1>4 DEF FetchReturns, Goes, fetchVars
  <2>2. CASE mode = "idle"
    BY <1>1, <1>4, <2>1, <2>2 DEF FetchReturns, Goes, AnswerShape
  <2>3. CASE mode # "idle"
    <3>1. loc' = "logout" /\ err' = FetchErr /\ emails' = Fetched
      BY <1>4, <2>3 DEF FetchReturns, Goes
    <3>2. ASSUME SameQuestion', ~err'
          PROVE  Newest'
      <4>1. PICK n \in 1..arrived : n >= initial /\ batch = LastOf(UpTo(n), Limit)
        BY <2>1, <3>2 DEF AnswerShape
      <4> QED
        BY <2>1, <3>1, <3>2, <4>1, AnswerOfFetch
    <3> QED
      BY <1>1, <2>1, <2>3, <3>1, <3>2 DEF AnswerShape
  <2> QED
    BY <2>2, <2>3
<1>5. CASE Fetching
  <2>1. /\ UNCHANGED <<mode, initial, arrived, loc, attempt, err, emails>> /\ loc = "fetch"
    BY <1>5 DEF Fetching
  <2>2. batch' = batch
    BY <1>5 DEF Fetching, FetchStep, Respond, Answer, Broken, Watchdog, Forward, Discard,
          WorkerStep,
                Receive, Parse, Leave, fetchVars
  <2> QED
    BY <1>1, <2>1, <2>2 DEF AnswerShape
<1>6. CASE NewMail
  <2>1. /\ UNCHANGED <<mode, initial, loc, attempt, err, emails, batch, seen>>
        /\ arrived' = arrived + 1
    BY <1>6 DEF NewMail, fetchVars
  <2>2. initial' <= arrived' /\ 1..arrived \subseteq 1..arrived'
    BY <1>1, <2>1
  <2> QED
    BY <1>1, <2>1, <2>2 DEF AnswerShape, Newest
<1>7. CASE ConnectFails \/ SearchFails \/ Logout \/ Decide
  BY <1>1, <1>7 DEF ConnectFails, SearchFails, Logout, Decide, Goes, AnswerShape, Newest, fetchVars
<1>8. CASE SelectDone \/ SelectPoke \/ RoundGoesOn \/ EndIdleTimesOut \/ LeaveIdle \/ Deliver
              \/ Delivered \/ DeliverCancelled \/ StartIdle
  <2>1. mode = "idle"
    BY <1>8 DEF IdleShape, SelectDone, SelectPoke, RoundGoesOn, OwnsConnection,
          EndIdleTimesOut, LeaveIdle,
                Deliver, Delivered, DeliverCancelled, StartIdle
  <2>2. UNCHANGED <<mode, initial, arrived>>
    BY <1>8 DEF SelectDone, SelectPoke, RoundGoesOn, EndIdleTimesOut, LeaveIdle,
                Deliver, Delivered, DeliverCancelled, StartIdle, Goes
  <2> QED
    BY <1>1, <2>1, <2>2 DEF AnswerShape
<1>9. CASE ReadUpdate \/ Drain \/ IdleEnds \/ IdleElapses \/ Take \/ Fault \/ Cancel \/ UNCHANGED vars
  <2>1. UNCHANGED <<mode, initial, arrived, loc, attempt, err, emails, batch, seen>>
    BY <1>9 DEF ReadUpdate, Drain, IdleEnds, IdleElapses, IdleReturns, Take, Fault, Cancel, vars,
                fetchVars
  <2> QED
    BY <2>1 DEF AnswerShape, Newest
<1> QED
  BY <1>2, <1>3, <1>4, <1>5, <1>6, <1>7, <1>8, <1>9 DEF Next, CallStep

-----------------------------------------------------------------------------
(* Idle *)

\* What Idle has fetched: with the caller, in the channel, on the way there.
Ahead == handed \o emailChan \o emails

\* No step of the call, of the server or of the caller makes another call of it.
LEMMA ModeStays ==
    ASSUME [Next]_vars
    PROVE  mode' = mode
  BY  DEF Next, CallStep, vars, Connect, ConnectFails, StartIdle, SelectDone, SelectPoke,
        RoundGoesOn,
         EndIdleTimesOut, LeaveIdle, Deliver, Delivered, DeliverCancelled, SearchAnswered, SearchFails,
         FetchReturns, Logout, Decide, ReadUpdate, Drain, IdleEnds, IdleElapses, IdleReturns, Fetching,
         Take, NewMail, Fault, Cancel, Goes, UnchangedIdle

\* Delivering and taking an email keep the order of all of them.
LEMMA AheadStays ==
    ASSUME TypeOK, Deliver \/ Take
    PROVE  Ahead' = Ahead
<1>1. emails \in Seq(1..arrived) /\ emailChan \in Seq(1..arrived) /\ handed \in Seq(1..arrived)
  BY DEF TypeOK
<1>2. CASE Deliver
  <2>1. /\ emails # <<>> /\ emailChan' = Append(emailChan, Head(emails)) /\ emails' = Tail(emails)
        /\ handed' = handed
    BY <1>2 DEF Deliver, Goes
  <2>2. handed \o Append(emailChan, Head(emails)) = Append(handed \o emailChan, Head(emails))
    <3>1. Head(emails) \in 1..arrived
      BY <1>1, <2>1, HeadTailProperties
    <3> QED
      BY <1>1, <3>1, ConcatAppend
  <2> DEFINE before == handed \o emailChan
  <2>3. before \in Seq(1..arrived)
    BY <1>1, ConcatProperties
  <2> HIDE DEF before
  <2>4. Append(before, Head(emails)) \o Tail(emails) = before \o emails
    BY <1>1, <2>1, <2>3, MoveHead
  <2> QED
    BY <2>1, <2>2, <2>4 DEF Ahead, before
<1>3. CASE Take
  <2>1. /\ emailChan # <<>> /\ handed' = Append(handed, Head(emailChan))
        /\ emailChan' = Tail(emailChan) /\ emails' = emails
    BY <1>3 DEF Take
  <2>2. Append(handed, Head(emailChan)) \o Tail(emailChan) = handed \o emailChan
    BY <1>1, <2>1, MoveHead
  <2> QED
    BY <2>1, <2>2 DEF Ahead
<1> QED
  BY <1>2, <1>3

\* The two invariants of Idle, together.
Mail ==
    mode = "idle" /\ ~Quit =>
        /\ loc # "deliver" => emails = <<>>
        /\ ToSet(Ahead) \subseteq seen
        /\ loc = "fetch" => /\ ToSet(batch) \cap ToSet(Ahead) = {}
                            /\ \A p \in 1..got : batch[p] \in seen
        /\ IsInjective(Ahead)
        /\ seen \subseteq ToSet(Ahead) \cup Unreadable
                             \cup (IF loc = "fetch" THEN ToSet(batch) ELSE {})

\* Steps that leave the emails and the mailbox alone.
LEMMA MailAlone ==
    ASSUME Mail, Ahead' = Ahead, UNCHANGED <<mode, seen, batch, got>>,
           emails' = emails \/ loc = "deliver",
           \/ loc' = loc
           \/ Quit'
           \/ ~Quit /\ loc # "fetch" /\ loc' # "fetch" /\ emails' = <<>>
    PROVE  Mail'
  BY DEF Mail, Quit

\* Nothing has been fetched, or everything that was is on its way.
LEMMA MailStep ==
    ASSUME TypeOK, IdleShape, FetchShape, Mail, [Next]_vars
    PROVE  Mail'
<1>1. mode' = mode
  BY ModeStays
<1> SUFFICES ASSUME mode = "idle"
             PROVE  Mail'
  BY <1>1 DEF Mail
<1> USE DEF UnchangedIdle, idleVars, fetchVars, Quit
<1>2. /\ emails \in Seq(1..arrived) /\ emailChan \in Seq(1..arrived) /\ handed \in Seq(1..arrived)
  BY DEF TypeOK
<1>3. CASE Connect \/ StartIdle
  <2>1. /\ UNCHANGED <<handed, emailChan, emails, seen, batch, got>>
        /\ ~Quit /\ loc # "fetch" /\ loc # "deliver" /\ loc' # "fetch" /\ loc' # "deliver"
    BY <1>3 DEF Connect, StartIdle
  <2> QED
    BY <1>1, <2>1, MailAlone DEF Mail, Ahead
<1>4. CASE ConnectFails \/ EndIdleTimesOut \/ LeaveIdle \/ DeliverCancelled \/ SearchFails \/ Logout
  <2>1. Quit'
    BY <1>4 DEF ConnectFails, EndIdleTimesOut, LeaveIdle, DeliverCancelled, SearchFails,
          Logout, Goes
  <2> QED
    BY <2>1 DEF Mail
<1>5. CASE SelectDone \/ SelectPoke \/ RoundGoesOn
  <2>1. /\ UNCHANGED <<handed, emailChan, emails, seen, batch, got>>
        /\ ~Quit /\ loc # "fetch" /\ loc # "deliver" /\ loc' # "fetch" /\ loc' # "deliver"
    BY <1>5 DEF SelectDone, SelectPoke, RoundGoesOn, OwnsConnection, Goes
  <2> QED
    BY <1>1, <2>1, MailAlone DEF Mail, Ahead
<1>6. CASE Deliver \/ Take
  <2>1. Ahead' = Ahead
    BY <1>6, AheadStays
  <2>2. UNCHANGED <<seen, batch, got, loc>> /\ (emails' = emails \/ loc = "deliver")
    BY <1>6 DEF Deliver, Take, Goes
  <2> QED
    BY <1>1, <2>1, <2>2, MailAlone
<1>7. CASE Delivered
  <2>1. /\ UNCHANGED <<handed, emailChan, emails, seen, batch, got>> /\ emails = <<>>
        /\ loc = "deliver" /\ loc' = "round"
    BY <1>7 DEF Delivered, Goes
  <2> QED
    BY <1>1, <2>1, MailAlone DEF Ahead
<1>8. CASE SearchAnswered
  <2>1. /\ UNCHANGED <<handed, emailChan, seen, arrived>> /\ loc = "search" /\ emails = <<>>
    BY <1>8 DEF SearchAnswered, Mail
  <2>2. CASE Found = <<>>
    <3>1. UNCHANGED <<batch, got>> /\ loc' = "round" /\ emails' = <<>>
      BY <1>8, <2>2 DEF SearchAnswered
    <3> QED
      BY <1>1, <2>1, <3>1, MailAlone DEF Ahead
  <2>3. CASE Found # <<>>
    <3>1. loc' = "fetch" /\ emails' = emails
      BY <1>8, <2>3 DEF SearchAnswered
    <3>2. got' = 0 /\ ToSet(batch') \subseteq Matching
      BY <1>8, <2>3, SearchCalls DEF Called, StartFetch
    <3>3. Matching \cap seen = {}
      BY DEF Matching
    <3>4. Ahead' = Ahead
      BY <2>1, <3>1 DEF Ahead
    <3>5. ToSet(batch') \cap ToSet(Ahead) = {} /\ 1..got' = {}
      BY <2>1, <3>2, <3>3 DEF Mail
    <3> QED
      BY <1>1, <2>1, <3>1, <3>4, <3>5 DEF Mail
  <2> QED
    BY <2>2, <2>3
<1>9. CASE Fetching
  <2>1. /\ UNCHANGED <<handed, emailChan, emails, loc>> /\ loc = "fetch"
    BY <1>9 DEF Fetching
  <2>2. batch' = batch
    BY <1>9 DEF Fetching, FetchStep, Respond, Answer, Broken, Watchdog, Forward, Discard,
          WorkerStep,
                Receive, Parse, Leave
  <2>3. /\ seen \subseteq seen' /\ seen' \subseteq seen \cup ToSet(batch)
        /\ \A p \in 1..got' : p \in 1..got \/ batch[p] \in seen'
    BY <1>9, FetchingStep
  <2>4. Ahead' = Ahead
    BY <2>1 DEF Ahead
  <2> QED
    BY <1>1, <2>1, <2>2, <2>3, <2>4 DEF Mail
<1>10. CASE FetchReturns
  <2>1. CASE FetchErr
    <3>1. Quit'
      BY <1>10, <2>1 DEF FetchReturns, Goes
    <3> QED
      BY <3>1 DEF Mail
  <2>2. CASE ~FetchErr
    <3>1. /\ UNCHANGED <<handed, emailChan, seen, batch>> /\ loc = "fetch" /\ Finished
          /\ loc' = "deliver" /\ emails' = Fetched /\ emails = <<>>
      BY <1>10, <2>2 DEF FetchReturns, Goes, Mail
    <3> DEFINE before == handed \o emailChan
    <3>2. before \in Seq(1..arrived) /\ Ahead = before /\ Ahead' = before \o Fetched
      <4>1. before \in Seq(1..arrived)
        BY <1>2, ConcatProperties
      <4>2. Ahead = before \o <<>> /\ Ahead' = before \o Fetched
        BY <3>1 DEF Ahead
      <4> HIDE DEF before
      <4> QED
        BY <4>1, <4>2, ConcatEmptySeq
    <3>3. /\ Fetched \in Seq(1..arrived) /\ IsInjective(Fetched)
          /\ ToSet(Fetched) = {batch[p] : p \in collected}
          /\ ToSet(Fetched) = ToSet(batch) \ Unreadable
      BY <2>2, <3>1, FetchedElements, FetchedWithoutError
    <3> HIDE DEF before
    <3>4. /\ IsInjective(before) /\ ToSet(before) \subseteq seen
          /\ ToSet(batch) \cap ToSet(before) = {} /\ \A p \in 1..got : batch[p] \in seen
          /\ seen \subseteq ToSet(before) \cup Unreadable \cup ToSet(batch)
      BY <3>1, <3>2 DEF Mail
    <3>5. ToSet(before \o Fetched) = ToSet(before) \cup ToSet(Fetched)
      BY <3>2, <3>3, ToSetConcat
    <3>6. IsInjective(before \o Fetched)
      BY <3>2, <3>3, <3>4, InjectiveConcat
    <3>7. ToSet(Fetched) \subseteq seen
      <4>1. collected \subseteq 1..got
        <5>1. /\ taken \in 0..forwarded /\ forwarded \in 0..read /\ read \in 0..got
              /\ got \in 0..Len(batch) /\ collected \subseteq 1..taken
          BY DEF TypeOK
        <5>2. batch \in Seq(1..arrived)
          BY DEF FetchShape
        <5>3. got \in Nat
          BY <5>1, <5>2
        <5>4. read \in Nat /\ read <= got
          BY <5>1, <5>3
        <5>5. forwarded \in Nat /\ forwarded <= got
          BY <5>1, <5>3, <5>4
        <5>6. taken \in Nat /\ taken <= got
          BY <5>1, <5>3, <5>5
        <5> QED
          BY <5>1, <5>3, <5>6
      <4> QED
        BY <3>3, <3>4, <4>1
    <3> QED
      BY <1>1, <3>1, <3>2, <3>3, <3>4, <3>5, <3>6, <3>7 DEF Mail
  <2> QED
    BY <2>1, <2>2
<1>11. CASE Decide
  BY <1>11 DEF Decide, IdleShape
<1>12. CASE ReadUpdate \/ Drain \/ IdleEnds \/ IdleElapses \/ NewMail \/ Fault \/ Cancel \/ UNCHANGED vars
  <2>1. UNCHANGED <<handed, emailChan, emails, seen, batch, got, loc>>
    BY <1>12 DEF ReadUpdate, Drain, IdleEnds, IdleElapses, IdleReturns, NewMail, Fault, Cancel, vars
  <2> QED
    BY <1>1, <2>1, MailAlone DEF Ahead
<1> QED
  BY <1>3, <1>4, <1>5, <1>6, <1>7, <1>8, <1>9, <1>10, <1>11, <1>12 DEF Next, CallStep

-----------------------------------------------------------------------------
(* The theorems *)

\* The invariant holds when the call is made.
LEMMA InitHolds ==
    ASSUME Init
    PROVE  IInv
<1> USE DEF Init, FetchInit
<1>1. TypeOK /\ WireShape
  <2>1. initial \in 0..MaxMail
    BY NumbersAssumption
  <2>2. Len(<<>>) = 0 /\ {<<>>} \subseteq Seq(1..arrived)
    OBVIOUS
  <2>3. /\ {emails, emailChan, handed} \subseteq Seq(1..arrived)
        /\ taken \in 0..forwarded /\ forwarded \in 0..read /\ read \in 0..got
        /\ got \in 0..Len(batch) /\ collected \subseteq 1..taken
    BY <2>2
  <2>4. /\ wire \in 0..MaxMail /\ updates \in 0..UpdateCap
        /\ attempt \in 0..MaxRetries /\ faults \in 0..MaxFaults
    BY NumbersAssumption, BoundsAssumption
  <2>5. WireShape
    BY <2>1, NumbersAssumption DEF WireShape
  <2> QED
    BY <2>1, <2>3, <2>4, <2>5 DEF TypeOK, Locations
<1>2. IdleShape
  BY DEF IdleShape
<1>3. FetchShape
  BY DEF FetchShape, Ascending, Drained
<1>4. AnswerShape
  <2>1. initial <= arrived
    BY NumbersAssumption
  <2> QED
    BY <2>1 DEF AnswerShape
<1>5. MailShape /\ NothingForgotten
  <2>1. ToSet(<<>> \o <<>> \o <<>>) = {} /\ IsInjective(<<>> \o <<>> \o <<>>)
    <3>1. <<>> \o <<>> \o <<>> = <<>>
      <4>1. <<>> \in Seq({})
        OBVIOUS
      <4> QED
        BY <4>1, ConcatEmptySeq
    <3>2. ToSet(<<>>) = {} /\ IsInjective(<<>>)
      BY DEF ToSet, IsInjective
    <3> QED
      BY <3>1, <3>2
  <2> QED
    BY <2>1 DEF MailShape, NothingForgotten
<1> QED
  BY <1>1, <1>2, <1>3, <1>4, <1>5 DEF IInv

\* One step of the call, of its goroutines, of the server or of the caller.
LEMMA StepKeeps ==
    ASSUME IInv, [Next]_vars
    PROVE  IInv'
<1>1. TypeOK /\ WireShape /\ IdleShape /\ FetchShape /\ AnswerShape /\ MailShape /\ NothingForgotten
  BY DEF IInv
<1>2. TypeOK' /\ WireShape'
  BY <1>1, TypeStep, WireStep
<1>3. IdleShape' /\ FetchShape'
  BY <1>1, IdleStep, FetchStays
<1>4. AnswerShape'
  BY <1>1, AnswerStep
<1>5. MailShape' /\ NothingForgotten'
  <2>1. Mail <=> MailShape /\ NothingForgotten
    BY DEF Mail, MailShape, NothingForgotten, Ahead
  <2>2. Mail' <=> MailShape' /\ NothingForgotten'
    BY DEF Mail, MailShape, NothingForgotten, Ahead
  <2> QED
    BY <1>1, <2>1, <2>2, MailStep
<1> QED
  BY <1>2, <1>3, <1>4, <1>5 DEF IInv

\* The inductive invariant holds in every state.
THEOREM Invariance == Spec => []IInv
<1>1. Init => IInv
  BY InitHolds
<1>2. IInv /\ [Next]_vars => IInv'
  BY StepKeeps
<1> QED
  BY <1>1, <1>2, PTL DEF Spec

\* The values the state of the call, of its goroutines and of the server hold.
THEOREM TypeCorrect == Spec => []TypeOK
<1>1. IInv => TypeOK
  BY DEF IInv
<1> QED
  BY <1>1, Invariance, PTL

\* "Searching or fetching while the IDLE goroutine still holds the connection is both a
\* data race on the go-imap writer and a protocol violation": neither happens, whatever
\* pokes, elapses, breaks or is cancelled meanwhile.
THEOREM CommandsAreAlone == Spec => []OneCommandAtATime
<1>1. IInv => OneCommandAtATime
  BY DEF IInv, IdleShape, OneCommandAtATime
<1> QED
  BY <1>1, Invariance, PTL

\* What Idle has marked \Seen is with the caller, in the channel or on its way there, and
\* none twice, for every number of messages, workers and faults.
THEOREM IdleForgetsNothing == Spec => []NothingForgotten
<1>1. IInv => NothingForgotten
  BY DEF IInv
<1> QED
  BY <1>1, Invariance, PTL

\* A Receive or Search that reports no error returns every readable message among the last
\* Limit of the mailbox as it found it, newest first, however many workers parsed them
\* and in whichever order.
THEOREM NewestAreReturned == Spec => []NewestOrError
<1>1. IInv => NewestOrError
  BY DEF IInv, AnswerShape, SameQuestion, Newest, NewestOrError
<1> QED
  BY <1>1, Invariance, PTL

-----------------------------------------------------------------------------
(* The POP3 receiver and its inductive invariant *)

\* Only a refusal ends an attempt with marks that QUIT will commit, and only Retry
\* forgets what such an attempt has retrieved (the run Pop3Refused has both).
MarksAreKept == MayRefuse => MaxRetries = 0

\* The attempt is going to be forgotten by Retry.
Retried == err = "retryable" /\ attempt < MaxRetries

\* What the session has fetched and not yet marked.
ToMark == {session[k] : k \in ToSet(retrieved)}

\* The lists of the attempt are sequences, and attempts are counted from 0.
LocalsShape ==
    /\ attempt \in Nat
    /\ emails \in Seq(ToSet(emails))
    /\ retrieved \in Seq(ToSet(retrieved))

\* Nothing is marked before the whole batch is in emails, and all that is or will be
\* marked is there; an attempt that will be repeated has no marks to commit.
SessionShape ==
    /\ pc = "loop" => marked = {} /\ err = "nil"
    /\ pc = "dele" => err = "nil" /\ retrieved # <<>>
    /\ pc \in {"loop", "dele"} => ToMark \subseteq ToSet(emails)
    /\ pc \in {"dele", "quit"} => marked \subseteq ToSet(emails)
    /\ pc = "quit" /\ alive /\ Retried => marked = {}

\* What the server has removed is with the caller, except between the QUIT of an
\* attempt that will not be repeated and the return of Receive.
RemovedIsHanded == pc # "decide" \/ Retried => gone \subseteq handed

\* The invariant of the POP3 receiver.
Pop3Inv ==
    /\ LocalsShape
    /\ SessionShape
    /\ RemovedIsHanded
    /\ NoMailLost

-----------------------------------------------------------------------------
(* Lists of the POP3 receiver *)

\* A list with one more element is a list.
LEMMA Extended ==
    ASSUME NEW s, s \in Seq(ToSet(s)), NEW e
    PROVE  /\ ToSet(Append(s, e)) = ToSet(s) \cup {e}
           /\ Append(s, e) \in Seq(ToSet(Append(s, e)))
<1> DEFINE S == ToSet(s) \cup {e}
<1>1. s \in Seq(S) /\ e \in S
  OBVIOUS
<1>2. Append(s, e) \in Seq(S)
  BY <1>1
<1> HIDE DEF S
<1>3. ToSet(Append(s, e)) = ToSet(s) \cup {e}
  BY <1>1, ToSetAppend
<1> QED
  BY <1>2, <1>3 DEF S

\* A sequence is a sequence of its own elements.
LEMMA OwnElements ==
    ASSUME NEW S, NEW s \in Seq(S)
    PROVE  s \in Seq(ToSet(s))
<1>1. Len(s) \in Nat /\ DOMAIN s = 1..Len(s) /\ s = [k \in 1..Len(s) |-> s[k]]
  OBVIOUS
<1>2. \A k \in 1..Len(s) : s[k] \in ToSet(s)
  BY <1>1 DEF ToSet
<1>3. s \in [1..Len(s) -> ToSet(s)]
  BY <1>1, <1>2
<1> QED
  BY <1>1, <1>3, SeqDef

\* A list without its first element is a list.
LEMMA Shortened ==
    ASSUME NEW s, s \in Seq(ToSet(s)), s # <<>>
    PROVE  /\ ToSet(s) = {Head(s)} \cup ToSet(Tail(s))
           /\ Tail(s) \in Seq(ToSet(Tail(s)))
           /\ Len(s) # 1 => Tail(s) # <<>>
<1>1. /\ Tail(s) \in Seq(ToSet(s)) /\ Len(Tail(s)) = Len(s) - 1
      /\ ToSet(s) = {Head(s)} \cup ToSet(Tail(s))
  BY ToSetTail
<1>2. Tail(s) \in Seq(ToSet(Tail(s)))
  BY <1>1, OwnElements
<1>3. Len(s) # 1 => Tail(s) # <<>>
  <2>1. Len(s) \in Nat
    OBVIOUS
  <2>2. Len(s) # 1 => Len(Tail(s)) # 0
    BY <1>1, <2>1
  <2>3. \A t : Len(t) # 0 => t # <<>>
    OBVIOUS
  <2> QED
    BY <2>2, <2>3, Zenon
<1> QED
  BY <1>1, <1>2, <1>3

-----------------------------------------------------------------------------
(* Every step of the POP3 receiver keeps its invariant *)

\* A step that only moves the environment, or the connection.
LEMMA Pop3Stutters ==
    ASSUME Pop3Inv, UNCHANGED <<gone, session, marked, alive, pc, attempt, emails, retrieved, err,
                     handed>>
    PROVE  Pop3Inv'
  BY DEF Pop3Inv, LocalsShape, SessionShape, ToMark, Retried, RemovedIsHanded, NoMailLost

\* One step of Receive, of the server or of the caller.
LEMMA Pop3StepKeeps ==
    ASSUME MarksAreKept, Pop3Inv, [PollNext]_pollVars
    PROVE  Pop3Inv'
<1> USE BoundsAssumption DEF Pop3Inv, LocalsShape, SessionShape, RemovedIsHanded, NoMailLost, Retried,
            server, caller
<1>1. CASE UNCHANGED pollVars
  BY <1>1, Pop3Stutters DEF pollVars
<1>2. CASE Arrive
  BY <1>2, Pop3Stutters DEF Arrive
<1>3. CASE Poll
  BY <1>3 DEF Poll, ToMark, ToSet
<1>4. CASE CancelPoll
  BY <1>4, Pop3Stutters DEF CancelPoll
<1>5. CASE OpenSession
  BY <1>5 DEF OpenSession, ToMark, ToSet
<1>6. CASE LoopCancelled
  BY <1>6 DEF LoopCancelled
<1>7. CASE Retr
  <2>1. pc = "loop" /\ pc' = "loop"
        /\ UNCHANGED <<gone, session, marked, alive, attempt, err, handed>>
    BY <1>7 DEF Retr
  <2>2. CASE session[i] \in Unreadable
    BY <1>7, <2>1, <2>2 DEF Retr, ToMark
  <2>3. CASE session[i] \notin Unreadable
    <3>1. emails' = Append(emails, session[i]) /\ retrieved' = Append(retrieved, i)
      BY <1>7, <2>3 DEF Retr
    <3>2. /\ ToSet(emails') = ToSet(emails) \cup {session[i]} /\ emails' \in Seq(ToSet(emails'))
          /\ ToSet(retrieved') = ToSet(retrieved) \cup {i} /\ retrieved' \in Seq(ToSet(retrieved'))
      BY <3>1, Extended
    <3>3. ToMark' = ToMark \cup {session[i]}
      BY <2>1, <3>2 DEF ToMark
    <3> QED
      BY <2>1, <3>2, <3>3
  <2> QED
    BY <2>2, <2>3
<1>8. CASE LoopEnds
  BY <1>8 DEF LoopEnds, ToMark
<1>9. CASE Dele
  <2>1. /\ pc = "dele" /\ pc' = (IF Len(retrieved) = 1 THEN "quit" ELSE "dele")
        /\ marked' = marked \cup {session[Head(retrieved)]} /\ retrieved' = Tail(retrieved)
        /\ UNCHANGED <<gone, session, alive, attempt, emails, err, handed>>
    BY <1>9 DEF Dele
  <2>2. /\ ToSet(retrieved) = {Head(retrieved)} \cup ToSet(retrieved')
        /\ retrieved' \in Seq(ToSet(retrieved'))
        /\ Len(retrieved) # 1 => retrieved' # <<>>
    BY <2>1, Shortened
  <2>3. ToMark = ToMark' \cup {session[Head(retrieved)]}
    BY <2>1, <2>2 DEF ToMark
  <2> QED
    BY <2>1, <2>2, <2>3
<1>10. CASE QuitSession
  BY <1>10 DEF QuitSession
<1>11. CASE RetryCancelled
  BY <1>11 DEF RetryCancelled, Return
<1>12. CASE DecidePoll
  BY <1>12 DEF DecidePoll, Return
<1>13. CASE OpenFails
  BY <1>13 DEF OpenFails, ToSet
<1>14. CASE RetrFails
  BY <1>14 DEF RetrFails
<1>15. CASE DeleFails
  <2>1. alive' => MaxRetries = 0
    BY <1>15, Zenon DEF DeleFails, MarksAreKept
  <2>2. MaxRetries = 0 => ~(attempt < MaxRetries)
    OBVIOUS
  <2> QED
    BY <1>15, <2>1, <2>2 DEF DeleFails
<1>16. CASE QuitFails
  BY <1>16 DEF QuitFails
<1> QED
  BY <1>1, <1>2, <1>3, <1>4, <1>5, <1>6, <1>7, <1>8, <1>9, <1>10, <1>11, <1>12, <1>13,
     <1>14, <1>15, <1>16
     DEF PollNext, Step, Faulty

-----------------------------------------------------------------------------

\* The invariant, which no step, fault or arrival breaks.
THEOREM Pop3Invariance ==
    ASSUME MarksAreKept
    PROVE  PollSpec => []Pop3Inv
<1>1. PollInit => Pop3Inv
  <2>1. <<>> \in Seq(ToSet(<<>>))
    OBVIOUS
  <2> QED
    BY <2>1 DEF PollInit, Pop3Inv, LocalsShape, SessionShape, RemovedIsHanded, NoMailLost
<1>2. Pop3Inv /\ [PollNext]_pollVars => Pop3Inv'
  BY Pop3StepKeeps
<1> QED
  BY <1>1, <1>2, PTL DEF PollSpec

\* "A failure mid-poll cannot lose mail": whatever breaks between RETR and QUIT, however
\* often Retry starts over and whatever arrives meanwhile, a message that the server
\* has removed is with the caller or in what Receive is about to return.
THEOREM MailIsKept ==
    ASSUME MarksAreKept
    PROVE  PollSpec => []NoMailLost
<1>1. Pop3Inv => NoMailLost
  BY DEF Pop3Inv
<1> QED
  BY <1>1, Pop3Invariance, PTL

-----------------------------------------------------------------------------
(* The operations that change a mailbox, and their inductive invariant *)

\* The types of the server's state, and the parts of a call its course depends on.
CallOK(p) ==
    /\ call[p].kind \in {"delete", "move", "add", "remove"}
    /\ stage[p] = "out" => call[p] = NoCall
    /\ stage[p] = "run" => uidSet(call[p].uids)

ServerOK ==
    /\ hasMove \in BOOLEAN
    /\ source \subseteq Messages
    /\ dest \in [Messages -> Nat]
    /\ DOMAIN call = Callers
    /\ DOMAIN stage = Callers
    /\ step \in [Callers -> 1..3]
    /\ \A p \in Callers : CallOK(p)

\* A caller in the middle of a call has a next command; by its last one, what a move
\* names has been copied, and what a delete or a move names has been marked,
\* unless somebody takes the mark back.
Progress(p) ==
    LET named == source \cap ToSet(call[p].uids)
        kind  == call[p].kind
    IN  /\ stage[p] = "run" => step[p] <= Len(Script(call[p]))
        /\ stage[p] = "run" /\ kind = "move" /\ step[p] > 1 => \A m \in named : dest[m] > 0
        /\ stage[p] = "run" /\ <<kind, step[p]>> \in {<<"delete", 2>>, <<"move", 3>>} =>
               \A m \in named : "deleted" \in flags[m] \/ TakenBack(m)
        /\ stage[p] = "ok" /\ kind \in {"delete", "move"} => \A m \in named : TakenBack(m)

\* A message nobody wants deleted carries \Deleted only when Move has copied it.
MarkedIsCopied ==
    \A m \in Messages : ~Condemned(m) /\ "deleted" \in flags[m] =>
        dest[m] > 0 /\ Naming(m, {"move"}) # {}

MailboxInv ==
    /\ ServerOK
    /\ \A p \in Callers : Progress(p)
    /\ MarkedIsCopied
    /\ NothingLost

-----------------------------------------------------------------------------
(* What a command changes *)

\* The set of UIDs in a command is never the empty one, which would mean all.
LEMMA NamedIs ==
    ASSUME ServerOK, NEW p \in Callers, stage[p] = "run"
    PROVE  Named(p) = source \cap ToSet(call[p].uids)
  BY DEF ServerOK, CallOK, Named, uidSet

\* Which command comes next says how far the call has come.
LEMMA NextCommand ==
    ASSUME ServerOK, NEW p \in Callers, Progress(p), stage[p] = "run"
    PROVE  LET kind    == call[p].kind
               length  == Len(Script(call[p]))
               command == Script(call[p])[step[p]]
           IN  \/ kind \in {"add", "remove"} /\ step[p] = 1 /\ length = 1 /\ command = "store"
               \/ kind = "delete" /\ step[p] = 1 /\ length = 2 /\ command = "store"
               \/ kind = "delete" /\ step[p] = 2 /\ length = 2 /\ command = "expunge"
               \/ kind = "move" /\ step[p] = 1 /\ length = 3 /\ command = "copy"
               \/ kind = "move" /\ step[p] = 2 /\ length = 3 /\ command = "store"
               \/ kind = "move" /\ step[p] = 3 /\ length = 3 /\ command = "expunge"
               \/ kind = "move" /\ step[p] = 1 /\ length = 1 /\ command = "move"
<1>1. /\ step[p] \in {1, 2, 3} /\ step[p] <= Len(Script(call[p]))
      /\ call[p].kind \in {"delete", "move", "add", "remove"}
  BY DEF ServerOK, Progress, CallOK
<1>2. CASE call[p].kind = "delete"
  <2>1. Script(call[p]) = <<"store", "expunge">>
    BY <1>2 DEF Script
  <2> QED
    BY <1>1, <1>2, <2>1
<1>3. CASE call[p].kind \in {"add", "remove"}
  <2>1. Script(call[p]) = <<"store">>
    BY <1>3 DEF Script
  <2> QED
    BY <1>1, <1>3, <2>1
<1>4. CASE call[p].kind = "move" /\ hasMove
  <2>1. Script(call[p]) = <<"move">>
    BY <1>4 DEF Script
  <2> QED
    BY <1>1, <1>4, <2>1
<1>5. CASE call[p].kind = "move" /\ ~hasMove
  <2>1. Script(call[p]) = <<"copy", "store", "expunge">>
    BY <1>5 DEF Script
  <2> QED
    BY <1>1, <1>5, <2>1
<1> QED
  BY <1>1, <1>2, <1>3, <1>4, <1>5

\* The next commands of a call are there from the first one on.
LEMMA ScriptNotEmpty ==
    ASSUME ServerOK, NEW p \in Callers
    PROVE  Len(Script(call[p])) \in 1..3
<1>1. CASE call[p].kind = "delete"
  BY <1>1 DEF Script
<1>2. CASE call[p].kind \in {"add", "remove"}
  BY <1>2 DEF Script
<1>3. CASE call[p].kind = "move"
  BY <1>3 DEF Script
<1> QED
  BY <1>1, <1>2, <1>3 DEF ServerOK, CallOK

\* What any command leaves in force at the server: nothing comes back into the
\* mailbox, no copy goes away, and only a caller that takes \Deleted back removes it.
Kept ==
    /\ source' \subseteq source
    /\ dest' \in [Messages -> Nat] /\ \A m \in Messages : dest[m] > 0 => dest'[m] > 0
    /\ \A m \in Messages :
          "deleted" \in flags[m] => "deleted" \in flags'[m] \/ TakenBack(m)

\* The commands one by one: a message nobody wants deleted is not lost, and the
\* caller gets what its next command builds on.
LEMMA ExecuteEffect ==
    ASSUME MailboxInv, NEW p \in Callers, stage[p] = "run",
           Execute(p, Script(call[p])[step[p]])
    PROVE  /\ Kept
           /\ \A m \in Messages : ~Condemned(m) /\ "deleted" \in flags'[m] =>
                  dest'[m] > 0 /\ Naming(m, {"move"}) # {}
           /\ \A m \in Messages : ~Condemned(m) =>
                  m \in source' \/ (dest'[m] > 0 /\ Naming(m, {"move"}) # {})
           /\ call[p].kind = "move" => \A m \in source' \cap ToSet(call[p].uids) : dest'[m] > 0
           /\ <<call[p].kind, step[p]>> \in {<<"delete", 1>>, <<"move", 2>>} =>
                  \A m \in source' \cap ToSet(call[p].uids) : "deleted" \in flags'[m]
           /\ call[p].kind \in {"delete", "move"} /\ step[p] = Len(Script(call[p])) =>
                  \A m \in source' \cap ToSet(call[p].uids) : TakenBack(m)
<1> DEFINE uids == ToSet(call[p].uids)
           kind == call[p].kind
           command == Script(call[p])[step[p]]
           length == Len(Script(call[p]))
           Effect ==
             /\ Kept
             /\ \A m \in Messages : ~Condemned(m) /\ "deleted" \in flags'[m] =>
                    dest'[m] > 0 /\ Naming(m, {"move"}) # {}
             /\ \A m \in Messages : ~Condemned(m) =>
                    m \in source' \/ (dest'[m] > 0 /\ Naming(m, {"move"}) # {})
             /\ kind = "move" => \A m \in source' \cap uids : dest'[m] > 0
             /\ <<kind, step[p]>> \in {<<"delete", 1>>, <<"move", 2>>} =>
                    \A m \in source' \cap uids : "deleted" \in flags'[m]
             /\ kind \in {"delete", "move"} /\ step[p] = length =>
                    \A m \in source' \cap uids : TakenBack(m)
<1> SUFFICES Effect
  OBVIOUS
<1>1. Execute(p, command)
  OBVIOUS
<1>2. /\ source \subseteq Messages /\ dest \in [Messages -> Nat]
      /\ Named(p) = source \cap uids
      /\ \A m \in Messages : ~Condemned(m) /\ "deleted" \in flags[m] =>
             dest[m] > 0 /\ Naming(m, {"move"}) # {}
      /\ \A m \in Messages : ~Condemned(m) =>
             m \in source \/ (dest[m] > 0 /\ Naming(m, {"move"}) # {})
      /\ kind = "move" /\ step[p] > 1 => \A m \in source \cap uids : dest[m] > 0
      /\ <<kind, step[p]>> \in {<<"delete", 2>>, <<"move", 3>>} =>
             \A m \in source \cap uids : "deleted" \in flags[m] \/ TakenBack(m)
  BY NamedIs DEF MailboxInv, ServerOK, MarkedIsCopied, NothingLost, Progress
<1>3. \A m \in Messages : m \in uids =>
        /\ kind = "move" => Naming(m, {"move"}) # {}
        /\ kind = "remove" /\ call[p].flag = "deleted" => TakenBack(m)
        /\ kind = "delete" \/ (kind = "add" /\ call[p].flag = "deleted") => Condemned(m)
  BY DEF Naming, Condemned, TakenBack
<1>4. step[p] \in 1..3
  BY DEF MailboxInv, ServerOK
<1>5. \/ kind \in {"add", "remove"} /\ step[p] = 1 /\ length = 1 /\ command = "store"
      \/ kind = "delete" /\ step[p] = 1 /\ length = 2 /\ command = "store"
      \/ kind = "delete" /\ step[p] = 2 /\ length = 2 /\ command = "expunge"
      \/ kind = "move" /\ step[p] = 1 /\ length = 3 /\ command = "copy"
      \/ kind = "move" /\ step[p] = 2 /\ length = 3 /\ command = "store"
      \/ kind = "move" /\ step[p] = 3 /\ length = 3 /\ command = "expunge"
      \/ kind = "move" /\ step[p] = 1 /\ length = 1 /\ command = "move"
  BY NextCommand DEF MailboxInv
<1> HIDE DEF uids, kind, command, length
<1>6. CASE command = "store" /\ kind \in {"add", "remove"}
  <2>1. Store(p)
    BY <1>1, <1>6 DEF Execute
  <2>2. UNCHANGED <<source, dest>>
    BY <2>1 DEF Store
  <2>3. ASSUME NEW m \in Messages
        PROVE  /\ "deleted" \in flags[m] => "deleted" \in flags'[m] \/ TakenBack(m)
               /\ "deleted" \in flags'[m] /\ ~Condemned(m) => "deleted" \in flags[m]
    <3>1. CASE m \notin Named(p)
      BY <2>1, <3>1 DEF Store
    <3>2. CASE m \in Named(p) /\ kind = "add"
      <4>1. flags'[m] = flags[m] \cup {call[p].flag}
        BY <2>1, <3>2 DEF Store, kind
      <4> QED
        BY <1>2, <1>3, <3>2, <4>1
    <3>3. CASE m \in Named(p) /\ kind = "remove"
      <4>1. flags'[m] = flags[m] \ {call[p].flag}
        BY <2>1, <3>3 DEF Store, kind
      <4> QED
        BY <1>2, <1>3, <3>3, <4>1
    <3> QED
      BY <1>6, <3>1, <3>2, <3>3
  <2> QED
    BY <1>2, <1>6, <2>2, <2>3 DEF Kept
<1>7. CASE command = "store" /\ <<kind, step[p]>> \in {<<"delete", 1>>, <<"move", 2>>} /\ step[p] < length
  <2>1. Store(p)
    BY <1>1, <1>7 DEF Execute
  <2>2. UNCHANGED <<source, dest>>
    BY <2>1 DEF Store
  <2>3. \A m \in Messages :
          flags'[m] = IF m \in Named(p) THEN flags[m] \cup {"deleted"} ELSE flags[m]
    BY <1>7, <2>1 DEF Store, kind
  <2>4. kind \in {"delete", "move"} /\ (kind = "move" => step[p] = 2) /\ step[p] # length
    BY <1>7
  <2>5. ASSUME NEW m \in Messages, "deleted" \in flags'[m], ~Condemned(m)
        PROVE  dest[m] > 0 /\ Naming(m, {"move"}) # {}
    <3>1. CASE m \notin Named(p)
      BY <1>2, <2>3, <2>5, <3>1
    <3>2. CASE m \in Named(p) /\ kind = "move"
      <4>1. m \in source \cap uids /\ step[p] > 1
        BY <1>2, <2>4, <3>2
      <4> QED
        BY <1>2, <1>3, <2>4, <3>2, <4>1
    <3> QED
      BY <1>2, <1>3, <2>4, <2>5, <3>1, <3>2
  <2>6. \A m \in Messages : "deleted" \in flags[m] => "deleted" \in flags'[m]
    BY <2>3
  <2>7. \A m \in source \cap uids : "deleted" \in flags'[m]
    BY <1>2, <2>3
  <2>8. kind = "move" => \A m \in source \cap uids : dest[m] > 0
    BY <1>2, <2>4
  <2>9. Kept
    BY <1>2, <2>2, <2>6 DEF Kept
  <2> QED
    BY <1>2, <2>2, <2>4, <2>5, <2>7, <2>8, <2>9
<1>8. CASE command = "copy" /\ kind = "move" /\ step[p] = 1 /\ length = 3
  <2>1. Copied(p) /\ UNCHANGED <<source, flags>>
    BY <1>1, <1>8 DEF Execute
  <2>2. \A m \in Messages : dest'[m] = IF m \in Named(p) THEN dest[m] + 1 ELSE dest[m]
    BY <2>1 DEF Copied
  <2>3. dest' \in [Messages -> Nat]
    BY <1>2, <2>1 DEF Copied
  <2>4. \A m \in Messages : dest[m] \in Nat
    BY <1>2
  <2>5. \A m \in Messages : (dest[m] > 0 => dest'[m] > 0) /\ (m \in Named(p) => dest'[m] > 0)
    BY <2>2, <2>4
  <2> QED
    BY <1>2, <1>8, <2>1, <2>3, <2>5 DEF Kept
<1>9. CASE command = "expunge" /\ <<kind, step[p]>> \in {<<"delete", 2>>, <<"move", 3>>}
  <2>1. source' = {m \in source : "deleted" \notin flags[m]} /\ UNCHANGED <<dest, flags>>
    BY <1>1, <1>9 DEF Execute
  <2>2. \A m \in source' \cap uids : TakenBack(m)
    BY <1>2, <1>9, <2>1
  <2>3. kind = "move" => \A m \in source' \cap uids : dest'[m] > 0
    BY <1>2, <1>9, <2>1
  <2>4. ~(<<kind, step[p]>> \in {<<"delete", 1>>, <<"move", 2>>})
    BY <1>9
  <2> QED
    BY <1>2, <2>1, <2>2, <2>3, <2>4 DEF Kept
<1>10. CASE command = "move" /\ kind = "move" /\ step[p] = 1
  <2>1. Copied(p) /\ source' = source \ Named(p) /\ UNCHANGED flags
    BY <1>1, <1>10 DEF Execute
  <2>2. \A m \in Messages : dest'[m] = IF m \in Named(p) THEN dest[m] + 1 ELSE dest[m]
    BY <2>1 DEF Copied
  <2>3. dest' \in [Messages -> Nat]
    BY <1>2, <2>1 DEF Copied
  <2>4. \A m \in Messages : dest[m] \in Nat
    BY <1>2
  <2>5. \A m \in Messages : (dest[m] > 0 => dest'[m] > 0) /\ (m \in Named(p) => dest'[m] > 0)
    BY <2>2, <2>4
  <2>6. source' \cap uids = {}
    BY <1>2, <2>1
  <2> QED
    BY <1>2, <1>3, <1>10, <2>1, <2>3, <2>5, <2>6 DEF Kept
<1> QED
  <2> HIDE DEF Effect
  <2> QED
    BY <1>5, <1>6, <1>7, <1>8, <1>9, <1>10

-----------------------------------------------------------------------------
(* Every step preserves the invariant *)

\* While the calls stay, so does who names a message, and what a call still has to do.
LEMMA SameCalls ==
    ASSUME UNCHANGED <<hasMove, call>>
    PROVE  /\ \A m, kinds : Naming(m, kinds)' = Naming(m, kinds)
           /\ \A m : Condemned(m)' = Condemned(m) /\ TakenBack(m)' = TakenBack(m)
           /\ \A p : Script(call[p])' = Script(call[p])
  BY DEF Naming, Condemned, TakenBack, Script

\* What a caller relies on survives the commands of the others.
LEMMA OthersKeep ==
    ASSUME ServerOK, Kept, UNCHANGED <<hasMove, call>>,
           NEW q \in Callers, Progress(q), stage'[q] = stage[q], step'[q] = step[q]
    PROVE  Progress(q)'
<1> USE SameCalls
<1>1. source' \cap ToSet(call[q].uids) \subseteq source \cap ToSet(call[q].uids)
  BY DEF Kept
<1>2. source \subseteq Messages
  BY DEF ServerOK
<1>3. call'[q] = call[q] /\ ToSet(call'[q].uids) = ToSet(call[q].uids)
  OBVIOUS
<1>4. Len(Script(call[q])') = Len(Script(call[q]))
  OBVIOUS
<1>5. \A m \in Messages : TakenBack(m)' = TakenBack(m)
  OBVIOUS
<1> QED
  BY <1>1, <1>2, <1>3, <1>4, <1>5 DEF Progress, Kept

\* A command that fails may have done nothing, or all of its work.
LEMMA ServerStep ==
    ASSUME MailboxInv, NEW p \in Callers, UNCHANGED <<hasMove, call>>,
           Untouched \/ (stage[p] = "run" /\ Execute(p, Script(call[p])[step[p]]))
    PROVE  Kept /\ MarkedIsCopied' /\ NothingLost'
<1> USE SameCalls
<1>1. CASE Untouched
  <2>1. UNCHANGED <<source, dest, flags>>
    BY <1>1 DEF Untouched
  <2>2. Kept
    BY <2>1 DEF Kept, MailboxInv, ServerOK
  <2> QED
    BY <2>1, <2>2 DEF MailboxInv, MarkedIsCopied, NothingLost
<1>2. CASE stage[p] = "run" /\ Execute(p, Script(call[p])[step[p]])
  BY <1>2, ExecuteEffect DEF MarkedIsCopied, NothingLost
<1> QED
  BY <1>1, <1>2

\* A call names its messages from the moment it is made; until then it names none.
LEMMA MakeCallStep ==
    ASSUME MailboxInv, NEW p \in Callers, NEW c \in Calls, Call(p, c)
    PROVE  MailboxInv'
<1>1. /\ stage[p] = "out" /\ call[p] = NoCall /\ DOMAIN call = Callers /\ DOMAIN stage = Callers
      /\ stage' = [stage EXCEPT ![p] = "connect"]
      /\ UNCHANGED <<hasMove, source, dest, flags, step>>
  BY DEF MailboxInv, ServerOK, CallOK, Call, Untouched
<1>2. PICK uids : call' = [call EXCEPT ![p] = [c EXCEPT !.uids = uids]]
  BY DEF Call
<1>3. call'[p].kind \in {"delete", "move", "add", "remove"}
  <2>1. c \in CallRecords
    BY CallsAssumption
  <2> QED
    BY <1>1, <1>2, <2>1 DEF CallRecords
<1>4. \A q \in Callers : q # p => call'[q] = call[q] /\ stage'[q] = stage[q]
  BY <1>1, <1>2
<1>5. ToSet(call[p].uids) = {}
  BY <1>1 DEF NoCall, ToSet
<1>6. \A m, kinds : Naming(m, kinds) \subseteq Naming(m, kinds)'
  BY <1>4, <1>5 DEF Naming
<1>7. \A m : (Condemned(m) => Condemned(m)') /\ (TakenBack(m) => TakenBack(m)')
  <2> TAKE m
  <2>1. \A kinds : \A q \in Naming(m, kinds) : q \in Callers /\ q # p
    BY <1>5 DEF Naming
  <2>2. Condemned(m) => Condemned(m)'
    BY <1>4, <1>6, <2>1 DEF Condemned
  <2>3. TakenBack(m) => TakenBack(m)'
    BY <1>4, <1>6, <2>1 DEF TakenBack
  <2> QED
    BY <2>2, <2>3
<1>8. ServerOK'
  <2>1. ASSUME NEW q \in Callers
        PROVE  CallOK(q)'
    BY <1>1, <1>3, <1>4, <2>1 DEF MailboxInv, ServerOK, CallOK
  <2>2. DOMAIN call' = Callers /\ DOMAIN stage' = Callers
    BY <1>1, <1>2
  <2> QED
    BY <1>1, <2>1, <2>2 DEF MailboxInv, ServerOK
<1>9. ASSUME NEW q \in Callers
      PROVE  Progress(q)'
  <2>1. CASE q = p
    BY <1>1, <2>1 DEF Progress
  <2>2. CASE q # p
    <3>1. call'[q] = call[q] /\ stage'[q] = stage[q] /\ step'[q] = step[q]
      BY <1>1, <1>4, <2>2
    <3>2. Script(call[q])' = Script(call[q])
      BY <1>1, <3>1 DEF Script
    <3>3. Progress(q)
      BY DEF MailboxInv
    <3> QED
      BY <1>1, <1>7, <3>1, <3>2, <3>3 DEF Progress
  <2> QED
    BY <2>1, <2>2
<1>10. MarkedIsCopied' /\ NothingLost'
  BY <1>1, <1>6, <1>7 DEF MailboxInv, MarkedIsCopied, NothingLost
<1> QED
  BY <1>8, <1>9, <1>10 DEF MailboxInv

\* withMailbox connects; fn builds its set of UIDs before its first command.
LEMMA ConnectStep ==
    ASSUME MailboxInv, NEW p \in Callers, ConnectMailbox(p)
    PROVE  MailboxInv'
<1>1. /\ stage[p] = "connect" /\ UNCHANGED <<hasMove, call, source, dest, flags>>
      /\ stage' = [stage EXCEPT ![p] = IF uidSet(call[p].uids) THEN "run" ELSE "failed"]
      /\ step' = [step EXCEPT ![p] = 1]
      /\ DOMAIN stage = Callers /\ step \in [Callers -> 1..3]
  BY DEF ConnectMailbox, Enters, Untouched, MailboxInv, ServerOK
<1>2. Kept /\ MarkedIsCopied' /\ NothingLost'
  BY <1>1, ServerStep DEF Untouched
<1>3. stage'[p] = (IF uidSet(call[p].uids) THEN "run" ELSE "failed") /\ step'[p] = 1
  BY <1>1
<1>4. ServerOK'
  <2>1. ASSUME NEW q \in Callers
        PROVE  CallOK(q)'
    BY <1>1, <1>3, <2>1 DEF MailboxInv, ServerOK, CallOK
  <2>2. step' \in [Callers -> 1..3] /\ DOMAIN stage' = Callers
    BY <1>1
  <2> QED
    BY <1>1, <2>1, <2>2 DEF MailboxInv, ServerOK
<1>5. ASSUME NEW q \in Callers
      PROVE  Progress(q)'
  <2>1. CASE q = p
    <3>1. Len(Script(call[p])') \in 1..3
      BY <1>1, ScriptNotEmpty, SameCalls DEF MailboxInv
    <3>2. 1 <= Len(Script(call[p])')
      <4>1. \A n \in 1..3 : 1 <= n
        OBVIOUS
      <4> QED
        BY <3>1, <4>1, Zenon
    <3>3. call'[p] = call[p] /\ step'[p] = 1 /\ stage'[p] # "ok"
      BY <1>1, <1>3
    <3>4. ~(<<call[p].kind, 1>> \in {<<"delete", 2>>, <<"move", 3>>})
      OBVIOUS
    <3> QED
      BY <2>1, <3>2, <3>3, <3>4 DEF Progress
  <2>2. CASE q # p
    BY <1>1, <1>2, <2>2, OthersKeep DEF MailboxInv
  <2> QED
    BY <2>1, <2>2
<1> QED
  BY <1>2, <1>4, <1>5 DEF MailboxInv

\* A command that succeeds brings the call one further, or to its end.
LEMMA CommandStep ==
    ASSUME MailboxInv, NEW p \in Callers, Command(p)
    PROVE  MailboxInv'
<1> DEFINE length == Len(Script(call[p]))
           more == step[p] < length
<1>1. /\ stage[p] = "run" /\ UNCHANGED <<hasMove, call>>
      /\ Execute(p, Script(call[p])[step[p]])
      /\ stage' = [stage EXCEPT ![p] = IF more THEN "run" ELSE "ok"]
      /\ step' = IF more THEN [step EXCEPT ![p] = @ + 1] ELSE step
      /\ DOMAIN stage = Callers /\ step \in [Callers -> 1..3]
  BY DEF Command, Enters, MailboxInv, ServerOK
<1>2. Kept /\ MarkedIsCopied' /\ NothingLost'
  BY <1>1, ServerStep
<1>3. Len(Script(call[p])) \in 1..3 /\ step[p] \in 1..3 /\ step[p] <= Len(Script(call[p]))
  BY <1>1, ScriptNotEmpty DEF MailboxInv, Progress
<1>4. /\ stage'[p] = (IF more THEN "run" ELSE "ok")
      /\ step'[p] = (IF more THEN step[p] + 1 ELSE step[p])
  BY <1>1
<1>5. ServerOK'
  <2>1. ASSUME NEW q \in Callers
        PROVE  CallOK(q)'
    BY <1>1, <1>4, <2>1 DEF MailboxInv, ServerOK, CallOK
  <2>2. step' \in [Callers -> 1..3] /\ DOMAIN stage' = Callers
    <3>1. length \in 1..3 /\ step[p] \in 1..3
      BY <1>3
    <3> HIDE DEF length
    <3>2. more => step[p] + 1 \in 1..3
      BY <3>1
    <3> HIDE DEF more
    <3> QED
      BY <1>1, <3>2
  <2>3. source' \subseteq Messages /\ dest' \in [Messages -> Nat]
    BY <1>2 DEF Kept, MailboxInv, ServerOK
  <2> QED
    BY <1>1, <2>1, <2>2, <2>3 DEF MailboxInv, ServerOK
<1>6. ASSUME NEW q \in Callers
      PROVE  Progress(q)'
  <2>1. CASE q = p
    <3> DEFINE kind == call[p].kind
               here == source' \cap ToSet(call[p].uids)
    <3>1. /\ kind = "move" => \A m \in here : dest'[m] > 0
          /\ <<kind, step[p]>> \in {<<"delete", 1>>, <<"move", 2>>} =>
                 \A m \in here : "deleted" \in flags'[m]
          /\ kind \in {"delete", "move"} /\ ~more => \A m \in here : TakenBack(m)'
      BY <1>1, <1>3, ExecuteEffect, SameCalls
    <3>2. Len(Script(call[p])') = Len(Script(call[p])) /\ call'[p] = call[p]
      BY <1>1, SameCalls
    <3>3. <<kind, step'[p]>> \in {<<"delete", 2>>, <<"move", 3>>} /\ stage'[p] = "run" =>
              <<kind, step[p]>> \in {<<"delete", 1>>, <<"move", 2>>}
      BY <1>3, <1>4
    <3>4. stage'[p] = "run" => step'[p] <= Len(Script(call[p]))
      BY <1>3, <1>4
    <3>5. stage'[p] = "ok" => ~more
      BY <1>4
    <3> QED
      BY <2>1, <3>1, <3>2, <3>3, <3>4, <3>5 DEF Progress
  <2>2. CASE q # p
    BY <1>1, <1>2, <2>2, OthersKeep DEF MailboxInv
  <2> QED
    BY <2>1, <2>2
<1> QED
  BY <1>2, <1>5, <1>6 DEF MailboxInv

\* The steps that leave a call without a next command: a failure, whatever the server
\* has done of it, and what Retry decides then.
LEMMA HaltStep ==
    ASSUME MailboxInv, NEW p \in Callers, Fails(p) \/ RetryAgain(p) \/ GiveUp(p)
    PROVE  MailboxInv'
<1>1. PICK to \in {"decide", "connect", "failed"} : stage' = [stage EXCEPT ![p] = to]
  BY DEF Fails, RetryAgain, GiveUp, Enters
<1>2. /\ UNCHANGED <<hasMove, call, step>>
      /\ Untouched \/ (stage[p] = "run" /\ Execute(p, Script(call[p])[step[p]]))
      /\ DOMAIN stage = Callers /\ stage[p] # "out"
  BY DEF Fails, RetryAgain, GiveUp, Enters, MailboxInv, ServerOK
<1>3. Kept /\ MarkedIsCopied' /\ NothingLost'
  BY <1>2, ServerStep
<1>4. stage'[p] = to /\ \A q \in Callers : q # p => stage'[q] = stage[q]
  BY <1>1, <1>2
<1>5. ServerOK'
  <2>1. ASSUME NEW q \in Callers
        PROVE  CallOK(q)'
    BY <1>1, <1>2, <1>4, <2>1 DEF MailboxInv, ServerOK, CallOK
  <2>2. source' \subseteq Messages /\ dest' \in [Messages -> Nat] /\ DOMAIN stage' = Callers
    BY <1>1, <1>2, <1>3 DEF Kept, MailboxInv, ServerOK
  <2> QED
    BY <1>2, <2>1, <2>2 DEF MailboxInv, ServerOK
<1>6. ASSUME NEW q \in Callers
      PROVE  Progress(q)'
  <2>1. CASE q = p
    BY <1>4, <2>1 DEF Progress
  <2>2. CASE q # p
    BY <1>2, <1>3, <1>4, <2>2, OthersKeep DEF MailboxInv
  <2> QED
    BY <2>1, <2>2
<1> QED
  BY <1>3, <1>5, <1>6 DEF MailboxInv

-----------------------------------------------------------------------------
(* The theorems *)

\* What the callers of Delete, Move and the flag operations rely on, in every state:
\* ServerOK and NothingLost, with what makes them inductive.
THEOREM MailboxInvariance == MailboxSpec => []MailboxInv
<1>1. MailboxInit => MailboxInv
  <2> SUFFICES ASSUME MailboxInit
               PROVE  MailboxInv
    OBVIOUS
  <2>1. ServerOK
    BY MoveAssumption DEF MailboxInit, ServerOK, CallOK, NoCall
  <2>2. (\A p \in Callers : Progress(p)) /\ MarkedIsCopied /\ NothingLost
    BY DEF MailboxInit, Progress, MarkedIsCopied, NothingLost
  <2> QED
    BY <2>1, <2>2 DEF MailboxInv
<1>2. MailboxInv /\ [MailboxNext]_mailboxVars => MailboxInv'
  <2> SUFFICES ASSUME MailboxInv, [MailboxNext]_mailboxVars
               PROVE  MailboxInv'
    OBVIOUS
  <2>1. CASE MailboxNext
    BY <2>1, MakeCallStep, ConnectStep, CommandStep, HaltStep DEF MailboxNext
  <2>2. CASE UNCHANGED mailboxVars
    BY <2>2 DEF mailboxVars, MailboxInv, ServerOK, CallOK, Progress, MarkedIsCopied, NothingLost, Naming,
                Condemned, TakenBack, Script, uidSet
  <2> QED
    BY <2>1, <2>2
<1> QED
  BY <1>1, <1>2, PTL DEF MailboxSpec

\* Move's "failure between the two leaves the message in both mailboxes": whatever
\* fails, is retried or is expunged by another, a message nobody wants deleted is in
\* the mailbox or in the destination, for any number of callers and messages.
THEOREM NothingIsLost == MailboxSpec => []NothingLost
<1>1. MailboxInv => NothingLost
  BY DEF MailboxInv
<1> QED
  BY <1>1, MailboxInvariance, PTL

\* A Delete or a Move that reports success has emptied its UIDs out of the mailbox,
\* unless a storeFlags of another takes \Deleted back.
THEOREM SuccessIsGone == MailboxSpec => []DoneMeansGone
<1>1. MailboxInv => DoneMeansGone
  BY DEF MailboxInv, Progress, DoneMeansGone
<1> QED
  BY <1>1, MailboxInvariance, PTL
=============================================================================
