--------------------------- MODULE SequenceLemmas ---------------------------
(***************************************************************************)
(* What the sequence operators of the models return, for sequences of any  *)
(* length: the facts the proofs of several components rest on.             *)
(***************************************************************************)
EXTENDS Integers, SequencesExt, SequenceTheorems, WellFoundedInduction, TLAPS

-----------------------------------------------------------------------------
(* Queues *)

\* The elements of a queue are of its type.
LEMMA ToSetWithin ==
    ASSUME NEW S, NEW s \in Seq(S)
    PROVE  ToSet(s) \subseteq S
  BY DEF ToSet

\* The elements of a queue to which one was added.
LEMMA ToSetAppend ==
    ASSUME NEW S, NEW s \in Seq(S), NEW e \in S
    PROVE  /\ ToSet(Append(s, e)) = ToSet(s) \cup {e}
           /\ IsInjective(s) /\ e \notin ToSet(s) => IsInjective(Append(s, e))
<1>1. /\ Len(s) \in Nat /\ DOMAIN s = 1..Len(s)
      /\ DOMAIN Append(s, e) = 1..(Len(s) + 1)
      /\ \A i \in 1..Len(s) : Append(s, e)[i] = s[i]
      /\ Append(s, e)[Len(s) + 1] = e
  OBVIOUS
<1>2. \A i : i \in 1..(Len(s) + 1) <=> i \in 1..Len(s) \/ i = Len(s) + 1
  BY <1>1
<1>3. ToSet(Append(s, e)) = ToSet(s) \cup {e}
  BY <1>1, <1>2 DEF ToSet
<1>4. IsInjective(s) /\ e \notin ToSet(s) => IsInjective(Append(s, e))
  BY <1>1, <1>2 DEF ToSet, IsInjective
<1> QED
  BY <1>3, <1>4

\* The elements of a queue whose head is taken.
LEMMA ToSetTail ==
    ASSUME NEW S, NEW s \in Seq(S), s # <<>>
    PROVE  /\ Head(s) \in S
           /\ Tail(s) \in Seq(S) /\ Len(Tail(s)) = Len(s) - 1
           /\ ToSet(s) = {Head(s)} \cup ToSet(Tail(s))
           /\ IsInjective(s) => IsInjective(Tail(s)) /\ Head(s) \notin ToSet(Tail(s))
<1>1. /\ Head(s) \in S /\ Head(s) = s[1]
      /\ Len(s) \in Nat \ {0} /\ DOMAIN s = 1..Len(s)
  OBVIOUS
<1>2. /\ Tail(s) \in Seq(S) /\ Len(Tail(s)) = Len(s) - 1
      /\ \A i \in 1..Len(Tail(s)) : Tail(s)[i] = s[i + 1]
  BY HeadTailProperties
<1>3. DOMAIN Tail(s) = 1..(Len(s) - 1)
  BY <1>2
<1>4. \A i \in 1..(Len(s) - 1) : i + 1 \in 1..Len(s) /\ i + 1 # 1 /\ Tail(s)[i] = s[i + 1]
  BY <1>1, <1>2
<1>5. \A i \in 1..Len(s) : i = 1 \/ (i - 1 \in 1..(Len(s) - 1) /\ Tail(s)[i - 1] = s[i])
  BY <1>1, <1>2
<1>6. ToSet(s) = {Head(s)} \cup ToSet(Tail(s))
  <2>1. ASSUME NEW i \in 1..Len(s) PROVE s[i] \in {Head(s)} \cup ToSet(Tail(s))
    BY <1>1, <1>3, <1>5 DEF ToSet
  <2>2. ASSUME NEW x \in {Head(s)} \cup ToSet(Tail(s)) PROVE x \in ToSet(s)
    <3>1. 1 \in 1..Len(s)
      BY <1>1
    <3> QED
      BY <1>1, <1>3, <1>4, <3>1 DEF ToSet
  <2> QED
    BY <1>1, <2>1, <2>2 DEF ToSet
<1>7. IsInjective(s) => IsInjective(Tail(s)) /\ Head(s) \notin ToSet(Tail(s))
  <2> SUFFICES ASSUME IsInjective(s)
               PROVE  IsInjective(Tail(s)) /\ Head(s) \notin ToSet(Tail(s))
    OBVIOUS
  <2>1. Head(s) \notin ToSet(Tail(s))
    BY <1>1, <1>3, <1>4 DEF ToSet, IsInjective
  <2>2. IsInjective(Tail(s))
    BY <1>1, <1>3, <1>4 DEF IsInjective
  <2> QED
    BY <2>1, <2>2
<1> QED
  BY <1>1, <1>2, <1>6, <1>7

\* The elements of two sequences, one after the other.
LEMMA ToSetConcat ==
    ASSUME NEW S, NEW s \in Seq(S), NEW t \in Seq(S)
    PROVE  ToSet(s \o t) = ToSet(s) \cup ToSet(t)
<1>1. /\ Len(s) \in Nat /\ Len(t) \in Nat /\ DOMAIN s = 1..Len(s) /\ DOMAIN t = 1..Len(t)
      /\ DOMAIN (s \o t) = 1..(Len(s) + Len(t))
      /\ \A i \in 1..(Len(s) + Len(t)) :
            (s \o t)[i] = IF i <= Len(s) THEN s[i] ELSE t[i - Len(s)]
  BY ConcatProperties
<1>2. ASSUME NEW i \in 1..Len(s)
      PROVE  s[i] \in ToSet(s \o t)
  BY <1>1 DEF ToSet
<1>3. ASSUME NEW i \in 1..Len(t)
      PROVE  t[i] \in ToSet(s \o t)
  <2>1. Len(s) + i \in 1..(Len(s) + Len(t)) /\ (s \o t)[Len(s) + i] = t[i]
    BY <1>1
  <2> QED
    BY <1>1, <2>1 DEF ToSet
<1>4. ASSUME NEW i \in 1..(Len(s) + Len(t))
      PROVE  (s \o t)[i] \in ToSet(s) \cup ToSet(t)
  <2>1. CASE i <= Len(s)
    BY <1>1, <2>1 DEF ToSet
  <2>2. CASE ~(i <= Len(s))
    <3>1. i - Len(s) \in 1..Len(t)
      BY <1>1, <2>2
    <3> QED
      BY <1>1, <2>2, <3>1 DEF ToSet
  <2> QED
    BY <2>1, <2>2
<1> QED
  BY <1>1, <1>2, <1>3, <1>4 DEF ToSet

\* Two queues that share nothing, one after the other.
LEMMA InjectiveConcat ==
    ASSUME NEW S, NEW s \in Seq(S), NEW t \in Seq(S),
           IsInjective(s), IsInjective(t), ToSet(s) \cap ToSet(t) = {}
    PROVE  IsInjective(s \o t)
<1>1. /\ Len(s) \in Nat /\ Len(t) \in Nat /\ DOMAIN s = 1..Len(s) /\ DOMAIN t = 1..Len(t)
      /\ DOMAIN (s \o t) = 1..(Len(s) + Len(t))
      /\ \A i \in 1..(Len(s) + Len(t)) :
            (s \o t)[i] = IF i <= Len(s) THEN s[i] ELSE t[i - Len(s)]
  BY ConcatProperties
<1>2. \A i \in 1..(Len(s) + Len(t)) :
         IF i <= Len(s) THEN i \in 1..Len(s) ELSE i - Len(s) \in 1..Len(t)
  BY <1>1
<1>3. \A i \in 1..Len(s), j \in 1..Len(t) : s[i] # t[j]
  BY <1>1 DEF ToSet
<1>4. ASSUME NEW i \in 1..(Len(s) + Len(t)), NEW j \in 1..(Len(s) + Len(t)),
             (s \o t)[i] = (s \o t)[j]
      PROVE  i = j
  <2>1. CASE i <= Len(s) /\ j <= Len(s)
    BY <1>1, <1>2, <1>4, <2>1 DEF IsInjective
  <2>2. CASE ~(i <= Len(s)) /\ ~(j <= Len(s))
    <3>1. i - Len(s) = j - Len(s)
      BY <1>1, <1>2, <1>4, <2>2 DEF IsInjective
    <3> QED
      BY <1>1, <3>1
  <2>3. CASE (i <= Len(s)) # (j <= Len(s))
    BY <1>1, <1>2, <1>3, <1>4, <2>3
  <2> QED
    BY <2>1, <2>2, <2>3
<1> QED
  BY <1>1, <1>4 DEF IsInjective

-----------------------------------------------------------------------------
(* Induction, as a fact about sets: the form that takes no operator *)

Less == {pair \in Nat \X Nat : pair[1] < pair[2]}

\* A set of natural numbers has a least element.
LEMMA LeastElement ==
    ASSUME NEW T \in SUBSET Nat, T # {}
    PROVE  \E m \in T : \A k \in T : m <= k
<1>1. IsWellFoundedOn(Less, Nat)
  BY NatLessThanWellFounded DEF OpToRel, Less
<1>2. PICK m \in T : \A k \in T : <<k, m>> \notin Less
  BY <1>1, WFMin, Zenon
<1>3. ASSUME NEW k \in T
      PROVE  m <= k
  <2>1. k < m => <<k, m>> \in Less
    BY DEF Less
  <2> QED
    BY <1>2, <2>1
<1> QED
  BY <1>3

\* A set that has 0, and of every number the next one, up to some limit.
LEMMA Induction ==
    ASSUME NEW limit \in Nat, NEW S,
           0 \in S, \A n \in 0..(limit - 1) : n \in S => n + 1 \in S
    PROVE  0..limit \subseteq S
<1> SUFFICES ASSUME (0..limit) \ S # {}
             PROVE  FALSE
  OBVIOUS
<1> DEFINE T == (0..limit) \ S
<1>1. PICK m \in T : \A k \in T : m <= k
  <2>1. T \in SUBSET Nat /\ T # {}
    OBVIOUS
  <2> HIDE DEF T
  <2> QED
    BY <2>1, LeastElement
<1>2. m - 1 \in 0..(limit - 1) /\ m - 1 \in S
  BY <1>1
<1> QED
  BY <1>1, <1>2

-----------------------------------------------------------------------------
(* FlattenSeq *)

\* FlattenSeq adds one sequence after the other.
LEMMA FlattenSeqSteps ==
    ASSUME NEW T, NEW seqs \in Seq(Seq(T))
    PROVE  \E g \in [0..Len(seqs) -> Seq(T)] :
              /\ g[0] = <<>>
              /\ \A i \in 1..Len(seqs) : g[i] = g[i - 1] \o seqs[i]
              /\ FlattenSeq(seqs) = g[Len(seqs)]
<1> DEFINE n == Len(seqs)
           Unfolds(g) == g = [i \in 1..n |-> IF i = 1 THEN seqs[i] ELSE g[i - 1] \o seqs[i]]
           flatten == CHOOSE g : Unfolds(g)
           Steps(g) == /\ g[0] = <<>>
                       /\ \A i \in 1..n : g[i] = g[i - 1] \o seqs[i]
                       /\ FlattenSeq(seqs) = g[n]
<1>1. n \in Nat /\ \A i \in 1..n : seqs[i] \in Seq(T)
  OBVIOUS
<1>2. CASE n = 0
  <2>1. seqs = <<>> /\ FlattenSeq(seqs) = <<>>
    BY <1>2 DEF FlattenSeq
  <2> DEFINE g == [k \in 0..n |-> <<>>]
  <2>2. g \in [0..n -> Seq(T)]
    OBVIOUS
  <2>3. Steps(g)
    BY <1>2, <2>1
  <2> HIDE DEF Steps, g
  <2>4. \E f \in [0..n -> Seq(T)] : Steps(f)
    BY <2>2, <2>3
  <2> QED
    BY <2>4 DEF Steps
<1>3. CASE n # 0
  \* The recursive definition has a solution: one for every length up to n.
  <2>1. \E g : Unfolds(g)
    <3> DEFINE Solves(g, k) ==
                 /\ g \in [1..k -> Seq(T)]
                 /\ \A i \in 1..k : g[i] = IF i = 1 THEN seqs[i] ELSE g[i - 1] \o seqs[i]
               S == {k \in 0..n : \E g : Solves(g, k)}
    <3>1. 0 \in S
      <4>1. Solves([i \in 1..0 |-> <<>>], 0)
        OBVIOUS
      <4>2. \E g : Solves(g, 0)
        <5> HIDE DEF Solves
        <5> QED
          BY <4>1, Zenon
      <4> HIDE DEF Solves
      <4> QED
        BY <1>1, <4>2
    <3>2. ASSUME NEW k \in 0..(n - 1), k \in S
          PROVE  k + 1 \in S
      <4>1. PICK g : Solves(g, k)
        BY <3>2
      <4> DEFINE next == IF k = 0 THEN seqs[1] ELSE g[k] \o seqs[k + 1]
                 h == [i \in 1..(k + 1) |-> IF i = k + 1 THEN next ELSE g[i]]
      <4>2. next \in Seq(T)
        BY <1>1, <4>1
      <4>3. Solves(h, k + 1)
        <5>1. h \in [1..(k + 1) -> Seq(T)]
          BY <4>1, <4>2
        <5>2. ASSUME NEW i \in 1..(k + 1)
              PROVE  h[i] = IF i = 1 THEN seqs[i] ELSE h[i - 1] \o seqs[i]
          <6>1. CASE i = k + 1
            BY <6>1
          <6>2. CASE i # k + 1
            <7>1. i \in 1..k /\ (i # 1 => i - 1 \in 1..k)
              BY <6>2
            <7>2. h[i] = g[i] /\ (i # 1 => h[i - 1] = g[i - 1])
              BY <6>2, <7>1
            <7> QED
              BY <4>1, <7>1, <7>2
          <6> QED
            BY <6>1, <6>2
        <5> QED
          BY <5>1, <5>2
      <4>4. \E f : Solves(f, k + 1)
        <5> HIDE DEF Solves, h
        <5> QED
          BY <4>3, Zenon
      <4> HIDE DEF Solves, h, next
      <4> QED
        BY <1>1, <4>4
    <3>3. n \in S
      <4> HIDE DEF S
      <4>1. 0..n \subseteq S
        BY <1>1, <3>1, <3>2, Induction
      <4> QED
        BY <1>1, <4>1
    <3>4. PICK g : Solves(g, n)
      BY <3>3
    <3>5. Unfolds(g)
      BY <3>4
    <3> QED
      BY <3>5, Zenon
  <2>2. Unfolds(flatten)
    <3> HIDE DEF Unfolds
    <3> QED
      BY <2>1, Zenon
  <2>3. FlattenSeq(seqs) = flatten[n]
    BY <1>3 DEF FlattenSeq
  <2> DEFINE Typed == {k \in 0..n : k > 0 => flatten[k] \in Seq(T)}
  <2>4. 0 \in Typed
    BY <1>1
  <2>5. ASSUME NEW k \in 0..(n - 1)
        PROVE  flatten[k + 1] = IF k = 0 THEN seqs[1] ELSE flatten[k] \o seqs[k + 1]
    <3> HIDE DEF flatten
    <3>1. k + 1 \in 1..n /\ (k + 1) - 1 = k /\ (k + 1 = 1 <=> k = 0)
      BY <1>1
    <3>2. \A i \in 1..n : flatten[i] = IF i = 1 THEN seqs[i] ELSE flatten[i - 1] \o seqs[i]
      BY <2>2
    <3> QED
      BY <3>1, <3>2
  <2>6. ASSUME NEW k \in 0..(n - 1), k \in Typed
        PROVE  k + 1 \in Typed
    <3> HIDE DEF flatten
    <3>1. k + 1 \in 0..n /\ k + 1 \in 1..n /\ 1 \in 1..n
      BY <1>1
    <3>2. seqs[1] \in Seq(T) /\ seqs[k + 1] \in Seq(T) /\ (k # 0 => flatten[k] \in Seq(T))
      BY <1>1, <2>6, <3>1
    <3>3. k # 0 => flatten[k] \o seqs[k + 1] \in Seq(T)
      BY <3>2
    <3>4. flatten[k + 1] \in Seq(T)
      BY <2>5, <3>2, <3>3
    <3> QED
      BY <3>1, <3>4
  <2>7. 0..n \subseteq Typed
    <3> HIDE DEF Typed
    <3> QED
      BY <1>1, <2>4, <2>6, Induction
  <2> DEFINE g == [k \in 0..n |-> IF k = 0 THEN <<>> ELSE flatten[k]]
  <2>8. g \in [0..n -> Seq(T)]
    <3> HIDE DEF flatten
    <3> QED
      BY <2>7
  <2>9. Steps(g)
    <3> HIDE DEF flatten
    <3>1. ASSUME NEW i \in 1..n
          PROVE  g[i] = g[i - 1] \o seqs[i]
      <4>1. i - 1 \in 0..(n - 1) /\ (i - 1) + 1 = i /\ i - 1 \in 0..n /\ i \in 0..n /\ i # 0
        BY <1>1
      <4>2. flatten[i] = IF i - 1 = 0 THEN seqs[1] ELSE flatten[i - 1] \o seqs[i]
        BY <2>5, <4>1
      <4>3. g[i] = flatten[i] /\ g[i - 1] = IF i - 1 = 0 THEN <<>> ELSE flatten[i - 1]
        BY <4>1
      <4>4. <<>> \o seqs[i] = seqs[i]
        BY <1>1, ConcatEmptySeq
      <4>5. i - 1 = 0 => i = 1
        BY <4>1
      <4> HIDE DEF g
      <4> QED
        BY <4>2, <4>3, <4>4, <4>5
    <3>2. g[0] = <<>> /\ g[n] = flatten[n]
      BY <1>1, <1>3
    <3> HIDE DEF g
    <3> QED
      BY <2>3, <3>1, <3>2
  <2> HIDE DEF Steps, g
  <2>10. \E f \in [0..n -> Seq(T)] : Steps(f)
    BY <2>8, <2>9
  <2> QED
    BY <2>10 DEF Steps
<1> QED
  BY <1>2, <1>3

\* The sequence of all elements has exactly the elements of the sequences.
LEMMA FlattenSeqElements ==
    ASSUME NEW T, NEW seqs \in Seq(Seq(T))
    PROVE  /\ FlattenSeq(seqs) \in Seq(T)
           /\ ToSet(FlattenSeq(seqs)) = UNION {ToSet(seqs[i]) : i \in 1..Len(seqs)}
<1> DEFINE n == Len(seqs)
           Elements(k) == UNION {ToSet(seqs[i]) : i \in 1..k}
<1>1. n \in Nat /\ \A i \in 1..n : seqs[i] \in Seq(T)
  OBVIOUS
<1>2. PICK g \in [0..n -> Seq(T)] :
         /\ g[0] = <<>>
         /\ \A i \in 1..n : g[i] = g[i - 1] \o seqs[i]
         /\ FlattenSeq(seqs) = g[n]
  BY FlattenSeqSteps
<1> DEFINE Right == {k \in 0..n : ToSet(g[k]) = Elements(k)}
<1>3. 0 \in Right
  <2>1. ToSet(g[0]) = {} /\ Elements(0) = {}
    BY <1>2 DEF ToSet
  <2> QED
    BY <1>1, <2>1
<1>4. ASSUME NEW k \in 0..(n - 1), k \in Right
      PROVE  k + 1 \in Right
  <2>1. k + 1 \in 1..n /\ (k + 1) - 1 = k /\ k \in 0..n /\ k + 1 \in 0..n
    BY <1>1
  <2>2. g[k + 1] = g[k] \o seqs[k + 1] /\ g[k] \in Seq(T) /\ seqs[k + 1] \in Seq(T)
    BY <1>1, <1>2, <2>1
  <2>3. ToSet(g[k + 1]) = ToSet(g[k]) \cup ToSet(seqs[k + 1])
    BY <2>2, ToSetConcat
  <2>4. Elements(k + 1) = Elements(k) \cup ToSet(seqs[k + 1])
    <3>1. \A i : i \in 1..(k + 1) <=> i \in 1..k \/ i = k + 1
      BY <1>1
    <3> QED
      BY <3>1
  <2>5. ToSet(g[k]) = Elements(k)
    BY <1>4
  <2> HIDE DEF Elements
  <2> QED
    BY <2>1, <2>3, <2>4, <2>5
<1>5. n \in Right
  <2> HIDE DEF Right
  <2>1. 0..n \subseteq Right
    BY <1>1, <1>3, <1>4, Induction
  <2> QED
    BY <1>1, <2>1
<1>6. g[n] \in Seq(T) /\ ToSet(g[n]) = Elements(n)
  <2> HIDE DEF Elements
  <2> QED
    BY <1>1, <1>2, <1>5
<1> QED
  BY <1>2, <1>6

-----------------------------------------------------------------------------
(* Order *)

\* Each element is greater than the ones before it.
Ascending(s) == \A k, l \in DOMAIN s : k < l => s[k] < s[l]

\* Message numbers are numbers.
LEMMA SeqOfNumbers ==
    ASSUME NEW n, NEW s \in Seq(1..n)
    PROVE  s \in Seq(Int)
<1>1. 1..n \subseteq Int
  OBVIOUS
<1> QED
  BY <1>1, SeqMonotonic

\* A queue that is ascending stays so when something greater is added, and has no
\* element twice.
LEMMA AscendingAppend ==
    ASSUME NEW s \in Seq(Int), Ascending(s)
    PROVE  /\ IsInjective(s)
           /\ \A e \in Int : (\A x \in ToSet(s) : x < e) => Ascending(Append(s, e))
<1>1. /\ Len(s) \in Nat /\ DOMAIN s = 1..Len(s)
      /\ \A k \in DOMAIN s : s[k] \in Int /\ s[k] \in ToSet(s)
  BY DEF ToSet
<1>2. IsInjective(s)
  <2>1. \A k, l \in DOMAIN s : k # l => k < l \/ l < k
    BY <1>1
  <2> QED
    BY <1>1, <2>1 DEF Ascending, IsInjective
<1>3. ASSUME NEW e \in Int, \A x \in ToSet(s) : x < e
      PROVE  Ascending(Append(s, e))
  <2>1. /\ DOMAIN Append(s, e) = 1..(Len(s) + 1)
        /\ \A k \in 1..Len(s) : Append(s, e)[k] = s[k]
        /\ Append(s, e)[Len(s) + 1] = e
    BY <1>1
  <2>2. ASSUME NEW k \in 1..(Len(s) + 1), NEW l \in 1..(Len(s) + 1), k < l
        PROVE  Append(s, e)[k] < Append(s, e)[l]
    <3>1. k \in 1..Len(s) /\ Append(s, e)[k] = s[k]
      BY <1>1, <2>1, <2>2
    <3>2. CASE l = Len(s) + 1
      BY <1>1, <1>3, <2>1, <3>1, <3>2
    <3>3. CASE l # Len(s) + 1
      <4>1. l \in 1..Len(s) /\ Append(s, e)[l] = s[l]
        BY <1>1, <2>1, <3>3
      <4> QED
        BY <1>1, <2>2, <3>1, <4>1 DEF Ascending
    <3> QED
      BY <3>2, <3>3
  <2> QED
    BY <2>1, <2>2 DEF Ascending
<1> QED
  BY <1>2, <1>3

\* The reverse of a queue has the same elements, in the opposite order.
LEMMA ReverseElements ==
    ASSUME NEW S, NEW s \in Seq(S)
    PROVE  /\ Reverse(s) \in Seq(S) /\ Len(Reverse(s)) = Len(s)
           /\ \A k \in 1..Len(s) : Reverse(s)[k] = s[Len(s) - k + 1]
           /\ ToSet(Reverse(s)) = ToSet(s)
           /\ IsInjective(s) => IsInjective(Reverse(s))
<1>1. Len(s) \in Nat /\ DOMAIN s = 1..Len(s) /\ \A k \in 1..Len(s) : s[k] \in S
  OBVIOUS
<1>2. \A k \in 1..Len(s) : Len(s) - k + 1 \in 1..Len(s) /\ Len(s) - (Len(s) - k + 1) + 1 = k
  BY <1>1
<1>3. Reverse(s) \in [1..Len(s) -> S]
  BY <1>1, <1>2 DEF Reverse
<1>4. Reverse(s) \in Seq(S) /\ Len(Reverse(s)) = Len(s) /\ DOMAIN Reverse(s) = 1..Len(s)
  <2>1. Reverse(s) \in Seq(S)
    BY <1>1, <1>3, SeqDef
  <2> QED
    BY <1>1, <1>3, <2>1
<1>5. \A k \in 1..Len(s) : Reverse(s)[k] = s[Len(s) - k + 1]
  BY <1>1 DEF Reverse
<1>6. ToSet(Reverse(s)) = ToSet(s)
  <2>1. ASSUME NEW k \in 1..Len(s)
        PROVE  Reverse(s)[k] \in ToSet(s) /\ s[k] \in ToSet(Reverse(s))
    <3>1. Reverse(s)[Len(s) - k + 1] = s[k]
      BY <1>2, <1>5
    <3> QED
      BY <1>1, <1>2, <1>4, <1>5, <3>1 DEF ToSet
  <2> QED
    BY <1>1, <1>4, <2>1 DEF ToSet
<1>7. ASSUME IsInjective(s)
      PROVE  IsInjective(Reverse(s))
  <2>1. ASSUME NEW k \in 1..Len(s), NEW l \in 1..Len(s), Reverse(s)[k] = Reverse(s)[l]
        PROVE  k = l
    <3>1. s[Len(s) - k + 1] = s[Len(s) - l + 1]
      BY <1>5, <2>1
    <3>2. Len(s) - k + 1 = Len(s) - l + 1
      BY <1>1, <1>2, <1>7, <3>1 DEF IsInjective
    <3> QED
      BY <1>1, <3>2
  <2> QED
    BY <1>4, <2>1 DEF IsInjective
<1> QED
  BY <1>4, <1>5, <1>6, <1>7

\* The greater and the smaller of two numbers.
LEMMA MaxMinOfTwo ==
    ASSUME NEW a \in Int, NEW b \in Int
    PROVE  /\ Max({a, b}) = IF a >= b THEN a ELSE b
           /\ Min({a, b}) = IF a <= b THEN a ELSE b
<1>1. \A x \in {a, b} : (\A y \in {a, b} : x >= y) <=> x = IF a >= b THEN a ELSE b
  OBVIOUS
<1>2. \A x \in {a, b} : (\A y \in {a, b} : x =< y) <=> x = IF a <= b THEN a ELSE b
  OBVIOUS
<1>3. /\ (IF a >= b THEN a ELSE b) \in {a, b}
      /\ (IF a <= b THEN a ELSE b) \in {a, b}
  OBVIOUS
<1>4. Max({a, b}) = IF a >= b THEN a ELSE b
  BY <1>1, <1>3 DEF Max
<1>5. Min({a, b}) = IF a <= b THEN a ELSE b
  BY <1>2, <1>3 DEF Min
<1> QED
  BY <1>4, <1>5

-----------------------------------------------------------------------------
(* A queue behind another *)

\* The head of a queue can be the last of the one before it.
LEMMA MoveHead ==
    ASSUME NEW S, NEW s \in Seq(S), NEW t \in Seq(S), t # <<>>
    PROVE  Append(s, Head(t)) \o Tail(t) = s \o t
<1>1. Head(t) \in S /\ Tail(t) \in Seq(S) /\ t = <<Head(t)>> \o Tail(t)
  <2>1. Head(t) \in S /\ Tail(t) \in Seq(S) /\ Len(Tail(t)) = Len(t) - 1
        /\ \A k \in 1..Len(Tail(t)) : Tail(t)[k] = t[k + 1]
    BY HeadTailProperties
  <2>2. Len(t) \in Nat \ {0} /\ Head(t) = t[1]
    OBVIOUS
  <2>3. /\ <<Head(t)>> \in Seq(S) /\ Len(<<Head(t)>>) = 1 /\ <<Head(t)>>[1] = Head(t)
    BY <2>1
  <2> DEFINE u == <<Head(t)>>
             v == Tail(t)
  <2>4. /\ u \o v \in Seq(S) /\ Len(u \o v) = Len(u) + Len(v)
        /\ \A k \in 1..(Len(u) + Len(v)) : (u \o v)[k] = IF k <= Len(u) THEN u[k] ELSE v[k - Len(u)]
    <3>1. u \in Seq(S) /\ v \in Seq(S)
      BY <2>1, <2>3
    <3> HIDE DEF u, v
    <3> QED
      BY <3>1, ConcatProperties
  <2>5. ASSUME NEW k \in 1..Len(t)
        PROVE  (u \o v)[k] = t[k]
    <3>1. k \in 1..(Len(u) + Len(v)) /\ Len(u) = 1 /\ u[1] = t[1]
      BY <2>1, <2>2, <2>3
    <3>2. k # 1 => k - 1 \in 1..Len(v) /\ v[k - 1] = t[(k - 1) + 1] /\ (k - 1) + 1 = k
      BY <2>1, <2>2
    <3>3. k <= 1 <=> k = 1
      BY <2>2
    <3> HIDE DEF u, v
    <3> QED
      BY <2>4, <3>1, <3>2, <3>3
  <2>6. Len(u \o v) = Len(t) /\ u \o v \in Seq(S)
    BY <2>1, <2>2, <2>3, <2>4
  <2> HIDE DEF u, v
  <2>7. t = u \o v
    BY <2>5, <2>6, SeqEqual
  <2> QED
    BY <2>1, <2>7 DEF u, v
<1>2. Append(s, Head(t)) = s \o <<Head(t)>> /\ <<Head(t)>> \in Seq(S)
  BY <1>1, AppendIsConcat
<1>3. (s \o <<Head(t)>>) \o Tail(t) = s \o (<<Head(t)>> \o Tail(t))
  BY <1>1, <1>2, ConcatAssociative
<1> QED
  BY <1>1, <1>2, <1>3

\* What is added to a queue is added behind what is before it.
LEMMA ConcatAppend ==
    ASSUME NEW S, NEW r \in Seq(S), NEW s \in Seq(S), NEW e \in S
    PROVE  r \o Append(s, e) = Append(r \o s, e)
<1> DEFINE a == Append(s, e)
           b == r \o s
<1>1. /\ a \in Seq(S) /\ Len(a) = Len(s) + 1 /\ a[Len(s) + 1] = e
      /\ \A k \in 1..Len(s) : a[k] = s[k]
  BY AppendProperties
<1>2. /\ b \in Seq(S) /\ Len(b) = Len(r) + Len(s)
      /\ \A k \in 1..(Len(r) + Len(s)) : b[k] = IF k <= Len(r) THEN r[k] ELSE s[k - Len(r)]
  BY ConcatProperties
<1> HIDE DEF a, b
<1>3. /\ r \o a \in Seq(S) /\ Len(r \o a) = Len(r) + Len(a)
      /\ \A k \in 1..(Len(r) + Len(a)) : (r \o a)[k] = IF k <= Len(r) THEN r[k] ELSE a[k - Len(r)]
  BY <1>1, ConcatProperties
<1>4. /\ Append(b, e) \in Seq(S) /\ Len(Append(b, e)) = Len(b) + 1 /\ Append(b, e)[Len(b) + 1] = e
      /\ \A k \in 1..Len(b) : Append(b, e)[k] = b[k]
  BY <1>2, AppendProperties
<1>5. Len(r) \in Nat /\ Len(s) \in Nat
  OBVIOUS
<1>6. Len(r \o a) = Len(Append(b, e))
  BY <1>1, <1>2, <1>3, <1>4, <1>5
<1>7. ASSUME NEW k \in 1..Len(r \o a)
      PROVE  (r \o a)[k] = Append(b, e)[k]
  <2>1. CASE k = Len(b) + 1
    BY <1>1, <1>2, <1>3, <1>4, <1>5, <2>1
  <2>2. CASE k # Len(b) + 1
    <3>1. k \in 1..Len(b) /\ (~(k <= Len(r)) => k - Len(r) \in 1..Len(s))
      BY <1>1, <1>2, <1>3, <1>5, <2>2
    <3> QED
      BY <1>1, <1>2, <1>3, <1>4, <1>5, <3>1
  <2> QED
    BY <2>1, <2>2
<1>8. r \o a = Append(b, e)
  BY <1>3, <1>4, <1>6, <1>7, SeqEqual
<1> QED
  BY <1>8 DEF a, b
=============================================================================
