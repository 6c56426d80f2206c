------------------------------ MODULE SeqLemmas ------------------------------
(***************************************************************************)
(* Facts about the mailboxes of the model: sequences that grow at the end, *)
(* shrink at the front, and hold so many messages of one kind and one      *)
(* connection.                                                             *)
(***************************************************************************)
EXTENDS Integers, Sequences, FiniteSets, FiniteSetTheorems, SequenceTheorems,
  TLAPS

\* A message is taken from the front.
LEMMA TailSeq ==
  ASSUME NEW S, NEW s \in Seq(S), s # <<>>
  PROVE  /\ Tail(s) \in Seq(S) /\ Len(Tail(s)) = Len(s) - 1 /\ Len(s) \in Nat \ {0}
         /\ DOMAIN s = 1..Len(s) /\ DOMAIN Tail(s) = 1..(Len(s) - 1)
         /\ \A i \in 1..(Len(s) - 1) : Tail(s)[i] = s[i + 1]
         /\ Head(s) = s[1] /\ s[1] \in S
  OBVIOUS

\* A message is put at the end.
LEMMA AppendSeq ==
  ASSUME NEW S, NEW s \in Seq(S), NEW e \in S
  PROVE  /\ Append(s, e) \in Seq(S) /\ Len(Append(s, e)) = Len(s) + 1 /\ Len(s) \in Nat
         /\ DOMAIN s = 1..Len(s) /\ DOMAIN Append(s, e) = 1..(Len(s) + 1)
         /\ \A i \in 1..Len(s) : Append(s, e)[i] = s[i]
         /\ Append(s, e)[Len(s) + 1] = e
  OBVIOUS

\* A part of a sequence.
LEMMA SubSeqSeq ==
  ASSUME NEW S, NEW s \in Seq(S), NEW a \in 1..(Len(s) + 1), NEW b \in (a - 1)..Len(s)
  PROVE  /\ SubSeq(s, a, b) \in Seq(S) /\ Len(SubSeq(s, a, b)) = b - a + 1
         /\ \A i \in 1..(b - a + 1) : SubSeq(s, a, b)[i] = s[a + i - 1]
<1>1. Len(s) \in Nat /\ \A i \in a..b : s[i] \in S
  OBVIOUS
<1> QED
  BY <1>1, SubSeqProperties

\* Two messages are put at the end.
LEMMA AppendTwo ==
  ASSUME NEW S, NEW s \in Seq(S), NEW e \in S, NEW f \in S
  PROVE  s \o <<e, f>> = Append(Append(s, e), f) /\ s \o <<e>> = Append(s, e)
  OBVIOUS

\* One message is put before the others.
LEMMA OneBefore ==
  ASSUME NEW S, NEW e \in S, NEW s \in Seq(S)
  PROVE  /\ DOMAIN (<<e>> \o s) = 1..(1 + Len(s)) /\ (<<e>> \o s)[1] = e
         /\ \A i \in 1..Len(s) : (<<e>> \o s)[1 + i] = s[i]
<1> DEFINE o == <<e>>
<1>1. o \in Seq(S) /\ Len(o) = 1 /\ o[1] = e /\ Len(s) \in Nat
  OBVIOUS
<1> HIDE DEF o
<1>2. /\ o \o s \in Seq(S) /\ Len(o \o s) = Len(o) + Len(s)
      /\ \A i \in 1..(Len(o) + Len(s)) :
           (o \o s)[i] = IF i <= Len(o) THEN o[i] ELSE s[i - Len(o)]
  BY <1>1, ConcatProperties
<1> QED
  BY <1>1, <1>2 DEF o

\* Three parts are joined.
LEMMA ThreeLists ==
  ASSUME NEW S, NEW a \in Seq(S), NEW b \in Seq(S), NEW c \in Seq(S), Len(a) = 2
  PROVE  a \o b \o c \in Seq(S) /\ a \o b \o c # <<>>
<1>1. \A x \in Seq(S), y \in Seq(S) : x \o y \in Seq(S) /\ Len(x \o y) = Len(x) + Len(y)
  BY ConcatProperties
<1>2. Len(b) \in Nat /\ Len(c) \in Nat
  OBVIOUS
<1>3. a \o b \in Seq(S) /\ Len(a \o b) = 2 + Len(b)
  BY <1>1
<1> DEFINE d == a \o b
           f == d \o c
<1> HIDE DEF d
<1>4. f \in Seq(S) /\ Len(f) = 2 + Len(b) + Len(c)
  BY <1>1, <1>3 DEF d
<1> HIDE DEF f
<1>5. f # <<>>
  BY <1>2, <1>4
<1> QED
  BY <1>4, <1>5 DEF d, f

\* The last of three parts has one element.
LEMMA LastOfThree ==
  ASSUME NEW S, NEW a \in Seq(S), NEW b \in Seq(S), NEW x \in S
  PROVE  (a \o b \o <<x>>)[Len(a \o b \o <<x>>)] = x
<1> DEFINE d == a \o b
<1>1. d \in Seq(S)
  BY ConcatProperties
<1> HIDE DEF d
<1>2. d \o <<x>> = Append(d, x)
  BY <1>1
<1> QED
  BY <1>1, <1>2, AppendSeq DEF d

\* Where s has messages of kind k and connection c behind position n, and how many.
At(s, k, c, n) == {i \in DOMAIN s : i > n /\ s[i].kind = k /\ s[i].c = c}
Count(s, k, c, n) == Cardinality(At(s, k, c, n))

\* Only so many messages wait in a mailbox.
LEMMA CountFinite ==
  ASSUME NEW S, NEW s \in Seq(S), NEW k, NEW c, NEW n \in Nat
  PROVE  IsFiniteSet(At(s, k, c, n)) /\ Count(s, k, c, n) \in Nat
<1>1. At(s, k, c, n) \in SUBSET (1..Len(s)) /\ Len(s) \in Nat
  BY DEF At
<1>2. IsFiniteSet(1..Len(s))
  BY <1>1, FS_Interval
<1>3. IsFiniteSet(At(s, k, c, n))
  BY <1>1, <1>2, FS_Subset
<1> QED
  BY <1>3, FS_CardinalityType DEF Count

\* A message put at the end counts if it is one of those.
LEMMA CountAppend ==
  ASSUME NEW S, NEW s \in Seq(S), NEW e \in S, NEW k, NEW c, NEW n \in 0..Len(s)
  PROVE  Count(Append(s, e), k, c, n)
           = Count(s, k, c, n) + IF e.kind = k /\ e.c = c THEN 1 ELSE 0
<1> DEFINE A == At(s, k, c, n)
           B == At(Append(s, e), k, c, n)
<1>1. IsFiniteSet(A) /\ Cardinality(A) \in Nat
  BY CountFinite DEF Count
<1>2. CASE e.kind = k /\ e.c = c
  <2>1. B = A \cup {Len(s) + 1} /\ Len(s) + 1 \notin A
    BY <1>2, AppendSeq DEF At
  <2>2. Cardinality(B) = Cardinality(A) + 1
    BY <1>1, <2>1, FS_AddElement
  <2> QED
    BY <1>2, <2>2 DEF Count
<1>3. CASE ~(e.kind = k /\ e.c = c)
  <2>1. B = A
    BY <1>3, AppendSeq DEF At
  <2> QED
    BY <1>1, <1>3, <2>1 DEF Count
<1> QED
  BY <1>2, <1>3

\* The message at the front counts if it is one of those.
LEMMA CountFirst ==
  ASSUME NEW S, NEW s \in Seq(S), s # <<>>, NEW k, NEW c
  PROVE  Count(s, k, c, 0)
           = Count(s, k, c, 1) + IF s[1].kind = k /\ s[1].c = c THEN 1 ELSE 0
<1> DEFINE A == At(s, k, c, 1)
           B == At(s, k, c, 0)
<1>1. IsFiniteSet(A) /\ Cardinality(A) \in Nat
  BY CountFinite DEF Count
<1>2. CASE s[1].kind = k /\ s[1].c = c
  <2>1. B = A \cup {1} /\ 1 \notin A
    BY <1>2, TailSeq DEF At
  <2>2. Cardinality(B) = Cardinality(A) + 1
    BY <1>1, <2>1, FS_AddElement
  <2> QED
    BY <1>2, <2>2 DEF Count
<1>3. CASE ~(s[1].kind = k /\ s[1].c = c)
  <2>1. B = A
    BY <1>3, TailSeq DEF At
  <2> QED
    BY <1>1, <1>3, <2>1 DEF Count
<1> QED
  BY <1>2, <1>3

\* The messages behind the front are those of the tail.
LEMMA CountTail ==
  ASSUME NEW S, NEW s \in Seq(S), s # <<>>, NEW k, NEW c, NEW n \in Nat
  PROVE  Count(Tail(s), k, c, n) = Count(s, k, c, n + 1)
<1> DEFINE A == At(Tail(s), k, c, n)
           B == At(s, k, c, n + 1)
           f == [i \in A |-> i + 1]
<1>1. IsFiniteSet(A)
  BY TailSeq, CountFinite
<1>2. A \subseteq Int /\ B \subseteq Int
  BY TailSeq DEF At
<1>3. \A i \in A : i + 1 \in B
  BY TailSeq DEF At
<1>4. \A j \in B : j - 1 \in A
  BY TailSeq DEF At
<1> HIDE DEF A, B
<1>5. f \in Bijection(A, B)
  <2>1. f \in [A -> B]
    BY <1>3
  <2>2. \A a, b \in A : f[a] = f[b] => a = b
    BY <1>2
  <2>3. \A b \in B : \E a \in A : f[a] = b
    BY <1>2, <1>4
  <2> QED
    BY <2>1, <2>2, <2>3 DEF Bijection, Injection, Surjection, IsInjective
<1>6. Cardinality(B) = Cardinality(A)
  BY <1>1, <1>5, FS_Bijection DEF ExistsBijection
<1> QED
  BY <1>6 DEF Count, A, B
===============================================================================
