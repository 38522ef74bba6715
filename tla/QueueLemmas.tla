----------------------------- MODULE QueueLemmas ----------------------------
(***************************************************************************)
(* Lemmas about sequences that are queues: what a push at the front, a pop *)
(* at the end and a removal in the middle leave.                           *)
(***************************************************************************)
EXTENDS SequencesExt, SequenceTheorems, TLAPS

\* A part of a sequence.
LEMMA SubSeqElements ==
  ASSUME NEW S, NEW s \in Seq(S), NEW m \in Int, NEW n \in Int,
         1 <= m, n <= Len(s)
  PROVE  /\ SubSeq(s, m, n) \in Seq(S)
         /\ Len(SubSeq(s, m, n)) = IF m <= n THEN n - m + 1 ELSE 0
         /\ \A i \in 1..(n - m + 1) : SubSeq(s, m, n)[i] = s[m + i - 1]
<1>1. \A i \in m..n : s[i] \in S
  BY ElementOfSeq, LenProperties
<1> QED
  BY <1>1, SubSeqProperties

\* A sequence without its last element is one of the same elements.
LEMMA FrontType ==
  ASSUME NEW S, NEW s \in Seq(S)
  PROVE  Front(s) \in Seq(S)
BY SubSeqElements, LenProperties DEF Front

\* A sequence with one element taken out.
LEMMA RemoveAtElements ==
  ASSUME NEW S, NEW s \in Seq(S), NEW i \in 1..Len(s)
  PROVE  /\ RemoveAt(s, i) \in Seq(S)
         /\ Len(RemoveAt(s, i)) = Len(s) - 1
         /\ \A j \in 1..(Len(s) - 1) :
              RemoveAt(s, i)[j] = IF j < i THEN s[j] ELSE s[j + 1]
<1> DEFINE u == SubSeq(s, 1, i - 1)
           v == SubSeq(s, i + 1, Len(s))
<1>1. Len(s) \in Nat
  BY LenProperties
<1>2. /\ u \in Seq(S) /\ Len(u) = i - 1
      /\ \A j \in 1..(i - 1) : u[j] = s[j]
  BY <1>1, SubSeqElements
<1>3. /\ v \in Seq(S) /\ Len(v) = Len(s) - i
      /\ \A j \in 1..(Len(s) - i) : v[j] = s[i + j]
  <2>1. /\ i + 1 \in Int /\ 1 <= i + 1 /\ Len(s) \in Int
        /\ Len(s) - (i + 1) + 1 = Len(s) - i
    BY <1>1
  <2>2. /\ v \in Seq(S)
        /\ Len(v) = IF i + 1 <= Len(s) THEN Len(s) - (i + 1) + 1 ELSE 0
        /\ \A j \in 1..(Len(s) - (i + 1) + 1) : v[j] = s[(i + 1) + j - 1]
    BY <2>1, SubSeqElements
  <2> HIDE DEF v
  <2> QED
    BY <1>1, <2>2
<1> HIDE DEF u, v
<1>4. /\ u \o v \in Seq(S)
      /\ Len(u \o v) = Len(u) + Len(v)
      /\ \A j \in 1..(Len(u) + Len(v)) :
           (u \o v)[j] = IF j <= Len(u) THEN u[j] ELSE v[j - Len(u)]
  BY <1>2, <1>3, ConcatProperties
<1>5. \A j \in 1..(Len(s) - 1) :
        (u \o v)[j] = IF j < i THEN s[j] ELSE s[j + 1]
  <2> SUFFICES ASSUME NEW j \in 1..(Len(s) - 1)
               PROVE  (u \o v)[j] = IF j < i THEN s[j] ELSE s[j + 1]
    OBVIOUS
  <2>1. (u \o v)[j] = IF j <= i - 1 THEN u[j] ELSE v[j - (i - 1)]
    BY <1>1, <1>2, <1>3, <1>4
  <2> QED
    BY <1>1, <1>2, <1>3, <2>1
<1>6. Len(u \o v) = Len(s) - 1
  BY <1>1, <1>2, <1>3, <1>4
<1> QED
  BY <1>4, <1>5, <1>6 DEF RemoveAt, u, v

\* What a queue without duplicates holds after a push.
LEMMA PushElements ==
  ASSUME NEW S, NEW s \in Seq(S), NEW x \in S, ~Contains(s, x),
         IsInjective(s)
  PROVE  /\ IsInjective(<<x>> \o s)
         /\ \A y : Contains(<<x>> \o s, y) <=> y = x \/ Contains(s, y)
<1> DEFINE r == <<x>> \o s
<1>1. /\ Len(s) \in Nat /\ DOMAIN s = 1..Len(s)
      /\ DOMAIN r = 1..Len(r)
      /\ Len(r) = Len(s) + 1
      /\ \A i \in 1..(Len(s) + 1) : r[i] = IF i = 1 THEN x ELSE s[i - 1]
  BY ConcatProperties, LenProperties
<1>2. IsInjective(r)
  BY <1>1 DEF IsInjective, Contains
<1>3. ASSUME NEW y, Contains(s, y)
      PROVE  Contains(r, y)
  <2>1. PICK i \in 1..Len(s) : s[i] = y
    BY <1>3 DEF Contains
  <2>2. i + 1 \in 1..Len(r) /\ r[i + 1] = y
    BY <1>1, <2>1
  <2> QED
    BY <2>2 DEF Contains
<1>4. Contains(r, x)
  BY <1>1 DEF Contains
<1>5. ASSUME NEW y, Contains(r, y), y # x
      PROVE  Contains(s, y)
  <2>1. PICK i \in 1..Len(r) : r[i] = y
    BY <1>5 DEF Contains
  <2>2. i - 1 \in 1..Len(s) /\ s[i - 1] = y
    BY <1>1, <1>5, <2>1
  <2> QED
    BY <2>2 DEF Contains
<1> QED
  BY <1>2, <1>3, <1>4, <1>5

\* What a queue without duplicates holds after a removal.
LEMMA RemoveElements ==
  ASSUME NEW S, NEW s \in Seq(S), NEW k \in 1..Len(s), IsInjective(s)
  PROVE  /\ IsInjective(RemoveAt(s, k))
         /\ \A y : Contains(RemoveAt(s, k), y)
                    <=> Contains(s, y) /\ y # s[k]
<1> DEFINE r == RemoveAt(s, k)
<1>1. /\ Len(s) \in Nat /\ DOMAIN s = 1..Len(s)
      /\ DOMAIN r = 1..Len(r)
      /\ Len(r) = Len(s) - 1
      /\ \A i \in 1..(Len(s) - 1) : r[i] = IF i < k THEN s[i] ELSE s[i + 1]
  BY RemoveAtElements, LenProperties
<1> HIDE DEF r
<1>2. IsInjective(r)
  <2> SUFFICES ASSUME NEW a \in 1..Len(r), NEW b \in 1..Len(r), r[a] = r[b]
               PROVE  a = b
    BY <1>1 DEF IsInjective
  <2>1. PICK i \in 1..Len(s) : r[a] = s[i] /\ i = IF a < k THEN a ELSE a + 1
    BY <1>1
  <2>2. PICK j \in 1..Len(s) : r[b] = s[j] /\ j = IF b < k THEN b ELSE b + 1
    BY <1>1
  <2>3. i = j
    BY <1>1, <2>1, <2>2 DEF IsInjective
  <2> QED
    BY <1>1, <2>1, <2>2, <2>3
<1>3. ASSUME NEW y, Contains(s, y), y # s[k]
      PROVE  Contains(r, y)
  <2>1. PICK i \in 1..Len(s) : s[i] = y
    BY <1>3 DEF Contains
  <2>2. CASE i < k
    BY <1>1, <2>1, <2>2 DEF Contains
  <2>3. CASE i > k
    <3>1. i - 1 \in 1..Len(r) /\ r[i - 1] = y
      BY <1>1, <2>1, <2>3
    <3> QED
      BY <3>1 DEF Contains
  <2> QED
    BY <1>3, <2>1, <2>2, <2>3
<1>4. ASSUME NEW y, Contains(r, y)
      PROVE  Contains(s, y) /\ y # s[k]
  <2>1. PICK i \in 1..Len(r) : r[i] = y
    BY <1>4 DEF Contains
  <2>2. PICK j \in 1..Len(s) : j # k /\ s[j] = y
    BY <1>1, <2>1
  <2> QED
    BY <1>1, <2>2 DEF Contains, IsInjective
<1> QED
  BY <1>2, <1>3, <1>4 DEF r

\* What a queue without duplicates holds after its oldest element was taken.
LEMMA PopElements ==
  ASSUME NEW S, NEW s \in Seq(S), s # <<>>, IsInjective(s)
  PROVE  /\ IsInjective(Front(s))
         /\ \A y : Contains(Front(s), y) <=> Contains(s, y) /\ y # Last(s)
         /\ Last(s) \in S
<1> DEFINE r == Front(s)
<1>1. /\ Len(s) \in Nat \ {0} /\ DOMAIN s = 1..Len(s)
      /\ DOMAIN r = 1..Len(r)
      /\ Len(r) = Len(s) - 1
      /\ \A i \in 1..(Len(s) - 1) : r[i] = s[i]
  <2>1. Len(s) \in Nat \ {0} /\ DOMAIN s = 1..Len(s)
    BY LenProperties, EmptySeq
  <2>2. /\ r \in Seq(S) /\ Len(r) = Len(s) - 1
        /\ \A i \in 1..(Len(s) - 1) : r[i] = s[i]
    BY <2>1, SubSeqElements DEF Front
  <2> HIDE DEF r
  <2> QED
    BY <2>1, <2>2, LenProperties
<1>2. Last(s) = s[Len(s)] /\ Last(s) \in S
  BY <1>1, ElementOfSeq DEF Last
<1> HIDE DEF r
<1>3. IsInjective(r)
  BY <1>1 DEF IsInjective
<1>4. \A y : Contains(r, y) <=> Contains(s, y) /\ y # Last(s)
  BY <1>1, <1>2 DEF Contains, IsInjective
<1> QED
  BY <1>2, <1>3, <1>4 DEF r

\* The last element of a queue is in it.
LEMMA LastContained ==
  ASSUME NEW S, NEW s \in Seq(S), s # <<>>
  PROVE  Contains(s, Last(s))
BY LenProperties, EmptySeq DEF Contains, Last

\* The elements of a queue, as a set.
LEMMA SetOfContained ==
  ASSUME NEW S, NEW s \in Seq(S)
  PROVE  /\ ToSet(s) \subseteq S
         /\ \A y : y \in ToSet(s) <=> Contains(s, y)
BY LenProperties, ElementOfSeq DEF Contains, ToSet

\* What a queue without duplicates holds after a push at the end.
LEMMA AppendElements ==
  ASSUME NEW S, NEW s \in Seq(S), NEW x \in S, ~Contains(s, x),
         IsInjective(s)
  PROVE  /\ Append(s, x) \in Seq(S)
         /\ Append(s, x) # <<>>
         /\ IsInjective(Append(s, x))
         /\ \A y : Contains(Append(s, x), y) <=> y = x \/ Contains(s, y)
<1> DEFINE r == Append(s, x)
<1>1. /\ Len(s) \in Nat /\ DOMAIN s = 1..Len(s)
      /\ r \in Seq(S) /\ r # <<>>
      /\ DOMAIN r = 1..Len(r)
      /\ Len(r) = Len(s) + 1
      /\ r[Len(s) + 1] = x
      /\ \A i \in 1..Len(s) : r[i] = s[i]
  BY LenProperties, AppendProperties, EmptySeq
<1> HIDE DEF r
<1>2. \A i \in 1..Len(s) : s[i] # x
  BY <1>1 DEF Contains
<1>3. IsInjective(r)
  BY <1>1, <1>2 DEF IsInjective
<1>4. \A y : Contains(r, y) <=> y = x \/ Contains(s, y)
  BY <1>1 DEF Contains
<1> QED
  BY <1>1, <1>3, <1>4 DEF r

\* What a queue without duplicates holds after a pop at the front.
LEMMA TailElements ==
  ASSUME NEW S, NEW s \in Seq(S), s # <<>>, IsInjective(s)
  PROVE  /\ Head(s) \in S
         /\ Tail(s) \in Seq(S)
         /\ Contains(s, Head(s))
         /\ IsInjective(Tail(s))
         /\ \A y : Contains(Tail(s), y) <=> Contains(s, y) /\ y # Head(s)
<1> DEFINE r == Tail(s)
<1>1. /\ Len(s) \in Nat \ {0} /\ DOMAIN s = 1..Len(s)
      /\ r \in Seq(S)
      /\ DOMAIN r = 1..Len(r)
      /\ Len(r) = Len(s) - 1
      /\ \A i \in 1..(Len(s) - 1) : r[i] = s[i + 1]
      /\ Head(s) = s[1] /\ Head(s) \in S
  BY LenProperties, HeadTailProperties, EmptySeq, ElementOfSeq
<1> HIDE DEF r
<1>2. IsInjective(r)
  BY <1>1 DEF IsInjective
<1>3. ASSUME NEW y, Contains(s, y), y # Head(s)
      PROVE  Contains(r, y)
  <2>1. PICK i \in 1..Len(s) : s[i] = y
    BY <1>1, <1>3 DEF Contains
  <2>2. i - 1 \in 1..(Len(s) - 1) /\ r[i - 1] = y
    BY <1>1, <1>3, <2>1
  <2> QED
    BY <1>1, <2>2 DEF Contains
<1>4. ASSUME NEW y, Contains(r, y)
      PROVE  Contains(s, y) /\ y # Head(s)
  <2>1. PICK i \in 1..(Len(s) - 1) : s[i + 1] = y
    BY <1>1, <1>4 DEF Contains
  <2> QED
    BY <1>1, <2>1 DEF Contains, IsInjective
<1>5. Contains(s, Head(s))
  BY <1>1 DEF Contains
<1> QED
  BY <1>1, <1>2, <1>3, <1>4, <1>5 DEF r

\* A queue is its first element and the rest.
LEMMA HeadFirst ==
  ASSUME NEW S, NEW s \in Seq(S), s # <<>>
  PROVE  s = <<Head(s)>> \o Tail(s)
OBVIOUS

LEMMA TailOfOne ==
  ASSUME NEW S, NEW s \in Seq(S), Len(s) = 1
  PROVE  Tail(s) = <<>>
<1>1. s # <<>>
  OBVIOUS
<1>2. Tail(s) \in Seq(S) /\ Len(Tail(s)) = Len(s) - 1
  BY <1>1, HeadTailProperties
<1>3. Len(Tail(s)) = 0
  BY <1>2
<1> QED
  BY <1>2, <1>3, EmptySeq

\* A sequence with one element put in.
LEMMA InsertAtElements ==
  ASSUME NEW S, NEW s \in Seq(S), NEW e \in S, NEW i \in 1..(Len(s) + 1)
  PROVE  /\ InsertAt(s, i, e) \in Seq(S)
         /\ Len(InsertAt(s, i, e)) = Len(s) + 1
         /\ \A j \in 1..(Len(s) + 1) :
              InsertAt(s, i, e)[j] = IF j < i THEN s[j] ELSE IF j = i THEN e ELSE s[j - 1]
<1> DEFINE u == SubSeq(s, 1, i - 1)
           w == SubSeq(s, i, Len(s))
<1>1. Len(s) \in Nat
  BY LenProperties
<1>2. /\ u \in Seq(S) /\ Len(u) = i - 1
      /\ \A j \in 1..(i - 1) : u[j] = s[j]
  BY <1>1, SubSeqElements
<1>3. /\ w \in Seq(S) /\ Len(w) = (Len(s) - i) + 1
      /\ \A j \in 1..((Len(s) - i) + 1) : w[j] = s[(i + j) - 1]
  <2>1. /\ w \in Seq(S)
        /\ Len(w) = IF i <= Len(s) THEN Len(s) - i + 1 ELSE 0
        /\ \A j \in 1..(Len(s) - i + 1) : w[j] = s[i + j - 1]
    BY <1>1, SubSeqElements
  <2> HIDE DEF w
  <2> QED
    BY <1>1, <2>1
<1> HIDE DEF u, w
<1> DEFINE v == u \o <<e>>
<1>4. /\ v \in Seq(S) /\ Len(v) = i
      /\ \A j \in 1..i : v[j] = IF j < i THEN s[j] ELSE e
  <2>1. <<e>> \in Seq(S) /\ Len(<<e>>) = 1 /\ <<e>>[1] = e
    OBVIOUS
  <2>2. /\ v \in Seq(S) /\ Len(v) = Len(u) + 1
        /\ \A j \in 1..(Len(u) + 1) : v[j] = IF j <= Len(u) THEN u[j] ELSE <<e>>[j - Len(u)]
    BY <1>2, <2>1, ConcatProperties
  <2> HIDE DEF v
  <2>3. \A j \in 1..i : v[j] = IF j < i THEN s[j] ELSE e
    <3> TAKE j \in 1..i
    <3>1. CASE j < i
      BY <1>1, <1>2, <2>2, <3>1
    <3>2. CASE j = i
      <4>1. j - Len(u) = 1 /\ ~(j <= Len(u)) /\ j \in 1..(Len(u) + 1)
        BY <1>1, <1>2, <3>2
      <4> QED
        BY <2>1, <2>2, <3>2, <4>1
    <3> QED
      BY <3>1, <3>2
  <2> QED
    BY <1>1, <1>2, <2>2, <2>3
<1> HIDE DEF v
<1>5. /\ v \o w \in Seq(S) /\ Len(v \o w) = Len(s) + 1
      /\ \A j \in 1..(Len(s) + 1) : (v \o w)[j] = IF j <= i THEN v[j] ELSE w[j - i]
  <2>1. /\ v \o w \in Seq(S) /\ Len(v \o w) = Len(v) + Len(w)
        /\ \A j \in 1..(Len(v) + Len(w)) :
             (v \o w)[j] = IF j <= Len(v) THEN v[j] ELSE w[j - Len(v)]
    BY <1>3, <1>4, ConcatProperties
  <2>2. Len(v) + Len(w) = Len(s) + 1 /\ Len(v) = i
    BY <1>1, <1>3, <1>4
  <2> QED
    BY <2>1, <2>2
<1>6. \A j \in 1..(Len(s) + 1) :
        (v \o w)[j] = IF j < i THEN s[j] ELSE IF j = i THEN e ELSE s[j - 1]
  <2> TAKE j \in 1..(Len(s) + 1)
  <2>1. CASE j <= i
    BY <1>1, <1>4, <1>5, <2>1
  <2>2. CASE j > i
    <3>1. j - i \in 1..((Len(s) - i) + 1) /\ (i + (j - i)) - 1 = j - 1
      BY <1>1, <2>2
    <3>2. w[j - i] = s[j - 1]
      BY <1>3, <3>1
    <3> QED
      BY <1>1, <1>5, <2>2, <3>2
  <2>3. j <= i \/ j > i
    BY <1>1
  <2> QED
    BY <2>1, <2>2, <2>3
<1>7. InsertAt(s, i, e) = v \o w
  BY DEF InsertAt, u, v, w
<1> QED
  BY <1>5, <1>6, <1>7

\* An insertion at an end.
LEMMA InsertAtEnds ==
  ASSUME NEW S, NEW s \in Seq(S), NEW e \in S
  PROVE  /\ InsertAt(s, 1, e) = <<e>> \o s
         /\ InsertAt(s, Len(s) + 1, e) = Append(s, e)
<1>1. Len(s) \in Nat
  BY LenProperties
<1>2. SubSeq(s, 1, Len(s)) = s
  OBVIOUS
<1>3. SubSeq(s, 1, 1 - 1) = <<>> /\ SubSeq(s, Len(s) + 1, Len(s)) = <<>>
  BY <1>1
<1>4. SubSeq(s, 1, (Len(s) + 1) - 1) = s
  BY <1>1, <1>2
<1>5. /\ <<>> \o <<e>> = <<e>>
      /\ s \o <<e>> = Append(s, e)
      /\ Append(s, e) \o <<>> = Append(s, e)
  OBVIOUS
<1> QED
  BY <1>2, <1>3, <1>4, <1>5 DEF InsertAt

=============================================================================
