----------------------------- MODULE QueueProofs ----------------------------
(***************************************************************************)
(* Theorems about the two kinds of queue that the kernel has: about the    *)
(* macros of VariableQueue, for any number of queues and elements, and     *)
(* further down about the queues of condition variables, for every client  *)
(* of CondSpec.                                                            *)
(***************************************************************************)
EXTENDS VariableQueue, QueueLemmas, FiniteSetTheorems, WellFoundedInduction

-----------------------------------------------------------------------------
(* Walks along links.                                                      *)

\* The order of the numbers, as a relation.
Less == {pair \in Nat \X Nat : pair[1] < pair[2]}

\* A property that fails for some number fails for a smallest one.
LEMMA LeastNatural ==
  ASSUME NEW T \in SUBSET Nat, T # {}
  PROVE  \E n \in T : \A m \in T : n <= m
<1>1. IsWellFoundedOn(Less, Nat)
  BY NatLessThanWellFounded, Zenon DEF OpToRel, Less
<1>2. PICK n \in T : \A m \in T : ~ (<<m, n>> \in Less)
  BY <1>1, WFMin
<1>3. \A m \in T : ~(m < n)
  BY <1>2 DEF Less
<1> QED
  BY <1>3

\* The links f lead from start through the elements of s, in this order.
IsPath(s, start, f) ==
  /\ s \in Seq(Elements) /\ IsInjective(s)
  /\ start = IF s = <<>> THEN NULL ELSE s[1]
  /\ \A i \in 1..Len(s) : f[s[i]] = IF i = Len(s) THEN NULL ELSE s[i + 1]

\* An interval from 1 has as many elements as its end says.
LEMMA CountTo ==
  ASSUME NEW n \in Nat
  PROVE  Cardinality(1..n) = n
<1>1. Cardinality(1..n) = IF 1 > n THEN 0 ELSE n - 1 + 1
  BY FS_Interval
<1> QED
  BY <1>1

\* A path has room in the bound of a walk.
LEMMA PathFits ==
  ASSUME NEW s \in Seq(Elements), IsInjective(s)
  PROVE  Cardinality(Elements) \in Nat /\ Len(s) <= Cardinality(Elements)
<1>1. Len(s) \in Nat /\ s \in Injection(1..Len(s), Elements)
  BY LenProperties DEF Injection
<1>2. Cardinality(1..Len(s)) = Len(s)
  BY <1>1, CountTo
<1>3. Cardinality(1..Len(s)) <= Cardinality(Elements)
  BY <1>1, FS_Injection, VariableQueueAssumption
<1> QED
  BY <1>2, <1>3, FS_CardinalityType, VariableQueueAssumption

\* A walk goes through the elements of the path, and ends where it ends.
LEMMA WalkPath ==
  ASSUME NEW s, NEW start, NEW f, IsPath(s, start, f)
  PROVE  Walk(start, f) = s
<1> DEFINE N == Cardinality(Elements) + 1
           at[k \in 1..N] ==
             IF k = 1 THEN start
             ELSE IF at[k - 1] = NULL THEN NULL ELSE f[at[k - 1]]
           g == [k \in 1..N |-> IF k <= Len(s) THEN s[k] ELSE NULL]
<1>0. /\ s \in Seq(Elements) /\ IsInjective(s) /\ Len(s) \in Nat
      /\ Cardinality(Elements) \in Nat /\ Len(s) <= Cardinality(Elements)
      /\ s = [i \in 1..Len(s) |-> s[i]]
      /\ \A i \in 1..Len(s) : s[i] \in Elements /\ s[i] # NULL
      /\ s = <<>> <=> Len(s) = 0
  BY PathFits, LenProperties, EmptySeq, VariableQueueAssumption DEF IsPath
<1>1. N \in Nat /\ 1 \in 1..N /\ Len(s) < N
  BY <1>0
<1>2. g[1] = start
  BY <1>0, <1>1 DEF IsPath
<1>3. ASSUME NEW k \in 1..N, k # 1
      PROVE  g[k] = IF g[k - 1] = NULL THEN NULL ELSE f[g[k - 1]]
  <2>1. k - 1 \in 1..N /\ k - 1 \in Nat
    BY <1>1, <1>3
  <2>2. CASE k - 1 <= Len(s)
    <3>1. g[k - 1] = s[k - 1] /\ k - 1 \in 1..Len(s)
      BY <1>0, <2>1, <2>2
    <3>2. g[k] = IF k - 1 = Len(s) THEN NULL ELSE s[(k - 1) + 1]
      BY <1>0, <1>3, <2>1, <2>2
    <3> HIDE DEF g
    <3> QED
      BY <1>0, <3>1, <3>2 DEF IsPath
  <2>3. CASE k - 1 > Len(s)
    BY <1>0, <1>3, <2>1, <2>3
  <2> QED
    BY <1>0, <2>1, <2>2, <2>3
<1>4. g = [k \in 1..N |-> IF k = 1 THEN start
                          ELSE IF g[k - 1] = NULL THEN NULL ELSE f[g[k - 1]]]
  <2>1. g = [k \in 1..N |-> g[k]]
    OBVIOUS
  <2> HIDE DEF g, N
  <2> QED
    BY <1>2, <1>3, <2>1
<1>5. at = [k \in 1..N |-> IF k = 1 THEN start
                           ELSE IF at[k - 1] = NULL THEN NULL ELSE f[at[k - 1]]]
  <2> HIDE DEF g, N
  <2> QED
    BY <1>4, Zenon
<1>6. at = g
  <2> HIDE DEF at
  <2> DEFINE T == {k \in 1..N : at[k] # g[k]}
  <2>1. ASSUME T # {} PROVE FALSE
    <3>1. T \in SUBSET Nat
      BY <1>1
    <3>2. PICK n \in T : \A m \in T : n <= m
      BY <2>1, <3>1, LeastNatural
    <3>3. n \in 1..N /\ at[n] # g[n]
      BY <3>2
    <3> HIDE DEF g, N
    <3>4. n # 1
      BY <1>1, <1>2, <1>5, <3>3
    <3>5. n - 1 \in 1..N /\ ~(n <= n - 1)
      BY <1>1, <3>3, <3>4
    <3>6. at[n - 1] = g[n - 1]
      BY <3>2, <3>5
    <3> QED
      BY <1>3, <1>5, <3>3, <3>4, <3>6
  <2>2. at = [k \in 1..N |-> at[k]] /\ g = [k \in 1..N |-> g[k]]
    <3> HIDE DEF N
    <3> QED
      BY <1>5
  <2>3. \A k \in 1..N : at[k] = g[k]
    BY <2>1
  <2> HIDE DEF g, N
  <2> QED
    BY <2>2, <2>3
<1>7. Walk(start, f) =
        [k \in 1..Cardinality({j \in DOMAIN at : at[j] # NULL}) |-> at[k]]
  BY Zenon DEF Walk
<1> HIDE DEF at
<1>8. {j \in DOMAIN at : at[j] # NULL} = 1..Len(s)
  BY <1>0, <1>1, <1>6
<1>9. Cardinality(1..Len(s)) = Len(s)
  BY <1>0, CountTo
<1>10. \A k \in 1..Len(s) : at[k] = s[k]
  BY <1>0, <1>1, <1>6
<1> HIDE DEF g, N
<1> QED
  BY <1>0, <1>7, <1>8, <1>9, <1>10

-----------------------------------------------------------------------------
(* Chains: sequences that are linked both ways.                            *)

\* From h, the links n lead through s; from its last element t, the links p
\* lead back.
Chain(s, h, t, n, p) ==
  /\ IsPath(s, h, n)
  /\ t = IF s = <<>> THEN NULL ELSE s[Len(s)]
  /\ \A i \in 1..Len(s) : p[s[i]] = IF i = 1 THEN NULL ELSE s[i - 1]

\* What a chain is made of, and when it is empty.
LEMMA ChainType ==
  ASSUME NEW s, NEW h, NEW t, NEW n, NEW p, Chain(s, h, t, n, p)
  PROVE  /\ s \in Seq(Elements) /\ Len(s) \in Nat /\ IsInjective(s)
         /\ DOMAIN s = 1..Len(s)
         /\ \A i \in 1..Len(s) : s[i] \in Elements /\ s[i] # NULL
         /\ \A i, j \in 1..Len(s) : s[i] = s[j] => i = j
         /\ s = <<>> <=> Len(s) = 0
         /\ h = NULL <=> s = <<>>
         /\ t = NULL <=> s = <<>>
<1>1. /\ s \in Seq(Elements) /\ Len(s) \in Nat /\ IsInjective(s)
      /\ DOMAIN s = 1..Len(s)
      /\ \A i \in 1..Len(s) : s[i] \in Elements /\ s[i] # NULL
      /\ s = <<>> <=> Len(s) = 0
  BY LenProperties, EmptySeq, VariableQueueAssumption DEF Chain, IsPath
<1>2. s # <<>> => 1 \in 1..Len(s) /\ Len(s) \in 1..Len(s)
  BY <1>1
<1> QED
  BY <1>1, <1>2 DEF Chain, IsPath, IsInjective

\* The ends and the links of a chain that is not empty.
LEMMA ChainLinks ==
  ASSUME NEW s, NEW h, NEW t, NEW n, NEW p, Chain(s, h, t, n, p), s # <<>>
  PROVE  /\ h = s[1] /\ t = s[Len(s)]
         /\ \A j \in 1..Len(s) : /\ n[s[j]] = IF j = Len(s) THEN NULL ELSE s[j + 1]
                                 /\ p[s[j]] = IF j = 1 THEN NULL ELSE s[j - 1]
BY DEF Chain, IsPath

\* Only the links of its elements matter to a chain.
LEMMA ChainKept ==
  ASSUME NEW s, NEW h, NEW t, NEW n, NEW p, NEW n2, NEW p2,
         Chain(s, h, t, n, p),
         \A x \in Elements : Contains(s, x) => n2[x] = n[x] /\ p2[x] = p[x]
  PROVE  Chain(s, h, t, n2, p2)
<1>1. \A i \in 1..Len(s) : s[i] \in Elements /\ Contains(s, s[i])
  BY ChainType DEF Contains
<1> QED
  BY <1>1 DEF Chain, IsPath

\* The same elements, from the back.
LEMMA Backwards ==
  ASSUME NEW s, NEW h, NEW t, NEW n, NEW p, Chain(s, h, t, n, p)
  PROVE  IsPath(Reverse(s), t, p)
<1> DEFINE r == [i \in 1..Len(s) |-> s[(Len(s) - i) + 1]]
<1>1. /\ Len(s) \in Nat
      /\ \A i \in 1..Len(s) : s[i] \in Elements
      /\ \A i, j \in 1..Len(s) : s[i] = s[j] => i = j
      /\ s = <<>> <=> Len(s) = 0
  BY ChainType
<1>2. \A i \in 1..Len(s) : (Len(s) - i) + 1 \in 1..Len(s)
  BY <1>1
<1>3. /\ r \in Seq(Elements) /\ Len(r) = Len(s) /\ DOMAIN r = 1..Len(s)
      /\ \A i \in 1..Len(s) : r[i] = s[(Len(s) - i) + 1]
  BY <1>1, <1>2
<1> HIDE DEF r
<1>4. IsInjective(r)
  BY <1>1, <1>2, <1>3 DEF IsInjective
<1>5. r = <<>> <=> s = <<>>
  BY <1>1, <1>3, EmptySeq
<1>6. t = IF r = <<>> THEN NULL ELSE r[1]
  BY <1>1, <1>3, <1>5 DEF Chain
<1>7. \A i \in 1..Len(s) : p[r[i]] = IF i = Len(s) THEN NULL ELSE r[i + 1]
  <2> TAKE i \in 1..Len(s)
  <2> DEFINE k == (Len(s) - i) + 1
  <2>0. Len(s) \in Nat
    BY <1>1
  <2>1. k \in 1..Len(s) /\ r[i] = s[k] /\ (k = 1 <=> i = Len(s))
    <3>1. k \in 1..Len(s) /\ (k = 1 <=> i = Len(s))
      BY <2>0
    <3>2. r[i] = s[k]
      BY <1>3
    <3> QED
      BY <3>1, <3>2
  <2>2. p[s[k]] = IF k = 1 THEN NULL ELSE s[k - 1]
    BY <2>1 DEF Chain
  <2>3. i # Len(s) => r[i + 1] = s[k - 1]
    <3> HAVE i # Len(s)
    <3>1. i + 1 \in 1..Len(s) /\ (Len(s) - (i + 1)) + 1 = k - 1
      BY <2>0
    <3> HIDE DEF k
    <3> QED
      BY <1>3, <3>1
  <2> HIDE DEF k
  <2> QED
    BY <2>1, <2>2, <2>3
<1>8. r = Reverse(s)
  BY DEF r, Reverse
<1> QED
  BY <1>1, <1>3, <1>4, <1>6, <1>7, <1>8 DEF IsPath

\* An element is put between two others, or at an end.
LEMMA Inserted ==
  ASSUME NEW s, NEW h, NEW t, NEW n, NEW p, NEW n2, NEW p2, Chain(s, h, t, n, p),
         NEW e \in Elements, ~Contains(s, e), NEW i \in 1..(Len(s) + 1),
         n2[e] = IF i = Len(s) + 1 THEN NULL ELSE s[i],
         p2[e] = IF i = 1 THEN NULL ELSE s[i - 1],
         \A j \in 1..Len(s) : n2[s[j]] = IF j = i - 1 THEN e ELSE n[s[j]],
         \A j \in 1..Len(s) : p2[s[j]] = IF j = i THEN e ELSE p[s[j]]
  PROVE  /\ Chain(InsertAt(s, i, e), IF i = 1 THEN e ELSE h,
                  IF i = Len(s) + 1 THEN e ELSE t, n2, p2)
         /\ \A y : Contains(InsertAt(s, i, e), y) <=> y = e \/ Contains(s, y)
<1> DEFINE r == InsertAt(s, i, e)
<1>0. Len(s) \in Nat /\ i \in Nat
  BY ChainType
<1>1. /\ s \in Seq(Elements)
      /\ \A j \in 1..Len(s) : s[j] # e
      /\ \A j, k \in 1..Len(s) : s[j] = s[k] => j = k
      /\ s = <<>> <=> Len(s) = 0
  BY ChainType DEF Contains
<1>2. /\ r \in Seq(Elements) /\ Len(r) = Len(s) + 1 /\ DOMAIN r = 1..(Len(s) + 1)
      /\ \A j \in 1..(Len(s) + 1) :
           r[j] = IF j < i THEN s[j] ELSE IF j = i THEN e ELSE s[j - 1]
  BY <1>1, InsertAtElements, LenProperties
<1> HIDE DEF r
<1>3. r[i] = e /\ r # <<>>
  BY <1>0, <1>2, EmptySeq
<1>4. \A j \in 1..Len(s) : (j < i => r[j] = s[j]) /\ (j >= i => r[j + 1] = s[j])
  <2> TAKE j \in 1..Len(s)
  <2>1. j \in 1..(Len(s) + 1) /\ j + 1 \in 1..(Len(s) + 1) /\ (j + 1) - 1 = j
    BY <1>0
  <2> QED
    BY <1>0, <1>2, <2>1
<1>5. \A k \in 1..(Len(s) + 1) :
        \/ k = i
        \/ k < i /\ k \in 1..Len(s) /\ r[k] = s[k]
        \/ k > i /\ k - 1 \in 1..Len(s) /\ r[k] = s[k - 1]
  BY <1>0, <1>2
<1>6. IsInjective(r)
  <2> SUFFICES ASSUME NEW j \in 1..(Len(s) + 1), NEW k \in 1..(Len(s) + 1), r[j] = r[k]
               PROVE  j = k
    BY <1>2 DEF IsInjective
  <2>1. CASE j = i \/ k = i
    BY <1>1, <1>3, <1>5, <2>1
  <2>2. CASE j # i /\ k # i
    <3>1. PICK a \in 1..Len(s) : r[j] = s[a] /\ ((j < i /\ a = j) \/ (j > i /\ a = j - 1))
      BY <1>5, <2>2
    <3>2. PICK b \in 1..Len(s) : r[k] = s[b] /\ ((k < i /\ b = k) \/ (k > i /\ b = k - 1))
      BY <1>5, <2>2
    <3>3. a = b
      <4>1. s[a] = s[b]
        BY <3>1, <3>2
      <4> QED
        BY <1>1, <4>1
    <3> QED
      BY <1>0, <3>1, <3>2, <3>3
  <2> QED
    BY <2>1, <2>2
<1>7. \A y : Contains(r, y) <=> y = e \/ Contains(s, y)
  <2> TAKE y
  <2>1. ASSUME NEW k \in 1..(Len(s) + 1), r[k] = y
        PROVE  y = e \/ Contains(s, y)
    BY <1>3, <1>5, <2>1 DEF Contains
  <2>2. ASSUME NEW j \in 1..Len(s), s[j] = y
        PROVE  Contains(r, y)
    <3>1. j \in 1..Len(r) /\ j + 1 \in 1..Len(r)
      BY <1>0, <1>2
    <3> QED
      BY <1>0, <1>4, <2>2, <3>1 DEF Contains
  <2>3. i \in 1..Len(r)
    BY <1>2
  <2> QED
    BY <1>2, <1>3, <2>1, <2>2, <2>3 DEF Contains
<1>8. (IF i = 1 THEN e ELSE h) = IF r = <<>> THEN NULL ELSE r[1]
  <2>1. CASE i = 1
    BY <1>3, <2>1
  <2>2. CASE i # 1
    <3>1. 1 \in 1..Len(s) /\ 1 < i
      BY <1>0, <2>2
    <3>2. s # <<>> /\ h = s[1] /\ r[1] = s[1]
      BY <1>1, <1>4, <3>1 DEF Chain, IsPath
    <3> QED
      BY <1>3, <2>2, <3>2
  <2> QED
    BY <2>1, <2>2
<1>9. (IF i = Len(s) + 1 THEN e ELSE t) = IF r = <<>> THEN NULL ELSE r[Len(r)]
  <2>1. CASE i = Len(s) + 1
    BY <1>2, <1>3, <2>1
  <2>2. CASE i # Len(s) + 1
    <3>1. Len(s) \in 1..Len(s) /\ Len(s) >= i
      BY <1>0, <2>2
    <3>2. s # <<>> /\ t = s[Len(s)] /\ r[Len(s) + 1] = s[Len(s)]
      BY <1>1, <1>4, <3>1 DEF Chain
    <3> QED
      BY <1>2, <1>3, <2>2, <3>2
  <2> QED
    BY <2>1, <2>2
<1>10. \A k \in 1..(Len(s) + 1) : n2[r[k]] = IF k = Len(s) + 1 THEN NULL ELSE r[k + 1]
  <2> TAKE k \in 1..(Len(s) + 1)
  <2>1. CASE k = i
    BY <1>0, <1>3, <1>4, <2>1
  <2>2. CASE k < i
    <3>1. k \in 1..Len(s) /\ r[k] = s[k] /\ k # Len(s) + 1
      BY <1>0, <1>5, <2>2
    <3>2. CASE k = i - 1
      BY <1>0, <1>3, <3>1, <3>2
    <3>3. CASE k # i - 1
      <4>1. k + 1 \in 1..Len(s) /\ k + 1 < i /\ k # Len(s)
        BY <1>0, <2>2, <3>3
      <4>2. n[s[k]] = s[k + 1]
        BY <3>1, <4>1 DEF Chain, IsPath
      <4> QED
        BY <1>4, <3>1, <3>3, <4>1, <4>2
    <3> QED
      BY <3>2, <3>3
  <2>3. CASE k > i
    <3>1. /\ k - 1 \in 1..Len(s) /\ r[k] = s[k - 1] /\ k - 1 # i - 1
          /\ (k - 1) + 1 = k /\ (k = Len(s) + 1 <=> k - 1 = Len(s))
      BY <1>0, <1>5, <2>3
    <3>2. n[s[k - 1]] = IF k - 1 = Len(s) THEN NULL ELSE s[(k - 1) + 1]
      BY <3>1 DEF Chain, IsPath
    <3>3. n2[s[k - 1]] = n[s[k - 1]]
      BY <3>1
    <3>4. k # Len(s) + 1 => r[k + 1] = s[k]
      <4> HAVE k # Len(s) + 1
      <4>1. k \in 1..Len(s) /\ k >= i
        BY <1>0, <2>3
      <4> QED
        BY <1>4, <4>1
    <3> QED
      BY <3>1, <3>2, <3>3, <3>4
  <2> QED
    BY <1>0, <2>1, <2>2, <2>3
<1>11. \A k \in 1..(Len(s) + 1) : p2[r[k]] = IF k = 1 THEN NULL ELSE r[k - 1]
  <2> TAKE k \in 1..(Len(s) + 1)
  <2>1. CASE k = i
    <3>1. k # 1 => k - 1 \in 1..Len(s) /\ k - 1 < i
      BY <1>0, <2>1
    <3> QED
      BY <1>3, <1>4, <2>1, <3>1
  <2>2. CASE k < i
    <3>1. k \in 1..Len(s) /\ r[k] = s[k] /\ k # i
      BY <1>0, <1>5, <2>2
    <3>2. p2[s[k]] = IF k = 1 THEN NULL ELSE s[k - 1]
      BY <3>1 DEF Chain
    <3>3. k # 1 => k - 1 \in 1..Len(s) /\ k - 1 < i
      BY <1>0, <2>2
    <3> QED
      BY <1>4, <3>1, <3>2, <3>3
  <2>3. CASE k > i
    <3>1. k - 1 \in 1..Len(s) /\ r[k] = s[k - 1] /\ k # 1
      BY <1>0, <1>5, <2>3
    <3>2. CASE k - 1 = i
      BY <1>3, <3>1, <3>2
    <3>3. CASE k - 1 # i
      <4>1. /\ (k - 1) - 1 \in 1..Len(s) /\ (k - 1) - 1 >= i
            /\ ((k - 1) - 1) + 1 = k - 1 /\ k - 1 # 1
        BY <1>0, <2>3, <3>3
      <4>2. p2[s[k - 1]] = p[s[k - 1]] /\ p[s[k - 1]] = s[(k - 1) - 1]
        BY <3>1, <3>3, <4>1 DEF Chain
      <4>3. r[((k - 1) - 1) + 1] = s[(k - 1) - 1]
        BY <1>4, <4>1
      <4> QED
        BY <3>1, <4>1, <4>2, <4>3
    <3> QED
      BY <3>2, <3>3
  <2> QED
    BY <1>0, <2>1, <2>2, <2>3
<1>12. Chain(r, IF i = 1 THEN e ELSE h, IF i = Len(s) + 1 THEN e ELSE t, n2, p2)
  BY <1>1, <1>2, <1>6, <1>8, <1>9, <1>10, <1>11 DEF Chain, IsPath
<1> QED
  BY <1>7, <1>12 DEF r

\* The neighbours of the element of s at position i get each other's link.
Unlinked(s, i, n, p, n2, p2) ==
  \A j \in 1..Len(s) : j # i =>
    /\ n2[s[j]] = IF j = i - 1 THEN n[s[i]] ELSE n[s[j]]
    /\ p2[s[j]] = IF j = i + 1 THEN p[s[i]] ELSE p[s[j]]

\* The last element of s and the first one of r get each other's link.
Bridged(s, r, n, p, n2, p2) ==
  /\ \A y : ~(Contains(s, y) /\ Contains(r, y))
  /\ \A j \in 1..Len(s) : /\ n2[s[j]] = IF j = Len(s) THEN r[1] ELSE n[s[j]]
                          /\ p2[s[j]] = p[s[j]]
  /\ \A j \in 1..Len(r) : /\ n2[r[j]] = n[r[j]]
                          /\ p2[r[j]] = IF j = 1 THEN s[Len(s)] ELSE p[r[j]]

\* The neighbours of an element taken out become neighbours.
LEMMA Removed ==
  ASSUME NEW s, NEW h, NEW t, NEW n, NEW p, NEW n2, NEW p2, Chain(s, h, t, n, p),
         NEW i \in 1..Len(s), Unlinked(s, i, n, p, n2, p2)
  PROVE  /\ Chain(RemoveAt(s, i), IF i = 1 THEN n[s[i]] ELSE h,
                  IF i = Len(s) THEN p[s[i]] ELSE t, n2, p2)
         /\ \A y : Contains(RemoveAt(s, i), y) <=> Contains(s, y) /\ y # s[i]
<1> DEFINE r == RemoveAt(s, i)
           L == Len(s) - 1
<1>0. Len(s) \in Nat /\ i \in Nat /\ L \in Nat
      /\ Len(s) = L + 1 /\ L = Len(s) - 1 /\ 1 <= i /\ i <= L + 1
  BY ChainType
<1>1. /\ s \in Seq(Elements) /\ IsInjective(s)
      /\ \A j, k \in 1..Len(s) : s[j] = s[k] => j = k
      /\ s # <<>>
      /\ h = s[1] /\ t = s[Len(s)]
      /\ \A j \in 1..Len(s) : /\ n[s[j]] = IF j = Len(s) THEN NULL ELSE s[j + 1]
                              /\ p[s[j]] = IF j = 1 THEN NULL ELSE s[j - 1]
  <2>1. /\ s \in Seq(Elements) /\ IsInjective(s) /\ s # <<>>
        /\ \A j, k \in 1..Len(s) : s[j] = s[k] => j = k
    BY <1>0, ChainType
  <2> QED
    BY <2>1, ChainLinks
<1>2. /\ r \in Seq(Elements) /\ Len(r) = L /\ IsInjective(r)
      /\ \A k \in 1..L : r[k] = IF k < i THEN s[k] ELSE s[k + 1]
  BY <1>1, RemoveAtElements, RemoveElements
<1>3. \A y : Contains(r, y) <=> Contains(s, y) /\ y # s[i]
  BY <1>1, RemoveElements
<1>4. r = <<>> <=> L = 0
  BY <1>2, EmptySeq
<1> HIDE DEF r
<1> HIDE DEF L
<1>5. (IF i = 1 THEN n[s[i]] ELSE h) = IF r = <<>> THEN NULL ELSE r[1]
  <2>1. CASE r = <<>>
    <3>0. L = 0
      BY <1>4, <2>1
    <3>1. i = 1 /\ i = Len(s)
      BY <1>0, <3>0
    <3> QED
      BY <1>1, <2>1, <3>1
  <2>2. CASE r # <<>>
    <3>0. L # 0
      BY <1>4, <2>2
    <3>1. 1 \in 1..L /\ (i = 1 => i # Len(s)) /\ (i # 1 => 1 < i) /\ 1 + 1 = 2
      BY <1>0, <3>0
    <3> QED
      BY <1>1, <1>2, <2>2, <3>1
  <2> QED
    BY <2>1, <2>2
<1>6. (IF i = Len(s) THEN p[s[i]] ELSE t) = IF r = <<>> THEN NULL ELSE r[Len(r)]
  <2>1. CASE r = <<>>
    <3>0. L = 0
      BY <1>4, <2>1
    <3>1. i = 1 /\ i = Len(s)
      BY <1>0, <3>0
    <3> QED
      BY <1>1, <2>1, <3>1
  <2>2. CASE r # <<>>
    <3>0. L # 0
      BY <1>4, <2>2
    <3>1. /\ L \in 1..L /\ L + 1 = Len(s) /\ L = Len(s) - 1
          /\ (i = Len(s) => i # 1 /\ L < i) /\ (i # Len(s) => ~(L < i))
      BY <1>0, <3>0
    <3> QED
      BY <1>1, <1>2, <2>2, <3>1
  <2> QED
    BY <2>1, <2>2
<1>7. \A k \in 1..L : n2[r[k]] = IF k = L THEN NULL ELSE r[k + 1]
  <2> TAKE k \in 1..L
  <2>1. CASE k < i
    <3>1. k \in 1..Len(s) /\ k # i /\ r[k] = s[k] /\ k # Len(s)
      BY <1>0, <1>2, <2>1
    <3>2. CASE k = i - 1
      <4>1. /\ i \in 1..Len(s) /\ k + 1 = i /\ (k = L <=> i = Len(s))
            /\ (k # L => k + 1 \in 1..L /\ ~(k + 1 < i))
        BY <1>0, <3>2
      <4>2. k # L => r[k + 1] = s[i + 1]
        BY <1>2, <4>1
      <4>3. n2[r[k]] = n[s[i]]
        BY <3>1, <3>2 DEF Unlinked
      <4> QED
        BY <1>1, <4>1, <4>2, <4>3
    <3>3. CASE k # i - 1
      <4>1. k + 1 < i /\ k + 1 \in 1..L /\ k # L
        BY <1>0, <2>1, <3>3
      <4> QED
        BY <1>1, <1>2, <3>1, <3>3, <4>1 DEF Unlinked
    <3> QED
      BY <3>2, <3>3
  <2>2. CASE ~(k < i)
    <3>1. /\ k + 1 \in 1..Len(s) /\ k + 1 # i /\ k + 1 # i - 1
          /\ (k = L <=> k + 1 = Len(s))
          /\ (k # L => k + 1 \in 1..L /\ ~(k + 1 < i))
      BY <1>0, <2>2
    <3>2. r[k] = s[k + 1] /\ (k # L => r[k + 1] = s[(k + 1) + 1])
      BY <1>2, <2>2, <3>1
    <3>3. n2[s[k + 1]] = n[s[k + 1]]
      BY <3>1 DEF Unlinked
    <3> QED
      BY <1>1, <3>1, <3>2, <3>3
  <2> QED
    BY <2>1, <2>2
<1>8. \A k \in 1..L : p2[r[k]] = IF k = 1 THEN NULL ELSE r[k - 1]
  <2> TAKE k \in 1..L
  <2>1. CASE k < i
    <3>1. /\ k \in 1..Len(s) /\ k # i /\ r[k] = s[k] /\ k # i + 1
          /\ (k # 1 => k - 1 \in 1..L /\ k - 1 < i)
      BY <1>0, <1>2, <2>1
    <3>2. p2[s[k]] = p[s[k]]
      BY <3>1 DEF Unlinked
    <3>3. k # 1 => r[k - 1] = s[k - 1]
      BY <1>2, <3>1
    <3> QED
      BY <1>1, <3>1, <3>2, <3>3
  <2>2. CASE ~(k < i)
    <3>1. /\ k + 1 \in 1..Len(s) /\ k + 1 # i /\ r[k] = s[k + 1]
          /\ (k + 1 = i + 1 <=> k = i) /\ (k + 1) - 1 = k /\ k + 1 # 1
          /\ (k # 1 => k - 1 \in 1..L)
      BY <1>0, <1>2, <2>2
    <3>2. CASE k = i
      <4>1. p2[r[k]] = IF i = 1 THEN NULL ELSE s[i - 1]
        BY <1>1, <3>1, <3>2 DEF Unlinked
      <4>2. k # 1 => r[k - 1] = s[i - 1]
        <5> HAVE k # 1
        <5>1. k - 1 \in 1..L /\ k - 1 < i /\ k - 1 = i - 1
          BY <1>0, <3>1, <3>2
        <5> QED
          BY <1>2, <5>1
      <4> QED
        BY <3>2, <4>1, <4>2
    <3>3. CASE k # i
      <4>1. k # 1 /\ k - 1 \in 1..L /\ ~(k - 1 < i) /\ (k - 1) + 1 = k
        BY <1>0, <2>2, <3>3
      <4>2. p2[r[k]] = s[k]
        BY <1>1, <3>1, <3>3 DEF Unlinked
      <4>3. r[k - 1] = s[k]
        BY <1>2, <4>1
      <4> QED
        BY <4>1, <4>2, <4>3
    <3> QED
      BY <3>2, <3>3
  <2> QED
    BY <2>1, <2>2
<1>9. Chain(r, IF i = 1 THEN n[s[i]] ELSE h, IF i = Len(s) THEN p[s[i]] ELSE t, n2, p2)
  BY <1>1, <1>2, <1>5, <1>6, <1>7, <1>8 DEF Chain, IsPath
<1> QED
  BY <1>3, <1>9 DEF r

\* A chain is put behind another one.
LEMMA Joined ==
  ASSUME NEW s, NEW h, NEW t, NEW r, NEW g, NEW u, NEW n, NEW p, NEW n2, NEW p2,
         Chain(s, h, t, n, p), Chain(r, g, u, n, p), s # <<>>, r # <<>>,
         Bridged(s, r, n, p, n2, p2)
  PROVE  /\ Chain(s \o r, h, u, n2, p2)
         /\ \A y : Contains(s \o r, y) <=> Contains(s, y) \/ Contains(r, y)
<1> DEFINE w == s \o r
           A == Len(s)
           B == Len(r)
<1>0. A \in Nat /\ B \in Nat /\ A # 0 /\ B # 0 /\ A + B \in Nat
  BY ChainType
<1>1. /\ s \in Seq(Elements) /\ r \in Seq(Elements)
      /\ \A j, k \in 1..A : s[j] = s[k] => j = k
      /\ \A j, k \in 1..B : r[j] = r[k] => j = k
      /\ \A j \in 1..A, k \in 1..B : s[j] # r[k]
      /\ h = s[1] /\ u = r[B]
      /\ \A j \in 1..A : /\ n[s[j]] = IF j = A THEN NULL ELSE s[j + 1]
                         /\ p[s[j]] = IF j = 1 THEN NULL ELSE s[j - 1]
      /\ \A j \in 1..B : /\ n[r[j]] = IF j = B THEN NULL ELSE r[j + 1]
                         /\ p[r[j]] = IF j = 1 THEN NULL ELSE r[j - 1]
  <2>1. /\ s \in Seq(Elements) /\ r \in Seq(Elements)
        /\ \A j, k \in 1..A : s[j] = s[k] => j = k
        /\ \A j, k \in 1..B : r[j] = r[k] => j = k
    BY ChainType
  <2>2. \A j \in 1..A, k \in 1..B : s[j] # r[k]
    BY DEF Bridged, Contains
  <2> QED
    BY <2>1, <2>2, ChainLinks
<1>2. /\ w \in Seq(Elements) /\ Len(w) = A + B /\ DOMAIN w = 1..(A + B)
      /\ \A j \in 1..(A + B) : w[j] = IF j <= A THEN s[j] ELSE r[j - A]
  BY <1>1, ConcatProperties, LenProperties
<1> HIDE DEF w
<1>3. w # <<>> /\ 1 \in 1..(A + B) /\ A + B \in 1..(A + B)
  BY <1>0, <1>2, EmptySeq
<1>4. /\ \A j \in 1..A : j \in 1..(A + B) /\ w[j] = s[j]
      /\ \A j \in 1..B : A + j \in 1..(A + B) /\ w[A + j] = r[j]
  <2>1. \A j \in 1..A : j \in 1..(A + B) /\ w[j] = s[j]
    BY <1>0, <1>2
  <2>2. ASSUME NEW j \in 1..B
        PROVE  A + j \in 1..(A + B) /\ w[A + j] = r[j]
    <3>1. A + j \in 1..(A + B) /\ ~(A + j <= A) /\ (A + j) - A = j
      BY <1>0
    <3> HIDE DEF A, B
    <3> QED
      BY <1>2, <3>1
  <2> QED
    BY <2>1, <2>2
<1>5. \A k \in 1..(A + B) : \/ k \in 1..A
                            \/ \E j \in 1..B : k = A + j
  <2> SUFFICES ASSUME NEW k \in 1..(A + B), k \notin 1..A
               PROVE  \E j \in 1..B : k = A + j
    OBVIOUS
  <2>1. k - A \in 1..B /\ k = A + (k - A)
    BY <1>0
  <2> QED
    BY <2>1
<1> HIDE DEF A, B
<1>6. IsInjective(w)
  <2> SUFFICES ASSUME NEW j \in 1..(A + B), NEW k \in 1..(A + B), w[j] = w[k]
               PROVE  j = k
    BY <1>2 DEF IsInjective
  <2>1. CASE j \in 1..A /\ k \in 1..A
    BY <1>1, <1>4, <2>1
  <2>2. ASSUME NEW a \in 1..B, NEW b \in 1..B, j = A + a, k = A + b
        PROVE  j = k
    BY <1>1, <1>4, <2>2
  <2>3. ASSUME NEW a \in 1..A, NEW b \in 1..B
        PROVE  w[a] # w[A + b]
    BY <1>1, <1>4
  <2> QED
    BY <1>5, <2>1, <2>2, <2>3
<1>7. \A y : Contains(w, y) <=> Contains(s, y) \/ Contains(r, y)
  <2> TAKE y
  <2>1. Contains(s, y) => Contains(w, y)
    BY <1>2, <1>4 DEF Contains, A
  <2>2. Contains(r, y) => Contains(w, y)
    BY <1>2, <1>4 DEF Contains, B
  <2>3. ASSUME NEW k \in 1..(A + B), w[k] = y
        PROVE  Contains(s, y) \/ Contains(r, y)
    <3>1. CASE k \in 1..A
      BY <1>4, <2>3, <3>1 DEF Contains, A
    <3>2. ASSUME NEW j \in 1..B, k = A + j
          PROVE  Contains(r, y)
      <4>1. r[j] = y
        BY <1>4, <2>3, <3>2
      <4> QED
        BY <4>1 DEF Contains, B
    <3> QED
      BY <1>5, <3>1, <3>2
  <2> QED
    BY <1>2, <2>1, <2>2, <2>3 DEF Contains
<1>8. /\ h = IF w = <<>> THEN NULL ELSE w[1]
      /\ u = IF w = <<>> THEN NULL ELSE w[Len(w)]
  <2>1. 1 \in 1..A /\ B \in 1..B
    BY <1>0
  <2> QED
    BY <1>1, <1>2, <1>3, <1>4, <2>1
<1>9. \A k \in 1..(A + B) : /\ n2[w[k]] = IF k = A + B THEN NULL ELSE w[k + 1]
                            /\ p2[w[k]] = IF k = 1 THEN NULL ELSE w[k - 1]
  <2>1. ASSUME NEW j \in 1..A
        PROVE  /\ n2[w[j]] = IF j = A + B THEN NULL ELSE w[j + 1]
               /\ p2[w[j]] = IF j = 1 THEN NULL ELSE w[j - 1]
    <3>1. /\ j # A + B /\ 1 \in 1..B /\ A + 1 = 1 + A
          /\ (j # A => j + 1 \in 1..A) /\ (j # 1 => j - 1 \in 1..A)
      BY <1>0
    <3>2. w[j] = s[j] /\ (j # A => w[j + 1] = s[j + 1]) /\ w[A + 1] = r[1]
          /\ (j # 1 => w[j - 1] = s[j - 1])
      BY <1>4, <3>1
    <3>3. n2[s[j]] = (IF j = A THEN r[1] ELSE n[s[j]]) /\ p2[s[j]] = p[s[j]]
      BY DEF A, Bridged
    <3> QED
      BY <1>1, <3>1, <3>2, <3>3
  <2>2. ASSUME NEW j \in 1..B
        PROVE  /\ n2[w[A + j]] = IF A + j = A + B THEN NULL ELSE w[(A + j) + 1]
               /\ p2[w[A + j]] = IF A + j = 1 THEN NULL ELSE w[(A + j) - 1]
    <3>1. /\ A + j # 1 /\ (A + j = A + B <=> j = B) /\ A \in 1..A
          /\ (j # B => j + 1 \in 1..B /\ (A + j) + 1 = A + (j + 1))
          /\ (j = 1 => (A + j) - 1 = A)
          /\ (j # 1 => j - 1 \in 1..B /\ (A + j) - 1 = A + (j - 1))
      BY <1>0
    <3>2. /\ w[A + j] = r[j] /\ (j # B => w[(A + j) + 1] = r[j + 1])
          /\ (j = 1 => w[(A + j) - 1] = s[A])
          /\ (j # 1 => w[(A + j) - 1] = r[j - 1])
      BY <1>4, <3>1
    <3>3. n2[r[j]] = n[r[j]] /\ p2[r[j]] = (IF j = 1 THEN s[A] ELSE p[r[j]])
      BY DEF A, B, Bridged
    <3> QED
      BY <1>1, <3>1, <3>2, <3>3
  <2> QED
    BY <1>5, <2>1, <2>2
<1>10. Chain(w, h, u, n2, p2)
  BY <1>1, <1>2, <1>6, <1>8, <1>9 DEF Chain, IsPath
<1> QED
  BY <1>7, <1>10 DEF w

-----------------------------------------------------------------------------
(* The state: each queue is a chain, and an element is in one at most.     *)

\* The links say that the elements of each queue are those in lists.
LinkedAs(lists) ==
  /\ lists \in [Queues -> Seq(Elements)]
  /\ head \in [Queues -> Elements \cup {NULL}]
  /\ tail \in [Queues -> Elements \cup {NULL}]
  /\ next \in [Elements -> Elements \cup {NULL}]
  /\ prev \in [Elements -> Elements \cup {NULL}]
  /\ \A q \in Queues : Chain(lists[q], head[q], tail[q], next, prev)
  /\ \A q, r \in Queues : \A e \in Elements :
       Contains(lists[q], e) /\ Contains(lists[r], e) => q = r
  /\ \A e \in Elements :
       (\A q \in Queues : ~Contains(lists[q], e)) => next[e] = NULL /\ prev[e] = NULL

\* The inductive invariant of the macros.
Linked == LinkedAs([q \in Queues |-> Q_FOREACH(q)])

\* What the elements of a queue are is determined by the links.
LEMMA LinkedLists ==
  ASSUME NEW CONSTANT lists, LinkedAs(lists)
  PROVE  lists = [q \in Queues |-> Q_FOREACH(q)]
<1>1. lists \in [Queues -> Seq(Elements)]
  BY DEF LinkedAs
<1>2. \A q \in Queues : lists[q] = Q_FOREACH(q)
  <2> TAKE q \in Queues
  <2>1. IsPath(lists[q], head[q], next)
    BY DEF LinkedAs, Chain
  <2> QED
    BY <2>1, WalkPath DEF Q_FOREACH
<1> QED
  BY <1>1, <1>2

\* A step that changes one queue, and the links of elements that are in no
\* other queue, keeps the others.
LEMMA OneChanges ==
  ASSUME NEW CONSTANT lists, LinkedAs(lists),
         NEW CONSTANT q \in Queues, NEW CONSTANT s,
         Chain(s, head'[q], tail'[q], next', prev'),
         head' \in [Queues -> Elements \cup {NULL}],
         tail' \in [Queues -> Elements \cup {NULL}],
         next' \in [Elements -> Elements \cup {NULL}],
         prev' \in [Elements -> Elements \cup {NULL}],
         \A r \in Queues \ {q} : head'[r] = head[r] /\ tail'[r] = tail[r],
         \A r \in Queues \ {q} : \A x \in Elements :
           Contains(lists[r], x) =>
             next'[x] = next[x] /\ prev'[x] = prev[x] /\ ~Contains(s, x),
         \A x \in Elements :
           /\ \A r \in Queues \ {q} : ~Contains(lists[r], x)
           /\ ~Contains(s, x)
           => next'[x] = NULL /\ prev'[x] = NULL
  PROVE  LinkedAs([lists EXCEPT ![q] = s])'
<1> DEFINE new == [lists EXCEPT ![q] = s]
<1>1. lists \in [Queues -> Seq(Elements)] /\ s \in Seq(Elements)
  BY ChainType DEF LinkedAs
<1>2. /\ new \in [Queues -> Seq(Elements)] /\ new[q] = s
      /\ \A r \in Queues \ {q} : new[r] = lists[r]
  BY <1>1
<1> HIDE DEF new
<1>3. ASSUME NEW r \in Queues
      PROVE  Chain(new[r], head'[r], tail'[r], next', prev')
  <2>1. CASE r = q
    BY <1>2, <2>1
  <2>2. CASE r # q
    <3>1. Chain(lists[r], head[r], tail[r], next, prev)
      BY DEF LinkedAs
    <3>2. Chain(lists[r], head[r], tail[r], next', prev')
      BY <2>2, <3>1, ChainKept
    <3> QED
      BY <1>2, <2>2, <3>2
  <2> QED
    BY <2>1, <2>2
<1>4. ASSUME NEW r \in Queues, NEW w \in Queues, NEW x \in Elements,
             Contains(new[r], x), Contains(new[w], x)
      PROVE  r = w
  BY <1>2, <1>4 DEF LinkedAs
<1>5. ASSUME NEW x \in Elements, \A r \in Queues : ~Contains(new[r], x)
      PROVE  next'[x] = NULL /\ prev'[x] = NULL
  <2>1. /\ \A r \in Queues \ {q} : ~Contains(lists[r], x)
        /\ ~Contains(s, x)
    BY <1>2, <1>5
  <2> QED
    BY <2>1
<1> QED
  BY <1>2, <1>3, <1>4, <1>5 DEF LinkedAs, new

\* The links of e, put at position i of the queue s, and of its neighbours.
Links(s, i, e) ==
  /\ next' \in [Elements -> Elements \cup {NULL}]
  /\ prev' \in [Elements -> Elements \cup {NULL}]
  /\ \A x \in Elements :
       /\ next'[x] = IF x = e THEN IF i = Len(s) + 1 THEN NULL ELSE s[i]
                     ELSE IF i # 1 /\ x = s[i - 1] THEN e ELSE next[x]
       /\ prev'[x] = IF x = e THEN IF i = 1 THEN NULL ELSE s[i - 1]
                     ELSE IF i # Len(s) + 1 /\ x = s[i] THEN e ELSE prev[x]

\* Each of the four macros that insert an element links it in this way.
LEMMA InsertKeeps ==
  ASSUME NEW CONSTANT lists, LinkedAs(lists),
         NEW CONSTANT q \in Queues, NEW CONSTANT e \in Elements,
         \A r \in Queues : ~Contains(lists[r], e),
         NEW CONSTANT i \in 1..(Len(lists[q]) + 1),
         head' = IF i = 1 THEN [head EXCEPT ![q] = e] ELSE head,
         tail' = IF i = Len(lists[q]) + 1 THEN [tail EXCEPT ![q] = e] ELSE tail,
         Links(lists[q], i, e)
  PROVE  LinkedAs([lists EXCEPT ![q] = InsertAt(lists[q], i, e)])'
<1> DEFINE s == lists[q]
           new == InsertAt(s, i, e)
<1>1. Chain(s, head[q], tail[q], next, prev)
  BY DEF LinkedAs
<1>2. /\ s \in Seq(Elements) /\ Len(s) \in Nat
      /\ \A j \in 1..Len(s) : s[j] \in Elements /\ s[j] # e
      /\ \A j, k \in 1..Len(s) : s[j] = s[k] => j = k
  <2>1. ~Contains(s, e)
    OBVIOUS
  <2> HIDE DEF s
  <2> QED
    BY <1>1, <2>1, ChainType DEF Contains
<1>3. /\ head \in [Queues -> Elements \cup {NULL}]
      /\ tail \in [Queues -> Elements \cup {NULL}]
  BY DEF LinkedAs
<1>4. /\ head' \in [Queues -> Elements \cup {NULL}]
      /\ tail' \in [Queues -> Elements \cup {NULL}]
      /\ head'[q] = IF i = 1 THEN e ELSE head[q]
      /\ tail'[q] = IF i = Len(s) + 1 THEN e ELSE tail[q]
      /\ \A r \in Queues \ {q} : head'[r] = head[r] /\ tail'[r] = tail[r]
  BY <1>3
<1> HIDE DEF s
<1>5. Links(s, i, e) /\ i \in 1..(Len(s) + 1) /\ ~Contains(s, e)
  BY DEF s
<1>6. /\ Chain(new, head'[q], tail'[q], next', prev')
      /\ \A y : Contains(new, y) <=> y = e \/ Contains(s, y)
  <2>1. /\ next'[e] = IF i = Len(s) + 1 THEN NULL ELSE s[i]
        /\ prev'[e] = IF i = 1 THEN NULL ELSE s[i - 1]
    BY <1>5 DEF Links
  <2>2. ASSUME NEW j \in 1..Len(s)
        PROVE  next'[s[j]] = IF j = i - 1 THEN e ELSE next[s[j]]
    <3>1. next'[s[j]] = IF i # 1 /\ s[j] = s[i - 1] THEN e ELSE next[s[j]]
      BY <1>2, <1>5 DEF Links
    <3>2. i # 1 => i - 1 \in 1..Len(s)
      BY <1>2, <1>5
    <3>3. j = i - 1 => i # 1
      BY <1>2, <1>5
    <3> QED
      BY <1>2, <3>1, <3>2, <3>3
  <2>3. ASSUME NEW j \in 1..Len(s)
        PROVE  prev'[s[j]] = IF j = i THEN e ELSE prev[s[j]]
    <3>1. prev'[s[j]] = IF i # Len(s) + 1 /\ s[j] = s[i] THEN e ELSE prev[s[j]]
      BY <1>2, <1>5 DEF Links
    <3>2. (i # Len(s) + 1 => i \in 1..Len(s)) /\ (j = i => i # Len(s) + 1)
      BY <1>2, <1>5
    <3> QED
      BY <1>2, <3>1, <3>2
  <2> QED
    BY <1>1, <1>4, <1>5, <2>1, <2>2, <2>3, Inserted
<1> HIDE DEF new
<1>7. ASSUME NEW r \in Queues \ {q}, NEW x \in Elements, Contains(lists[r], x)
      PROVE  next'[x] = next[x] /\ prev'[x] = prev[x] /\ ~Contains(new, x)
  <2>1. ~Contains(s, x) /\ x # e
    BY <1>7 DEF LinkedAs, s
  <2>2. \A j \in 1..Len(s) : s[j] # x
    BY <2>1 DEF Contains
  <2>3. (i # 1 => i - 1 \in 1..Len(s)) /\ (i # Len(s) + 1 => i \in 1..Len(s))
    BY <1>2, <1>5
  <2> QED
    BY <1>5, <1>6, <2>1, <2>2, <2>3 DEF Links
<1>8. ASSUME NEW x \in Elements, ~Contains(new, x),
             \A r \in Queues \ {q} : ~Contains(lists[r], x)
      PROVE  next'[x] = NULL /\ prev'[x] = NULL
  <2>1. ~Contains(s, x) /\ x # e
    BY <1>6, <1>8
  <2>2. next[x] = NULL /\ prev[x] = NULL
    BY <1>8, <2>1 DEF LinkedAs, s
  <2>3. \A j \in 1..Len(s) : s[j] # x
    BY <2>1 DEF Contains
  <2>4. (i # 1 => i - 1 \in 1..Len(s)) /\ (i # Len(s) + 1 => i \in 1..Len(s))
    BY <1>2, <1>5
  <2> QED
    BY <1>5, <2>1, <2>2, <2>3, <2>4 DEF Links
<1>9. /\ next' \in [Elements -> Elements \cup {NULL}]
      /\ prev' \in [Elements -> Elements \cup {NULL}]
  BY <1>5 DEF Links
<1>10. LinkedAs([lists EXCEPT ![q] = new])'
  BY <1>4, <1>6, <1>7, <1>8, <1>9, OneChanges
<1> QED
  BY <1>10 DEF new, s

\* Q_REMOVE takes its element out of its queue.
LEMMA RemoveKeeps ==
  ASSUME NEW CONSTANT lists, LinkedAs(lists),
         NEW CONSTANT q \in Queues, NEW CONSTANT e \in Elements, Q_REMOVE(q, e),
         NEW CONSTANT i \in 1..Len(lists[q]), lists[q][i] = e
  PROVE  LinkedAs([lists EXCEPT ![q] = RemoveAt(lists[q], i)])'
<1> DEFINE s == lists[q]
           new == RemoveAt(s, i)
<1>1. /\ Chain(s, head[q], tail[q], next, prev) /\ s[i] = e
      /\ head \in [Queues -> Elements \cup {NULL}]
      /\ tail \in [Queues -> Elements \cup {NULL}]
      /\ next \in [Elements -> Elements \cup {NULL}]
      /\ prev \in [Elements -> Elements \cup {NULL}]
  BY DEF LinkedAs
<1>2. i \in 1..Len(s)
  OBVIOUS
<1> HIDE DEF s
<1>3. /\ Len(s) \in Nat
      /\ \A j \in 1..Len(s) : s[j] \in Elements /\ s[j] # NULL
      /\ \A j, k \in 1..Len(s) : s[j] = s[k] => j = k
      /\ s # <<>>
  BY <1>1, <1>2, ChainType
<1>4. /\ head[q] = s[1] /\ tail[q] = s[Len(s)]
      /\ next[e] = (IF i = Len(s) THEN NULL ELSE s[i + 1])
      /\ prev[e] = (IF i = 1 THEN NULL ELSE s[i - 1])
  BY <1>1, <1>2, <1>3, ChainLinks
<1>5. /\ 1 \in 1..Len(s) /\ Len(s) \in 1..Len(s)
      /\ (i # 1 => i - 1 \in 1..Len(s)) /\ (i # Len(s) => i + 1 \in 1..Len(s))
  BY <1>2, <1>3
<1>6. (head[q] = e <=> i = 1) /\ (tail[q] = e <=> i = Len(s))
  BY <1>1, <1>2, <1>3, <1>4, <1>5
<1>7. /\ head' = IF head[q] = e THEN [head EXCEPT ![q] = next[e]] ELSE head
      /\ tail' = IF tail[q] = e THEN [tail EXCEPT ![q] = prev[e]] ELSE tail
      /\ next' = [x \in Elements |->
           IF x = e THEN NULL ELSE IF x = prev[e] THEN next[e] ELSE next[x]]
      /\ prev' = [x \in Elements |->
           IF x = e THEN NULL ELSE IF x = next[e] THEN prev[e] ELSE prev[x]]
  BY DEF Q_REMOVE
<1>8. /\ head' \in [Queues -> Elements \cup {NULL}]
      /\ tail' \in [Queues -> Elements \cup {NULL}]
      /\ next' \in [Elements -> Elements \cup {NULL}]
      /\ prev' \in [Elements -> Elements \cup {NULL}]
      /\ head'[q] = IF i = 1 THEN next[s[i]] ELSE head[q]
      /\ tail'[q] = IF i = Len(s) THEN prev[s[i]] ELSE tail[q]
      /\ \A r \in Queues \ {q} : head'[r] = head[r] /\ tail'[r] = tail[r]
  <2>1. next[e] \in Elements \cup {NULL} /\ prev[e] \in Elements \cup {NULL}
    BY <1>1
  <2> QED
    BY <1>1, <1>6, <1>7, <2>1
<1>9. /\ Chain(new, head'[q], tail'[q], next', prev')
      /\ \A y : Contains(new, y) <=> Contains(s, y) /\ y # e
  <2>1. ASSUME NEW j \in 1..Len(s), j # i
        PROVE  next'[s[j]] = IF j = i - 1 THEN next[s[i]] ELSE next[s[j]]
    <3>1. s[j] = prev[e] <=> j = i - 1
      <4>1. j = i - 1 => i # 1
        BY <1>2, <1>3, <2>1
      <4> QED
        BY <1>3, <1>4, <1>5, <4>1
    <3>2. s[j] \in Elements /\ s[j] # e
      BY <1>1, <1>2, <1>3, <2>1
    <3> QED
      BY <1>1, <1>7, <3>1, <3>2
  <2>2. ASSUME NEW j \in 1..Len(s), j # i
        PROVE  prev'[s[j]] = IF j = i + 1 THEN prev[s[i]] ELSE prev[s[j]]
    <3>1. s[j] = next[e] <=> j = i + 1
      <4>1. j = i + 1 => i # Len(s)
        BY <1>2, <1>3, <2>2
      <4> QED
        BY <1>3, <1>4, <1>5, <4>1
    <3>2. s[j] \in Elements /\ s[j] # e
      BY <1>1, <1>2, <1>3, <2>2
    <3> QED
      BY <1>1, <1>7, <3>1, <3>2
  <2>3. /\ Chain(new, IF i = 1 THEN next[s[i]] ELSE head[q],
                 IF i = Len(s) THEN prev[s[i]] ELSE tail[q], next', prev')
        /\ \A y : Contains(new, y) <=> Contains(s, y) /\ y # s[i]
    <3>1. Unlinked(s, i, next, prev, next', prev')
      BY <2>1, <2>2 DEF Unlinked
    <3>2. Chain(s, head[q], tail[q], next, prev)
      BY <1>1
    <3> QED
      BY <1>2, <3>1, <3>2, Removed
  <2> QED
    BY <1>1, <1>8, <2>3
<1> HIDE DEF new
<1>10. ASSUME NEW r \in Queues \ {q}, NEW x \in Elements, Contains(lists[r], x)
       PROVE  next'[x] = next[x] /\ prev'[x] = prev[x] /\ ~Contains(new, x)
  <2>1. ~Contains(s, x)
    BY <1>10 DEF LinkedAs, s
  <2>2. \A j \in 1..Len(s) : s[j] # x
    BY <2>1 DEF Contains
  <2>3. x # e /\ x # next[e] /\ x # prev[e]
    BY <1>1, <1>2, <1>4, <1>5, <2>2, VariableQueueAssumption
  <2> QED
    BY <1>7, <1>9, <2>1, <2>3
<1>11. ASSUME NEW x \in Elements, ~Contains(new, x),
              \A r \in Queues \ {q} : ~Contains(lists[r], x)
       PROVE  next'[x] = NULL /\ prev'[x] = NULL
  <2>1. CASE x = e
    BY <1>7, <2>1
  <2>2. CASE x # e
    <3>1. ~Contains(s, x)
      BY <1>9, <1>11, <2>2
    <3>2. next[x] = NULL /\ prev[x] = NULL
      BY <1>11, <3>1 DEF LinkedAs, s
    <3>3. \A j \in 1..Len(s) : s[j] # x
      BY <3>1 DEF Contains
    <3>4. x # next[e] /\ x # prev[e]
      BY <1>4, <1>5, <3>3, VariableQueueAssumption
    <3> QED
      BY <1>7, <2>2, <3>2, <3>4
  <2> QED
    BY <2>1, <2>2
<1>12. LinkedAs([lists EXCEPT ![q] = new])'
  BY <1>8, <1>9, <1>10, <1>11, OneChanges
<1> QED
  BY <1>12 DEF new, s

\* Q_CONCAT puts the elements of r behind those of q.
LEMMA ConcatKeeps ==
  ASSUME NEW CONSTANT lists, LinkedAs(lists),
         NEW CONSTANT q \in Queues, NEW CONSTANT r \in Queues, Q_CONCAT(q, r)
  PROVE  LinkedAs([lists EXCEPT ![q] = lists[q] \o lists[r], ![r] = <<>>])'
<1> DEFINE s == lists[q]
           w == lists[r]
           sw == s \o w
           new == [lists EXCEPT ![q] = sw, ![r] = <<>>]
<1>1. /\ q # r
      /\ Chain(s, head[q], tail[q], next, prev)
      /\ Chain(w, head[r], tail[r], next, prev)
      /\ lists \in [Queues -> Seq(Elements)]
      /\ head \in [Queues -> Elements \cup {NULL}]
      /\ tail \in [Queues -> Elements \cup {NULL}]
      /\ next \in [Elements -> Elements \cup {NULL}]
      /\ prev \in [Elements -> Elements \cup {NULL}]
  BY DEF LinkedAs, Q_CONCAT
<1>2. \A k \in Queues \ {q} : \A y \in Elements :
        ~(Contains(lists[k], y) /\ Contains(s, y))
  BY DEF LinkedAs
<1>3. \A k \in Queues \ {r} : \A y \in Elements :
        ~(Contains(lists[k], y) /\ Contains(w, y))
  BY DEF LinkedAs
<1> HIDE DEF s, w
<1>4. /\ s \in Seq(Elements) /\ Len(s) \in Nat
      /\ w \in Seq(Elements) /\ Len(w) \in Nat
      /\ \A j \in 1..Len(s) : s[j] \in Elements /\ s[j] # NULL
      /\ \A j \in 1..Len(w) : w[j] \in Elements /\ w[j] # NULL
      /\ \A j, k \in 1..Len(s) : s[j] = s[k] => j = k
      /\ \A j, k \in 1..Len(w) : w[j] = w[k] => j = k
      /\ (head[q] = NULL <=> s = <<>>) /\ (tail[q] = NULL <=> s = <<>>)
      /\ (head[r] = NULL <=> w = <<>>) /\ (tail[r] = NULL <=> w = <<>>)
      /\ (s = <<>> <=> Len(s) = 0) /\ (w = <<>> <=> Len(w) = 0)
  <2>1. /\ s \in Seq(Elements) /\ Len(s) \in Nat
        /\ \A j \in 1..Len(s) : s[j] \in Elements /\ s[j] # NULL
        /\ \A j, k \in 1..Len(s) : s[j] = s[k] => j = k
        /\ (head[q] = NULL <=> s = <<>>) /\ (tail[q] = NULL <=> s = <<>>)
        /\ (s = <<>> <=> Len(s) = 0)
    BY <1>1, ChainType
  <2>2. /\ w \in Seq(Elements) /\ Len(w) \in Nat
        /\ \A j \in 1..Len(w) : w[j] \in Elements /\ w[j] # NULL
        /\ \A j, k \in 1..Len(w) : w[j] = w[k] => j = k
        /\ (head[r] = NULL <=> w = <<>>) /\ (tail[r] = NULL <=> w = <<>>)
        /\ (w = <<>> <=> Len(w) = 0)
    BY <1>1, ChainType
  <2> QED
    BY <2>1, <2>2
<1>5. \A y : ~(Contains(s, y) /\ Contains(w, y))
  <2>1. ASSUME NEW y, Contains(w, y) PROVE y \in Elements /\ ~Contains(s, y)
    <3>1. y \in Elements
      BY <1>4, <2>1 DEF Contains
    <3> QED
      BY <1>1, <1>2, <2>1, <3>1 DEF w
  <2> QED
    BY <2>1
<1>6. /\ head' = [head EXCEPT ![q] = IF s = <<>> THEN head[r] ELSE @, ![r] = NULL]
      /\ tail' = [tail EXCEPT ![q] = IF s = <<>> \/ w # <<>> THEN tail[r] ELSE @,
                              ![r] = NULL]
      /\ next' = IF s # <<>> /\ w # <<>> THEN [next EXCEPT ![tail[q]] = head[r]] ELSE next
      /\ prev' = IF s # <<>> /\ w # <<>> THEN [prev EXCEPT ![head[r]] = tail[q]] ELSE prev
  BY <1>4 DEF Q_CONCAT
<1>7. /\ head' \in [Queues -> Elements \cup {NULL}]
      /\ tail' \in [Queues -> Elements \cup {NULL}]
      /\ next' \in [Elements -> Elements \cup {NULL}]
      /\ prev' \in [Elements -> Elements \cup {NULL}]
      /\ head'[q] = IF s = <<>> THEN head[r] ELSE head[q]
      /\ tail'[q] = IF s = <<>> \/ w # <<>> THEN tail[r] ELSE tail[q]
      /\ head'[r] = NULL /\ tail'[r] = NULL
      /\ \A k \in Queues \ {q, r} : head'[k] = head[k] /\ tail'[k] = tail[k]
  BY <1>1, <1>6
<1>8. /\ Chain(sw, head'[q], tail'[q], next', prev')
      /\ \A y : Contains(sw, y) <=> Contains(s, y) \/ Contains(w, y)
      /\ \A x \in Elements : ~Contains(s, x) /\ ~Contains(w, x) =>
           next'[x] = next[x] /\ prev'[x] = prev[x]
  <2>1. CASE s = <<>>
    <3>1. sw = w /\ \A y : ~Contains(s, y)
      BY <1>4, <2>1 DEF Contains
    <3> HIDE DEF sw
    <3> QED
      BY <1>1, <1>6, <1>7, <2>1, <3>1
  <2>2. CASE s # <<>> /\ w = <<>>
    <3>1. sw = s /\ \A y : ~Contains(w, y)
      BY <1>4, <2>2 DEF Contains
    <3> HIDE DEF sw
    <3> QED
      BY <1>1, <1>6, <1>7, <2>2, <3>1
  <2>3. CASE s # <<>> /\ w # <<>>
    <3>1. 1 \in 1..Len(w) /\ Len(s) \in 1..Len(s)
      BY <1>4, <2>3
    <3>2. tail[q] = s[Len(s)] /\ head[r] = w[1]
      BY <1>1, <2>3, ChainLinks
    <3>3. \A j \in 1..Len(s), k \in 1..Len(w) : s[j] # w[k]
      BY <1>5 DEF Contains
    <3>4. \A x \in Elements :
            /\ next'[x] = IF x = s[Len(s)] THEN w[1] ELSE next[x]
            /\ prev'[x] = IF x = w[1] THEN s[Len(s)] ELSE prev[x]
      BY <1>1, <1>4, <1>6, <2>3, <3>1, <3>2
    <3>5. \A j \in 1..Len(s) :
            /\ next'[s[j]] = IF j = Len(s) THEN w[1] ELSE next[s[j]]
            /\ prev'[s[j]] = prev[s[j]]
      BY <1>4, <3>1, <3>3, <3>4
    <3>6. \A j \in 1..Len(w) :
            /\ next'[w[j]] = next[w[j]]
            /\ prev'[w[j]] = IF j = 1 THEN s[Len(s)] ELSE prev[w[j]]
      BY <1>4, <3>1, <3>3, <3>4
    <3>7. /\ Chain(sw, head[q], tail[r], next', prev')
          /\ \A y : Contains(sw, y) <=> Contains(s, y) \/ Contains(w, y)
      <4>1. Bridged(s, w, next, prev, next', prev')
        BY <1>5, <3>5, <3>6 DEF Bridged
      <4> QED
        BY <1>1, <2>3, <4>1, Joined
    <3>8. \A x \in Elements : ~Contains(s, x) /\ ~Contains(w, x) =>
            next'[x] = next[x] /\ prev'[x] = prev[x]
      BY <3>1, <3>4 DEF Contains
    <3> HIDE DEF sw
    <3> QED
      BY <1>7, <2>3, <3>7, <3>8
  <2> QED
    BY <2>1, <2>2, <2>3
<1>9. sw \in Seq(Elements)
  BY <1>4
<1> HIDE DEF sw
<1>10. /\ new \in [Queues -> Seq(Elements)] /\ new[q] = sw /\ new[r] = <<>>
       /\ \A k \in Queues \ {q, r} : new[k] = lists[k]
  <2>1. <<>> \in Seq(Elements)
    BY EmptySeq
  <2> QED
    BY <1>1, <1>9, <2>1
<1> HIDE DEF new
<1>11. \A y : ~Contains(<<>>, y)
  BY DEF Contains
<1>12. ASSUME NEW k \in Queues
       PROVE  Chain(new[k], head'[k], tail'[k], next', prev')
  <2>1. CASE k = q
    BY <1>8, <1>10, <2>1
  <2>2. CASE k = r
    BY <1>7, <1>10, <2>2, EmptySeq DEF Chain, IsPath, IsInjective
  <2>3. CASE k \notin {q, r}
    <3>1. Chain(lists[k], head[k], tail[k], next, prev)
      BY DEF LinkedAs
    <3>2. Chain(lists[k], head[k], tail[k], next', prev')
      BY <1>2, <1>3, <1>8, <2>3, <3>1, ChainKept
    <3> QED
      BY <1>7, <1>10, <2>3, <3>2
  <2> QED
    BY <2>1, <2>2, <2>3
<1>13. ASSUME NEW k \in Queues, NEW l \in Queues, NEW x \in Elements,
              Contains(new[k], x), Contains(new[l], x)
       PROVE  k = l
  <2>1. k # r /\ l # r
    BY <1>10, <1>11, <1>13
  <2>2. CASE k = q \/ l = q
    BY <1>2, <1>3, <1>8, <1>10, <1>13, <2>1, <2>2
  <2>3. CASE k # q /\ l # q
    BY <1>10, <1>13, <2>1, <2>3 DEF LinkedAs
  <2> QED
    BY <2>2, <2>3
<1>14. ASSUME NEW x \in Elements, \A k \in Queues : ~Contains(new[k], x)
       PROVE  next'[x] = NULL /\ prev'[x] = NULL
  <2>1. ~Contains(s, x) /\ ~Contains(w, x)
    BY <1>8, <1>10, <1>14
  <2>2. \A k \in Queues : ~Contains(lists[k], x)
    BY <1>10, <1>14, <2>1 DEF s, w
  <2>3. next[x] = NULL /\ prev[x] = NULL
    BY <2>2 DEF LinkedAs
  <2> QED
    BY <1>8, <2>1, <2>3
<1>15. LinkedAs(new)'
  BY <1>7, <1>10, <1>12, <1>13, <1>14 DEF LinkedAs
<1> QED
  BY <1>15 DEF new, sw, s, w

-----------------------------------------------------------------------------
(* The actions.                                                            *)

\* The guards speak of the elements that the links say are there.
LEMMA Guards ==
  ASSUME NEW CONSTANT lists, LinkedAs(lists), NEW CONSTANT e \in Elements
  PROVE  /\ \A q \in Queues : In(q, e) <=> \E i \in 1..Len(lists[q]) : lists[q][i] = e
         /\ Detached(e) <=> \A q \in Queues : ~Contains(lists[q], e)
<1>1. \A q \in Queues : Q_FOREACH(q) = lists[q]
  BY LinkedLists
<1> QED
  BY <1>1 DEF In, Detached, Contains

\* What the actions below start from, for one queue s.
LEMMA QueueFacts ==
  ASSUME NEW CONSTANT lists, LinkedAs(lists), NEW CONSTANT q \in Queues
  PROVE  /\ Chain(lists[q], head[q], tail[q], next, prev)
         /\ lists[q] \in Seq(Elements) /\ Len(lists[q]) \in Nat
         /\ \A i \in 1..Len(lists[q]) : lists[q][i] \in Elements /\ lists[q][i] # NULL
         /\ \A i, j \in 1..Len(lists[q]) : lists[q][i] = lists[q][j] => i = j
         /\ lists[q] = <<>> <=> Len(lists[q]) = 0
         /\ head[q] = NULL <=> lists[q] = <<>>
         /\ tail[q] = NULL <=> lists[q] = <<>>
         /\ lists[q] # <<>> => head[q] = lists[q][1] /\ tail[q] = lists[q][Len(lists[q])]
         /\ \A i \in 1..Len(lists[q]) :
              /\ next[lists[q][i]] = IF i = Len(lists[q]) THEN NULL ELSE lists[q][i + 1]
              /\ prev[lists[q][i]] = IF i = 1 THEN NULL ELSE lists[q][i - 1]
         /\ head \in [Queues -> Elements \cup {NULL}]
         /\ tail \in [Queues -> Elements \cup {NULL}]
         /\ next \in [Elements -> Elements \cup {NULL}]
         /\ prev \in [Elements -> Elements \cup {NULL}]
<1>1. /\ Chain(lists[q], head[q], tail[q], next, prev)
      /\ head \in [Queues -> Elements \cup {NULL}]
      /\ tail \in [Queues -> Elements \cup {NULL}]
      /\ next \in [Elements -> Elements \cup {NULL}]
      /\ prev \in [Elements -> Elements \cup {NULL}]
  BY DEF LinkedAs
<1> DEFINE s == lists[q]
<1> HIDE DEF s
<1>2. Chain(s, head[q], tail[q], next, prev)
  BY <1>1 DEF s
<1>3. /\ s \in Seq(Elements) /\ Len(s) \in Nat
      /\ \A i \in 1..Len(s) : s[i] \in Elements /\ s[i] # NULL
      /\ \A i, j \in 1..Len(s) : s[i] = s[j] => i = j
      /\ s = <<>> <=> Len(s) = 0
      /\ head[q] = NULL <=> s = <<>>
      /\ tail[q] = NULL <=> s = <<>>
  BY <1>2, ChainType
<1>4. s # <<>> => head[q] = s[1] /\ tail[q] = s[Len(s)]
  BY <1>2, ChainLinks
<1>5. \A i \in 1..Len(s) : /\ next[s[i]] = IF i = Len(s) THEN NULL ELSE s[i + 1]
                           /\ prev[s[i]] = IF i = 1 THEN NULL ELSE s[i - 1]
  BY <1>2, <1>3, ChainLinks
<1> QED
  BY <1>1, <1>3, <1>4, <1>5 DEF s

\* Q_INSERT_FRONT puts a detached element first.
LEMMA FrontKeeps ==
  ASSUME NEW CONSTANT lists, LinkedAs(lists),
         NEW CONSTANT q \in Queues, NEW CONSTANT e \in Elements, Q_INSERT_FRONT(q, e)
  PROVE  /\ \A r \in Queues : ~Contains(lists[r], e)
         /\ LinkedAs([lists EXCEPT ![q] = <<e>> \o lists[q]])'
<1> DEFINE s == lists[q]
<1>1. \A r \in Queues : ~Contains(lists[r], e)
  BY Guards DEF Q_INSERT_FRONT
<1>2. next[e] = NULL /\ prev[e] = NULL
  BY <1>1 DEF LinkedAs
<1>3. /\ s \in Seq(Elements) /\ Len(s) \in Nat
      /\ \A i \in 1..Len(s) : s[i] \in Elements /\ s[i] # NULL
      /\ s = <<>> <=> Len(s) = 0
      /\ head[q] = NULL <=> s = <<>>
      /\ tail[q] = NULL <=> s = <<>>
      /\ s # <<>> => head[q] = s[1]
      /\ head[q] \in Elements \cup {NULL}
      /\ next \in [Elements -> Elements \cup {NULL}]
      /\ prev \in [Elements -> Elements \cup {NULL}]
  BY QueueFacts
<1>4. /\ \A i \in 1..Len(s) : s[i] # e
      /\ 1 \in 1..(Len(s) + 1) /\ (1 = Len(s) + 1 <=> s = <<>>)
      /\ s # <<>> => 1 \in 1..Len(s)
  BY <1>1, <1>3 DEF Contains
<1> HIDE DEF s
<1>5. /\ next' = [next EXCEPT ![e] = head[q]]
      /\ prev' = IF s # <<>> THEN [prev EXCEPT ![s[1]] = e] ELSE prev
      /\ head' = [head EXCEPT ![q] = e]
      /\ tail' = IF s = <<>> THEN [tail EXCEPT ![q] = e] ELSE tail
  BY <1>3 DEF Q_INSERT_FRONT
<1>6. Links(s, 1, e)
  BY <1>2, <1>3, <1>4, <1>5 DEF Links
<1>7. LinkedAs([lists EXCEPT ![q] = InsertAt(lists[q], 1, e)])'
  BY <1>1, <1>4, <1>5, <1>6, InsertKeeps DEF s
<1>8. InsertAt(lists[q], 1, e) = <<e>> \o lists[q]
  BY <1>3, InsertAtEnds DEF s
<1> QED
  BY <1>1, <1>7, <1>8

\* Q_INSERT_TAIL puts a detached element last.
LEMMA TailKeeps ==
  ASSUME NEW CONSTANT lists, LinkedAs(lists),
         NEW CONSTANT q \in Queues, NEW CONSTANT e \in Elements, Q_INSERT_TAIL(q, e)
  PROVE  /\ \A r \in Queues : ~Contains(lists[r], e)
         /\ LinkedAs([lists EXCEPT ![q] = Append(lists[q], e)])'
<1> DEFINE s == lists[q]
           i == Len(s) + 1
<1>1. \A r \in Queues : ~Contains(lists[r], e)
  BY Guards DEF Q_INSERT_TAIL
<1>2. next[e] = NULL /\ prev[e] = NULL
  BY <1>1 DEF LinkedAs
<1>3. /\ s \in Seq(Elements) /\ Len(s) \in Nat
      /\ \A j \in 1..Len(s) : s[j] \in Elements /\ s[j] # NULL
      /\ s = <<>> <=> Len(s) = 0
      /\ head[q] = NULL <=> s = <<>>
      /\ tail[q] = NULL <=> s = <<>>
      /\ s # <<>> => tail[q] = s[Len(s)]
      /\ tail[q] \in Elements \cup {NULL}
      /\ next \in [Elements -> Elements \cup {NULL}]
      /\ prev \in [Elements -> Elements \cup {NULL}]
  BY QueueFacts
<1>4. /\ \A j \in 1..Len(s) : s[j] # e
      /\ i \in 1..(Len(s) + 1) /\ (i = 1 <=> s = <<>>) /\ i - 1 = Len(s)
      /\ s # <<>> => Len(s) \in 1..Len(s)
  BY <1>1, <1>3 DEF Contains
<1> HIDE DEF s
<1>5. /\ prev' = [prev EXCEPT ![e] = tail[q]]
      /\ next' = IF s # <<>> THEN [next EXCEPT ![s[Len(s)]] = e] ELSE next
      /\ tail' = [tail EXCEPT ![q] = e]
      /\ head' = IF s = <<>> THEN [head EXCEPT ![q] = e] ELSE head
  BY <1>3 DEF Q_INSERT_TAIL
<1>6. Links(s, i, e)
  BY <1>2, <1>3, <1>4, <1>5 DEF Links
<1>7. LinkedAs([lists EXCEPT ![q] = InsertAt(lists[q], Len(lists[q]) + 1, e)])'
  BY <1>1, <1>4, <1>5, <1>6, InsertKeeps DEF s
<1>8. InsertAt(lists[q], Len(lists[q]) + 1, e) = Append(lists[q], e)
  BY <1>3, InsertAtEnds DEF s
<1> QED
  BY <1>1, <1>7, <1>8

\* Q_INSERT_AFTER, on a tail, puts a detached element behind it.
LEMMA AfterKeeps ==
  ASSUME AfterLastOnly, NEW CONSTANT lists, LinkedAs(lists),
         NEW CONSTANT q \in Queues, NEW CONSTANT x \in Elements,
         NEW CONSTANT e \in Elements, Q_INSERT_AFTER(q, x, e)
  PROVE  /\ \A r \in Queues : ~Contains(lists[r], e)
         /\ \E k \in 1..Len(lists[q]) :
              /\ lists[q][k] = x
              /\ LinkedAs([lists EXCEPT ![q] = InsertAt(lists[q], k + 1, e)])'
<1> DEFINE s == lists[q]
           k == Len(s)
<1>1. /\ \A r \in Queues : ~Contains(lists[r], e)
      /\ \E j \in 1..Len(s) : s[j] = x
  BY Guards DEF Q_INSERT_AFTER
<1>2. next[e] = NULL /\ prev[e] = NULL
  BY <1>1 DEF LinkedAs
<1>3. /\ s \in Seq(Elements) /\ Len(s) \in Nat
      /\ \A j \in 1..Len(s) : s[j] \in Elements /\ s[j] # NULL
      /\ s = <<>> <=> Len(s) = 0
      /\ s # <<>> => tail[q] = s[Len(s)]
      /\ next \in [Elements -> Elements \cup {NULL}]
      /\ prev \in [Elements -> Elements \cup {NULL}]
  BY QueueFacts
<1>4. s # <<>> /\ k # 0
  BY <1>1, <1>3
<1>5. /\ \A j \in 1..Len(s) : s[j] # e
      /\ k \in 1..Len(s) /\ k + 1 \in 1..(Len(s) + 1) /\ k + 1 # 1 /\ (k + 1) - 1 = k
  BY <1>1, <1>3, <1>4 DEF Contains
<1> HIDE DEF s
<1>6. /\ tail[q] = x /\ x = s[k] /\ head' = head
      /\ tail' = [tail EXCEPT ![q] = e]
      /\ next' = [next EXCEPT ![x] = e]
      /\ prev' = [prev EXCEPT ![e] = x]
  BY <1>3, <1>4 DEF Q_INSERT_AFTER
<1> HIDE DEF k
<1>7. k = Len(s)
  BY DEF k
<1>8. Links(s, k + 1, e)
  BY <1>2, <1>3, <1>5, <1>6, <1>7 DEF Links
<1>9. LinkedAs([lists EXCEPT ![q] = InsertAt(lists[q], k + 1, e)])'
  BY <1>1, <1>5, <1>6, <1>7, <1>8, InsertKeeps DEF s
<1> QED
  BY <1>1, <1>5, <1>6, <1>9 DEF s

\* Q_INSERT_BEFORE puts a detached element before one that is queued.
LEMMA BeforeKeeps ==
  ASSUME NEW CONSTANT lists, LinkedAs(lists),
         NEW CONSTANT q \in Queues, NEW CONSTANT x \in Elements,
         NEW CONSTANT e \in Elements, Q_INSERT_BEFORE(q, x, e)
  PROVE  /\ \A r \in Queues : ~Contains(lists[r], e)
         /\ \E k \in 1..Len(lists[q]) :
              /\ lists[q][k] = x
              /\ LinkedAs([lists EXCEPT ![q] = InsertAt(lists[q], k, e)])'
<1> DEFINE s == lists[q]
<1>1. /\ \A r \in Queues : ~Contains(lists[r], e)
      /\ \E j \in 1..Len(s) : s[j] = x
  BY Guards DEF Q_INSERT_BEFORE
<1>2. next[e] = NULL /\ prev[e] = NULL
  BY <1>1 DEF LinkedAs
<1>3. /\ s \in Seq(Elements) /\ Len(s) \in Nat
      /\ \A j \in 1..Len(s) : s[j] \in Elements /\ s[j] # NULL
      /\ \A i, j \in 1..Len(s) : s[i] = s[j] => i = j
      /\ s = <<>> <=> Len(s) = 0
      /\ s # <<>> => head[q] = s[1]
      /\ \A i \in 1..Len(s) : prev[s[i]] = IF i = 1 THEN NULL ELSE s[i - 1]
      /\ next \in [Elements -> Elements \cup {NULL}]
      /\ prev \in [Elements -> Elements \cup {NULL}]
  BY QueueFacts
<1>4. PICK k \in 1..Len(s) : s[k] = x
  BY <1>1
<1>5. /\ \A j \in 1..Len(s) : s[j] # e
      /\ s # <<>> /\ 1 \in 1..Len(s)
      /\ k \in 1..(Len(s) + 1) /\ k # Len(s) + 1
      /\ k # 1 => k - 1 \in 1..Len(s) /\ k - 1 # k
  BY <1>1, <1>3, <1>4 DEF Contains
<1>6. (head[q] = x <=> k = 1) /\ prev[x] = (IF k = 1 THEN NULL ELSE s[k - 1])
  BY <1>3, <1>4, <1>5
<1> HIDE DEF s
<1>7. /\ head' = IF k = 1 THEN [head EXCEPT ![q] = e] ELSE head
      /\ next' = IF k = 1 THEN [next EXCEPT ![e] = x]
                          ELSE [next EXCEPT ![s[k - 1]] = e, ![e] = x]
      /\ prev' = IF k = 1 THEN [prev EXCEPT ![x] = e]
                          ELSE [prev EXCEPT ![e] = s[k - 1], ![x] = e]
      /\ tail' = tail
  BY <1>6 DEF Q_INSERT_BEFORE
<1>8. Links(s, k, e)
  <2>1. CASE k = 1
    BY <1>2, <1>3, <1>4, <1>5, <1>7, <2>1 DEF Links
  <2>2. CASE k # 1
    BY <1>2, <1>3, <1>4, <1>5, <1>7, <2>2 DEF Links
  <2> QED
    BY <2>1, <2>2
<1>9. LinkedAs([lists EXCEPT ![q] = InsertAt(lists[q], k, e)])'
  BY <1>1, <1>5, <1>7, <1>8, InsertKeeps DEF s
<1> QED
  BY <1>1, <1>4, <1>9 DEF s

\* Without a step, the links still say what they said.
LEMMA StutterKeeps ==
  ASSUME Linked, UNCHANGED vars
  PROVE  /\ Linked'
         /\ \A q \in Queues : Q_FOREACH(q)' = Q_FOREACH(q)
<1>1. /\ head' = head /\ tail' = tail /\ next' = next /\ prev' = prev
  BY DEF vars
<1>2. \A q \in Queues : Q_FOREACH(q)' = Q_FOREACH(q)
  BY <1>1 DEF Q_FOREACH
<1> QED
  BY <1>1, <1>2 DEF Linked, LinkedAs

\* The same as LinkedLists, after a step.
LEMMA LinkedNext ==
  ASSUME NEW CONSTANT lists, LinkedAs(lists)'
  PROVE  Linked' /\ lists = [q \in Queues |-> Q_FOREACH(q)]'
<1>1. lists \in [Queues -> Seq(Elements)]
  BY DEF LinkedAs
<1>2. \A q \in Queues : lists[q] = Q_FOREACH(q)'
  <2> TAKE q \in Queues
  <2>1. IsPath(lists[q], head'[q], next')
    BY DEF LinkedAs, Chain
  <2> QED
    BY <2>1, WalkPath DEF Q_FOREACH
<1>3. lists = [q \in Queues |-> Q_FOREACH(q)]'
  BY <1>1, <1>2
<1> QED
  BY <1>3 DEF Linked

\* At first every queue is empty and every element detached.
LEMMA LinkedInit ==
  ASSUME Init
  PROVE  Linked /\ \A q \in Queues : Q_FOREACH(q) = <<>>
<1> DEFINE empty == [q \in Queues |-> <<>>]
<1>1. <<>> \in Seq(Elements) /\ \A y : ~Contains(<<>>, y)
  BY EmptySeq DEF Contains
<1>2. Chain(<<>>, NULL, NULL, next, prev)
  BY <1>1, EmptySeq DEF Chain, IsPath, IsInjective
<1>3. LinkedAs(empty)
  BY <1>1, <1>2 DEF Init, LinkedAs
<1> QED
  BY <1>3, LinkedLists DEF Linked

\* Each macro keeps the links in order, and does to the elements of the queues
\* what ListSpec says.
LEMMA StepKeeps ==
  ASSUME AfterLastOnly, Linked, Next
  PROVE  Linked' /\ Lists!Next
<1>1. PICK lists : lists = [q \in Queues |-> Q_FOREACH(q)]
  OBVIOUS
<1>2. LinkedAs(lists)
  BY <1>1 DEF Linked, LinkedAs
<1>3. lists \in [Queues -> Seq(Elements)]
  BY <1>2 DEF LinkedAs
<1>4. ASSUME NEW CONSTANT new, LinkedAs(new)'
      PROVE  Linked' /\ new = [q \in Queues |-> Q_FOREACH(q)]'
  BY <1>4, LinkedNext
<1>5. PICK q \in Queues :
        \/ \E r \in Queues : Q_CONCAT(q, r)
        \/ \E e \in Elements :
             \/ Q_INSERT_FRONT(q, e)
             \/ Q_INSERT_TAIL(q, e)
             \/ Q_REMOVE(q, e)
             \/ \E x \in Elements :
                  Q_INSERT_AFTER(q, x, e) \/ Q_INSERT_BEFORE(q, x, e)
  BY DEF Next
<1>6. DOMAIN lists[q] = 1..Len(lists[q])
  BY <1>3, LenProperties
<1>0. /\ \A s, y : Lists!Contains(s, y) <=> Contains(s, y)
      /\ \A s, i, y : Lists!InsertAt(s, i, y) = InsertAt(s, i, y)
      /\ \A s, i : Lists!RemoveAt(s, i) = RemoveAt(s, i)
  BY DEF Lists!Contains, Contains, Lists!InsertAt, InsertAt,
     Lists!RemoveAt, RemoveAt
<1>7. ASSUME NEW r \in Queues, Q_CONCAT(q, r)
      PROVE  Linked' /\ Lists!Concat(q, r)
  <2>1. LinkedAs([lists EXCEPT ![q] = lists[q] \o lists[r], ![r] = <<>>])'
    BY <1>2, <1>7, ConcatKeeps
  <2>2. q # r
    BY <1>7 DEF Q_CONCAT
  <2> QED
    BY <1>1, <1>4, <2>1, <2>2 DEF Lists!Concat
<1>8. ASSUME NEW e \in Elements, Q_INSERT_FRONT(q, e)
      PROVE  Linked' /\ Lists!InsertFront(q, e)
  <2>1. /\ \A r \in Queues : ~Contains(lists[r], e)
        /\ LinkedAs([lists EXCEPT ![q] = <<e>> \o lists[q]])'
    BY <1>2, <1>8, FrontKeeps
  <2>3. /\ Linked'
        /\ [lists EXCEPT ![q] = <<e>> \o lists[q]] =
             [r \in Queues |-> Q_FOREACH(r)]'
    BY <1>4, <2>1
  <2> QED
    BY <1>1, <2>1, <2>3, <1>0
    DEF Lists!InsertFront, Lists!Detached, Lists!In
<1>9. ASSUME NEW e \in Elements, Q_INSERT_TAIL(q, e)
      PROVE  Linked' /\ Lists!InsertTail(q, e)
  <2>1. /\ \A r \in Queues : ~Contains(lists[r], e)
        /\ LinkedAs([lists EXCEPT ![q] = Append(lists[q], e)])'
    BY <1>2, <1>9, TailKeeps
  <2>3. /\ Linked'
        /\ [lists EXCEPT ![q] = Append(lists[q], e)] =
             [r \in Queues |-> Q_FOREACH(r)]'
    BY <1>4, <2>1
  <2> QED
    BY <1>1, <2>1, <2>3, <1>0
    DEF Lists!InsertTail, Lists!Detached, Lists!In
<1>10. ASSUME NEW e \in Elements, Q_REMOVE(q, e)
       PROVE  Linked' /\ Lists!Delete(q, e)
  <2>1. PICK i \in 1..Len(lists[q]) : lists[q][i] = e
    BY <1>2, <1>10, Guards DEF Q_REMOVE
  <2>2. LinkedAs([lists EXCEPT ![q] = RemoveAt(lists[q], i)])'
    BY <1>2, <1>10, <2>1, RemoveKeeps
  <2>3. /\ Linked'
        /\ [lists EXCEPT ![q] = RemoveAt(lists[q], i)] =
             [r \in Queues |-> Q_FOREACH(r)]'
    BY <1>4, <2>2
  <2> QED
    BY <1>1, <1>6, <2>1, <2>2, <2>3, <1>0 DEF Lists!Delete
<1>11. ASSUME NEW e \in Elements, NEW x \in Elements, Q_INSERT_AFTER(q, x, e)
       PROVE  Linked' /\ Lists!InsertAfter(q, x, e)
  <2>1. /\ \A r \in Queues : ~Contains(lists[r], e)
        /\ \E k \in 1..Len(lists[q]) :
             /\ lists[q][k] = x
             /\ LinkedAs([lists EXCEPT ![q] = InsertAt(lists[q], k + 1, e)])'
    BY <1>2, <1>11, AfterKeeps
  <2>2. PICK k \in 1..Len(lists[q]) :
          /\ lists[q][k] = x
          /\ LinkedAs([lists EXCEPT ![q] = InsertAt(lists[q], k + 1, e)])'
    BY <2>1
  <2>3. /\ Linked'
        /\ [lists EXCEPT ![q] = InsertAt(lists[q], k + 1, e)] =
             [r \in Queues |-> Q_FOREACH(r)]'
    BY <1>4, <2>2
  <2> QED
    BY <1>1, <1>6, <2>1, <2>2, <2>3, <1>0
    DEF Lists!InsertAfter, Lists!Detached, Lists!In
<1>12. ASSUME NEW e \in Elements, NEW x \in Elements, Q_INSERT_BEFORE(q, x, e)
       PROVE  Linked' /\ Lists!InsertBefore(q, x, e)
  <2>1. /\ \A r \in Queues : ~Contains(lists[r], e)
        /\ \E k \in 1..Len(lists[q]) :
             /\ lists[q][k] = x
             /\ LinkedAs([lists EXCEPT ![q] = InsertAt(lists[q], k, e)])'
    BY <1>2, <1>12, BeforeKeeps
  <2>2. PICK k \in 1..Len(lists[q]) :
          /\ lists[q][k] = x
          /\ LinkedAs([lists EXCEPT ![q] = InsertAt(lists[q], k, e)])'
    BY <2>1
  <2>3. /\ Linked'
        /\ [lists EXCEPT ![q] = InsertAt(lists[q], k, e)] =
             [r \in Queues |-> Q_FOREACH(r)]'
    BY <1>4, <2>2
  <2> QED
    BY <1>1, <1>6, <2>1, <2>2, <2>3, <1>0
    DEF Lists!InsertBefore, Lists!Detached, Lists!In
<1> QED
  BY <1>5, <1>7, <1>8, <1>9, <1>10, <1>11, <1>12 DEF Lists!Next

\* Links that are in order tell the same story from both ends.
LEMMA LinkedAgree == Linked => LinksAgree
<1> SUFFICES ASSUME Linked PROVE LinksAgree
  OBVIOUS
<1>1. PICK lists : lists = [q \in Queues |-> Q_FOREACH(q)]
  OBVIOUS
<1>2. LinkedAs(lists)
  BY <1>1 DEF Linked, LinkedAs
<1>3. ASSUME NEW q \in Queues
      PROVE  Walk(tail[q], prev) = Reverse(Q_FOREACH(q))
  <2>1. Chain(lists[q], head[q], tail[q], next, prev) /\ lists[q] = Q_FOREACH(q)
    BY <1>1, <1>2 DEF LinkedAs
  <2>2. IsPath(Reverse(lists[q]), tail[q], prev)
    BY <2>1, Backwards
  <2> QED
    BY <2>1, <2>2, WalkPath
<1>4. ASSUME NEW e \in Elements, Detached(e)
      PROVE  next[e] = NULL /\ prev[e] = NULL
  BY <1>2, <1>4, Guards DEF LinkedAs
<1> QED
  BY <1>3, <1>4 DEF LinksAgree

\* The queue macros keep the two directions of the links in agreement, for any
\* number of queues and elements, as long as Q_INSERT_AFTER is used on tails.
THEOREM LinksCorrect ==
  ASSUME AfterLastOnly
  PROVE  Spec => []LinksAgree
<1>1. Init => Linked
  BY LinkedInit
<1>2. Linked /\ [Next]_vars => Linked'
  BY StepKeeps, StutterKeeps
<1>3. Linked => LinksAgree
  BY LinkedAgree
<1> QED
  BY <1>1, <1>2, <1>3, PTL DEF Spec

\* The queue macros change the elements Q_FOREACH visits as their comments say,
\* for any number of queues and elements, as long as Q_INSERT_AFTER is used on
\* tails.
THEOREM ListsCorrect ==
  ASSUME AfterLastOnly
  PROVE  Spec => ImplementsLists
<1>1. Init => Linked /\ Lists!Init
  <2> SUFFICES ASSUME Init PROVE Linked /\ Lists!Init
    OBVIOUS
  <2> QED
    BY LinkedInit DEF Lists!Init
<1>2. Linked /\ [Next]_vars
        => Linked' /\ [Lists!Next]_[q \in Queues |-> Q_FOREACH(q)]
  <2>1. CASE Next
    BY <2>1, StepKeeps
  <2>2. CASE UNCHANGED vars
    BY <2>2, StutterKeeps
  <2> QED
    BY <2>1, <2>2
<1> QED
  BY <1>1, <1>2, PTL DEF Spec, ImplementsLists, Lists!Spec

-----------------------------------------------------------------------------
(* What every client of CondSpec may rely on, where the scheduler never    *)
(* refuses to block: the state of the threads, their calls and the queues  *)
(* agree.  This has nothing to do with the links above.                    *)

CONSTANTS Threads, Mutexes, Conds, Guard, Killable

VARIABLES mp, queue, state, call, ret

Calls == INSTANCE CondSpec

Constants ==
  /\ Guard \in [Conds -> Mutexes]
  /\ Killable = {}
  /\ NULL \notin Threads \cup Calls!Operations

TypesAgree ==
  /\ mp \in [Mutexes -> Threads \cup {NULL}]
  /\ queue \in [Conds -> Seq(Threads)]
  /\ state \in [Threads -> {"running", "waiting", "signaled", "interrupted"}]
  /\ DOMAIN call = Threads
  /\ ret \in [Threads -> {"0", "-EINTR", "-EINVAL", NULL}]

\* A thread is queued exactly while it waits, once, by its call of cond_wait.
QueuesAgree ==
  /\ \A c \in Conds : IsInjective(queue[c])
  /\ \A t \in Threads : state[t] = "waiting" <=> \E c \in Conds : Contains(queue[c], t)
  /\ \A t \in Threads : \A c \in Conds :
       Contains(queue[c], t) => \E u \in BOOLEAN : Calls!Waits(t, c, u)
  /\ \A t \in Threads :
       state[t] # "running" => \E c \in Conds, u \in BOOLEAN : Calls!Waits(t, c, u)

Agree == TypesAgree /\ QueuesAgree

\* At first nobody waits.
LEMMA AgreeInit == Constants /\ Calls!Init => Agree
<1> SUFFICES ASSUME Constants, Calls!Init PROVE Agree
  OBVIOUS
<1>1. \A t : ~Contains(<<>>, t)
  BY DEF Contains
<1>2. IsInjective(<<>>)
  BY DEF IsInjective
<1> QED
  BY <1>1, <1>2, EmptySeq DEF Calls!Init, Agree, TypesAgree, QueuesAgree

\* A thread waits for one condition variable at a time.
LEMMA WaitsForOne ==
  ASSUME NEW t, NEW c, NEW d, NEW u, NEW v, Calls!Waits(t, c, u), Calls!Waits(t, d, v)
  PROVE  c = d /\ u = v
BY DEF Calls!Waits

\* Every step keeps the agreement.
LEMMA AgreeStep == Constants /\ Agree /\ [Calls!Next]_Calls!vars => Agree'
<1> SUFFICES ASSUME Constants, Agree, [Calls!Next]_Calls!vars PROVE Agree'
  OBVIOUS
<1> USE DEF Constants, Agree, TypesAgree
<1>1. CASE UNCHANGED Calls!vars
  BY <1>1 DEF Calls!vars, QueuesAgree, Calls!Waits
<1>2. ASSUME NEW t \in Threads, NEW m \in Mutexes, Calls!Lock(t, m) \/ Calls!Unlock(t, m)
      PROVE  Agree'
  BY <1>2 DEF Calls!Lock, Calls!Unlock, QueuesAgree, Calls!Waits
<1>3. ASSUME NEW t \in Threads, NEW op \in Calls!Operations, Calls!Begin(t, op)
      PROVE  Agree'
  <2>1. state[t] = "running"
    <3>1. \A c \in Conds, u \in BOOLEAN : ~Calls!Waits(t, c, u)
      BY <1>3 DEF Calls!Begin, Calls!Waits, Calls!Operations
    <3> QED
      BY <3>1 DEF QueuesAgree
  <2>2. \A c \in Conds : ~Contains(queue[c], t)
    BY <2>1 DEF QueuesAgree
  <2> QED
    BY <1>3, <2>1, <2>2 DEF Calls!Begin, QueuesAgree, Calls!Waits
<1>4. ASSUME NEW t \in Threads, NEW c \in Conds, NEW u \in BOOLEAN, Calls!Wait(t, c, u)
      PROVE  Agree'
  <2>1. \A d \in Conds : ~Contains(queue[d], t)
    BY <1>4 DEF Calls!Wait, QueuesAgree
  <2> DEFINE q == <<t>> \o queue[c]
  <2>2. q \in Seq(Threads)
    BY ConcatProperties, SeqDef
  <2>3. IsInjective(q) /\ \A y : Contains(q, y) <=> y = t \/ Contains(queue[c], y)
    BY <2>1, PushElements DEF QueuesAgree
  <2>4. queue' = [queue EXCEPT ![c] = q] /\ state' = [state EXCEPT ![t] = "waiting"]
    BY <1>4 DEF Calls!Wait
  <2> HIDE DEF q
  <2>5. /\ queue' \in [Conds -> Seq(Threads)]
        /\ \A d \in Conds : queue'[d] = IF d = c THEN q ELSE queue[d]
    BY <2>2, <2>4
  <2>6. \A d \in Conds : IsInjective(queue'[d])
    BY <2>3, <2>5 DEF QueuesAgree
  <2>7. \A d \in Conds, y \in Threads :
          Contains(queue'[d], y) <=> Contains(queue[d], y) \/ (d = c /\ y = t)
    BY <2>3, <2>5
  <2>8. TypesAgree'
    BY <1>4, <2>4, <2>5 DEF Calls!Wait
  <2>9. Calls!Waits(t, c, u) /\ UNCHANGED call
    BY <1>4 DEF Calls!Wait
  <2>10. QueuesAgree'
    BY <2>4, <2>6, <2>7, <2>9 DEF QueuesAgree, Calls!Waits
  <2> QED
    BY <2>8, <2>10
<1>5. ASSUME NEW t \in Threads, NEW c \in Conds, NEW u \in BOOLEAN, Calls!WaitReturns(t, c, u)
      PROVE  Agree'
  <2>1. state[t] # "waiting" /\ state' = [state EXCEPT ![t] = "running"]
    BY <1>5 DEF Calls!WaitReturns
  <2>2. \A d \in Conds : ~Contains(queue[d], t)
    BY <2>1 DEF QueuesAgree
  <2>3. TypesAgree'
    BY <1>5, <2>1 DEF Calls!WaitReturns, Calls!End
  <2>4. UNCHANGED queue /\ \A y \in Threads : y # t => call'[y] = call[y]
    BY <1>5 DEF Calls!WaitReturns, Calls!End
  <2>5. QueuesAgree'
    BY <2>1, <2>2, <2>4 DEF QueuesAgree, Calls!Waits
  <2> QED
    BY <2>3, <2>5
<1>6. ASSUME NEW t \in Threads, NEW c \in Conds, Calls!WaitFails(t, c)
      PROVE  FALSE
  BY <1>6 DEF Calls!WaitFails
\* A step that wakes some of the threads of the queues, and takes them out.
<1>7. ASSUME NEW t \in Threads, \A c \in Conds, u \in BOOLEAN : ~Calls!Waits(t, c, u),
             call' = [call EXCEPT ![t] = NULL],
             ret' \in [Threads -> {"0", "-EINTR", "-EINVAL", NULL}],
             NEW S \in SUBSET Threads, NEW why \in {"signaled", "interrupted"},
             \A y \in S : state[y] = "waiting",
             Calls!Wakes(S, why), UNCHANGED mp,
             queue' \in [Conds -> Seq(Threads)],
             \A d \in Conds :
               /\ IsInjective(queue'[d])
               /\ \A y \in Threads : Contains(queue'[d], y) <=> Contains(queue[d], y) /\ y \notin S
      PROVE  Agree'
  <2>1. TypesAgree'
    BY <1>7 DEF Calls!Wakes
  <2>2. \A y \in Threads : state'[y] = IF y \in S THEN why ELSE state[y]
    BY <1>7 DEF Calls!Wakes
  <2>3. \A y \in Threads, c \in Conds, u \in BOOLEAN : Calls!Waits(y, c, u) => Calls!Waits(y, c, u)'
    BY <1>7 DEF Calls!Waits
  <2>4. \A y \in Threads :
          state'[y] = "waiting" <=> \E c \in Conds : Contains(queue'[c], y)
    <3> SUFFICES ASSUME NEW y \in Threads
                 PROVE  state'[y] = "waiting" <=> \E c \in Conds : Contains(queue'[c], y)
      OBVIOUS
    <3>1. state[y] = "waiting" <=> \E c \in Conds : Contains(queue[c], y)
      BY DEF QueuesAgree
    <3>2. \A c \in Conds : Contains(queue'[c], y) <=> Contains(queue[c], y) /\ y \notin S
      BY <1>7
    <3>3. state'[y] = "waiting" <=> state[y] = "waiting" /\ y \notin S
      BY <2>2
    <3> QED
      BY <3>1, <3>2, <3>3
  <2>5. \A y \in Threads, c \in Conds :
          Contains(queue'[c], y) => \E u \in BOOLEAN : Calls!Waits(y, c, u)'
    <3>1. \A y \in Threads, c \in Conds : Contains(queue'[c], y) => Contains(queue[c], y)
      BY <1>7
    <3> QED
      BY <2>3, <3>1 DEF QueuesAgree
  <2>6. \A y \in Threads :
          state'[y] # "running" => \E c \in Conds, u \in BOOLEAN : Calls!Waits(y, c, u)'
    <3>1. \A y \in Threads : state'[y] # "running" => state[y] # "running"
      BY <1>7, <2>2
    <3> QED
      BY <2>3, <3>1 DEF QueuesAgree
  <2>7. \A c \in Conds : IsInjective(queue'[c])
    BY <1>7
  <2>8. QueuesAgree'
    BY <2>4, <2>5, <2>6, <2>7 DEF QueuesAgree
  <2> QED
    BY <2>1, <2>8
<1>8. ASSUME NEW t \in Threads, NEW op, NEW result \in {"0", "-EINTR", "-EINVAL", NULL},
             op[1] # "wait", Calls!End(t, op, result)
      PROVE  /\ \A c \in Conds, u \in BOOLEAN : ~Calls!Waits(t, c, u)
             /\ call' = [call EXCEPT ![t] = NULL]
             /\ ret' \in [Threads -> {"0", "-EINTR", "-EINVAL", NULL}]
  BY <1>8 DEF Calls!End, Calls!Waits
<1>9. ASSUME NEW t \in Threads, NEW c \in Conds, Calls!Signal(t, c)
      PROVE  Agree'
  <2>1. CASE queue[c] = <<>>
    <3>1. Calls!Wakes({}, "signaled") /\ UNCHANGED <<mp, queue>>
      BY <1>9, <2>1 DEF Calls!Signal, Calls!Wakes
    <3>2. Calls!End(t, <<"signal", c>>, NULL)
      BY <1>9 DEF Calls!Signal
    <3>3. /\ \A d \in Conds, u \in BOOLEAN : ~Calls!Waits(t, d, u)
          /\ call' = [call EXCEPT ![t] = NULL]
          /\ ret' \in [Threads -> {"0", "-EINTR", "-EINVAL", NULL}]
      BY <1>8, <3>2
    <3>4. /\ {} \in SUBSET Threads /\ queue' \in [Conds -> Seq(Threads)]
          /\ \A d \in Conds :
               /\ IsInjective(queue'[d])
               /\ \A x \in Threads :
                    Contains(queue'[d], x) <=> Contains(queue[d], x) /\ x \notin {}
      BY <3>1 DEF QueuesAgree
    <3> QED
      BY <1>7, <3>1, <3>3, <3>4
  <2>2. CASE queue[c] # <<>>
    <3> DEFINE y == Last(queue[c])
    <3>1. /\ queue' = [queue EXCEPT ![c] = Front(@)] /\ Calls!Wakes({y}, "signaled")
          /\ UNCHANGED mp /\ Calls!End(t, <<"signal", c>>, NULL)
      BY <1>9, <2>2 DEF Calls!Signal, Calls!Front, Front, Calls!Last, Last
    <3>2. /\ IsInjective(Front(queue[c])) /\ Front(queue[c]) \in Seq(Threads)
          /\ \A x : Contains(Front(queue[c]), x) <=> Contains(queue[c], x) /\ x # y
          /\ y \in Threads
      BY <2>2, PopElements, FrontType DEF QueuesAgree
    <3>3. Contains(queue[c], y) /\ state[y] = "waiting"
      BY <2>2, <3>2, LastContained DEF QueuesAgree
    <3> HIDE DEF y
    <3>4. \A d \in Conds : d # c => ~Contains(queue[d], y)
      BY <3>2, <3>3, WaitsForOne DEF QueuesAgree
    <3>5. /\ queue' \in [Conds -> Seq(Threads)]
          /\ \A d \in Conds :
               /\ IsInjective(queue'[d])
               /\ \A x \in Threads :
                    Contains(queue'[d], x) <=> Contains(queue[d], x) /\ x \notin {y}
      BY <3>1, <3>2, <3>4 DEF QueuesAgree
    <3>6. /\ \A d \in Conds, u \in BOOLEAN : ~Calls!Waits(t, d, u)
          /\ call' = [call EXCEPT ![t] = NULL]
          /\ ret' \in [Threads -> {"0", "-EINTR", "-EINVAL", NULL}]
      BY <1>8, <3>1
    <3>7. {y} \in SUBSET Threads /\ \A x \in {y} : state[x] = "waiting"
      BY <3>2, <3>3
    <3> HIDE DEF Agree, TypesAgree, Constants
    <3> QED
      BY <1>7, <3>1, <3>5, <3>6, <3>7
  <2> QED
    BY <2>1, <2>2
<1>10. ASSUME NEW t \in Threads, NEW c \in Conds, Calls!Broadcast(t, c)
      PROVE  Agree'
  <2>1. ToSet(queue[c]) \subseteq Threads /\ \A y : y \in ToSet(queue[c]) <=> Contains(queue[c], y)
    BY SetOfContained
  <2>2. \A x : ~Contains(<<>>, x)
    BY DEF Contains
  <2>3. IsInjective(<<>>)
    BY DEF IsInjective
  <2>4. /\ queue' = [queue EXCEPT ![c] = <<>>] /\ Calls!Wakes(ToSet(queue[c]), "signaled")
        /\ UNCHANGED mp /\ Calls!End(t, <<"broadcast", c>>, NULL)
    BY <1>10 DEF Calls!Broadcast, Calls!ToSet, ToSet
  <2>5. \A y \in ToSet(queue[c]) : /\ state[y] = "waiting"
                                   /\ \A d \in Conds : d # c => ~Contains(queue[d], y)
    BY <2>1, WaitsForOne DEF QueuesAgree
  <2>6. /\ queue' \in [Conds -> Seq(Threads)]
        /\ \A d \in Conds :
             /\ IsInjective(queue'[d])
             /\ \A x \in Threads :
                  Contains(queue'[d], x) <=> Contains(queue[d], x) /\ x \notin ToSet(queue[c])
    BY <2>1, <2>2, <2>3, <2>4, <2>5, EmptySeq DEF QueuesAgree
  <2>7. /\ \A d \in Conds, u \in BOOLEAN : ~Calls!Waits(t, d, u)
        /\ call' = [call EXCEPT ![t] = NULL]
        /\ ret' \in [Threads -> {"0", "-EINTR", "-EINVAL", NULL}]
    BY <1>8, <2>4
  <2> QED
    BY <1>7, <2>1, <2>4, <2>5, <2>6, <2>7
<1>11. ASSUME NEW t \in Threads, NEW y \in Threads, Calls!Interrupt(t, y)
       PROVE  Agree'
  <2>0. PICK c \in Conds : \E i \in 1..Len(queue[c]) :
          /\ Calls!Waits(y, c, FALSE)
          /\ queue[c][i] = y
          /\ queue' = [queue EXCEPT ![c] = RemoveAt(@, i)]
    BY <1>11 DEF Calls!Interrupt, Calls!RemoveAt, RemoveAt
  <2>1. PICK i \in 1..Len(queue[c]) :
          /\ Calls!Waits(y, c, FALSE)
          /\ queue[c][i] = y
          /\ queue' = [queue EXCEPT ![c] = RemoveAt(@, i)]
    BY <2>0
  <2>2. /\ state[y] = "waiting" /\ Calls!Wakes({y}, "interrupted")
        /\ UNCHANGED mp /\ Calls!End(t, <<"interrupt", y>>, "0")
    BY <1>11 DEF Calls!Interrupt
  <2>3. /\ IsInjective(RemoveAt(queue[c], i)) /\ RemoveAt(queue[c], i) \in Seq(Threads)
        /\ \A x : Contains(RemoveAt(queue[c], i), x) <=> Contains(queue[c], x) /\ x # y
    BY <2>1, RemoveElements, RemoveAtElements DEF QueuesAgree
  <2>4. \A d \in Conds : d # c => ~Contains(queue[d], y)
    BY <2>1 DEF QueuesAgree, Calls!Waits
  <2>5. /\ queue' \in [Conds -> Seq(Threads)]
        /\ \A d \in Conds :
             /\ IsInjective(queue'[d])
             /\ \A x \in Threads :
                  Contains(queue'[d], x) <=> Contains(queue[d], x) /\ x \notin {y}
    BY <2>1, <2>3, <2>4 DEF QueuesAgree
  <2>6. /\ \A d \in Conds, u \in BOOLEAN : ~Calls!Waits(t, d, u)
        /\ call' = [call EXCEPT ![t] = NULL]
        /\ ret' \in [Threads -> {"0", "-EINTR", "-EINVAL", NULL}]
    BY <1>8, <2>2
  <2> QED
    BY <1>7, <2>2, <2>5, <2>6
<1>12. ASSUME NEW t \in Threads, NEW y \in Threads, Calls!InterruptFails(t, y)
       PROVE  Agree'
  <2>1. /\ Calls!End(t, <<"interrupt", y>>, "-EINVAL") /\ UNCHANGED <<mp, queue, state>>
    BY <1>12 DEF Calls!InterruptFails
  <2>2. Calls!Wakes({}, "signaled")
    BY <2>1 DEF Calls!Wakes
  <2>3. /\ \A d \in Conds, u \in BOOLEAN : ~Calls!Waits(t, d, u)
        /\ call' = [call EXCEPT ![t] = NULL]
        /\ ret' \in [Threads -> {"0", "-EINTR", "-EINVAL", NULL}]
    BY <1>8, <2>1
  <2>4. /\ {} \in SUBSET Threads /\ queue' \in [Conds -> Seq(Threads)]
        /\ \A d \in Conds :
             /\ IsInjective(queue'[d])
             /\ \A x \in Threads :
                  Contains(queue'[d], x) <=> Contains(queue[d], x) /\ x \notin {}
    BY <2>1 DEF QueuesAgree
  <2> QED
    BY <1>7, <2>1, <2>2, <2>3, <2>4
<1> QED
  BY <1>1, <1>2, <1>3, <1>4, <1>5, <1>6, <1>9, <1>10, <1>11, <1>12 DEF Calls!Next

=============================================================================
