----------------------------- MODULE DataLemmas -----------------------------
(***************************************************************************)
(* What the proofs need to know about data: bounds of sets of numbers, the *)
(* members of a finite set in the order of a rank (the time in a name, by  *)
(* which pruneBackups sorts), the elements of sequences, and chains, whose *)
(* elements each lead to the ones after them (lines and commands).         *)
(***************************************************************************)
EXTENDS Integers, FiniteSets, Sequences, SequencesExt, FiniteSetTheorems, SequenceTheorems,
        WellFoundedInduction, TLAPS

\* A sequence is one over any set that holds its elements.
LEMMA SeqOver ==
  ASSUME NEW S, NEW T, NEW q \in Seq(S), \A i \in 1..Len(q) : q[i] \in T
  PROVE  q \in Seq(T)
<1>1. Len(q) \in Nat /\ q \in [1..Len(q) -> T]
  BY LenProperties
<1> QED
  BY <1>1, SeqDef

\* There are more sequences over a wider set.
LEMMA WiderSeq ==
  ASSUME NEW S, NEW T, S \subseteq T
  PROVE  Seq(S) \subseteq Seq(T)
<1> SUFFICES ASSUME NEW q \in Seq(S) PROVE q \in Seq(T)
  OBVIOUS
<1>1. \A i \in 1..Len(q) : q[i] \in T
  BY ElementOfSeq
<1> QED
  BY <1>1, SeqOver

-----------------------------------------------------------------------------
\* There is a least number in every set of natural numbers that is not empty.
LEMMA LeastNatural ==
  ASSUME NEW S \in SUBSET Nat, S # {}
  PROVE  \E m \in S : \A n \in S : m <= n
<1> DEFINE Less == OpToRel(<, Nat)
<1>1. IsWellFoundedOn(Less, Nat)
  BY NatLessThanWellFounded
<1>2. \A m, n \in Nat : n < m => <<n, m>> \in Less
  BY DEF OpToRel
<1> HIDE DEF Less
<1>3. PICK m \in S : \A n \in S : ~ (<<n, m>> \in Less)
  BY <1>1, WFMin
<1>4. ASSUME NEW n \in S PROVE m <= n
  <2>1. m \in Nat /\ n \in Nat
    OBVIOUS
  <2>2. ~ (n < m)
    BY <1>2, <1>3, <2>1, Zenon
  <2> QED
    BY <2>1, <2>2
<1> QED
  BY <1>4

\* A set of natural numbers with an upper bound has a greatest one.
LEMMA GreatestNatural ==
  ASSUME NEW S \in SUBSET Nat, S # {}, NEW top \in Nat, \A s \in S : s <= top
  PROVE  \E m \in S : \A n \in S : n <= m
<1> DEFINE Below == {top - s : s \in S}
<1>1. Below \in SUBSET Nat
  OBVIOUS
<1>2. Below # {}
  <2>1. PICK s \in S : TRUE
    OBVIOUS
  <2>2. top - s \in Below
    OBVIOUS
  <2> QED
    BY <2>2
<1> HIDE DEF Below
<1>3. PICK l \in Below : \A n \in Below : l <= n
  BY <1>1, <1>2, LeastNatural
<1>4. PICK m \in S : l = top - m
  BY <1>3 DEF Below
<1>5. \A n \in S : top - m <= top - n
  BY <1>3, <1>4 DEF Below
<1>6. \A n \in S : n <= m
  BY <1>5
<1> QED
  BY <1>6

\* A set is finite when its members have different ranks below a bound.
LEMMA FinitelyRanked ==
  ASSUME NEW B, NEW top \in Nat, NEW rank \in [B -> 0..top],
         \A b, c \in B : rank[b] = rank[c] => b = c
  PROVE  IsFiniteSet(B)
<1>1. rank \in Injection(B, 0..top)
  BY DEF Injection, IsInjective
<1>2. IsFiniteSet(0..top)
  BY FS_Interval
<1> QED
  BY <1>1, <1>2, FS_Injection

\* The members of B that n others rank above.
Beneath(B, rank, n) == {b \in B : Cardinality({c \in B : rank[c] > rank[b]}) >= n}

\* Pruning to n members removes the lowest ranks, and only when n members
\* stay.
LEMMA PruningKeeps ==
  ASSUME NEW B, IsFiniteSet(B),
         NEW rank \in [B -> Nat], \A b, c \in B : rank[b] = rank[c] => b = c,
         NEW n \in Nat
  PROVE  /\ \A b \in Beneath(B, rank, n), k \in B \ Beneath(B, rank, n) : rank[k] > rank[b]
         /\ Beneath(B, rank, n) # {} => Cardinality(B \ Beneath(B, rank, n)) >= n
<1> DEFINE Over == Beneath(B, rank, n)
<1> DEFINE Above(b) == {c \in B : rank[c] > rank[b]}
<1>1. \A S \in SUBSET B : IsFiniteSet(S) /\ Cardinality(S) \in Nat
  BY FS_Subset, FS_CardinalityType
<1>2. \A S, T \in SUBSET B : S \subseteq T => Cardinality(S) <= Cardinality(T)
  BY <1>1, FS_Subset
<1>3. \A S, T \in SUBSET B : S \subseteq T /\ S # T => Cardinality(S) < Cardinality(T)
  BY <1>1, FS_Subset
<1>4. \A b \in B : Above(b) \in SUBSET B
  OBVIOUS
<1>5. \A b \in B : b \in Over <=> Cardinality(Above(b)) >= n
  BY DEF Beneath
<1>6. Over \subseteq B
  BY DEF Beneath
<1> HIDE DEF Over
<1>7. ASSUME NEW b \in Over, NEW k \in B \ Over
      PROVE  rank[k] > rank[b]
  <2>1. SUFFICES ASSUME rank[k] <= rank[b] PROVE FALSE
    BY <1>6
  <2>2. Above(b) \subseteq Above(k)
    BY <1>6, <2>1
  <2> HIDE DEF Above
  <2>3. Cardinality(Above(b)) <= Cardinality(Above(k))
    BY <1>2, <1>4, <2>2
  <2> QED
    BY <1>1, <1>4, <1>5, <1>6, <2>3
<1>8. \A b \in B : Cardinality(Above(b)) \in Nat
  BY <1>1, <1>4
<1>9. ASSUME NEW b \in B, NEW d \in B, b \in Above(d)
      PROVE  Cardinality(Above(b)) < Cardinality(Above(d))
  <2>1. Above(b) \subseteq Above(d) /\ Above(b) # Above(d)
    BY <1>9
  <2> HIDE DEF Above
  <2> QED
    BY <1>3, <1>4, <2>1
<1> HIDE DEF Above
<1>10. ASSUME Over # {}
       PROVE  Cardinality(B \ Over) >= n
  <2> DEFINE Counts == {Cardinality(Above(b)) : b \in Over}
  <2>1. Counts \in SUBSET Nat
    BY <1>8, <1>6
  <2>2. Counts # {}
    <3>1. PICK b \in Over : TRUE
      BY <1>10
    <3>2. Cardinality(Above(b)) \in Counts
      OBVIOUS
    <3> QED
      BY <3>2
  <2> HIDE DEF Counts
  <2>3. PICK m \in Counts : \A k \in Counts : m <= k
    BY <2>1, <2>2, LeastNatural
  <2>4. PICK d \in Over : m = Cardinality(Above(d))
    BY <2>3 DEF Counts
  <2>5. \A b \in Over : Cardinality(Above(d)) <= Cardinality(Above(b))
    BY <2>3, <2>4 DEF Counts
  <2>6. ASSUME NEW b \in Over, b \in Above(d) PROVE FALSE
    <3>1. b \in B /\ d \in B
      BY <1>6
    <3> QED
      BY <1>8, <1>9, <2>5, <2>6, <3>1
  <2>7. Above(d) \subseteq B \ Over
    BY <1>4, <1>6, <2>6
  <2>8. Cardinality(Above(d)) <= Cardinality(B \ Over)
    BY <1>2, <1>4, <1>6, <2>7
  <2>9. /\ Cardinality(Above(d)) \in Nat
        /\ Cardinality(B \ Over) \in Nat
        /\ Cardinality(Above(d)) >= n
    BY <1>1, <1>5, <1>8, <1>6
  <2> QED
    BY <2>8, <2>9
<1> QED
  BY <1>7, <1>10 DEF Over

-----------------------------------------------------------------------------
LEMMA ElementsOfAppend ==
  ASSUME NEW S, NEW q \in Seq(S), NEW n \in S
  PROVE  ToSet(Append(q, n)) = ToSet(q) \cup {n}
<1> DEFINE r == Append(q, n)
<1> DEFINE l == Len(q)
<1>1. /\ Len(r) = l + 1 /\ l \in Nat
      /\ \A i \in 1..l : r[i] = q[i]
      /\ r[l + 1] = n
      /\ DOMAIN r = 1..Len(r) /\ DOMAIN q = 1..l
  BY AppendProperties, LenProperties
<1> HIDE DEF l, r
<1>2. DOMAIN r = DOMAIN q \cup {l + 1}
  BY <1>1
<1>3. \A i \in DOMAIN q : r[i] = q[i]
  BY <1>1
<1>4. ToSet(r) = ToSet(q) \cup {n}
  BY <1>1, <1>2, <1>3 DEF ToSet
<1> QED
  BY <1>4 DEF r

LEMMA ElementsOfConcat ==
  ASSUME NEW S, NEW p \in Seq(S), NEW q \in Seq(S)
  PROVE  ToSet(p \o q) = ToSet(p) \cup ToSet(q)
<1> DEFINE r == p \o q
<1> DEFINE k == Len(p)
<1> DEFINE l == Len(q)
<1>1. /\ k \in Nat /\ l \in Nat
      /\ DOMAIN p = 1..k /\ DOMAIN q = 1..l /\ DOMAIN r = 1..(k + l)
      /\ \A i \in 1..(k + l) : r[i] = IF i <= k THEN p[i] ELSE q[i - k]
  BY ConcatProperties, LenProperties
<1> HIDE DEF k, l, r
<1>2. ASSUME NEW x \in ToSet(r) PROVE x \in ToSet(p) \cup ToSet(q)
  <2>1. PICK i \in 1..(k + l) : x = r[i]
    BY <1>1 DEF ToSet
  <2>2. CASE i <= k
    <3>1. i \in DOMAIN p /\ x = p[i]
      BY <1>1, <2>1, <2>2
    <3> QED
      BY <3>1 DEF ToSet
  <2>3. CASE ~(i <= k)
    <3>1. i - k \in DOMAIN q /\ x = q[i - k]
      BY <1>1, <2>1, <2>3
    <3> QED
      BY <3>1 DEF ToSet
  <2> QED
    BY <2>2, <2>3
<1>3. ASSUME NEW x \in ToSet(p) PROVE x \in ToSet(r)
  <2>1. PICK i \in DOMAIN p : x = p[i]
    BY DEF ToSet
  <2>2. i \in DOMAIN r /\ r[i] = x
    BY <1>1, <2>1
  <2> QED
    BY <2>2 DEF ToSet
<1>4. ASSUME NEW x \in ToSet(q) PROVE x \in ToSet(r)
  <2>1. PICK i \in DOMAIN q : x = q[i]
    BY DEF ToSet
  <2>2. i + k \in DOMAIN r /\ ~(i + k <= k) /\ (i + k) - k = i
    BY <1>1, <2>1
  <2>3. r[i + k] = x
    BY <1>1, <2>1, <2>2
  <2> QED
    BY <2>2, <2>3 DEF ToSet
<1>5. ToSet(r) = ToSet(p) \cup ToSet(q)
  BY <1>2, <1>3, <1>4
<1> QED
  BY <1>5 DEF r

LEMMA ElementsOfTail ==
  ASSUME NEW S, NEW q \in Seq(S), q # <<>>
  PROVE  ToSet(q) = {Head(q)} \cup ToSet(Tail(q))
<1> DEFINE r == Tail(q)
<1> DEFINE h == Head(q)
<1> DEFINE l == Len(q)
<1>1. /\ l \in Nat /\ l >= 1 /\ DOMAIN q = 1..l /\ DOMAIN r = 1..(l - 1)
      /\ \A i \in 1..(l - 1) : r[i] = q[i + 1]
      /\ h = q[1]
  BY HeadTailProperties, EmptySeq, LenProperties
<1> HIDE DEF l, r, h
<1>2. ASSUME NEW i \in 1..l PROVE q[i] \in {h} \cup ToSet(r)
  <2>1. CASE i = 1
    BY <1>1, <2>1
  <2>2. CASE i # 1
    <3>1. i - 1 \in DOMAIN r /\ r[i - 1] = q[i]
      BY <1>1, <2>2
    <3> QED
      BY <3>1 DEF ToSet
  <2> QED
    BY <2>1, <2>2
<1>3. ASSUME NEW i \in DOMAIN r PROVE r[i] \in ToSet(q)
  <2>1. i + 1 \in DOMAIN q /\ r[i] = q[i + 1]
    BY <1>1
  <2> QED
    BY <2>1 DEF ToSet
<1>4. h \in ToSet(q)
  BY <1>1 DEF ToSet
<1>5. ToSet(q) = {h} \cup ToSet(r)
  BY <1>1, <1>2, <1>3, <1>4 DEF ToSet
<1> QED
  BY <1>5 DEF h, r

-----------------------------------------------------------------------------
\* Each element of the sequence is in relation to the later ones.
Chain(R, q) == \A i, j \in DOMAIN q : i < j => <<q[i], q[j]>> \in R

\* Whatever is in p is in relation to whatever is in q.
Leads(R, p, q) == \A x \in ToSet(p), y \in ToSet(q) : <<x, y>> \in R

LEMMA ChainAppend ==
  ASSUME NEW S, NEW R, NEW q \in Seq(S), NEW n \in S, Chain(R, q),
         \A x \in ToSet(q) : <<x, n>> \in R
  PROVE  Chain(R, Append(q, n))
<1> DEFINE r == Append(q, n)
<1> DEFINE l == Len(q)
<1>1. /\ l \in Nat
      /\ \A i \in 1..l : r[i] = q[i]
      /\ r[l + 1] = n
      /\ DOMAIN r = 1..(l + 1) /\ DOMAIN q = 1..l
  BY AppendProperties, LenProperties
<1>2. \A i \in DOMAIN q : <<q[i], n>> \in R
  BY DEF ToSet
<1> HIDE DEF l, r
<1>3. ASSUME NEW i \in DOMAIN r, NEW j \in DOMAIN r, i < j PROVE <<r[i], r[j]>> \in R
  <2>1. i \in 1..l /\ r[i] = q[i] /\ (j \in 1..l \/ j = l + 1)
    BY <1>1, <1>3
  <2>2. CASE j \in 1..l
    BY <1>1, <1>3, <2>1, <2>2 DEF Chain
  <2>3. CASE j = l + 1
    BY <1>1, <1>2, <2>1, <2>3
  <2> QED
    BY <2>1, <2>2, <2>3
<1> QED
  BY <1>3 DEF Chain, r

LEMMA ChainConcat ==
  ASSUME NEW S, NEW R, NEW p \in Seq(S), NEW q \in Seq(S),
         Chain(R, p), Chain(R, q), Leads(R, p, q)
  PROVE  Chain(R, p \o q)
<1> DEFINE r == p \o q
<1> DEFINE k == Len(p)
<1> DEFINE l == Len(q)
<1>1. /\ k \in Nat /\ l \in Nat
      /\ DOMAIN p = 1..k /\ DOMAIN q = 1..l /\ DOMAIN r = 1..(k + l)
      /\ \A i \in 1..(k + l) : r[i] = IF i <= k THEN p[i] ELSE q[i - k]
  BY ConcatProperties, LenProperties
<1>2. \A i \in DOMAIN p, j \in DOMAIN q : <<p[i], q[j]>> \in R
  BY DEF Leads, ToSet
<1> HIDE DEF k, l, r
<1>3. ASSUME NEW i \in DOMAIN r, NEW j \in DOMAIN r, i < j PROVE <<r[i], r[j]>> \in R
  <2>1. CASE j <= k
    <3>1. i \in DOMAIN p /\ j \in DOMAIN p /\ r[i] = p[i] /\ r[j] = p[j]
      BY <1>1, <1>3, <2>1
    <3> QED
      BY <1>3, <3>1 DEF Chain
  <2>2. CASE i <= k /\ ~(j <= k)
    <3>1. i \in DOMAIN p /\ j - k \in DOMAIN q /\ r[i] = p[i] /\ r[j] = q[j - k]
      BY <1>1, <2>2
    <3> QED
      BY <1>2, <3>1
  <2>3. CASE ~(i <= k)
    <3>1. /\ i - k \in DOMAIN q /\ j - k \in DOMAIN q /\ i - k < j - k
          /\ r[i] = q[i - k] /\ r[j] = q[j - k]
      BY <1>1, <1>3, <2>3
    <3> QED
      BY <3>1 DEF Chain
  <2> QED
    BY <2>1, <2>2, <2>3
<1> QED
  BY <1>3 DEF Chain, r

LEMMA ChainTail ==
  ASSUME NEW S, NEW R, NEW q \in Seq(S), q # <<>>, Chain(R, q)
  PROVE  Chain(R, Tail(q)) /\ \A y \in ToSet(Tail(q)) : <<Head(q), y>> \in R
<1> DEFINE r == Tail(q)
<1> DEFINE l == Len(q)
<1>1. /\ l \in Nat /\ l >= 1 /\ DOMAIN q = 1..l /\ DOMAIN r = 1..(l - 1)
      /\ \A i \in 1..(l - 1) : r[i] = q[i + 1]
      /\ Head(q) = q[1]
  BY HeadTailProperties, EmptySeq, LenProperties
<1> HIDE DEF l, r
<1>2. ASSUME NEW i \in DOMAIN r, NEW j \in DOMAIN r, i < j PROVE <<r[i], r[j]>> \in R
  <2>1. i \in 1..(l - 1) /\ j \in 1..(l - 1)
    BY <1>1, <1>2
  <2>2. i + 1 \in 1..l /\ j + 1 \in 1..l /\ i + 1 < j + 1
    BY <1>1, <1>2, <2>1
  <2>3. r[i] = q[i + 1] /\ r[j] = q[j + 1]
    BY <1>1, <2>1
  <2> QED
    BY <1>1, <2>2, <2>3 DEF Chain
<1>3. ASSUME NEW i \in DOMAIN r PROVE <<q[1], r[i]>> \in R
  <2>1. 1 \in DOMAIN q /\ i + 1 \in DOMAIN q /\ 1 < i + 1 /\ r[i] = q[i + 1]
    BY <1>1
  <2> QED
    BY <2>1 DEF Chain
<1>4. \A y \in ToSet(r) : <<Head(q), y>> \in R
  BY <1>1, <1>3 DEF ToSet
<1> QED
  BY <1>2, <1>4 DEF Chain, r

\* A sequence is a prefix of one that agrees with it on its places.
LEMMA PrefixByElements ==
  ASSUME NEW S, NEW p \in Seq(S), NEW q \in Seq(S), Len(p) <= Len(q),
         \A i \in 1..Len(p) : q[i] = p[i]
  PROVE  IsPrefix(p, q)
<1>1. ASSUME NEW r \in Seq(S), Len(p) <= Len(r), \A i \in 1..Len(p) : r[i] = p[i]
      PROVE  SubSeq(r, 1, Len(p)) = p
  <2> DEFINE l == Len(p)
  <2> DEFINE s == SubSeq(r, 1, l)
  <2>1. l \in Nat /\ 1 \in Int /\ l \in Int /\ l - 1 + 1 = l
    BY LenProperties
  <2>2. \A i \in 1..l : r[i] \in S
    BY <1>1, ElementOfSeq
  <2> HIDE DEF l
  <2>3. /\ s \in Seq(S) /\ Len(s) = IF 1 <= l THEN l - 1 + 1 ELSE 0
        /\ \A i \in 1..(l - 1 + 1) : s[i] = r[1 + i - 1]
    BY <2>1, <2>2, SubSeqProperties
  <2> HIDE DEF s
  <2>4. Len(s) = l /\ \A i \in 1..l : s[i] = r[i]
    <3>1. \A i \in 1..l : 1 + i - 1 = i
      BY <2>1
    <3> QED
      BY <2>1, <2>3, <3>1
  <2>5. s = p
    BY <1>1, <2>3, <2>4, SeqEqual DEF l
  <2> QED
    BY <2>5 DEF s, l
<1>2. Len(p) \in Nat
  BY LenProperties
<1>3. SubSeq(p, 1, Len(p)) = p
  BY <1>1, <1>2
<1>4. SubSeq(q, 1, Len(p)) = p
  BY <1>1
<1> QED
  BY <1>3, <1>4 DEF IsPrefix

-----------------------------------------------------------------------------
\* Two members of a set with one member at most are the same.
LEMMA AtMostOne ==
  ASSUME NEW S, IsFiniteSet(S), Cardinality(S) <= 1, NEW x \in S, NEW y \in S
  PROVE  x = y
<1> SUFFICES ASSUME x # y PROVE FALSE
  OBVIOUS
<1>1. IsFiniteSet({x}) /\ Cardinality({x}) = 1
  BY FS_Singleton
<1>2. {x} \in SUBSET S /\ Cardinality(S) \in Nat
  BY FS_CardinalityType
<1>3. Cardinality({x}) <= Cardinality(S) /\ (Cardinality(S) = Cardinality({x}) => S = {x})
  BY <1>2, FS_Subset
<1> QED
  BY <1>1, <1>2, <1>3

-----------------------------------------------------------------------------
(* Recursive functions.                                                    *)

\* A set that holds each number if it holds the lesser ones holds all.
LEMMA Induction ==
  ASSUME NEW S, \A n \in Nat : (\A m \in Nat : m < n => m \in S) => n \in S
  PROVE  Nat \subseteq S
<1> DEFINE Others == Nat \ S
<1> SUFFICES ASSUME Others # {} PROVE FALSE
  OBVIOUS
<1>1. PICK n \in Others : \A m \in Others : n <= m
  <2>1. Others \in SUBSET Nat
    OBVIOUS
  <2> HIDE DEF Others
  <2> QED
    BY <2>1, LeastNatural
<1> QED
  BY <1>1

\* The step of a recursive definition of a function from D to B, as a function
\* itself: it uses values of lesser rank only.
Descends(step, rank, D, B) ==
    /\ rank \in [D -> Nat]
    /\ step \in [D -> [[D -> B] -> B]]
    /\ \A x \in D : \A f, g \in [D -> B] :
           (\A y \in D : rank[y] < rank[x] => f[y] = g[y]) => step[x][f] = step[x][g]

\* The function it defines.
Follows(f, step, D, B) == f \in [D -> B] /\ \A x \in D : f[x] = step[x][f]

LEMMA Recursion ==
  ASSUME NEW D, NEW B, B # {}, NEW rank, NEW step, Descends(step, rank, D, B)
  PROVE  \E f : Follows(f, step, D, B)
<1>0. /\ rank \in [D -> Nat] /\ step \in [D -> [[D -> B] -> B]]
      /\ \A x \in D : \A f, g \in [D -> B] :
             (\A y \in D : rank[y] < rank[x] => f[y] = g[y]) => step[x][f] = step[x][g]
  BY DEF Descends
<1> USE <1>0
<1> DEFINE Solves(f, n) == \A x \in D : rank[x] < n => f[x] = step[x][f]
<1> DEFINE Solved == {n \in Nat : \E f \in [D -> B] : Solves(f, n)}
<1>1. ASSUME NEW n \in Nat, \A m \in Nat : m < n => m \in Solved PROVE n \in Solved
  <2>1. CASE n = 0
    <3>1. PICK b \in B : TRUE
      OBVIOUS
    <3>2. [x \in D |-> b] \in [D -> B] /\ Solves([x \in D |-> b], 0)
      OBVIOUS
    <3> QED
      BY <2>1, <3>2
  <2>2. CASE n # 0
    <3>1. n - 1 \in Nat /\ n - 1 < n
      BY <2>2
    <3>2. PICK f \in [D -> B] : Solves(f, n - 1)
      BY <1>1, <3>1
    <3> DEFINE g == [x \in D |-> step[x][f]]
    <3>3. g \in [D -> B]
      OBVIOUS
    <3>4. ASSUME NEW x \in D, rank[x] < n PROVE g[x] = step[x][g]
      <4>1. \A y \in D : rank[y] < rank[x] => g[y] = f[y]
        BY <3>1, <3>2, <3>4
      <4> QED
        BY <3>3, <4>1
    <3> QED
      BY <3>3, <3>4
  <2> QED
    BY <2>1, <2>2
<1>2. \A n \in Nat : \E f \in [D -> B] : Solves(f, n)
  <2> HIDE DEF Solves
  <2>1. \A n \in Nat : (\A m \in Nat : m < n => m \in Solved) => n \in Solved
    BY <1>1
  <2> HIDE DEF Solved
  <2>2. Nat \subseteq Solved
    BY <2>1, Induction
  <2> QED
    BY <2>2 DEF Solved
<1>3. ASSUME NEW f \in [D -> B], NEW g \in [D -> B], NEW n \in Nat, Solves(f, n), Solves(g, n)
      PROVE  \A x \in D : rank[x] < n => f[x] = g[x]
  <2> DEFINE Same == {r \in Nat : \A x \in D : rank[x] = r /\ r < n => f[x] = g[x]}
  <2>1. ASSUME NEW r \in Nat, \A m \in Nat : m < r => m \in Same PROVE r \in Same
    <3> SUFFICES ASSUME NEW x \in D, rank[x] = r, r < n PROVE f[x] = g[x]
      OBVIOUS
    <3>1. \A y \in D : rank[y] < rank[x] => f[y] = g[y]
      BY <2>1
    <3>2. step[x][f] = step[x][g]
      BY <3>1
    <3> QED
      BY <1>3, <3>2
  <2> HIDE DEF Same
  <2>2. Nat \subseteq Same
    BY <2>1, Induction
  <2> QED
    BY <2>2 DEF Same
<1> DEFINE Upto(n) == CHOOSE f \in [D -> B] : Solves(f, n)
<1> DEFINE whole == [x \in D |-> Upto(rank[x] + 1)[x]]
<1>4. \A n \in Nat : Upto(n) \in [D -> B] /\ Solves(Upto(n), n)
  <2> HIDE DEF Solves
  <2> QED
    BY <1>2
<1>5. whole \in [D -> B]
  <2> HIDE DEF Upto
  <2> QED
    BY <1>4
<1>6. ASSUME NEW x \in D PROVE whole[x] = step[x][whole]
  <2> DEFINE u == Upto(rank[x] + 1)
  <2>1. u \in [D -> B] /\ Solves(u, rank[x] + 1) /\ rank[x] + 1 \in Nat
    <3>1. rank[x] + 1 \in Nat
      OBVIOUS
    <3> HIDE DEF Upto, Solves
    <3> QED
      BY <1>4, <3>1
  <2>2. ASSUME NEW y \in D, rank[y] < rank[x] PROVE whole[y] = u[y]
    <3> DEFINE w == Upto(rank[y] + 1)
    <3>1. /\ rank[y] + 1 \in Nat /\ rank[y] \in Nat /\ rank[x] \in Nat
          /\ rank[y] < rank[y] + 1 /\ rank[y] + 1 <= rank[x] + 1
      BY <2>2
    <3>2. w \in [D -> B] /\ Solves(w, rank[y] + 1)
      <4> HIDE DEF Upto, Solves
      <4> QED
        BY <1>4, <3>1
    <3>3. Solves(u, rank[y] + 1)
      <4> HIDE DEF u
      <4> QED
        BY <2>1, <3>1
    <3>4. whole[y] = w[y]
      <4> HIDE DEF Upto
      <4> QED
        OBVIOUS
    <3> HIDE DEF u, w, Solves, whole
    <3> QED
      BY <1>3, <2>1, <3>1, <3>2, <3>3, <3>4
  <2>3. whole[x] = u[x]
    <3> HIDE DEF Upto
    <3> QED
      OBVIOUS
  <2>4. u[x] = step[x][u]
    <3> HIDE DEF u
    <3> QED
      BY <2>1
  <2> HIDE DEF u, whole
  <2>5. step[x][u] = step[x][whole]
    BY <1>5, <2>1, <2>2
  <2> QED
    BY <2>3, <2>4, <2>5
<1> HIDE DEF whole
<1> QED
  BY <1>5, <1>6 DEF Follows
=============================================================================
