------------------------ MODULE HttpTransportProofs ------------------------
(***************************************************************************)
(* Proofs about HttpTransport and HttpRequests: what a browser sends is    *)
(* read as it was sent, and what is set in answer to it comes back.        *)
(***************************************************************************)
EXTENDS HttpTransport, FiniteSetTheorems, SequenceTheorems,
        WellFoundedInduction, TLAPS

-----------------------------------------------------------------------------
(* Sets of places in a sequence.                                           *)

\* Some numbers, one of them the least.
LEMMA LeastOfNat ==
  ASSUME NEW S, S \subseteq Nat, S # {}
  PROVE  \E m \in S : \A n \in S : m <= n
<1>1. PICK m \in S : \A n \in S : <<n, m>> \notin OpToRel(<, Nat)
  BY WFMin, NatLessThanWellFounded, Zenon
<1>2. \A n \in S : ~ (n < m)
  BY <1>1, Zenon DEF OpToRel
<1> QED
  BY <1>2

LEMMA MinIsLeast ==
  ASSUME NEW S, S \subseteq Nat, S # {}
  PROVE  Min(S) \in S /\ \A n \in S : Min(S) <= n
BY LeastOfNat DEF Min

LEMMA MaxIsGreatest ==
  ASSUME NEW n \in Nat, NEW S, S \subseteq 1 .. n, S # {}
  PROVE  Max(S) \in S /\ \A m \in S : m <= Max(S)
<1> DEFINE Rest == {n - m : m \in S}
<1>1. \A m \in S : n - m \in Nat
  OBVIOUS
<1>2. Rest \subseteq Nat /\ Rest # {}
  BY <1>1
<1>3. PICK r \in Rest : \A q \in Rest : r <= q
  BY <1>2, LeastOfNat
<1>4. PICK k \in S : r = n - k
  OBVIOUS
<1>5. \A m \in S : n - k <= n - m
  BY <1>3, <1>4
<1>6. \A m \in S : m <= k
  BY <1>5
<1> QED
  BY <1>6 DEF Max

\* How many of the places are not after i.
Rank(places, i) == Cardinality({j \in places : j <= i})

LEMMA RankFacts ==
  ASSUME NEW n \in Nat, NEW I, I \subseteq 1 .. n
  PROVE  /\ IsFiniteSet(I) /\ Cardinality(I) \in Nat
         /\ \A i \in I : Rank(I, i) \in 1 .. Cardinality(I)
         /\ \A i, k \in I : i < k => Rank(I, i) < Rank(I, k)
<1> DEFINE Upto(i) == {j \in I : j <= i}
<1>1. IsFiniteSet(I) /\ Cardinality(I) \in Nat
  <2>1. I \in SUBSET (1 .. n)
    OBVIOUS
  <2>2. IsFiniteSet(1 .. n)
    BY FS_Interval
  <2> QED
    BY <2>1, <2>2, FS_Subset, FS_CardinalityType
<1>2. ASSUME NEW i \in I
      PROVE  /\ IsFiniteSet(Upto(i)) /\ Cardinality(Upto(i)) \in Nat
             /\ Cardinality(Upto(i)) <= Cardinality(I)
  <2>1. Upto(i) \in SUBSET I
    OBVIOUS
  <2> QED
    BY <1>1, <2>1, FS_Subset, FS_CardinalityType
<1>3. ASSUME NEW i \in I, NEW k \in I, i < k
      PROVE  Cardinality(Upto(i)) < Cardinality(Upto(k))
  <2>1. Upto(i) \in SUBSET Upto(k) /\ k \in Upto(k) /\ k \notin Upto(i)
    <3>1. i \in Int /\ k \in Int /\ \A j \in I : j \in Int
      OBVIOUS
    <3>2. (\A j \in I : j <= i => j <= k) /\ k <= k /\ ~ (k <= i)
      BY <1>3, <3>1
    <3> QED
      BY <3>2
  <2>2. /\ IsFiniteSet(Upto(k)) /\ Cardinality(Upto(k)) \in Nat
        /\ Cardinality(Upto(i)) \in Nat
    BY <1>2
  <2> HIDE DEF Upto
  <2>3. /\ Cardinality(Upto(i)) <= Cardinality(Upto(k))
        /\ Cardinality(Upto(i)) # Cardinality(Upto(k))
    BY <2>1, <2>2, FS_Subset
  <2> QED
    BY <2>2, <2>3
<1>4. ASSUME NEW i \in I PROVE Cardinality(Upto(i)) \in 1 .. Cardinality(I)
  <2>1. Upto(i) # {}
    OBVIOUS
  <2>2. IsFiniteSet(Upto(i)) /\ Cardinality(Upto(i)) \in Nat
        /\ Cardinality(Upto(i)) <= Cardinality(I)
    BY <1>2
  <2> HIDE DEF Upto
  <2>3. Cardinality(Upto(i)) # 0
    BY <2>1, <2>2, FS_EmptySet
  <2> QED
    BY <1>1, <2>2, <2>3
<1> HIDE DEF Upto
<1>5. \A i : Rank(I, i) = Cardinality(Upto(i))
  BY DEF Rank, Upto
<1> QED
  BY <1>1, <1>3, <1>4, <1>5

\* Every place has a number of its own, and every number up to theirs is one.
LEMMA NthOfRank ==
  ASSUME NEW n \in Nat, NEW I, I \subseteq 1 .. n, NEW i \in I
  PROVE  Nth(I, Rank(I, i)) = i
<1>1. \A k \in I : Rank(I, k) = Rank(I, i) => k = i
  <2> SUFFICES ASSUME NEW k \in I, Rank(I, k) = Rank(I, i), k # i PROVE FALSE
    OBVIOUS
  <2>1. i < k \/ k < i
    OBVIOUS
  <2>2. /\ Cardinality(I) \in Nat
        /\ \A j \in I : Rank(I, j) \in 1 .. Cardinality(I)
        /\ \A j, l \in I : j < l => Rank(I, j) < Rank(I, l)
    BY RankFacts, Zenon
  <2>3. Rank(I, k) \in Nat /\ Rank(I, i) \in Nat
    BY <2>2
  <2> QED
    BY <2>1, <2>2, <2>3
<1>2. Nth(I, Rank(I, i)) = CHOOSE k \in I : Rank(I, k) = Rank(I, i)
  BY DEF Nth, Rank
<1> QED
  BY <1>1, <1>2

LEMMA RankOfNth ==
  ASSUME NEW n \in Nat, NEW I, I \subseteq 1 .. n, NEW k \in 1 .. Cardinality(I)
  PROVE  Nth(I, k) \in I /\ Rank(I, Nth(I, k)) = k
<1> DEFINE rank == [i \in I |-> Rank(I, i)]
           C == 1 .. Cardinality(I)
<1>1. IsFiniteSet(I) /\ Cardinality(I) \in Nat
  BY RankFacts
<1>2. IsFiniteSet(C) /\ Cardinality(C) = Cardinality(I)
  <2>1. IsFiniteSet(C)
        /\ Cardinality(C) = IF 1 > Cardinality(I) THEN 0
                            ELSE Cardinality(I) - 1 + 1
    BY <1>1, FS_Interval
  <2> QED
    BY <1>1, <2>1
<1>3. rank \in Injection(I, C)
  <2>1. rank \in [I -> C]
    BY RankFacts
  <2>2. ASSUME NEW a \in I, NEW b \in I, rank[a] = rank[b] PROVE a = b
    BY <2>2, NthOfRank
  <2> QED
    BY <2>1, <2>2 DEF Injection, IsInjective
<1>4. rank \in Surjection(I, C)
  BY <1>2, <1>3, FS_Injection
<1>5. PICK i \in I : rank[i] = k
  BY <1>4 DEF Surjection
<1>6. Rank(I, i) = k
  BY <1>5
<1> QED
  BY <1>6, NthOfRank

LEMMA PickedHasAll ==
  ASSUME NEW n \in Nat, NEW I, I \subseteq 1 .. n, NEW s, NEW i \in I
  PROVE  /\ Rank(I, i) \in 1 .. Cardinality(I)
         /\ Picked(s, I)[Rank(I, i)] = s[i]
<1>1. Rank(I, i) \in 1 .. Cardinality(I) /\ Nth(I, Rank(I, i)) = i
  BY RankFacts, NthOfRank
<1> QED
  BY <1>1 DEF Picked

LEMMA PickedIsSeq ==
  ASSUME NEW n \in Nat, NEW I, I \subseteq 1 .. n, NEW s, NEW T,
         \A i \in I : s[i] \in T
  PROVE  Picked(s, I) \in Seq(T) /\ Len(Picked(s, I)) = Cardinality(I)
<1>1. \A k \in 1 .. Cardinality(I) : Picked(s, I)[k] \in T
  <2> SUFFICES ASSUME NEW k \in 1 .. Cardinality(I)
               PROVE  Picked(s, I)[k] \in T
    OBVIOUS
  <2>1. Nth(I, k) \in I
    BY RankOfNth
  <2> QED
    BY <2>1 DEF Picked
<1>2. Cardinality(I) \in Nat /\ DOMAIN Picked(s, I) = 1 .. Cardinality(I)
  BY RankFacts DEF Picked
<1>3. Picked(s, I) = [k \in 1 .. Cardinality(I) |-> Picked(s, I)[k]]
  BY DEF Picked
<1> QED
  BY <1>1, <1>2, <1>3

\* The first places of a sequence are numbered as they are.
LEMMA PickedPrefix ==
  ASSUME NEW n \in Nat, NEW s
  PROVE  Picked(s, 1 .. n) = [k \in 1 .. n |-> s[k]]
<1>1. Cardinality(1 .. n) = n
  <2>1. Cardinality(1 .. n) = IF 1 > n THEN 0 ELSE n - 1 + 1
    BY FS_Interval
  <2> QED
    BY <2>1
<1>2. ASSUME NEW k \in 1 .. n PROVE Nth(1 .. n, k) = k
  <2>1. {j \in 1 .. n : j <= k} = 1 .. k
    OBVIOUS
  <2>2. Cardinality(1 .. k) = IF 1 > k THEN 0 ELSE k - 1 + 1
    BY FS_Interval
  <2>3. Rank(1 .. n, k) = k
    <3>1. Rank(1 .. n, k) = Cardinality(1 .. k)
      BY <2>1, Zenon DEF Rank
    <3>2. Cardinality(1 .. k) = k
      BY <2>2
    <3> QED
      BY <3>1, <3>2
  <2>4. Nth(1 .. n, Rank(1 .. n, k)) = k
    BY NthOfRank
  <2> QED
    BY <2>3, <2>4
<1> QED
  BY <1>1, <1>2 DEF Picked

\* The last of some places comes after the others.
LEMMA PickedLast ==
  ASSUME NEW n \in Nat, NEW I, I \subseteq 1 .. n, I # {}, NEW s,
         NEW T, \A i \in 1 .. n : s[i] \in T
  PROVE  Picked(s, I) = Append(Picked(s, I \ {Max(I)}), s[Max(I)])
<1> DEFINE m == Max(I)
           J == I \ {m}
           c == Cardinality(I)
<1>1. m \in I /\ \A i \in I : i <= m
  BY MaxIsGreatest
<1>2. /\ J \subseteq 1 .. n /\ IsFiniteSet(I)
      /\ c \in Nat /\ c # 0
      /\ \A i \in I : i \in Nat
  <2>1. IsFiniteSet(I) /\ c \in Nat
    BY RankFacts
  <2>2. c # 0
    BY <2>1, FS_EmptySet, Zenon
  <2>3. J \subseteq 1 .. n
    BY Zenon
  <2>4. \A i \in I : i \in Nat
    OBVIOUS
  <2> QED
    BY <2>1, <2>2, <2>3, <2>4
<1> HIDE DEF m
<1>3. Cardinality(J) = c - 1
  <2>1. Cardinality(J) = IF m \in I THEN c - 1 ELSE c
    BY <1>2, FS_RemoveElement
  <2> QED
    BY <1>1, <2>1
<1>4. Nth(I, c) = m
  <2>1. {j \in I : j <= m} = I
    BY <1>1
  <2>2. Rank(I, m) = c
    BY <2>1 DEF Rank
  <2> QED
    BY <1>1, <2>2, NthOfRank
<1> HIDE DEF J, c
<1>5. ASSUME NEW k \in 1 .. c - 1 PROVE Nth(I, k) = Nth(J, k)
  <2> DEFINE i == Nth(J, k)
  <2>1. i \in J /\ Rank(J, i) = k
    BY <1>2, <1>3, RankOfNth
  <2> HIDE DEF i
  <2>2. i \in I /\ i # m /\ i <= m /\ i \in Nat /\ m \in Nat
    BY <1>1, <1>2, <2>1 DEF J
  <2>3. {j \in I : j <= i} = {j \in J : j <= i}
    BY <1>1, <2>2 DEF J
  <2>4. Rank(I, i) = k
    BY <2>1, <2>3 DEF Rank
  <2> QED
    BY <2>2, <2>4, NthOfRank DEF i
<1>6. /\ Picked(s, J) \in Seq(T) /\ Len(Picked(s, J)) = c - 1
      /\ Picked(s, I) \in Seq(T) /\ Len(Picked(s, I)) = c
  <2>1. (\A i \in J : s[i] \in T) /\ (\A i \in I : s[i] \in T)
    BY DEF J
  <2> QED
    BY <1>2, <1>3, <2>1, PickedIsSeq DEF c
<1>7. \A k \in 1 .. c - 1 : Picked(s, I)[k] = Picked(s, J)[k]
  BY <1>2, <1>3, <1>5 DEF Picked, c
<1>8. Picked(s, I)[c] = s[m]
  BY <1>2, <1>4 DEF Picked, c
<1>9. s[m] \in T
  BY <1>1
<1> DEFINE a == Picked(s, I)
           b == Picked(s, J)
<1>10. a = Append(b, s[m])
  <2> HIDE DEF a, b
  <2>1. a \in Seq(T) /\ b \in Seq(T) /\ Len(a) = c /\ Len(b) = c - 1 /\ c \in Nat
    BY <1>2, <1>6 DEF a, b
  <2>2. (\A k \in 1 .. c - 1 : a[k] = b[k]) /\ a[c] = s[m]
    BY <1>7, <1>8 DEF a, b
  <2>3. /\ Append(b, s[m]) \in Seq(T) /\ Len(Append(b, s[m])) = c
        /\ \A k \in 1 .. c : Append(b, s[m])[k] = a[k]
    BY <1>9, <2>1, <2>2
  <2> QED
    BY <2>1, <2>3, SeqEqual
<1> QED
  BY <1>10 DEF m, J

\* What is appended one by one is there in the end, in its order.
LEMMA AppendedOneByOne ==
  ASSUME NEW T, NEW s \in Seq(T)
  PROVE  FoldLeft(Appended, <<>>, s) = s
<1> DEFINE D == DOMAIN s
           n == Len(s)
           Eq(f) == f = [p \in SUBSET D |->
                           IF p = {} THEN <<>>
                           ELSE Append(f[p \ {Max(p)}], s[Max(p)])]
           iter == CHOOSE f : Eq(f)
           g == [p \in SUBSET D |-> Picked(s, p)]
<1>1. FoldLeft(Appended, <<>>, s) = iter[D]
  BY DEF FoldLeft, MapThenFoldSet, Appended
<1>2. n \in Nat /\ D = 1 .. n /\ \A i \in 1 .. n : s[i] \in T
  BY LenProperties, ElementOfSeq
<1> HIDE DEF n, D
<1>3. Eq(g)
  <2>1. ASSUME NEW p \in SUBSET D
        PROVE  g[p] = IF p = {} THEN <<>>
                      ELSE Append(g[p \ {Max(p)}], s[Max(p)])
    <3>1. CASE p = {}
      <4>1. Cardinality({}) = 0
        BY FS_EmptySet
      <4>2. Picked(s, {}) \in Seq(T) /\ Len(Picked(s, {})) = 0
        BY <1>2, <4>1, PickedIsSeq
      <4>3. Picked(s, {}) = <<>>
        BY <4>2, EmptySeq
      <4> QED
        BY <3>1, <4>3
    <3>2. CASE p # {}
      <4>1. Picked(s, p) = Append(Picked(s, p \ {Max(p)}), s[Max(p)])
        BY <1>2, <3>2, PickedLast
      <4>2. p \ {Max(p)} \in SUBSET D
        OBVIOUS
      <4> QED
        BY <3>2, <4>1, <4>2
    <3> QED
      BY <3>1, <3>2
  <2> QED
    BY <2>1
<1> HIDE DEF g
<1>4. Eq(iter)
  BY <1>3
<1> HIDE DEF iter
<1>5. /\ iter[{}] = <<>>
      /\ \A k \in 1 .. n : iter[1 .. k] = Append(iter[1 .. k - 1], s[k])
  <2>1. \A p \in SUBSET D : iter[p] = IF p = {} THEN <<>>
                             ELSE Append(iter[p \ {Max(p)}], s[Max(p)])
    BY <1>4
  <2>2. ASSUME NEW k \in 1 .. n
        PROVE  iter[1 .. k] = Append(iter[1 .. k - 1], s[k])
    <3>1. k \in Nat /\ 1 <= k /\ k <= n /\ 1 .. k # {}
      <4>1. k \in Nat /\ 1 <= k /\ k <= n
        BY <1>2
      <4>2. 1 \in 1 .. k
        BY <4>1
      <4> QED
        BY <4>1, <4>2
    <3>2. 1 .. k \in SUBSET D
      <4>1. \A i \in 1 .. k : i \in 1 .. n
        BY <1>2, <3>1
      <4> QED
        BY <1>2, <4>1
    <3>3. Max(1 .. k) = k
      <4>1. k \in 1 .. k
        BY <3>1
      <4>2. Max(1 .. k) \in 1 .. k /\ k <= Max(1 .. k)
        BY <3>1, <4>1, MaxIsGreatest
      <4> QED
        BY <3>1, <4>2
    <3>4. (1 .. k) \ {k} = 1 .. k - 1
      BY <1>2
    <3> QED
      BY <2>1, <3>1, <3>2, <3>3, <3>4
  <2> QED
    BY <2>1, <2>2
<1> HIDE DEF Eq
<1> DEFINE Wrong == {k \in 0 .. n : iter[1 .. k] # SubSeq(s, 1, k)}
<1>6. Wrong = {}
  <2> SUFFICES ASSUME Wrong # {} PROVE FALSE
    OBVIOUS
  <2>1. Wrong \subseteq Nat
    BY <1>2
  <2>2. PICK k \in Wrong : \A l \in Wrong : k <= l
    BY <2>1, LeastOfNat
  <2>3. k \in 0 .. n /\ iter[1 .. k] # SubSeq(s, 1, k)
    OBVIOUS
  <2>4. CASE k = 0
    <3>1. 1 .. 0 = {} /\ SubSeq(s, 1, 0) = <<>>
      BY SubSeqEmpty
    <3> QED
      BY <1>5, <2>3, <2>4, <3>1
  <2>5. CASE k # 0
    <3>1. k \in 1 .. n /\ k - 1 \in 0 .. n /\ ~ (k <= k - 1)
      BY <1>2, <2>3, <2>5
    <3>2. iter[1 .. k - 1] = SubSeq(s, 1, k - 1)
      BY <2>2, <3>1
    <3>3. Append(SubSeq(s, 1, k - 1), s[k]) = SubSeq(s, 1, k)
      <4> DEFINE a == Append(SubSeq(s, 1, k - 1), s[k])
                 b == SubSeq(s, 1, k)
      <4>1. /\ b \in Seq(T) /\ Len(b) = k
            /\ \A i \in 1 .. k : b[i] = s[i]
        BY <1>2, <3>1, SubSeqProperties
      <4>2. /\ SubSeq(s, 1, k - 1) \in Seq(T) /\ Len(SubSeq(s, 1, k - 1)) = k - 1
            /\ \A i \in 1 .. k - 1 : SubSeq(s, 1, k - 1)[i] = s[i]
        BY <1>2, <3>1, SubSeqProperties
      <4>3. a \in Seq(T) /\ Len(a) = k /\ \A i \in 1 .. k : a[i] = s[i]
        BY <1>2, <3>1, <4>2
      <4> HIDE DEF a, b
      <4>4. a = b
        BY <4>1, <4>3, SeqEqual
      <4> QED
        BY <4>4 DEF a, b
    <3> QED
      BY <1>5, <2>3, <3>1, <3>2, <3>3
  <2> QED
    BY <2>4, <2>5
<1>7. iter[1 .. n] = SubSeq(s, 1, n)
  BY <1>2, <1>6
<1>8. SubSeq(s, 1, n) = s
  BY <1>2 DEF n
<1> QED
  BY <1>1, <1>2, <1>7, <1>8

-----------------------------------------------------------------------------
(* Cookies.                                                                *)

\* The last of some cookies that have one of these names.
LEMMA LastGivenOf ==
  ASSUME NEW T, NEW s \in Seq(T), NEW names,
         \E i \in DOMAIN s : s[i].name \in names
  PROVE  \E i \in DOMAIN s :
           /\ s[i].name \in names /\ LastCookie(s, names) = s[i].value
           /\ \A j \in DOMAIN s : s[j].name \in names => j <= i
<1> DEFINE those == {i \in DOMAIN s : s[i].name \in names}
<1>1. Len(s) \in Nat /\ DOMAIN s = 1 .. Len(s)
  BY LenProperties
<1>2. those \subseteq 1 .. Len(s) /\ those # {}
  BY <1>1
<1>3. LastCookie(s, names) = s[Max(those)].value
  BY <1>2 DEF LastCookie
<1> HIDE DEF those
<1>4. Max(those) \in those /\ \A j \in those : j <= Max(those)
  BY <1>1, <1>2, MaxIsGreatest
<1> QED
  BY <1>3, <1>4 DEF those

LEMMA LastGiven ==
  ASSUME NEW T, NEW s \in Seq(T), NEW name, \E i \in DOMAIN s : s[i].name = name
  PROVE  \E i \in DOMAIN s :
           /\ s[i].name = name /\ LastCookie(s, {name}) = s[i].value
           /\ \A j \in DOMAIN s : s[j].name = name => j <= i
<1> DEFINE names == {name}
<1>1. \A i \in DOMAIN s : s[i].name \in names <=> s[i].name = name
  OBVIOUS
<1> HIDE DEF names
<1>2. PICK i \in DOMAIN s :
        /\ s[i].name \in names /\ LastCookie(s, names) = s[i].value
        /\ \A j \in DOMAIN s : s[j].name \in names => j <= i
  BY <1>1, LastGivenOf
<1> QED
  BY <1>1, <1>2 DEF names

LEMMA LastIs ==
  ASSUME NEW T, NEW s \in Seq(T), NEW i \in DOMAIN s,
         \A j \in DOMAIN s : s[j].name = s[i].name => j <= i
  PROVE  LastCookie(s, {s[i].name}) = s[i].value
<1>1. PICK k \in DOMAIN s :
        /\ s[k].name = s[i].name /\ LastCookie(s, {s[i].name}) = s[k].value
        /\ \A j \in DOMAIN s : s[j].name = s[i].name => j <= k
  BY LastGiven
<1>2. k <= i /\ i <= k /\ i \in Int /\ k \in Int
  BY <1>1, LenProperties
<1>3. k = i
  BY <1>2
<1> QED
  BY <1>1, <1>3

\* A name that no cookie has.
LEMMA LastOfNone ==
  ASSUME NEW s, NEW name, \A i \in DOMAIN s : s[i].name # name
  PROVE  LastCookie(s, {name}) = None
<1>1. {i \in DOMAIN s : s[i].name \in {name}} = {}
  OBVIOUS
<1> QED
  BY <1>1 DEF LastCookie

LEMMA FirstGiven ==
  ASSUME NEW T, NEW s \in Seq(T), NEW names
  PROVE  \/ /\ FirstCookie(s, names) = None
            /\ \A i \in DOMAIN s : s[i].name \notin names
         \/ \E i \in DOMAIN s :
              s[i].name \in names /\ FirstCookie(s, names) = s[i].value
<1> DEFINE those == {i \in DOMAIN s : s[i].name \in names}
<1>1. Len(s) \in Nat /\ DOMAIN s = 1 .. Len(s)
  BY LenProperties
<1>2. CASE those = {}
  BY <1>2 DEF FirstCookie
<1>3. CASE those # {}
  <2>1. those \subseteq Nat
    BY <1>1
  <2>2. FirstCookie(s, names) = s[Min(those)].value
    BY <1>3 DEF FirstCookie
  <2> HIDE DEF those
  <2>3. Min(those) \in those
    BY <1>3, <2>1, MinIsLeast
  <2> QED
    BY <2>2, <2>3 DEF those
<1> QED
  BY <1>2, <1>3

LEMMA ConcatPlaces ==
  ASSUME NEW T, NEW s \in Seq(T), NEW t \in Seq(T)
  PROVE  /\ s \o t \in Seq(T) /\ Len(s) \in Nat /\ Len(t) \in Nat
         /\ DOMAIN s = 1 .. Len(s) /\ DOMAIN t = 1 .. Len(t)
         /\ DOMAIN (s \o t) = 1 .. Len(s) + Len(t)
         /\ \A i \in DOMAIN s : (s \o t)[i] = s[i] /\ i \in DOMAIN (s \o t)
         /\ \A i \in DOMAIN t : /\ (s \o t)[Len(s) + i] = t[i]
                                /\ Len(s) + i \in DOMAIN (s \o t)
         /\ \A k \in DOMAIN (s \o t) :
              \/ k \in DOMAIN s /\ (s \o t)[k] = s[k]
              \/ k - Len(s) \in DOMAIN t /\ (s \o t)[k] = t[k - Len(s)]
<1>1. /\ s \o t \in Seq(T) /\ Len(s \o t) = Len(s) + Len(t)
      /\ Len(s) \in Nat /\ Len(t) \in Nat
      /\ DOMAIN s = 1 .. Len(s) /\ DOMAIN t = 1 .. Len(t)
      /\ DOMAIN (s \o t) = 1 .. Len(s \o t)
  BY ConcatProperties, LenProperties
<1>2. \A i \in 1 .. Len(s) + Len(t) :
        (s \o t)[i] = IF i <= Len(s) THEN s[i] ELSE t[i - Len(s)]
  BY ConcatProperties
<1> DEFINE u == s \o t
           m == Len(s)
           n == Len(t)
<1> HIDE DEF u, m, n
<1>3. /\ m \in Nat /\ n \in Nat /\ DOMAIN s = 1 .. m /\ DOMAIN t = 1 .. n
      /\ DOMAIN u = 1 .. m + n
      /\ \A i \in 1 .. m + n : u[i] = IF i <= m THEN s[i] ELSE t[i - m]
  BY <1>1, <1>2 DEF u, m, n
<1>4. \A i \in 1 .. m : u[i] = s[i] /\ i \in 1 .. m + n
  BY <1>3
<1>5. ASSUME NEW i \in 1 .. n PROVE u[m + i] = t[i] /\ m + i \in 1 .. m + n
  <2>1. m + i \in 1 .. m + n /\ ~ (m + i <= m) /\ (m + i) - m = i
    BY <1>3
  <2> QED
    BY <1>3, <2>1
<1>6. ASSUME NEW k \in 1 .. m + n
      PROVE  \/ k \in 1 .. m /\ u[k] = s[k]
             \/ k - m \in 1 .. n /\ u[k] = t[k - m]
  BY <1>3
<1> QED
  BY <1>1, <1>3, <1>4, <1>5, <1>6 DEF u, m, n

\* What was set later counts.
LEMMA KeepingLater ==
  ASSUME NEW T, NEW s \in Seq(T), NEW t \in Seq(T), NEW had,
         NEW name \in DOMAIN had,
         \/ \E i \in DOMAIN t : t[i].name = name
         \/ \A i \in DOMAIN s : s[i].name # name
  PROVE  Keeping(had, s \o t)[name] = Keeping(had, t)[name]
<1> DEFINE u == s \o t
<1> HIDE DEF u
<1>1. u \in Seq(T) /\ Len(s) \in Nat /\ DOMAIN s = 1 .. Len(s)
      /\ DOMAIN t = 1 .. Len(t) /\ Len(t) \in Nat
      /\ DOMAIN u = 1 .. Len(s) + Len(t)
  BY ConcatPlaces DEF u
<1>2. /\ \A i \in DOMAIN t : u[Len(s) + i] = t[i] /\ Len(s) + i \in DOMAIN u
      /\ \A k \in DOMAIN u : \/ k \in DOMAIN s /\ u[k] = s[k]
                             \/ k - Len(s) \in DOMAIN t /\ u[k] = t[k - Len(s)]
  BY ConcatPlaces DEF u
<1>3. CASE \E i \in DOMAIN t : t[i].name = name
  <2>1. PICK i \in DOMAIN t :
          /\ t[i].name = name /\ LastCookie(t, {name}) = t[i].value
          /\ \A j \in DOMAIN t : t[j].name = name => j <= i
    BY <1>3, LastGiven
  <2> DEFINE m == Len(s) + i
  <2>2. m \in DOMAIN u /\ u[m] = t[i]
    BY <1>2
  <2>3. ASSUME NEW k \in DOMAIN u, u[k].name = name PROVE k <= m
    <3>1. CASE k \in DOMAIN s
      BY <1>1, <3>1
    <3>2. CASE k - Len(s) \in DOMAIN t /\ u[k] = t[k - Len(s)]
      <4>1. k - Len(s) <= i /\ k \in Int /\ i \in Int
        BY <1>1, <2>1, <2>3, <3>2
      <4> QED
        BY <1>1, <4>1
    <3> QED
      BY <1>2, <3>1, <3>2
  <2> HIDE DEF m
  <2>4. LastCookie(u, {name}) = t[i].value
    BY <1>1, <2>1, <2>2, <2>3, LastIs
  <2> QED
    BY <1>3, <2>1, <2>2, <2>4 DEF Keeping, u
<1>4. CASE ~ \E i \in DOMAIN t : t[i].name = name
  <2>1. \A k \in DOMAIN u : u[k].name # name
    BY <1>2, <1>4
  <2> QED
    BY <1>4, <2>1 DEF Keeping, u
<1> QED
  BY <1>3, <1>4

\* What has another name does not.
LEMMA KeepingEarlier ==
  ASSUME NEW T, NEW s \in Seq(T), NEW t \in Seq(T), NEW had,
         NEW name \in DOMAIN had, \A i \in DOMAIN t : t[i].name # name
  PROVE  Keeping(had, s \o t)[name] = Keeping(had, s)[name]
<1> DEFINE u == s \o t
<1> HIDE DEF u
<1>1. u \in Seq(T) /\ DOMAIN s = 1 .. Len(s)
      /\ DOMAIN t = 1 .. Len(t) /\ Len(t) \in Nat /\ Len(s) \in Nat
  BY ConcatPlaces DEF u
<1>2. /\ \A i \in DOMAIN s : u[i] = s[i] /\ i \in DOMAIN u
      /\ \A k \in DOMAIN u : \/ k \in DOMAIN s /\ u[k] = s[k]
                             \/ k - Len(s) \in DOMAIN t /\ u[k] = t[k - Len(s)]
  BY ConcatPlaces DEF u
<1>3. CASE \E i \in DOMAIN s : s[i].name = name
  <2>1. PICK i \in DOMAIN s :
          /\ s[i].name = name /\ LastCookie(s, {name}) = s[i].value
          /\ \A j \in DOMAIN s : s[j].name = name => j <= i
    BY <1>3, LastGiven
  <2>2. i \in DOMAIN u /\ u[i] = s[i]
    BY <1>2
  <2>3. \A k \in DOMAIN u : u[k].name = name => k <= i
    BY <1>2, <2>1
  <2>4. LastCookie(u, {name}) = s[i].value
    BY <1>1, <2>1, <2>2, <2>3, LastIs
  <2> QED
    BY <1>3, <2>1, <2>2, <2>4 DEF Keeping, u
<1>4. CASE ~ \E i \in DOMAIN s : s[i].name = name
  <2>1. \A k \in DOMAIN u : u[k].name # name
    BY <1>2, <1>4
  <2> QED
    BY <1>4, <2>1 DEF Keeping, u
<1> QED
  BY <1>3, <1>4

-----------------------------------------------------------------------------
(* The cookies of the browser and of the authentication client.            *)

\* The pieces of the application's own sessions: their indexes are their places,
\* and there are no more of other sessions.
LEMMA OwnPieces ==
  /\ Len(PieceNames) \in Nat /\ DOMAIN PieceNames = 1 .. Len(PieceNames)
  /\ PieceNames \in Seq(Range(PieceNames)) /\ IsInjective(PieceNames)
  /\ Range(PieceOf) = 1 .. Len(PieceNames)
  /\ Range(PieceNames) \subseteq DOMAIN PieceOf
  /\ WholeName \in WholeNames /\ WholeName \notin DOMAIN PieceOf
<1>1. PieceNames \in Seq(DOMAIN PieceOf)
  BY TransportAssumption
<1>2. /\ Len(PieceNames) \in Nat /\ DOMAIN PieceNames = 1 .. Len(PieceNames)
      /\ \A i \in DOMAIN PieceNames : PieceNames[i] \in DOMAIN PieceOf
  BY <1>1, LenProperties, ElementOfSeq
<1>3. Range(PieceNames) \subseteq DOMAIN PieceOf
  BY <1>2 DEF Range
<1>4. PieceNames \in Seq(Range(PieceNames))
  <2>1. \A i \in 1 .. Len(PieceNames) : PieceNames[i] \in Range(PieceNames)
    BY <1>2 DEF Range
  <2>2. PieceNames = [i \in 1 .. Len(PieceNames) |-> PieceNames[i]]
    BY <1>1, LenProperties
  <2> QED
    BY <1>2, <2>1, <2>2
<1>5. IsInjective(PieceNames)
  BY TransportAssumption DEF IsInjective
<1> QED
  BY <1>2, <1>3, <1>4, <1>5, RequestsAssumption, TransportAssumption

\* The header lists every name.
LEMMA NamesListed ==
  ASSUME NEW names, names \in {AllNames, Reverse(AllNames)}
  PROVE  /\ names \in Seq(Names)
         /\ \A x \in Names : \E i \in DOMAIN names : names[i] = x
<1> DEFINE s == <<WholeName, CsrfName, Theme>>
           t == PieceNames
           w == Foreigners
           v == s \o t
           u == AllNames
<1>1. PieceNames \in Seq(Range(PieceNames)) /\ Foreigners \in Seq(Foreign)
  BY OwnPieces, TransportAssumption
<1>2. s \in Seq(Names) /\ t \in Seq(Names) /\ w \in Seq(Names)
  <2>1. WholeName \in Names /\ CsrfName \in Names /\ Theme \in Names
    BY DEF Names, SessionCookies
  <2>2. Range(PieceNames) \subseteq Names /\ Foreign \subseteq Names
    BY DEF Names, SessionCookies
  <2>3. t \in Seq(Names) /\ w \in Seq(Names)
    BY <1>1, <2>2, SeqMonotonic
  <2> QED
    BY <2>1, <2>3
<1>3. /\ Len(s) = 3 /\ DOMAIN s = 1 .. 3
      /\ s[1] = WholeName /\ s[2] = CsrfName /\ s[3] = Theme
  OBVIOUS
<1>4. u = v \o w
  BY DEF AllNames
<1> HIDE DEF s, t, w, u
<1>a. /\ v \in Seq(Names)
      /\ \A i \in DOMAIN s : v[i] = s[i] /\ i \in DOMAIN v
      /\ \A i \in DOMAIN t : v[Len(s) + i] = t[i] /\ Len(s) + i \in DOMAIN v
  BY <1>2, ConcatPlaces
<1> HIDE DEF v
<1>5. /\ u \in Seq(Names)
      /\ \A i \in DOMAIN v : u[i] = v[i] /\ i \in DOMAIN u
      /\ \A i \in DOMAIN w : u[Len(v) + i] = w[i] /\ Len(v) + i \in DOMAIN u
  BY <1>2, <1>4, <1>a, ConcatPlaces
<1>6. \A x \in Names : \E i \in DOMAIN u : u[i] = x
  <2> SUFFICES ASSUME NEW x \in Names PROVE \E i \in DOMAIN u : u[i] = x
    OBVIOUS
  <2>1. CASE x \in Range(PieceNames)
    <3>1. PICK i \in DOMAIN t : t[i] = x
      BY <2>1 DEF Range, t
    <3> QED
      BY <1>a, <1>5, <3>1
  <2>2. CASE x \in {WholeName, CsrfName, Theme}
    <3>1. \E i \in DOMAIN s : s[i] = x
      BY <1>3, <2>2
    <3> QED
      BY <1>a, <1>5, <3>1
  <2>3. CASE x \in Foreign
    <3>1. PICK i \in DOMAIN w : w[i] = x
      BY <2>3, TransportAssumption DEF Range, w
    <3> QED
      BY <1>5, <3>1
  <2> QED
    BY <2>1, <2>2, <2>3 DEF Names, SessionCookies
<1>7. Len(u) \in Nat /\ DOMAIN u = 1 .. Len(u)
  BY <1>5, LenProperties
<1> DEFINE r == Reverse(u)
<1>8. /\ r \in Seq(Names)
      /\ \A x \in Names : \E i \in DOMAIN r : r[i] = x
  <2>1. /\ DOMAIN r = 1 .. Len(u)
        /\ \A i \in 1 .. Len(u) : r[i] = u[(Len(u) - i) + 1]
    BY DEF Reverse
  <2>2. \A i \in 1 .. Len(u) : (Len(u) - i) + 1 \in 1 .. Len(u)
                               /\ (Len(u) - ((Len(u) - i) + 1)) + 1 = i
    BY <1>7
  <2>3. r = [i \in 1 .. Len(u) |-> r[i]]
    BY DEF Reverse
  <2>4. \A i \in 1 .. Len(u) : r[i] \in Names
    BY <1>5, <1>7, <2>1, <2>2, ElementOfSeq
  <2>5. r \in Seq(Names)
    BY <1>7, <2>3, <2>4
  <2>6. ASSUME NEW x \in Names PROVE \E i \in DOMAIN r : r[i] = x
    <3>1. PICK i \in 1 .. Len(u) : u[i] = x
      BY <1>6, <1>7
    <3> DEFINE k == (Len(u) - i) + 1
    <3>2. k \in 1 .. Len(u) /\ (Len(u) - k) + 1 = i
      BY <2>2
    <3> HIDE DEF k
    <3>3. r[k] = x
      BY <2>1, <3>1, <3>2
    <3> QED
      BY <2>1, <3>2, <3>3
  <2> QED
    BY <2>5, <2>6
<1> QED
  BY <1>5, <1>6, <1>8 DEF u

\* The cookies of a browser, as a set.
Had(had) == {[name |-> x, value |-> had[x]] : x \in {y \in Names : had[y] # None}}

LEMMA ListedFacts ==
  ASSUME NEW had, NEW names, names \in {AllNames, Reverse(AllNames)}
  PROVE  /\ Listed(had, names) \in Seq(Had(had))
         /\ \A x \in Names : had[x] # None =>
              \E i \in DOMAIN Listed(had, names) :
                Listed(had, names)[i] = [name |-> x, value |-> had[x]]
<1> DEFINE all == [i \in DOMAIN names |-> [name |-> names[i], value |-> had[names[i]]]]
           I == {i \in DOMAIN all : all[i].value # None}
           s == Picked(all, I)
           n == Len(names)
<1>1. /\ names \in Seq(Names) /\ n \in Nat /\ DOMAIN names = 1 .. n
      /\ \A i \in DOMAIN names : names[i] \in Names
      /\ \A x \in Names : \E i \in DOMAIN names : names[i] = x
  <2>1. names \in Seq(Names) /\ \A x \in Names : \E i \in DOMAIN names : names[i] = x
    BY NamesListed
  <2> QED
    BY <2>1, LenProperties, ElementOfSeq
<1>2. Listed(had, names) = s
  BY DEF Listed
<1>3. \A i \in DOMAIN names : all[i] = [name |-> names[i], value |-> had[names[i]]]
  OBVIOUS
<1>4. DOMAIN all = DOMAIN names
  OBVIOUS
<1> HIDE DEF all, n
<1>5. I \subseteq 1 .. n
  BY <1>1, <1>4
<1>6. \A i \in I : all[i] \in Had(had)
  BY <1>1, <1>3, <1>4 DEF Had
<1>7. s \in Seq(Had(had)) /\ Len(s) = Cardinality(I)
  BY <1>1, <1>5, <1>6, PickedIsSeq
<1>8. DOMAIN s = 1 .. Cardinality(I)
  BY <1>7, LenProperties
<1>9. ASSUME NEW i \in I
      PROVE  Rank(I, i) \in 1 .. Cardinality(I) /\ s[Rank(I, i)] = all[i]
  <2>1. n \in Nat /\ I \subseteq 1 .. n
    BY <1>1, <1>5
  <2> HIDE DEF I
  <2> QED
    BY <2>1, PickedHasAll
<1>10. ASSUME NEW x \in Names, had[x] # None
       PROVE  \E k \in DOMAIN s : s[k] = [name |-> x, value |-> had[x]]
  <2>1. PICK i \in DOMAIN names : names[i] = x
    BY <1>1
  <2>2. all[i] = [name |-> x, value |-> had[x]] /\ i \in I
    BY <1>3, <1>4, <1>10, <2>1
  <2> HIDE DEF I, s
  <2> QED
    BY <1>8, <1>9, <2>2
<1> QED
  BY <1>2, <1>7, <1>10

\* Whatever the order of the header: a name has the value it has for the browser.
LEMMA ListedLast ==
  ASSUME NEW had, NEW names, names \in {AllNames, Reverse(AllNames)},
         NEW x \in Names
  PROVE  LastCookie(Listed(had, names), {x}) = had[x]
<1> DEFINE s == Listed(had, names)
<1>1. /\ s \in Seq(Had(had))
      /\ had[x] # None => \E i \in DOMAIN s : s[i] = [name |-> x, value |-> had[x]]
  BY ListedFacts
<1>2. \A i \in DOMAIN s : s[i] \in Had(had)
  BY <1>1, LenProperties, ElementOfSeq
<1> HIDE DEF s
<1>3. \A i \in DOMAIN s : s[i].name = x => s[i].value = had[x] /\ had[x] # None
  BY <1>2 DEF Had
<1>4. CASE \E i \in DOMAIN s : s[i].name = x
  <2>1. PICK i \in DOMAIN s :
          /\ s[i].name = x /\ LastCookie(s, {x}) = s[i].value
          /\ \A j \in DOMAIN s : s[j].name = x => j <= i
    <3>1. s \in Seq(Had(had))
      BY <1>1
    <3> QED
      BY <1>4, <3>1, LastGiven
  <2> QED
    BY <1>3, <2>1 DEF s
<1>5. CASE ~ \E i \in DOMAIN s : s[i].name = x
  <2>1. had[x] = None
    BY <1>1, <1>5
  <2>2. LastCookie(s, {x}) = None
    BY <1>5, LastOfNone
  <2> QED
    BY <2>1, <2>2 DEF s
<1> QED
  BY <1>4, <1>5


\* The cookies a session is kept in: each has a name of its own.
LEMMA KeptFacts ==
  ASSUME NEW token \in Sessions, NEW n \in 1 .. Len(PieceNames)
  PROVE  /\ Kept(token, n) \in Seq([name : SessionCookies, value : SessionValues])
         /\ DOMAIN Kept(token, n) = 1 .. n
         /\ \A i \in 1 .. n :
              /\ Kept(token, n)[i].value = [token |-> token, piece |-> i, of |-> n]
              /\ Kept(token, n)[i].name =
                   IF n = 1 THEN WholeName ELSE PieceNames[i]
         /\ \A i, j \in 1 .. n :
              Kept(token, n)[i].name = Kept(token, n)[j].name => i = j
<1> DEFINE Value(i) == [token |-> token, piece |-> i, of |-> n]
           Name(i) == IF n = 1 THEN WholeName ELSE PieceNames[i]
           kept == Kept(token, n)
           T == [name : SessionCookies, value : SessionValues]
<1>1. /\ Len(PieceNames) \in Nat /\ DOMAIN PieceNames = 1 .. Len(PieceNames)
      /\ IsInjective(PieceNames)
  BY OwnPieces
<1>2. n \in Nat /\ 1 \in 1 .. n /\ \A i \in 1 .. n : i \in 1 .. Len(PieceNames)
  BY <1>1
<1>3. \A i \in 1 .. n : Value(i) \in SessionValues
  BY <1>1, <1>2 DEF SessionValues
<1>4. \A i \in 1 .. n : Name(i) \in SessionCookies
  BY <1>1, <1>2 DEF SessionCookies, Range
<1>5. kept = [i \in 1 .. n |-> [name |-> Name(i), value |-> Value(i)]]
  <2>1. CASE n = 1
    <3>1. kept = <<[name |-> WholeName, value |-> Value(1)]>>
      BY <2>1 DEF Kept
    <3> DEFINE w == [name |-> WholeName, value |-> Value(1)]
    <3> HIDE DEF w
    <3>2. <<w>> = [i \in 1 .. 1 |-> w]
      OBVIOUS
    <3>3. \A i \in 1 .. 1 : [name |-> Name(i), value |-> Value(i)] = w
      BY <2>1 DEF w
    <3> QED
      BY <2>1, <3>1, <3>2, <3>3 DEF w
  <2>2. CASE n # 1
    BY <2>2 DEF Kept
  <2> QED
    BY <2>1, <2>2
<1>6. ASSUME NEW i \in 1 .. n, NEW j \in 1 .. n, Name(i) = Name(j) PROVE i = j
  <2>1. CASE n = 1
    BY <2>1
  <2>2. CASE n # 1
    BY <1>1, <1>2, <1>6, <2>2 DEF IsInjective
  <2> QED
    BY <2>1, <2>2
<1> HIDE DEF Name, Value, kept
<1>7. /\ DOMAIN kept = 1 .. n
      /\ \A i \in 1 .. n : kept[i] = [name |-> Name(i), value |-> Value(i)]
  BY <1>5
<1>8. \A i \in 1 .. n : kept[i] \in T
  BY <1>3, <1>4, <1>7
<1>9. kept \in Seq(T)
  <2>1. kept = [i \in 1 .. n |-> kept[i]]
    BY <1>5
  <2> HIDE DEF T
  <2> QED
    BY <1>2, <1>8, <2>1
<1>10. \A i \in 1 .. n : kept[i].name = Name(i) /\ kept[i].value = Value(i)
  BY <1>7
<1>11. \A i, j \in 1 .. n : kept[i].name = kept[j].name => i = j
  BY <1>6, <1>10
<1> QED
  BY <1>7, <1>9, <1>10, <1>11 DEF Name, Value, kept

\* The value of a cookie that keeps a session.
LEMMA KeptValue ==
  ASSUME NEW token \in Sessions, NEW n \in 1 .. Len(PieceNames),
         NEW i \in DOMAIN Kept(token, n)
  PROVE  Kept(token, n)[i].value = [token |-> token, piece |-> i, of |-> n]
<1>1. CASE n = 1
  <2>1. i = 1
    BY <1>1 DEF Kept
  <2>2. Kept(token, n)[i] =
          [name |-> WholeName, value |-> [token |-> token, piece |-> 1, of |-> n]]
    BY <1>1, <2>1 DEF Kept
  <2> QED
    BY <2>1, <2>2
<1>2. CASE n # 1
  BY <1>2 DEF Kept
<1> QED
  BY <1>1, <1>2

\* The cookies that are removed: those of a session, but for those it keeps.
RemovesStale(s, kept, gone) ==
  /\ gone \in Seq([name : SessionCookies, value : {None}])
  /\ \A k \in DOMAIN gone : \A j \in DOMAIN kept : kept[j].name # gone[k].name
  /\ \A i \in DOMAIN s :
       /\ s[i].name \in SessionCookies
       /\ \A j \in DOMAIN kept : kept[j].name # s[i].name
       => \E k \in DOMAIN gone : gone[k].name = s[i].name

LEMMA RemovedFacts ==
  ASSUME NEW T, NEW s \in Seq(T), NEW kept
  PROVE  RemovesStale(s, kept, Removed(s, kept))
<1> DEFINE Stale(c) == /\ c.name \in SessionCookies
                       /\ \A j \in DOMAIN kept : kept[j].name # c.name
           I == {i \in DOMAIN s : Stale(s[i])}
           t == Picked(s, I)
           r == [i \in DOMAIN t |-> [name |-> t[i].name, value |-> None]]
           R == [name : SessionCookies, value : {None}]
           n == Len(s)
<1>1. Removed(s, kept) = r
  BY DEF Removed
<1>2. n \in Nat /\ DOMAIN s = 1 .. n
  BY LenProperties
<1>3. \A i \in I : i \in DOMAIN s /\ Stale(s[i])
  OBVIOUS
<1>4. \A i \in DOMAIN s : Stale(s[i]) => i \in I
  OBVIOUS
<1> HIDE DEF I
<1> DEFINE X == {s[i] : i \in I}
<1>5. I \subseteq 1 .. n /\ \A i \in I : s[i] \in X
  BY <1>2, <1>3
<1> HIDE DEF n, X
<1>6. t \in Seq(X) /\ Len(t) = Cardinality(I)
  BY <1>2, <1>5, PickedIsSeq
<1>7. /\ Len(t) \in Nat /\ DOMAIN t = 1 .. Len(t)
       /\ \A k \in DOMAIN t : \E i \in I : t[k] = s[i]
  <2>1. \A k \in DOMAIN t : t[k] \in X
    BY <1>6, LenProperties, ElementOfSeq
  <2> QED
    BY <1>6, <2>1, LenProperties DEF X
<1>8. \A k \in DOMAIN t : Stale(t[k])
  BY <1>3, <1>7
<1>9. ASSUME NEW i \in I PROVE \E k \in DOMAIN t : t[k] = s[i]
  <2>1. Rank(I, i) \in 1 .. Cardinality(I) /\ t[Rank(I, i)] = s[i]
    <3>1. n \in Nat /\ I \subseteq 1 .. n
      BY <1>2, <1>5
    <3> QED
      BY <3>1, PickedHasAll
  <2> QED
    BY <1>6, <1>7, <2>1
<1> HIDE DEF t
<1>10. DOMAIN r = DOMAIN t /\ \A k \in DOMAIN t : r[k].name = t[k].name
  OBVIOUS
<1>11. r \in Seq(R)
  <2>1. \A k \in DOMAIN t : r[k] \in R
    BY <1>8
  <2>2. r = [k \in 1 .. Len(t) |-> r[k]]
    BY <1>7
  <2> HIDE DEF r, R
  <2> QED
    BY <1>7, <2>1, <2>2
<1> HIDE DEF r
<1>12. \A k \in DOMAIN r : \A j \in DOMAIN kept : kept[j].name # r[k].name
  BY <1>8, <1>10
<1>13. ASSUME NEW i \in DOMAIN s, Stale(s[i])
       PROVE  \E k \in DOMAIN r : r[k].name = s[i].name
  BY <1>4, <1>9, <1>10, <1>13
<1> QED
  BY <1>1, <1>11, <1>12, <1>13 DEF RemovesStale


\* Cookies that do not touch those of a session leave it as it is.
LEMMA SessionUntouched ==
  ASSUME NEW had, NEW other, NEW token,
         \A name \in SessionCookies : other[name] = had[name],
         KeepsSession(had, token)
  PROVE  KeepsSession(other, token)
BY DEF KeepsSession

\* Cookies of other names that were set before do not count.
LEMMA KeepingOthers ==
  ASSUME NEW had, NEW S, S \subseteq DOMAIN had,
         NEW before \in Seq(Cookies), NEW cookies \in Seq(Cookies),
         \A i \in DOMAIN before : before[i].name \notin S
  PROVE  \A name \in S :
           Keeping(had, before \o cookies)[name] = Keeping(had, cookies)[name]
<1> SUFFICES ASSUME NEW name \in S
             PROVE  Keeping(had, before \o cookies)[name]
                      = Keeping(had, cookies)[name]
  OBVIOUS
<1>1. name \in DOMAIN had /\ \A i \in DOMAIN before : before[i].name # name
  OBVIOUS
<1> QED
  BY <1>1, KeepingLater

\* Where the names of the cookies are.
LEMMA NamesFacts ==
  /\ SessionCookies \cup Foreign \subseteq Names
  /\ SessionCookies \cup Foreign = WholeNames \cup DOMAIN PieceOf
  /\ CsrfName \in Names /\ Theme \in Names
  /\ CsrfName \notin SessionCookies \cup Foreign
  /\ Theme \notin SessionCookies \cup Foreign
  /\ Theme # CsrfName
<1>1. SessionCookies \subseteq WholeNames \cup DOMAIN PieceOf
  BY OwnPieces DEF SessionCookies
<1>2. CsrfName \notin WholeNames \cup DOMAIN PieceOf
  BY RequestsAssumption
<1>3. Theme \notin SessionCookies \cup Foreign \cup {CsrfName}
  BY TransportAssumption
<1> QED
  BY <1>1, <1>2, <1>3 DEF Names, Foreign

\* The authentication client leaves the browser with the session it opens,
\* whatever it had before and whatever else is set.
LEMMA RenewKeeps ==
  ASSUME NEW had, DOMAIN had = Names,
         NEW names, names \in {AllNames, Reverse(AllNames)},
         NEW token \in Sessions, NEW n \in 1 .. Len(PieceNames),
         NEW cookies,
         cookies = Kept(token, n) \o Removed(Listed(had, names), Kept(token, n))
  PROVE  /\ cookies \in Seq(Cookies)
         /\ \A i \in DOMAIN cookies : cookies[i].name \in SessionCookies
         /\ KeepsSession(Keeping(had, cookies), token)
<1> DEFINE kept == Kept(token, n)
           s == Listed(had, names)
           gone == Removed(s, kept)
           T == [name : SessionCookies, value : SessionValues \cup {None}]
           after == Keeping(had, cookies)
<1>1. /\ kept \in Seq([name : SessionCookies, value : SessionValues])
      /\ DOMAIN kept = 1 .. n
      /\ \A i, j \in 1 .. n : kept[i].name = kept[j].name => i = j
  BY KeptFacts, Zenon
<1>2. s \in Seq(Had(had))
      /\ \A x \in Names : had[x] # None =>
           \E i \in DOMAIN s : s[i] = [name |-> x, value |-> had[x]]
  BY ListedFacts
<1> HIDE DEF kept, s
<1>3. /\ gone \in Seq([name : SessionCookies, value : {None}])
      /\ \A k \in DOMAIN gone : \A j \in DOMAIN kept : kept[j].name # gone[k].name
      /\ \A i \in DOMAIN s :
           /\ s[i].name \in SessionCookies
           /\ \A j \in DOMAIN kept : kept[j].name # s[i].name
           => \E k \in DOMAIN gone : gone[k].name = s[i].name
  <2>1. s \in Seq(Had(had))
    BY <1>2
  <2>2. RemovesStale(s, kept, gone)
    BY <2>1, RemovedFacts
  <2> HIDE DEF gone
  <2> QED
    BY <2>2 DEF RemovesStale
<1> HIDE DEF gone
<1>4. kept \in Seq(T) /\ gone \in Seq(T)
  <2>1. /\ [name : SessionCookies, value : SessionValues] \subseteq T
        /\ [name : SessionCookies, value : {None}] \subseteq T
    OBVIOUS
  <2> HIDE DEF T
  <2> QED
    BY <1>1, <1>3, <2>1, SeqMonotonic
<1>5. cookies = kept \o gone
  BY DEF kept, gone, s
<1>6. cookies \in Seq(T)
  <2> HIDE DEF T
  <2> QED
    BY <1>4, <1>5, ConcatProperties
<1>7. T \subseteq Cookies
  <2> DEFINE V == (UNION {Range(j) : j \in Jars}) \cup SessionValues
                  \cup {None, Dark, Garbled}
  <2>1. SessionCookies \subseteq Names
    BY NamesFacts
  <2>2. SessionValues \cup {None} \subseteq V
    BY Zenon
  <2> HIDE DEF V
  <2>3. T \subseteq [name : Names, value : V]
    BY <2>1, <2>2
  <2> QED
    BY <2>3 DEF Cookies, V
<1> HIDE DEF T
<1>8. cookies \in Seq(Cookies) /\ kept \in Seq(Cookies) /\ gone \in Seq(Cookies)
  BY <1>4, <1>6, <1>7, SeqMonotonic
<1>9. \A i \in DOMAIN cookies : cookies[i].name \in SessionCookies
  <2>1. \A i \in DOMAIN cookies : cookies[i] \in T
    BY <1>6, LenProperties, ElementOfSeq
  <2> QED
    BY <2>1 DEF T
<1>10. \A k \in DOMAIN gone : gone[k].value = None
  <2>1. \A k \in DOMAIN gone : gone[k] \in [name : SessionCookies, value : {None}]
    BY <1>3, LenProperties, ElementOfSeq
  <2> QED
    BY <2>1
<1>11. ASSUME NEW i \in 1 .. n
       PROVE  kept[i] = [name |-> kept[i].name, value |-> after[kept[i].name]]
  <2> DEFINE name == kept[i].name
  <2>1. kept[i] \in [name : SessionCookies, value : SessionValues]
    BY <1>1, ElementOfSeq, LenProperties
  <2>2. name \in SessionCookies /\ name \in DOMAIN had
    BY <2>1, NamesFacts
  <2>3. Keeping(had, cookies)[name] = Keeping(had, kept)[name]
    <3>1. \A k \in DOMAIN gone : gone[k].name # name
      BY <1>1, <1>3
    <3> QED
      BY <1>5, <1>8, <2>2, <3>1, KeepingEarlier
  <2>4. LastCookie(kept, {name}) = kept[i].value
    <3>1. \A j \in DOMAIN kept : kept[j].name = kept[i].name => j <= i
      BY <1>1
    <3> QED
      BY <1>1, <1>8, <3>1, LastIs
  <2>5. Keeping(had, kept)[name] = kept[i].value
    BY <1>1, <2>2, <2>4 DEF Keeping
  <2> QED
    BY <2>1, <2>2, <2>3, <2>5
<1>12. ASSUME NEW name \in SessionCookies,
              \A i \in DOMAIN kept : kept[i].name # name
       PROVE  after[name] = None
  <2>1. name \in DOMAIN had /\ name \in Names
    BY NamesFacts
  <2>2. Keeping(had, cookies)[name] = Keeping(had, gone)[name]
    BY <1>5, <1>8, <1>12, <2>1, KeepingLater
  <2>3. CASE \E k \in DOMAIN gone : gone[k].name = name
    <3>1. PICK k \in DOMAIN gone :
            /\ gone[k].name = name /\ LastCookie(gone, {name}) = gone[k].value
            /\ \A j \in DOMAIN gone : gone[j].name = name => j <= k
      BY <1>8, <2>3, LastGiven
    <3>2. Keeping(had, gone)[name] = None
      BY <1>10, <2>1, <2>3, <3>1 DEF Keeping
    <3> QED
      BY <2>2, <3>2
  <2>4. CASE ~ \E k \in DOMAIN gone : gone[k].name = name
    <3>1. had[name] = None
      <4> SUFFICES ASSUME had[name] # None PROVE FALSE
        OBVIOUS
      <4>1. PICK i \in DOMAIN s : s[i] = [name |-> name, value |-> had[name]]
        BY <1>2, <2>1
      <4>2. s[i].name = name
        BY <4>1
      <4> QED
        BY <1>3, <1>12, <2>4, <4>2
    <3>2. Keeping(had, gone)[name] = None
      BY <2>1, <2>4, <3>1 DEF Keeping
    <3> QED
      BY <2>2, <3>2
  <2> QED
    BY <2>3, <2>4
<1> HIDE DEF after
<1>13. KeepsSession(after, token)
  <2>1. \A name \in SessionCookies :
          \/ \E i \in DOMAIN kept : kept[i] = [name |-> name, value |-> after[name]]
          \/ after[name] = None /\ \A i \in DOMAIN kept : kept[i].name # name
    <3> SUFFICES ASSUME NEW name \in SessionCookies,
                        \E i \in DOMAIN kept : kept[i].name = name
                 PROVE  \E i \in DOMAIN kept :
                          kept[i] = [name |-> name, value |-> after[name]]
      BY <1>12
    <3> QED
      BY <1>1, <1>11
  <2> QED
    BY <2>1 DEF KeepsSession, kept
<1> QED
  BY <1>8, <1>9, <1>13 DEF after


\* The pieces of one session, all of them, say what it is.
LEMMA ParsedSession ==
  ASSUME NEW token, NEW n \in Nat \ {0}, NEW pieces,
         pieces = [k \in 1 .. n |-> [token |-> token, piece |-> k, of |-> n]]
  PROVE  Parsed(pieces) = token
<1>1. pieces \in Seq({pieces[k] : k \in 1 .. n})
  <2> DEFINE X == {pieces[k] : k \in 1 .. n}
  <2>1. \A k \in 1 .. n : pieces[k] \in X
    OBVIOUS
  <2> HIDE DEF X
  <2>2. \E m \in Nat : pieces \in [1 .. m -> X]
    BY <2>1
  <2>3. pieces \in Seq(X)
    BY <2>2, SeqDef
  <2> QED
    BY <2>3 DEF X
<1>2. Len(pieces) = n /\ DOMAIN pieces = 1 .. n /\ 1 \in 1 .. n
  BY <1>1, LenProperties
<1>3. pieces # <<>>
  BY <1>2
<1>4. pieces[1].token = token
  BY <1>2
<1>5. \A i \in DOMAIN pieces :
        pieces[i] = [token |-> pieces[1].token, piece |-> i, of |-> Len(pieces)]
  BY <1>2, <1>4
<1> QED
  BY <1>3, <1>4, <1>5 DEF Parsed

\* Of some names, the last cookie is one that the browser has.
LEMMA LastOfBrowser ==
  ASSUME NEW had, NEW names, names \in {AllNames, Reverse(AllNames)}, NEW wanted,
         NEW value, value = LastCookie(Listed(had, names), wanted)
  PROVE  \/ value = None /\ \A x \in Names \cap wanted : had[x] = None
         \/ \E x \in Names \cap wanted : value = had[x] /\ had[x] # None
<1> DEFINE s == Listed(had, names)
<1>1. /\ s \in Seq(Had(had))
      /\ \A x \in Names : had[x] # None =>
           \E i \in DOMAIN s : s[i] = [name |-> x, value |-> had[x]]
  BY ListedFacts
<1> HIDE DEF s
<1>2. CASE \E i \in DOMAIN s : s[i].name \in wanted
  <2>1. PICK i \in DOMAIN s : s[i].name \in wanted /\ value = s[i].value
    <3>1. s \in Seq(Had(had))
      BY <1>1
    <3> QED
      BY <1>2, <3>1, LastGivenOf DEF s
  <2>2. s[i] \in Had(had)
    BY <1>1, LenProperties, ElementOfSeq
  <2> QED
    BY <2>1, <2>2 DEF Had
<1>3. CASE ~ \E i \in DOMAIN s : s[i].name \in wanted
  <2>1. {i \in DOMAIN s : s[i].name \in wanted} = {}
    BY <1>3
  <2>2. value = None
    BY <2>1 DEF LastCookie, s
  <2>3. ASSUME NEW x \in Names \cap wanted, had[x] # None PROVE FALSE
    <3>1. PICK i \in DOMAIN s : s[i] = [name |-> x, value |-> had[x]]
      BY <1>1, <2>3
    <3> QED
      BY <1>3, <3>1
  <2> QED
    BY <2>2, <2>3
<1> QED
  BY <1>2, <1>3

\* The token of a session is that of a cookie that keeps a session, one of the
\* application or of another project, whole or a piece of it.
LEMMA SsrIsBorne ==
  ASSUME NEW had, NEW names, names \in {AllNames, Reverse(AllNames)},
         SsrToken(Listed(had, names)) # None
  PROVE  \E x \in SessionCookies \cup Foreign :
           had[x] # None /\ SsrToken(Listed(had, names)) = had[x].token
<1> DEFINE cookies == Listed(had, names)
           whole == LastCookie(cookies, WholeNames)
           kept == IF whole # None THEN <<whole>> ELSE Pieces(cookies)
           X == {had[x] : x \in {y \in SessionCookies \cup Foreign : had[y] # None}}
<1>1. \A wanted \in {WholeNames} \cup {Named(i) : i \in Range(PieceOf)} :
        \/ LastCookie(cookies, wanted) = None
        \/ LastCookie(cookies, wanted) \in X
  <2> SUFFICES ASSUME NEW wanted \in {WholeNames} \cup {Named(i) : i \in Range(PieceOf)},
                      LastCookie(cookies, wanted) # None
               PROVE  LastCookie(cookies, wanted) \in X
    BY Zenon
  <2>1. PICK x \in Names \cap wanted :
          LastCookie(cookies, wanted) = had[x] /\ had[x] # None
    BY LastOfBrowser
  <2>2. wanted \subseteq SessionCookies \cup Foreign
    BY NamesFacts DEF Named
  <2> QED
    BY <2>1, <2>2
<1>2. SsrToken(cookies) = Parsed(kept)
  BY DEF SsrToken
<1> HIDE DEF cookies, X
<1>3. kept # <<>> => kept[1] \in X
  <2>1. CASE whole # None
    BY <1>1, <2>1
  <2>2. CASE whole = None
    <3> DEFINE given == [i \in Range(PieceOf) |-> LastCookie(cookies, Named(i))]
               I == {i \in DOMAIN given : given[i] # None}
               n == Len(PieceNames)
    <3>1. kept = Picked(given, I)
      BY <2>2 DEF Pieces
    <3>2. n \in Nat /\ Range(PieceOf) = 1 .. n
      BY OwnPieces
    <3>3. I \subseteq 1 .. n
      BY <3>2
    <3>4. \A i \in I : given[i] \in X
      BY <1>1
    <3> HIDE DEF given, I, n
    <3>5. kept \in Seq(X)
      BY <3>1, <3>2, <3>3, <3>4, PickedIsSeq
    <3> HIDE DEF kept
    <3>6. kept # <<>> => Len(kept) \in Nat \ {0} /\ DOMAIN kept = 1 .. Len(kept)
      BY <3>5, EmptySeq, LenProperties
    <3> QED
      BY <3>5, <3>6, ElementOfSeq
  <2> QED
    BY <2>1, <2>2
<1> HIDE DEF kept
<1>4. kept # <<>> /\ SsrToken(cookies) = kept[1].token
  BY <1>2 DEF Parsed, cookies
<1> QED
  BY <1>3, <1>4 DEF X, cookies

\* Other projects have no session there that would be read before this one.
ReadFirst(had) ==
  \A x \in Foreign : had[x] # None => had[WholeName] # None /\ x \notin WholeNames

\* Whatever the order of the header: a session that the browser keeps is read,
\* unless one of another project comes first or between its pieces.
LEMMA SsrReads ==
  ASSUME NEW had, NEW names, names \in {AllNames, Reverse(AllNames)},
         NEW token \in Sessions, KeepsSession(had, token), ReadFirst(had)
  PROVE  SsrToken(Listed(had, names)) = token
<1>1. PICK n \in 1 .. Len(PieceNames) :
        \A name \in SessionCookies :
          \/ \E i \in DOMAIN Kept(token, n) :
               Kept(token, n)[i] = [name |-> name, value |-> had[name]]
          \/ /\ had[name] = None
             /\ \A i \in DOMAIN Kept(token, n) : Kept(token, n)[i].name # name
  BY DEF KeepsSession
<1> DEFINE kept == Kept(token, n)
           cookies == Listed(had, names)
           Value(i) == [token |-> token, piece |-> i, of |-> n]
           Name(i) == IF n = 1 THEN WholeName ELSE PieceNames[i]
<1>2. /\ DOMAIN kept = 1 .. n
      /\ \A i \in 1 .. n : kept[i].value = Value(i) /\ kept[i].name = Name(i)
      /\ \A i, j \in 1 .. n : kept[i].name = kept[j].name => i = j
      /\ kept \in Seq([name : SessionCookies, value : SessionValues])
  BY KeptFacts, Zenon
<1>3. \A name \in SessionCookies :
        \/ \E i \in 1 .. n : kept[i] = [name |-> name, value |-> had[name]]
        \/ had[name] = None /\ \A i \in 1 .. n : kept[i].name # name
  BY <1>1, <1>2
<1> HIDE DEF kept
<1>4. /\ Len(PieceNames) \in Nat /\ DOMAIN PieceNames = 1 .. Len(PieceNames)
      /\ n \in Nat \ {0} /\ \A i \in 1 .. n : i \in 1 .. Len(PieceNames)
      /\ IsInjective(PieceNames) /\ WholeName \notin Range(PieceNames)
  BY OwnPieces
<1>5. ASSUME NEW i \in 1 .. n
      PROVE  had[Name(i)] = Value(i) /\ Value(i) # None
  <2> DEFINE name == kept[i].name
  <2>1. kept[i] \in [name : SessionCookies, value : SessionValues]
    <3>1. kept \in Seq([name : SessionCookies, value : SessionValues])
          /\ i \in DOMAIN kept
      BY <1>2
    <3> QED
      BY <3>1, ElementOfSeq, LenProperties
  <2>2. name \in SessionCookies /\ kept[i].value \in SessionValues
    BY <2>1
  <2>3. PICK j \in 1 .. n : kept[j] = [name |-> name, value |-> had[name]]
    BY <1>3, <2>2
  <2>4. kept[j].name = name /\ kept[j].value = had[name]
    BY <2>3
  <2>5. j = i
    BY <1>2, <2>4
  <2>6. Value(i) # None
    BY <1>2, <2>2, TransportAssumption
  <2> QED
    BY <1>2, <2>4, <2>5, <2>6
<1>6. ASSUME NEW name \in SessionCookies, \A i \in 1 .. n : Name(i) # name
      PROVE  had[name] = None
  <2>1. \A i \in 1 .. n : kept[i].name # name
    BY <1>2, <1>6
  <2>2. ~ \E i \in 1 .. n : kept[i] = [name |-> name, value |-> had[name]]
    BY <2>1
  <2> QED
    BY <1>3, <2>2
<1>7. /\ WholeName \in SessionCookies /\ WholeName \in Names
      /\ \A i \in DOMAIN PieceNames : PieceNames[i] \in SessionCookies
                                       /\ PieceNames[i] \in Names
  BY NamesFacts DEF SessionCookies, Range
<1>8. \A wanted, value : value = LastCookie(cookies, wanted) =>
        \/ value = None /\ \A x \in Names \cap wanted : had[x] = None
        \/ \E x \in Names \cap wanted : value = had[x] /\ had[x] # None
  BY LastOfBrowser
<1> DEFINE whole == LastCookie(cookies, WholeNames)
<1> HIDE DEF cookies, Value
\* No other cookie that holds a session whole counts.
<1>w. whole = had[WholeName]
  <2>1. \A x \in Names \cap WholeNames : x # WholeName => had[x] = None
    <3> SUFFICES ASSUME NEW x \in Names \cap WholeNames, x # WholeName
                 PROVE  had[x] = None
      OBVIOUS
    <3>1. x \in SessionCookies => x \in Range(PieceNames)
      BY DEF SessionCookies
    <3>2. x \notin SessionCookies
      BY <3>1, OwnPieces, RequestsAssumption
    <3>3. x \in Foreign
      BY <3>2 DEF Foreign
    <3> QED
      BY <3>3 DEF ReadFirst
  <2>2. WholeName \in Names \cap WholeNames
    BY <1>7, OwnPieces
  <2> QED
    BY <1>8, <2>1, <2>2
<1>9. CASE n = 1
  <2>1. whole = Value(1) /\ whole # None
    <3>1. 1 \in 1 .. n /\ Name(1) = WholeName
      BY <1>9
    <3> HIDE DEF Name
    <3> QED
      BY <1>5, <1>w, <3>1
  <2>2. SsrToken(cookies) = Parsed(<<whole>>)
    BY <2>1 DEF SsrToken
  <2>3. <<whole>> = [k \in 1 .. n |-> Value(k)]
    <3>1. <<whole>> = [k \in 1 .. 1 |-> whole]
      OBVIOUS
    <3>2. \A k \in 1 .. 1 : Value(k) = whole
      BY <2>1
    <3> QED
      BY <1>9, <3>1, <3>2
  <2> QED
    BY <1>4, <2>2, <2>3, ParsedSession DEF Value, cookies
<1>10. CASE n # 1
  <2> DEFINE values == [i \in Range(PieceOf) |-> LastCookie(cookies, Named(i))]
             I == {i \in DOMAIN values : values[i] # None}
  <2>1. had[WholeName] = None
    <3>1. \A i \in 1 .. n : Name(i) # WholeName
      BY <1>4, <1>10 DEF Range
    <3> HIDE DEF Name
    <3> QED
      BY <1>6, <1>7, <3>1
  <2>2. SsrToken(cookies) = Parsed(Picked(values, I))
    BY <1>w, <2>1 DEF SsrToken, Pieces
  <2>3. ASSUME NEW i \in DOMAIN PieceNames
        PROVE  i \in Range(PieceOf) /\ values[i] = had[PieceNames[i]]
    <3>1. i \in Range(PieceOf) /\ values[i] = LastCookie(cookies, Named(i))
      BY OwnPieces
    <3>2. PieceNames[i] \in Names \cap Named(i)
      BY <1>7, OwnPieces, TransportAssumption DEF Named, Range
    <3>3. ASSUME NEW x \in Names \cap Named(i), x # PieceNames[i]
          PROVE  had[x] = None
      <4>1. x \in DOMAIN PieceOf /\ PieceOf[x] = i
        BY DEF Named
      <4>2. x \notin SessionCookies
        <5>1. x # WholeName
          BY <4>1, OwnPieces
        <5>2. \A k \in DOMAIN PieceNames : PieceNames[k] = x => k = i
          BY <4>1, TransportAssumption
        <5> QED
          BY <3>3, <5>1, <5>2 DEF SessionCookies, Range
      <4>3. x \in Foreign
        BY <4>1, <4>2 DEF Foreign
      <4> QED
        BY <2>1, <4>3 DEF ReadFirst
    <3> QED
      BY <1>8, <3>1, <3>2, <3>3
  <2>4. \A i \in 1 .. n : values[i] = Value(i) /\ Value(i) # None
    BY <1>4, <1>5, <1>10, <2>3
  <2>5. ASSUME NEW i \in DOMAIN PieceNames, i \notin 1 .. n
        PROVE  values[i] = None
    <3>1. \A k \in 1 .. n : PieceNames[k] # PieceNames[i]
      BY <1>4, <2>5 DEF IsInjective
    <3>2. \A k \in 1 .. n : Name(k) # PieceNames[i]
      BY <1>10, <3>1
    <3> HIDE DEF Name
    <3> QED
      BY <1>6, <1>7, <2>3, <3>2
  <2>6. DOMAIN values = DOMAIN PieceNames
    BY OwnPieces
  <2> HIDE DEF values
  <2>7. I = 1 .. n
    <3>1. \A i \in 1 .. n : i \in DOMAIN values /\ values[i] # None
      BY <1>4, <2>4, <2>6
    <3>2. \A i \in DOMAIN values : values[i] # None => i \in 1 .. n
      BY <2>5, <2>6
    <3> QED
      BY <3>1, <3>2
  <2>8. Picked(values, I) = [k \in 1 .. n |-> Value(k)]
    <3>1. Picked(values, 1 .. n) = [k \in 1 .. n |-> values[k]]
      BY <1>4, PickedPrefix
    <3> QED
      BY <2>4, <2>7, <3>1
  <2> HIDE DEF I
  <2> QED
    BY <1>4, <2>2, <2>8, ParsedSession DEF Value, cookies
<1> QED
  BY <1>9, <1>10


-----------------------------------------------------------------------------
(* The inductive invariant.                                                *)

Fields(f) == DOMAIN f = {"stage", "raw", "response", "reply", "own", "session"}

Typed ==
  /\ \A name \in Names : [name |-> name, value |-> jar[name]] \in Cookies
  /\ current \in Sessions \cup {None}
  /\ Fields(flight) /\ flight.stage \in {"idle", "open"}
  /\ flight.reply \in Seq(Cookies)
  /\ Len(flight.response) <= MaxCookies

TransportInv == Typed /\ JarKept /\ FlightKept /\ RepliesFollow

\* What has to be shown of a step that only changes the flight.
FlightMayBe(f) ==
  /\ Fields(f) /\ f.stage \in {"idle", "open"}
  /\ f.stage = "open" =>
       \E head \in Heads, names \in {AllNames, Reverse(AllNames)} :
         f.raw = RequestOf(head, names)
  /\ f.response \in Seq(Cookies) /\ f.own \in Seq(Cookies) /\ f.reply \in Seq(Cookies)
  /\ Len(f.response) <= MaxCookies
  /\ f.session \in Sessions \cup {None}
  /\ \A c \in Range(f.own) : c.name = Theme
  /\ \A c \in Range(f.response) : c.name \notin Foreign \cup {CsrfName}
  /\ IF f.session = None
       THEN \A c \in Range(f.response) : c.name = Theme
       ELSE KeepsSession(Keeping(jar, f.response), f.session)
  /\ HasReply => f.reply \in {f.response, f.own \o f.response}

LEMMA FlightSteps ==
  ASSUME TransportInv, NEW f, Handles(f), FlightMayBe(f)
  PROVE  TransportInv'
<1>1. /\ deployment' = deployment /\ jar' = jar /\ current' = current
      /\ flight' = f
  BY DEF Handles
<1>2. Typed'
  BY <1>1 DEF TransportInv, Typed, FlightMayBe
<1>3. JarKept'
  BY <1>1 DEF TransportInv, JarKept
<1>4. \A head, names : RequestOf(head, names)' = RequestOf(head, names)
  BY <1>1 DEF RequestOf, Adapted, HasReply
<1>5. FlightKept'
  BY <1>1, <1>4 DEF FlightMayBe, FlightKept, Is
<1>6. RepliesFollow'
  BY <1>1 DEF FlightMayBe, RepliesFollow, HasReply
<1> QED
  BY <1>2, <1>3, <1>5, <1>6 DEF TransportInv

LEMMA InitKept ==
  ASSUME TransportInit
  PROVE  TransportInv
<1>1. jar \in Jars /\ flight = Idle /\ current = None
  BY DEF TransportInit
<1>2. /\ Fields(flight) /\ flight.stage = "idle" /\ flight.response = <<>>
      /\ flight.reply = <<>> /\ flight.own = <<>> /\ flight.session = None
  BY <1>1 DEF Idle, Flight, Fields
<1>3. <<>> \in Seq(Cookies) /\ Len(<<>>) = 0 /\ Range(<<>>) = {}
  BY EmptySeq DEF Range
<1>4. /\ DOMAIN jar = Names
      /\ \A name \in SessionCookies \cup Foreign :
           jar[name] \in SessionValues \cup {None, Garbled}
  BY <1>1, TransportAssumption
<1>5. ASSUME NEW name \in Names PROVE [name |-> name, value |-> jar[name]] \in Cookies
  <2>1. jar[name] \in UNION {Range(j) : j \in Jars}
    BY <1>1, <1>4 DEF Range
  <2> QED
    BY <2>1 DEF Cookies
<1>6. Typed
  BY <1>1, <1>2, <1>3, <1>5, TransportAssumption DEF Typed
<1>7. JarKept
  BY <1>1, <1>4 DEF JarKept
<1>8. FlightKept
  BY <1>2, <1>3 DEF FlightKept, Is
<1>9. RepliesFollow
  BY <1>2 DEF RepliesFollow
<1> QED
  BY <1>6, <1>7, <1>8, <1>9 DEF TransportInv

LEMMA ThemeIsCookie ==
  ASSUME NEW c \in ThemeCookies
  PROVE  c \in Cookies /\ c.name = Theme
BY NamesFacts DEF ThemeCookies, Cookies

LEMMA SendKeeps ==
  ASSUME TransportInv, NEW head \in Heads,
         NEW names \in {AllNames, Reverse(AllNames)},
         NEW own \in {<<>>} \cup (IF HasReply THEN {<<c>> : c \in ThemeCookies} ELSE {}),
         Send(head, names, own)
  PROVE  TransportInv'
<1> DEFINE raw == RequestOf(head, names)
           f == Flight("open", raw, own)
<1>1. Handles(f)
  BY DEF Send
<1> HIDE DEF raw
<1>2. /\ Fields(f) /\ f.stage = "open" /\ f.raw = raw
      /\ f.response = <<>> /\ f.reply = own
      /\ f.own = own /\ f.session = None
  BY DEF Fields, Flight
<1> HIDE DEF f
<1>3. \E h \in Heads, n \in {AllNames, Reverse(AllNames)} : f.raw = RequestOf(h, n)
  BY <1>2 DEF raw
<1>4. <<>> \in Seq(Cookies) /\ Len(<<>>) = 0 /\ Range(<<>>) = {}
  BY EmptySeq DEF Range
<1>5. own \in Seq(Cookies) /\ \A c \in Range(own) : c.name = Theme
  <2>1. CASE own = <<>>
    BY <1>4, <2>1
  <2>2. CASE own # <<>>
    <3>1. PICK c \in ThemeCookies : own = <<c>>
      BY <2>2
    <3>2. Range(<<c>>) = {c}
      BY DEF Range
    <3> QED
      BY <3>1, <3>2, ThemeIsCookie
  <2> QED
    BY <2>1, <2>2
<1>6. own \o <<>> = own
  BY <1>5, ConcatEmptySeq
<1>7. HasReply => own \in {<<>>, own \o <<>>}
  BY <1>6
<1>8. FlightMayBe(f)
  BY <1>2, <1>3, <1>4, <1>5, <1>7, TransportAssumption DEF FlightMayBe
<1> QED
  BY <1>1, <1>8, FlightSteps


\* The authentication client renews the session of the request.
LEMMA RenewKeepsInv ==
  ASSUME TransportInv, NEW token \in Sessions, NEW n \in 1 .. Len(PieceNames),
         Renew(token, n)
  PROVE  TransportInv'
<1> DEFINE kept == Kept(token, n)
           cookies == kept \o Removed(GetAll(flight.raw), kept)
           f == [SetAll(flight, cookies) EXCEPT !.session = token]
           all == flight.response \o cookies
<1>1. /\ flight.stage = "open" /\ flight.session = None
      /\ Len(flight.response) + Len(cookies) <= MaxCookies
      /\ Handles(f)
  BY Zenon DEF Renew, Served, Is
<1>2. PICK head \in Heads, names \in {AllNames, Reverse(AllNames)} :
        flight.raw = RequestOf(head, names)
  BY <1>1 DEF TransportInv, FlightKept, Is
<1>3. GetAll(flight.raw) = Listed(jar, names)
  BY <1>2 DEF GetAll, RequestOf
<1>4. /\ DOMAIN jar = Names /\ Fields(flight)
      /\ flight.response \in Seq(Cookies) /\ flight.own \in Seq(Cookies)
      /\ \A c \in Range(flight.own) : c.name = Theme
      /\ \A c \in Range(flight.response) : c.name = Theme
      /\ flight.reply \in Seq(Cookies)
  BY <1>1 DEF TransportInv, Typed, JarKept, FlightKept
<1>5. /\ cookies \in Seq(Cookies)
      /\ \A i \in DOMAIN cookies : cookies[i].name \in SessionCookies
      /\ KeepsSession(Keeping(jar, cookies), token)
  <2>1. cookies = kept \o Removed(Listed(jar, names), kept)
    BY <1>3
  <2> HIDE DEF cookies
  <2> QED
    BY <1>4, <2>1, RenewKeeps
<1> HIDE DEF cookies
<1>6. /\ DOMAIN f = DOMAIN flight /\ f.stage = flight.stage /\ f.raw = flight.raw
      /\ f.response = all /\ f.own = flight.own /\ f.session = token
      /\ f.reply = IF HasReply THEN FoldLeft(Appended, <<>>, all) ELSE flight.reply
  BY <1>4 DEF SetAll, Fields, Deleted
<1> HIDE DEF f
<1>7. all \in Seq(Cookies) /\ Len(all) <= MaxCookies
  BY <1>1, <1>4, <1>5, ConcatProperties
<1>8. FoldLeft(Appended, <<>>, all) = all
  BY <1>7, AppendedOneByOne
<1>9. \A c \in Range(all) : c.name \notin Foreign \cup {CsrfName}
  <2>1. \A k \in DOMAIN all : all[k].name \in SessionCookies \cup {Theme}
    <3>1. \A i \in DOMAIN flight.response : flight.response[i].name = Theme
      BY <1>4 DEF Range
    <3>2. \A k \in DOMAIN all :
            \/ k \in DOMAIN flight.response /\ all[k] = flight.response[k]
            \/ \E i \in DOMAIN cookies : all[k] = cookies[i]
      BY <1>4, <1>5, ConcatPlaces
    <3> QED
      BY <1>5, <3>1, <3>2
  <2> QED
    BY <2>1, NamesFacts DEF Range, Foreign
<1>10. KeepsSession(Keeping(jar, all), token)
  <2>1. \A i \in DOMAIN flight.response : flight.response[i].name \notin SessionCookies
    BY <1>4, NamesFacts DEF Range
  <2>2. SessionCookies \subseteq DOMAIN jar
    BY <1>4, NamesFacts
  <2>3. ASSUME NEW name \in SessionCookies
        PROVE  Keeping(jar, all)[name] = Keeping(jar, cookies)[name]
    <3> DEFINE before == flight.response
    <3>1. before \in Seq(Cookies) /\ \A i \in DOMAIN before : before[i].name # name
      BY <1>4, <2>1
    <3>2. all = before \o cookies /\ name \in DOMAIN jar
      BY <2>2
    <3> HIDE DEF before, all
    <3> QED
      BY <1>5, <3>1, <3>2, KeepingLater
  <2> HIDE DEF all
  <2> QED
    BY <1>5, <2>3, SessionUntouched
<1>11. f.reply \in Seq(Cookies) /\ (HasReply => f.reply = f.response)
  BY <1>4, <1>6, <1>7, <1>8
<1> HIDE DEF all
<1>12. FlightMayBe(f)
  BY <1>1, <1>2, <1>4, <1>6, <1>7, <1>9, <1>10, <1>11, TransportAssumption
     DEF FlightMayBe, Fields
<1> QED
  BY <1>1, <1>12, FlightSteps


\* What every other step needs to know of the request on its way.
LEMMA FlightFacts ==
  ASSUME TransportInv
  PROVE  /\ DOMAIN jar = Names /\ Fields(flight)
         /\ flight.response \in Seq(Cookies) /\ flight.own \in Seq(Cookies)
         /\ flight.reply \in Seq(Cookies)
         /\ \A i \in DOMAIN flight.own : flight.own[i].name = Theme
         /\ \A i \in DOMAIN flight.response : flight.response[i].name \notin Foreign \cup {CsrfName}
         /\ flight.session \in Sessions \cup {None}
         /\ flight.session = None =>
              \A i \in DOMAIN flight.response : flight.response[i].name = Theme
         /\ flight.session # None =>
              KeepsSession(Keeping(jar, flight.response), flight.session)
         /\ HasReply => flight.reply \in {flight.response, flight.own \o flight.response}
BY DEF TransportInv, Typed, JarKept, FlightKept, RepliesFollow, Range

\* Cookies of other names that are set after leave it as it is.
LEMMA AddsKeeps ==
  ASSUME TransportInv, NEW cookie \in ThemeCookies, Adds(cookie)
  PROVE  TransportInv'
<1> DEFINE before == flight.response
           all == Append(before, cookie)
           f == [flight EXCEPT
                   !.response = all,
                   !.reply = IF HasReply THEN Appended(@, cookie) ELSE @]
<1>1. flight.stage = "open" /\ Len(before) < MaxCookies /\ Handles(f)
  BY Zenon DEF Adds, Served, Is
<1>2. cookie \in Cookies /\ cookie.name = Theme /\ cookie.name \notin Foreign \cup {CsrfName}
      /\ cookie.name \notin SessionCookies
  BY ThemeIsCookie, NamesFacts
<1>3. \E head \in Heads, names \in {AllNames, Reverse(AllNames)} :
        flight.raw = RequestOf(head, names)
  BY <1>1 DEF TransportInv, FlightKept, Is
<1>4. /\ DOMAIN f = DOMAIN flight /\ f.stage = flight.stage /\ f.raw = flight.raw
      /\ f.response = all /\ f.own = flight.own /\ f.session = flight.session
      /\ f.reply = IF HasReply THEN Append(flight.reply, cookie) ELSE flight.reply
  BY FlightFacts DEF Fields, Appended
<1> HIDE DEF f
<1>5. before \in Seq(Cookies) /\ <<cookie>> \in Seq(Cookies)
      /\ DOMAIN <<cookie>> = {1} /\ <<cookie>>[1] = cookie
  BY <1>2, FlightFacts
<1>6. /\ all \in Seq(Cookies) /\ Len(all) = Len(before) + 1 /\ Len(before) \in Nat
      /\ \A i \in 1 .. Len(before) + 1 :
           all[i] = IF i <= Len(before) THEN before[i] ELSE cookie
      /\ DOMAIN all = 1 .. Len(all) /\ DOMAIN before = 1 .. Len(before)
  BY <1>2, <1>5, AppendProperties, LenProperties
<1>7. all = before \o <<cookie>>
  BY <1>2, <1>5, AppendIsConcat
<1>8. Len(all) <= MaxCookies
  BY <1>1, <1>6, TransportAssumption
<1>9. /\ \A i \in DOMAIN before : before[i].name \notin Foreign \cup {CsrfName}
      /\ f.session = None => \A i \in DOMAIN before : before[i].name = Theme
  BY <1>4, FlightFacts
<1>10. /\ \A c \in Range(all) : c.name \notin Foreign \cup {CsrfName}
       /\ f.session = None => \A c \in Range(all) : c.name = Theme
  <2>1. \A i \in DOMAIN all :
             \/ i \in DOMAIN before /\ all[i] = before[i]
             \/ all[i] = cookie
    BY <1>6
  <2> HIDE DEF before, all
  <2> QED
    BY <1>2, <1>9, <2>1 DEF Range
<1>11. f.session # None => KeepsSession(Keeping(jar, all), f.session)
  <2> SUFFICES ASSUME f.session # None
               PROVE  KeepsSession(Keeping(jar, all), f.session)
    OBVIOUS
  <2>1. KeepsSession(Keeping(jar, before), f.session)
    BY <1>4, FlightFacts
  <2>2. SessionCookies \subseteq DOMAIN jar
    BY FlightFacts, NamesFacts
  <2> HIDE DEF before, all
  <2>3. ASSUME NEW name \in SessionCookies
        PROVE  Keeping(jar, all)[name] = Keeping(jar, before)[name]
    <3> DEFINE added == <<cookie>>
    <3>1. name \in DOMAIN jar /\ \A i \in DOMAIN added : added[i].name # name
      BY <1>2, <1>5, <2>2
    <3>2. all = before \o added /\ before \in Seq(Cookies) /\ added \in Seq(Cookies)
      BY <1>5, <1>7
    <3> HIDE DEF added
    <3> QED
      BY <3>1, <3>2, KeepingEarlier
  <2> QED
    BY <2>1, <2>3, SessionUntouched
<1>12. f.reply \in Seq(Cookies)
  BY <1>2, <1>4, FlightFacts, AppendProperties
<1>13. HasReply => f.reply \in {f.response, f.own \o f.response}
  <2> SUFFICES ASSUME HasReply, flight.reply # before
               PROVE  f.reply = f.own \o f.response
    BY <1>4
  <2>1. flight.reply = flight.own \o before /\ flight.own \in Seq(Cookies)
        /\ flight.reply \in Seq(Cookies)
    BY FlightFacts
  <2>2. f.reply = flight.reply \o <<cookie>>
    BY <1>2, <1>4, <2>1, AppendIsConcat
  <2> HIDE DEF before, all
  <2>3. (flight.own \o before) \o <<cookie>> = flight.own \o (before \o <<cookie>>)
    <3> DEFINE added == <<cookie>>
               set == flight.own
    <3>1. set \in Seq(Cookies) /\ before \in Seq(Cookies) /\ added \in Seq(Cookies)
      BY <1>5, <2>1
    <3> HIDE DEF added, set
    <3>2. (set \o before) \o added = set \o (before \o added)
      BY <3>1, ConcatAssociative
    <3> QED
      BY <3>2 DEF added, set
  <2> QED
    BY <1>4, <1>7, <2>1, <2>2, <2>3
<1> HIDE DEF before, all
<1>14. FlightMayBe(f)
  <2>1. /\ \A c \in Range(f.own) : c.name = Theme
        /\ f.own \in Seq(Cookies) /\ f.session \in Sessions \cup {None}
        /\ Fields(f)
    BY <1>4, FlightFacts DEF Range, Fields
  <2> QED
    BY <1>1, <1>3, <1>4, <1>6, <1>8, <1>10, <1>11, <1>12, <1>13, <2>1
       DEF FlightMayBe
<1> QED
  BY <1>1, <1>14, FlightSteps

LEMMA ReplacesKeeps ==
  ASSUME TransportInv, NEW cookie \in ThemeCookies, Replaces(cookie)
  PROVE  TransportInv'
<1> DEFINE f == [flight EXCEPT
                   !.response = <<cookie>>, !.session = None,
                   !.reply = IF HasReply THEN Replaced(@, cookie) ELSE @]
<1>1. flight.stage = "open" /\ Handles(f)
  BY Zenon DEF Replaces, Served, Is
<1>2. cookie \in Cookies /\ cookie.name = Theme /\ cookie.name \notin Foreign \cup {CsrfName}
  BY ThemeIsCookie, NamesFacts
<1>3. \E head \in Heads, names \in {AllNames, Reverse(AllNames)} :
        flight.raw = RequestOf(head, names)
  BY <1>1 DEF TransportInv, FlightKept, Is
<1>4. /\ DOMAIN f = DOMAIN flight /\ f.stage = flight.stage /\ f.raw = flight.raw
      /\ f.response = <<cookie>> /\ f.own = flight.own /\ f.session = None
      /\ f.reply = IF HasReply THEN <<cookie>> ELSE flight.reply
  BY FlightFacts DEF Fields, Replaced
<1> HIDE DEF f
<1>5. <<cookie>> \in Seq(Cookies) /\ Len(<<cookie>>) = 1
      /\ Range(<<cookie>>) = {cookie}
  BY <1>2 DEF Range
<1>6. 1 <= MaxCookies
  BY TransportAssumption
<1>7. /\ \A c \in Range(f.own) : c.name = Theme
      /\ f.own \in Seq(Cookies) /\ f.reply \in Seq(Cookies) /\ Fields(f)
  BY <1>4, <1>5, FlightFacts DEF Range, Fields
<1>8. FlightMayBe(f)
  BY <1>1, <1>2, <1>3, <1>4, <1>5, <1>6, <1>7 DEF FlightMayBe
<1> QED
  BY <1>1, <1>8, FlightSteps

LEMMA LoseKeeps ==
  ASSUME TransportInv, Lose
  PROVE  TransportInv'
<1>1. /\ Fields(Idle) /\ Idle.stage = "idle" /\ Idle.response = <<>>
      /\ Idle.reply = <<>> /\ Idle.own = <<>> /\ Idle.session = None
  BY DEF Idle, Flight, Fields
<1>2. <<>> \in Seq(Cookies) /\ Len(<<>>) = 0 /\ Range(<<>>) = {}
  BY EmptySeq DEF Range
<1>3. FlightMayBe(Idle)
  BY <1>1, <1>2, TransportAssumption DEF FlightMayBe
<1> QED
  BY <1>3, FlightSteps DEF Lose

\* What the browser has after an answer: for each name, what it had or what
\* the last cookie of that name says.
LEMMA KeepingFacts ==
  ASSUME NEW had, NEW cookies \in Seq(Cookies), NEW name \in DOMAIN had
  PROVE  \/ /\ \A i \in DOMAIN cookies : cookies[i].name # name
            /\ Keeping(had, cookies)[name] = had[name]
         \/ \E i \in DOMAIN cookies :
              /\ cookies[i].name = name /\ cookies[i] \in Cookies
              /\ Keeping(had, cookies)[name] = cookies[i].value
<1>1. CASE \E i \in DOMAIN cookies : cookies[i].name = name
  <2>1. PICK i \in DOMAIN cookies :
          /\ cookies[i].name = name /\ LastCookie(cookies, {name}) = cookies[i].value
          /\ \A j \in DOMAIN cookies : cookies[j].name = name => j <= i
    BY <1>1, LastGiven
  <2>2. cookies[i] \in Cookies
    BY LenProperties, ElementOfSeq
  <2> QED
    BY <1>1, <2>1, <2>2 DEF Keeping
<1>2. CASE ~ \E i \in DOMAIN cookies : cookies[i].name = name
  BY <1>2 DEF Keeping
<1> QED
  BY <1>1, <1>2

LEMMA DeliverKeeps ==
  ASSUME TransportInv, Deliver
  PROVE  TransportInv'
<1> DEFINE sent == Sent(flight)
           response == flight.response
           set == flight.own
<1>1. /\ jar' = Keeping(jar, sent) /\ flight' = Idle
      /\ current' = IF flight.session # None THEN flight.session ELSE current
  BY DEF Deliver
<1>2. /\ DOMAIN jar = Names /\ response \in Seq(Cookies) /\ set \in Seq(Cookies)
      /\ \A i \in DOMAIN set : set[i].name = Theme
      /\ \A i \in DOMAIN response : response[i].name \notin Foreign \cup {CsrfName}
      /\ flight.session \in Sessions \cup {None}
      /\ flight.session = None => \A i \in DOMAIN response : response[i].name = Theme
      /\ flight.session # None =>
           KeepsSession(Keeping(jar, response), flight.session)
  BY FlightFacts
<1>3. sent = response \/ sent = set \o response
  BY FlightFacts DEF Sent
<1> HIDE DEF sent, response, set
<1>4. DOMAIN jar' = Names
  BY <1>1, <1>2 DEF Keeping
<1>5. /\ sent \in Seq(Cookies)
      /\ \A k \in DOMAIN sent : \/ sent[k].name = Theme
                                \/ \E i \in DOMAIN response : sent[k] = response[i]
  <2>1. CASE sent = response
    BY <1>2, <2>1
  <2>2. CASE sent = set \o response
    <3>1. /\ set \o response \in Seq(Cookies)
          /\ \A k \in DOMAIN (set \o response) :
               \/ \E i \in DOMAIN set : (set \o response)[k] = set[i]
               \/ \E i \in DOMAIN response : (set \o response)[k] = response[i]
      BY <1>2, ConcatPlaces
    <3> QED
      BY <1>2, <2>2, <3>1
  <2> QED
    BY <1>3, <2>1, <2>2
<1>6. ASSUME NEW name \in Names PROVE [name |-> name, value |-> jar'[name]] \in Cookies
  <2>1. [name |-> name, value |-> jar[name]] \in Cookies
    BY DEF TransportInv, Typed
  <2>2. CASE Keeping(jar, sent)[name] = jar[name]
    BY <1>1, <2>1, <2>2
  <2>3. CASE \E i \in DOMAIN sent : /\ sent[i].name = name /\ sent[i] \in Cookies
                                    /\ Keeping(jar, sent)[name] = sent[i].value
    <3>1. PICK i \in DOMAIN sent : /\ sent[i].name = name /\ sent[i] \in Cookies
                                   /\ jar'[name] = sent[i].value
      BY <1>1, <2>3
    <3> QED
      BY <3>1 DEF Cookies
  <2> QED
    BY <1>2, <1>5, <2>2, <2>3, KeepingFacts
<1>7. jar'[CsrfName] = jar[CsrfName]
  <2>1. \A k \in DOMAIN sent : sent[k].name # CsrfName
    BY <1>2, <1>5, NamesFacts
  <2>2. CsrfName \in DOMAIN jar
    BY <1>2, NamesFacts
  <2> QED
    BY <1>1, <1>5, <2>1, <2>2, KeepingFacts
<1>8. ASSUME flight.session = None PROVE JarKept'
  <2>1. \A k \in DOMAIN sent : sent[k].name = Theme
    BY <1>2, <1>5, <1>8
  <2>2. \A name \in SessionCookies \cup Foreign : jar'[name] = jar[name]
    <3> SUFFICES ASSUME NEW name \in SessionCookies \cup Foreign
                 PROVE  jar'[name] = jar[name]
      OBVIOUS
    <3>1. name \in DOMAIN jar /\ name # Theme
      BY <1>2, NamesFacts
    <3> QED
      BY <1>1, <1>5, <2>1, <3>1, KeepingFacts
  <2>3. current' = current
    BY <1>1, <1>8
  <2>4. current # None => KeepsSession(jar', current)
    BY <2>2, SessionUntouched DEF TransportInv, JarKept
  <2> QED
    BY <1>4, <1>7, <2>2, <2>3, <2>4 DEF TransportInv, JarKept
<1>9. ASSUME flight.session # None PROVE JarKept'
  <2> DEFINE token == flight.session
             after == Keeping(jar, response)
  <2>1. KeepsSession(after, token) /\ token \in Sessions /\ current' = token
    BY <1>1, <1>2, <1>9
  <2> HIDE DEF token
  <2>2. SessionCookies \subseteq DOMAIN jar
    BY <1>2, NamesFacts
  <2>3. ASSUME NEW name \in SessionCookies PROVE jar'[name] = after[name]
    <3>1. \A i \in DOMAIN set : set[i].name # name
      BY <1>2, NamesFacts
    <3>2. Keeping(jar, set \o response)[name] = Keeping(jar, response)[name]
      BY <1>2, <2>2, <3>1, KeepingLater
    <3> QED
      BY <1>1, <1>3, <3>2
  <2> HIDE DEF after
  <2>4. KeepsSession(jar', token)
    BY <2>1, <2>3, SessionUntouched
  <2>a. \A name \in Foreign : jar'[name] = jar[name]
    <3> SUFFICES ASSUME NEW name \in Foreign PROVE jar'[name] = jar[name]
      OBVIOUS
    <3>1. \A k \in DOMAIN sent : sent[k].name # name
      BY <1>2, <1>5, <1>9, NamesFacts DEF Foreign
    <3>2. name \in DOMAIN jar
      BY <1>2, NamesFacts
    <3> QED
      BY <1>1, <1>5, <3>1, <3>2, KeepingFacts
  <2>5. \A name \in SessionCookies : jar'[name] \in SessionValues \cup {None, Garbled}
    <3>1. PICK n \in 1 .. Len(PieceNames) :
            \A name \in SessionCookies :
              \/ \E i \in DOMAIN Kept(token, n) :
                   Kept(token, n)[i] = [name |-> name, value |-> jar'[name]]
              \/ jar'[name] = None
      BY <2>4 DEF KeepsSession
    <3>2. \A i \in DOMAIN Kept(token, n) :
            Kept(token, n)[i].value \in SessionValues
      <4>1. Kept(token, n) \in Seq([name : SessionCookies, value : SessionValues])
        BY <2>1, KeptFacts, Zenon
      <4>2. \A i \in DOMAIN Kept(token, n) :
              Kept(token, n)[i] \in [name : SessionCookies, value : SessionValues]
        BY <4>1, LenProperties, ElementOfSeq
      <4> QED
        BY <4>2
    <3> QED
      BY <3>1, <3>2
  <2> QED
    BY <1>4, <1>7, <2>1, <2>4, <2>5, <2>a DEF TransportInv, JarKept
<1>10. JarKept'
  BY <1>8, <1>9
<1>11. current' \in Sessions \cup {None}
  BY <1>1, <1>2 DEF TransportInv, Typed
<1>12. /\ Fields(flight') /\ flight'.stage = "idle" /\ flight'.response = <<>>
       /\ flight'.reply = <<>> /\ flight'.own = <<>> /\ flight'.session = None
  BY <1>1 DEF Idle, Flight, Fields
<1>13. <<>> \in Seq(Cookies) /\ Len(<<>>) = 0 /\ Range(<<>>) = {}
  BY EmptySeq DEF Range
<1>14. Typed'
  BY <1>6, <1>11, <1>12, <1>13, TransportAssumption DEF Typed
<1>15. FlightKept'
  BY <1>12, <1>13 DEF FlightKept, Is
<1>16. RepliesFollow'
  BY <1>12 DEF RepliesFollow
<1> QED
  BY <1>10, <1>14, <1>15, <1>16 DEF TransportInv
LEMMA NextKeeps ==
  ASSUME TransportInv, [TransportNext]_vars
  PROVE  TransportInv'
<1>1. ASSUME NEW head \in Heads, NEW names \in {AllNames, Reverse(AllNames)},
             NEW own \in {<<>>} \cup (IF HasReply THEN {<<c>> : c \in ThemeCookies}
                                                  ELSE {}),
             Send(head, names, own)
      PROVE  TransportInv'
  BY <1>1, SendKeeps, Zenon
<1>2. ASSUME NEW token \in Sessions, NEW n \in 1 .. Len(PieceNames), Renew(token, n)
      PROVE  TransportInv'
  BY <1>2, RenewKeepsInv, Zenon
<1>3. ASSUME NEW cookie \in ThemeCookies, Adds(cookie) \/ Replaces(cookie)
      PROVE  TransportInv'
  BY <1>3, AddsKeeps, ReplacesKeeps, Zenon
<1>4. CASE Deliver
  BY <1>4, DeliverKeeps, Zenon
<1>5. CASE Lose
  BY <1>5, LoseKeeps, Zenon
<1>6. CASE UNCHANGED vars
  <2>1. /\ deployment' = deployment /\ jar' = jar /\ flight' = flight
        /\ current' = current
    BY <1>6 DEF vars
  <2>2. \A head, names : RequestOf(head, names)' = RequestOf(head, names)
    BY <2>1 DEF RequestOf, Adapted, HasReply
  <2>3. Typed'
    BY <2>1 DEF TransportInv, Typed
  <2>4. JarKept'
    BY <2>1 DEF TransportInv, JarKept
  <2>5. FlightKept'
    BY <2>1, <2>2 DEF TransportInv, FlightKept, Is
  <2>6. RepliesFollow'
    BY <2>1 DEF TransportInv, RepliesFollow, HasReply
  <2> QED
    BY <2>3, <2>4, <2>5, <2>6 DEF TransportInv
<1> QED
  BY <1>1, <1>2, <1>3, <1>4, <1>5, <1>6 DEF TransportNext

LEMMA AlwaysKept == TransportSpec => []TransportInv
<1>1. TransportInit => TransportInv
  BY InitKept
<1>2. TransportInv /\ [TransportNext]_vars => TransportInv'
  BY NextKeeps
<1> QED
  BY <1>1, <1>2, PTL DEF TransportSpec

\* The replies of the built-in adapters carry the cookies of the response
\* (handleHeaderChange), however these were set, renewed or replaced.
THEOREM RepliesFollowTheResponse == TransportSpec => []RepliesFollow
<1>1. TransportInv => RepliesFollow
  BY DEF TransportInv
<1> QED
  BY <1>1, AlwaysKept, PTL

\* A request is read as one of the session that was last handed to the browser,
\* for every number of pieces, order of the header and answer that is lost, if
\* no cookie of another project holds a session whole, and none a piece of one
\* where this session is kept in pieces; if they do, which the extractor cannot
\* tell, as one of theirs or of none, but never as one of an older session
\* (setAll, SupabaseSsrTokenExtractor).
THEOREM TheSessionIsRead == TransportSpec => []SessionIsRead
<1> DEFINE token == TokenOf("ssr", flight.raw)
           cookies == Range(flight.raw.cookies)
           others == {c \in cookies : c.name \in Foreign}
           whole == \E c \in cookies : c.name = WholeName
<1>1. ASSUME TransportInv, Served, deployment.extraction = "ssr",
             flight.raw.authorization = None, current # None
      PROVE  /\ token \in {current, None} \cup {c.value.token : c \in others}
             /\ (\A c \in others : whole /\ c.name \notin WholeNames) => token = current
  <2>1. PICK head \in Heads, names \in {AllNames, Reverse(AllNames)} :
          flight.raw = RequestOf(head, names)
    BY <1>1 DEF TransportInv, FlightKept, Served
  <2> DEFINE listed == Listed(jar, names)
  <2>2. flight.raw.cookies = listed
    BY <2>1 DEF RequestOf
  <2>3. token = SsrToken(listed)
    BY <1>1, <2>2 DEF TokenOf
  <2>4. current \in Sessions /\ KeepsSession(jar, current)
    BY <1>1 DEF TransportInv, Typed, JarKept
  <2>5. /\ \A x \in Names : jar[x] # None => [name |-> x, value |-> jar[x]] \in cookies
        /\ \A c \in cookies : c \in Had(jar)
    <3>1. /\ listed \in Seq(Had(jar))
          /\ \A x \in Names : jar[x] # None =>
               \E i \in DOMAIN listed : listed[i] = [name |-> x, value |-> jar[x]]
      BY ListedFacts
    <3> HIDE DEF listed
    <3>2. cookies = Range(listed)
      BY <2>2
    <3> HIDE DEF cookies
    <3>3. \A i \in DOMAIN listed : listed[i] \in Had(jar)
      BY <3>1, LenProperties, ElementOfSeq
    <3> QED
      BY <3>1, <3>2, <3>3 DEF Range
  <2>6. Foreign \subseteq Names
    BY NamesFacts
  <2> HIDE DEF token, cookies, listed
  <2>7. ASSUME token # None
        PROVE  token \in {current} \cup {c.value.token : c \in others}
    <3>1. PICK x \in SessionCookies \cup Foreign : jar[x] # None /\ token = jar[x].token
      BY <2>3, <2>7, SsrIsBorne DEF listed
    <3>2. CASE x \in Foreign
      <4> DEFINE c == [name |-> x, value |-> jar[x]]
      <4>1. c \in cookies /\ c.name = x /\ c.value = jar[x]
        BY <2>5, <2>6, <3>1, <3>2
      <4> HIDE DEF c
      <4> QED
        BY <3>1, <3>2, <4>1
    <3>3. CASE x \in SessionCookies
      <4>1. PICK n \in 1 .. Len(PieceNames) : \E i \in DOMAIN Kept(current, n) :
              Kept(current, n)[i] = [name |-> x, value |-> jar[x]]
        BY <2>4, <3>1, <3>3 DEF KeepsSession
      <4>2. PICK i \in DOMAIN Kept(current, n) :
              Kept(current, n)[i] = [name |-> x, value |-> jar[x]]
        BY <4>1
      <4>3. jar[x] = Kept(current, n)[i].value
        BY <4>2
      <4>4. Kept(current, n)[i].value = [token |-> current, piece |-> i, of |-> n]
        BY <2>4, KeptValue, Zenon
      <4>5. jar[x].token = current
        BY <4>3, <4>4
      <4> QED
        BY <3>1, <4>5
    <3> QED
      BY <3>1, <3>2, <3>3
  <2>8. ASSUME \A c \in others : whole /\ c.name \notin WholeNames
        PROVE  token = current
    <3>1. ASSUME NEW x \in Foreign, jar[x] # None
          PROVE  jar[WholeName] # None /\ x \notin WholeNames
      <4> DEFINE c == [name |-> x, value |-> jar[x]]
      <4>1. c \in cookies /\ c.name = x
        BY <2>5, <2>6, <3>1
      <4> HIDE DEF c
      <4>2. whole /\ x \notin WholeNames
        BY <2>8, <3>1, <4>1
      <4>3. PICK d \in cookies : d.name = WholeName
        BY <4>2
      <4>4. d \in Had(jar)
        BY <2>5, <4>3
      <4>5. jar[WholeName] # None
        BY <4>3, <4>4 DEF Had
      <4> QED
        BY <4>2, <4>5
    <3>2. ReadFirst(jar)
      BY <3>1 DEF ReadFirst
    <3> QED
      BY <2>3, <2>4, <3>2, SsrReads DEF listed
  <2> QED
    BY <2>7, <2>8
<1>2. TransportInv => SessionIsRead
  BY <1>1 DEF SessionIsRead
<1> QED
  BY <1>2, AlwaysKept, PTL

-----------------------------------------------------------------------------
(* What the middlewares see.                                               *)

\* An adapter changes the body and the socket of a request, and nothing else.
LEMMA RequestFacts ==
  ASSUME NEW head \in Heads, NEW names
  PROVE  /\ RequestOf(head, names).cookies = Listed(jar, names)
         /\ \A f \in DOMAIN head \ {"body", "socket"} : RequestOf(head, names)[f] = head[f]
         /\ RequestOf(head, names).socket = IF HasReply THEN None ELSE head.socket
<1>1. DOMAIN head = {"method", "path", "origin", "authorization", "csrf",
                     "trusted", "realIp", "socket", "known", "body"}
  BY TransportAssumption
<1>2. /\ \A f \in DOMAIN head \ {"body", "socket"} : Adapted(head)[f] = head[f]
      /\ Adapted(head).socket = IF HasReply THEN None ELSE head.socket
  BY <1>1 DEF Adapted
<1> HIDE DEF Adapted
<1>3. /\ RequestOf(head, names).cookies = Listed(jar, names)
      /\ \A f \in DOMAIN head : RequestOf(head, names)[f] = Adapted(head)[f]
  BY <1>1 DEF RequestOf
<1> QED
  BY <1>1, <1>2, <1>3

\* The values of the cookies of a request are those the browser has.
LEMMA CookieValues ==
  ASSUME NEW had, NEW names, names \in {AllNames, Reverse(AllNames)},
         NEW name \in Names, had[name] # None
  PROVE  had[name] \in {c.value : c \in Range(Listed(had, names))}
<1> DEFINE s == Listed(had, names)
<1>1. /\ s \in Seq(Had(had))
      /\ \A x \in Names : had[x] # None =>
           \E i \in DOMAIN s : s[i] = [name |-> x, value |-> had[x]]
  BY ListedFacts
<1> HIDE DEF s
<1>2. PICK i \in DOMAIN s : s[i] = [name |-> name, value |-> had[name]]
  BY <1>1
<1> QED
  BY <1>2 DEF Range, s

\* Of some cookies, the first is one that the browser has.
LEMMA FirstOfBrowser ==
  ASSUME NEW names, names \in {AllNames, Reverse(AllNames)}, NEW wanted,
         FirstCookie(Listed(jar, names), wanted) # None
  PROVE  \E name \in Names \cap wanted :
           FirstCookie(Listed(jar, names), wanted) = jar[name] /\ jar[name] # None
<1> DEFINE s == Listed(jar, names)
<1>1. s \in Seq(Had(jar))
  BY ListedFacts
<1> HIDE DEF s
<1>2. PICK i \in DOMAIN s : s[i].name \in wanted /\ FirstCookie(s, wanted) = s[i].value
  BY <1>1, FirstGiven DEF s
<1>3. s[i] \in Had(jar)
  BY <1>1, LenProperties, ElementOfSeq
<1> QED
  BY <1>2, <1>3 DEF Had, s

\* A route that is written out for a path matches it, and no other route does
\* that has no parameter.
LEMMA WrittenOut ==
  ASSUME NEW head \in Heads, NEW i \in DOMAIN Routes
  PROVE  /\ Routes[i].path = head.path.segments
            <=> Matches(Routes[i], head.path.segments) /\ ~ IsDynamic(Routes[i])
         /\ Matches(Routes[i], head.path.segments) =>
              Len(Routes[i].path) = Len(head.path.segments)
<1> DEFINE p == Routes[i].path
           s == head.path.segments
<1>1. Routes[i] \in Range(Routes)
  BY DEF Range
<1>2. p \in Seq(Range(p)) /\ s \in Seq(Range(s) \ {Param})
  BY <1>1, RequestsAssumption, TransportAssumption
<1>3. Matches(Routes[i], s) <=> Len(p) = Len(s) /\ \A k \in DOMAIN s : p[k] \in {Param, s[k]}
  BY DEF Matches
<1>4. IsDynamic(Routes[i]) <=> \E k \in DOMAIN p : p[k] = Param
  BY DEF IsDynamic
<1> HIDE DEF p, s
<1>5. /\ Len(p) \in Nat /\ DOMAIN p = 1 .. Len(p) /\ Len(s) \in Nat
      /\ DOMAIN s = 1 .. Len(s)
  BY <1>2, LenProperties
<1>6. \A k \in DOMAIN s : s[k] # Param
  <2>1. \A k \in DOMAIN s : s[k] \in Range(s) \ {Param}
    BY <1>2, <1>5, ElementOfSeq
  <2> QED
    BY <2>1
<1>7. ASSUME Matches(Routes[i], s), ~ IsDynamic(Routes[i]) PROVE p = s
  <2>1. Len(p) = Len(s) /\ \A k \in 1 .. Len(p) : p[k] = s[k]
    BY <1>3, <1>4, <1>5, <1>7
  <2> DEFINE Segments == Range(p) \cup Range(s)
  <2>2. p \in Seq(Segments) /\ s \in Seq(Segments)
    <3>1. Range(p) \subseteq Segments /\ Range(s) \ {Param} \subseteq Segments
      OBVIOUS
    <3> HIDE DEF Segments
    <3> QED
      BY <1>2, <3>1, SeqMonotonic
  <2> HIDE DEF Segments
  <2> QED
    BY <2>1, <2>2, SeqEqual
<1>8. ASSUME p = s PROVE Matches(Routes[i], s) /\ ~ IsDynamic(Routes[i])
  BY <1>3, <1>4, <1>6, <1>8
<1> QED
  BY <1>3, <1>7, <1>8 DEF p, s

\* The route registry: the last of the routes written out for a path, or else
\* one that matches it.
LEMMA FoundMethods ==
  ASSUME NEW head \in Heads
  PROVE  LET path == head.path.segments
             written == {i \in DOMAIN Routes : Routes[i].path = path}
         IN /\ \A i \in written :
                 (\A j \in written : j <= i) => FindMethods(path) = Routes[i].methods
            /\ \A method \in FindMethods(path) :
                 \E route \in Range(Routes) :
                   method \in route.methods /\ Len(route.path) = Len(path)
<1> DEFINE path == head.path.segments
           written == {i \in DOMAIN Routes : Routes[i].path = path}
           those == {i \in DOMAIN Routes : Matches(Routes[i], path)}
           literal == {i \in those : ~ IsDynamic(Routes[i])}
<1>1. Len(Routes) \in Nat /\ DOMAIN Routes = 1 .. Len(Routes)
  BY RequestsAssumption, LenProperties
<1>2. literal = written
  <2>1. \A i \in DOMAIN Routes :
          Routes[i].path = path <=> Matches(Routes[i], path) /\ ~ IsDynamic(Routes[i])
    BY WrittenOut
  <2> HIDE DEF path
  <2> QED
    BY <2>1
<1>3. FindMethods(path) = IF literal # {} THEN Routes[Max(literal)].methods
                          ELSE IF those # {} THEN Routes[Min(those)].methods
                          ELSE {}
  BY DEF FindMethods
<1>4. literal \subseteq 1 .. Len(Routes) /\ those \subseteq Nat
      /\ literal \subseteq those /\ those \subseteq DOMAIN Routes
  BY <1>1
<1>5. \A i \in those : Len(Routes[i].path) = Len(path)
  BY WrittenOut
<1> HIDE DEF literal, those, written, path
<1>6. literal # {} => Max(literal) \in literal /\ \A m \in literal : m <= Max(literal)
  BY <1>1, <1>4, MaxIsGreatest
<1>7. those # {} => Min(those) \in those
  BY <1>4, MinIsLeast
<1>8. ASSUME NEW i \in written, \A j \in written : j <= i
      PROVE  FindMethods(path) = Routes[i].methods
  <2>1. Max(literal) \in literal /\ i <= Max(literal) /\ Max(literal) <= i
    BY <1>2, <1>6, <1>8
  <2>2. i \in Nat /\ Max(literal) \in Nat
    BY <1>1, <1>2, <1>4, <2>1
  <2>3. Max(literal) = i
    BY <2>1, <2>2
  <2> QED
    BY <1>2, <1>3, <2>3
<1>9. ASSUME NEW method \in FindMethods(path)
      PROVE  \E route \in Range(Routes) :
               method \in route.methods /\ Len(route.path) = Len(path)
  <2>1. PICK i \in those : method \in Routes[i].methods
    BY <1>3, <1>4, <1>6, <1>7, <1>9
  <2>2. Routes[i] \in Range(Routes)
    BY <1>4 DEF Range
  <2> QED
    BY <1>5, <2>1, <2>2
<1> QED
  BY <1>8, <1>9 DEF path, written

\* The token of a session comes from a cookie that keeps it, which the browser
\* sent; the other extractor may find one that cannot be decoded.
LEMMA TokensAreSent ==
  ASSUME TransportInv, NEW names, names \in {AllNames, Reverse(AllNames)},
         NEW extraction, NEW raw, raw.cookies = Listed(jar, names),
         Readable(extraction, raw), TokenOf(extraction, raw) \notin {None, Garbled}
  PROVE  \/ TokenOf(extraction, raw) = raw.authorization
         \/ \E v \in {c.value : c \in Range(raw.cookies)} \cap SessionValues :
              TokenOf(extraction, raw) = v.token
<1> DEFINE cookies == Listed(jar, names)
           values == {c.value : c \in Range(cookies)}
<1>1. \A name \in SessionCookies \cup Foreign :
        jar[name] \in SessionValues \cup {None, Garbled}
  BY DEF TransportInv, JarKept
<1>2. \A name \in Names : jar[name] # None => jar[name] \in values
  BY CookieValues
<1>3. SessionCookies \cup Foreign \subseteq Names
  BY NamesFacts
<1>4. SsrToken(cookies) # None =>
        \E x \in SessionCookies \cup Foreign :
          jar[x] # None /\ SsrToken(cookies) = jar[x].token
  BY SsrIsBorne
<1> HIDE DEF cookies, values
<1>5. raw.cookies = cookies
  BY DEF cookies
<1>6. CASE raw.authorization # None
  BY <1>6 DEF TokenOf
<1>7. CASE raw.authorization = None /\ extraction = "ssr"
  <2>1. TokenOf(extraction, raw) = SsrToken(cookies)
    BY <1>5, <1>7 DEF TokenOf
  <2>2. \A v \in values : v # Garbled
    <3>1. \A i \in DOMAIN cookies : cookies[i].value # Garbled
      BY <1>5, <1>7 DEF Readable
    <3> QED
      BY <3>1 DEF values, Range
  <2>3. PICK x \in SessionCookies \cup Foreign :
          jar[x] # None /\ SsrToken(cookies) = jar[x].token
    BY <1>4, <2>1
  <2>4. jar[x] \in values \cap SessionValues
    BY <1>1, <1>2, <1>3, <2>2, <2>3
  <2> QED
    BY <1>5, <2>1, <2>3, <2>4 DEF values
<1>8. CASE raw.authorization = None /\ extraction # "ssr"
  <2> DEFINE value == FirstCookie(cookies, SessionNames)
  <2>1. TokenOf(extraction, raw) = IF value \in {None, Garbled} THEN value ELSE value.token
    BY <1>5, <1>8 DEF TokenOf, PrefixToken
  <2>2. value \notin {None, Garbled} /\ TokenOf(extraction, raw) = value.token
    BY <2>1
  <2>3. PICK name \in Names \cap SessionNames : value = jar[name] /\ jar[name] # None
    BY <2>2, FirstOfBrowser DEF cookies
  <2>4. name \in SessionCookies \cup Foreign
    <3>1. name # Theme /\ name # CsrfName
      BY RequestsAssumption, TransportAssumption
    <3> QED
      BY <3>1 DEF Names, SessionCookies
  <2>5. value \in values \cap SessionValues
    BY <1>1, <1>2, <2>2, <2>3, <2>4
  <2> HIDE DEF value
  <2> QED
    BY <1>5, <2>2, <2>5 DEF values
<1> QED
  BY <1>6, <1>7, <1>8

\* The middlewares see the request that was sent, whatever routes, peers and
\* sessions there are (AllowMethodRegistry, ClientIpResolver, TokenOf and the
\* extractor of the CSRF tokens).
THEOREM RequestsReadAsSent == TransportSpec => []ReadAsSent
<1>1. ASSUME TransportInv PROVE ReadAsSent
  <2> SUFFICES ASSUME Served PROVE ReadAsSent
    BY DEF ReadAsSent
  <2> DEFINE raw == flight.raw
             values == {c.value : c \in Range(raw.cookies)}
             tokens == {raw.authorization} \cup {c.token : c \in values \cap SessionValues}
             written == {i \in DOMAIN Routes : Routes[i].path = raw.path.segments}
             token == TokenOf(deployment.extraction, raw)
             claims == ClaimsOf(token, raw)
             csrf == CsrfCookie(raw)
             methods == FindMethods(raw.path.segments)
  <2>1. PICK head \in Heads, names \in {AllNames, Reverse(AllNames)} :
          raw = RequestOf(head, names)
    BY <1>1 DEF TransportInv, FlightKept, Served
  <2>2. Readable(deployment.extraction, raw)
    BY DEF Served
  <2>3. raw.path = head.path /\ raw.cookies = Listed(jar, names)
    <3>1. "path" \in DOMAIN head \ {"body", "socket"}
      BY TransportAssumption
    <3> QED
      BY <2>1, <3>1, RequestFacts
  <2>4. /\ TheVisit.method = raw.method
        /\ TheVisit.routed <=> raw.method \in methods
        /\ TheVisit.ip = ClientIp(raw)
        /\ TheVisit.claims = IF claims = None THEN [user |-> None, tenant |-> None]
                                              ELSE Identity(claims)
        /\ TheVisit.header = HeaderSubject(raw) /\ TheVisit.cookie = CookieSubject(raw)
    BY DEF TheVisit, Visit, Check, Normal
  <2> HIDE DEF methods
  <2>5. /\ \A i \in written :
             (\A j \in written : j <= i) => methods = Routes[i].methods
        /\ \A method \in methods :
             \E route \in Range(Routes) :
               method \in route.methods /\ Len(route.path) = Len(raw.path.segments)
    BY <2>3, FoundMethods DEF methods
  <2>6. raw.socket \notin TrustedProxies \cup {None} => TheVisit.ip = raw.socket
    BY <2>4 DEF ClientIp
  <2>7. ASSUME TheVisit.claims.user # None
        PROVE  \E c \in {raw.known} \cup {Account[t] : t \in tokens \cap DOMAIN Account} :
                 c # None /\ c.user = TheVisit.claims.user
    <3>1. claims # None /\ TheVisit.claims = Identity(claims)
      BY <2>4, <2>7
    <3>2. TheVisit.claims.user = claims.user
      BY <2>7, <3>1 DEF Identity
    <3>3. CASE token = None
      BY <3>1, <3>2, <3>3 DEF ClaimsOf
    <3>4. CASE token # None
      <4>1. token \in DOMAIN Account /\ claims = Account[token]
        BY <3>1, <3>4 DEF ClaimsOf
      <4>2. token # Garbled
        BY <4>1, RequestsAssumption
      <4>3. token \in tokens
        <5>1. \/ token = raw.authorization
              \/ \E v \in values \cap SessionValues : token = v.token
          BY <1>1, <2>2, <2>3, <3>4, <4>2, TokensAreSent
        <5> QED
          BY <5>1
      <4> HIDE DEF token, tokens, claims
      <4> QED
        BY <3>1, <3>2, <4>1, <4>3
    <3> QED
      BY <3>3, <3>4
  <2>8. ASSUME TheVisit.header = TheVisit.cookie, TheVisit.cookie # None
        PROVE  raw.csrf \in values
    <3>1. csrf # None /\ TheVisit.cookie = csrf.subject
      BY <2>4, <2>8 DEF CookieSubject
    <3>2. csrf = FirstCookie(raw.cookies, {CsrfName}) /\ csrf # Garbled
      BY <3>1 DEF CsrfCookie
    <3>3. PICK name \in Names \cap {CsrfName} :
            FirstCookie(raw.cookies, {CsrfName}) = jar[name] /\ jar[name] # None
      BY <2>3, <3>1, <3>2, FirstOfBrowser
    <3>4. csrf = jar[CsrfName] /\ jar[CsrfName] # None
      BY <3>2, <3>3
    <3>5. csrf.subject # Mismatch
      <4>1. PICK had \in Jars : jar[CsrfName] = had[CsrfName]
        BY <1>1 DEF TransportInv, JarKept
      <4> QED
        BY <3>1, <3>2, <3>4, <4>1, TransportAssumption
    <3>6. raw.csrf = csrf
      <4>1. HeaderSubject(raw) = csrf.subject
        BY <2>4, <2>8, <3>1
      <4> QED
        BY <2>8, <2>4, <3>5, <4>1 DEF HeaderSubject
    <3>7. jar[CsrfName] \in values
      BY <1>1, <2>3, <3>4, NamesFacts, CookieValues
    <3> QED
      BY <3>4, <3>6, <3>7
  <2> HIDE DEF raw, values, tokens, written
  <2> QED
    BY <2>4, <2>5, <2>6, <2>7, <2>8 DEF ReadAsSent, raw, values, tokens, written
<1> QED
  BY <1>1, AlwaysKept, PTL

\* Every request that can be read is one that the middlewares know how to
\* handle, whatever the headers claim and whoever is known.
THEOREM VisitsAreTyped == TransportSpec => []TypeOK
<1>1. ASSUME TransportInv PROVE TypeOK
  <2> DEFINE raw == flight.raw
             claims == ClaimsOf(TokenOf(deployment.extraction, raw), raw)
             Ids == [user : Guids \cup {None}, tenant : Guids \cup {None}]
  <2>1. ASSUME Served
        PROVE  /\ TheVisit.ip \in Addresses \cup {None}
               /\ TheVisit.claims \in Ids
               /\ TheVisit.origin \in {"none", "own", "foreign"}
    <3>1. PICK head \in Heads, names \in {AllNames, Reverse(AllNames)} :
            raw = RequestOf(head, names)
      BY <1>1, <2>1 DEF TransportInv, FlightKept, Served
    <3>2. /\ TheVisit.ip = ClientIp(raw)
          /\ TheVisit.claims = IF claims = None THEN [user |-> None, tenant |-> None]
                                                ELSE Identity(claims)
          /\ TheVisit.origin \in {"none", "own", "foreign"}
      BY DEF TheVisit, Visit
    <3>3. ClientIp(raw) \in Addresses \cup {None}
      <4>1. head.trusted \in Seq(Addresses) /\ head.realIp \in Seq(Addresses)
        BY TransportAssumption
      <4>2. head.socket \in Addresses
        BY DEF Addresses
      <4>3. /\ raw.trusted = head.trusted /\ raw.realIp = head.realIp
            /\ raw.socket \in {None, head.socket}
        <5>1. {"trusted", "realIp"} \subseteq DOMAIN head \ {"body", "socket"}
          BY TransportAssumption
        <5> QED
          BY <3>1, <5>1, RequestFacts
      <4>4. ASSUME NEW s \in Seq(Addresses), s # <<>> PROVE Head(s) \in Addresses
        BY <4>4, HeadTailProperties
      <4>5. Claimed(raw) \in Addresses \cup {None}
        BY <4>1, <4>3, <4>4 DEF Claimed
      <4> QED
        BY <4>2, <4>3, <4>5 DEF ClientIp
    <3>4. [user |-> None, tenant |-> None] \in Ids /\ Identity(claims) \in Ids
      BY DEF Identity
    <3> QED
      BY <3>2, <3>3, <3>4
  <2>2. Range(flight.response) \cup Range(flight.reply) \subseteq Cookies
    <3>1. ASSUME NEW s \in Seq(Cookies) PROVE Range(s) \subseteq Cookies
      BY LenProperties, ElementOfSeq DEF Range
    <3> QED
      BY <1>1, <3>1, FlightFacts
  <2> QED
    BY <1>1, <2>1, <2>2 DEF TypeOK, TransportInv, Typed
<1> QED
  BY <1>1, AlwaysKept, PTL

=============================================================================
