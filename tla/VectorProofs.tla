---------------------------- MODULE VectorProofs ----------------------------
(***************************************************************************)
(* Lemmas about sequences that the proofs of several components need: what *)
(* Retain (Vec::retain) keeps of one, and what FlattenSeq makes of several *)
(* one after the other.                                                    *)
(***************************************************************************)
EXTENDS Vectors, SequencesExt, FiniteSetTheorems, SequenceTheorems,
        WellFoundedInduction, TLAPS

-----------------------------------------------------------------------------
(* Induction on a set of numbers.                                          *)

\* the least of a set of numbers, by the well-founded order on Nat
LEMMA LeastOf ==
  ASSUME NEW S \in SUBSET Nat, S # {}
  PROVE  \E i \in S : \A j \in S : i <= j
<1> DEFINE below == OpToRel(<, Nat)
<1>1. \A i, j \in Nat : <<i, j>> \in below <=> i < j
  BY DEF OpToRel
<1>2. IsWellFoundedOn(below, Nat)
  BY NatLessThanWellFounded
<1> HIDE DEF below
<1>3. PICK i \in S : \A j \in S : ~ (<<j, i>> \in below)
  BY <1>2, WFMin
<1>4. \A j \in S : i <= j
  <2> SUFFICES ASSUME NEW j \in S PROVE i <= j
    OBVIOUS
  <2>1. i \in Nat /\ j \in Nat
    OBVIOUS
  <2>2. ~ (j < i)
    BY <1>1, <1>3, <2>1
  <2>3. QED BY ONLY <2>1, <2>2
<1>5. QED BY <1>4

\* a function on 1 .. n is a sequence of length n
LEMMA FunctionIsSeq ==
  ASSUME NEW S, NEW n \in Nat, NEW f \in [1 .. n -> S]
  PROVE  f \in Seq(S) /\ Len(f) = n /\ DOMAIN f = 1 .. n
<1>1. f \in Seq(S)
  BY SeqDef
<1>2. QED BY <1>1, LenProperties

-----------------------------------------------------------------------------
(* Vec::retain: the elements at a set of positions, in their order.        *)

\* how many of the positions I lie before i
Rank(I, i) == Cardinality({j \in I : j < i})

\* the rank of a position numbers the positions from 0 on, in their order
LEMMA RankNumbers ==
  ASSUME NEW n \in Nat, NEW I \in SUBSET (1 .. n)
  PROVE  /\ IsFiniteSet(I) /\ Cardinality(I) \in Nat
         /\ \A i \in I : Rank(I, i) \in 0 .. Cardinality(I) - 1
         /\ \A i, j \in I : i < j => Rank(I, i) < Rank(I, j)
         /\ \A k \in 1 .. Cardinality(I) : \E i \in I : Rank(I, i) = k - 1
<1>0. \A i \in I : i \in Nat
  OBVIOUS
<1>1. IsFiniteSet(1 .. n)
  BY FS_Interval
<1>2. IsFiniteSet(I) /\ Cardinality(I) \in Nat
  <2>1. IsFiniteSet(I)
    BY <1>1, FS_Subset
  <2>2. QED BY <2>1, FS_CardinalityType
<1>3. ASSUME NEW i \in I
      PROVE  /\ IsFiniteSet({j \in I : j < i}) /\ Rank(I, i) \in Nat
             /\ IsFiniteSet({j \in I : j < i} \cup {i})
             /\ Cardinality({j \in I : j < i} \cup {i}) = Rank(I, i) + 1
  <2>1. IsFiniteSet({j \in I : j < i})
    BY <1>2, FS_Subset
  <2>2. i \notin {j \in I : j < i}
    OBVIOUS
  <2>3. /\ IsFiniteSet({j \in I : j < i} \cup {i})
        /\ Cardinality({j \in I : j < i} \cup {i}) = Rank(I, i) + 1
    BY <2>1, <2>2, FS_AddElement DEF Rank
  <2>4. QED BY <2>1, <2>3, FS_CardinalityType DEF Rank
<1>4. ASSUME NEW i \in I
      PROVE  Rank(I, i) \in 0 .. Cardinality(I) - 1
  <2>1. {j \in I : j < i} \cup {i} \in SUBSET I
    OBVIOUS
  <2>2. Cardinality({j \in I : j < i} \cup {i}) <= Cardinality(I)
    BY <1>2, <2>1, FS_Subset
  <2>3. /\ Rank(I, i) \in Nat /\ Cardinality(I) \in Nat
        /\ Rank(I, i) + 1 <= Cardinality(I)
    BY <1>2, <1>3, <2>2
  <2>4. QED BY ONLY <2>3
<1>5. ASSUME NEW i \in I, NEW j \in I, i < j
      PROVE  Rank(I, i) < Rank(I, j)
  <2>1. {k \in I : k < i} \cup {i} \in SUBSET {k \in I : k < j}
    <3>1. i \in Nat /\ j \in Nat /\ i < j
      BY <1>0, <1>5
    <3>2. \A k \in I : k < i => k < j
      BY <1>0, <3>1
    <3>3. QED BY <3>1, <3>2
  <2>2. Cardinality({k \in I : k < i} \cup {i}) <= Rank(I, j)
    BY <1>3, <2>1, FS_Subset DEF Rank
  <2>3. /\ Rank(I, i) \in Nat /\ Rank(I, j) \in Nat
        /\ Rank(I, i) + 1 <= Rank(I, j)
    BY <1>3, <2>2
  <2>4. QED BY ONLY <2>3
<1>6. ASSUME NEW k \in 1 .. Cardinality(I)
      PROVE  \E i \in I : Rank(I, i) = k - 1
  <2> DEFINE f == [i \in I |-> Rank(I, i) + 1]
  <2>1. f \in [I -> 1 .. Cardinality(I)]
    BY <1>2, <1>4
  <2>2. \A i, j \in I : f[i] = f[j] => i = j
    BY <1>2, <1>4, <1>5
  <2>3. f \in Injection(I, 1 .. Cardinality(I))
    BY <2>1, <2>2 DEF Injection, IsInjective
  <2>4. IsFiniteSet(1 .. Cardinality(I))
        /\ Cardinality(1 .. Cardinality(I)) = Cardinality(I)
    BY <1>2, FS_Interval
  <2>5. f \in Surjection(I, 1 .. Cardinality(I))
    BY <2>3, <2>4, FS_Injection
  <2>6. PICK i \in I : f[i] = k
    BY <2>5 DEF Surjection
  <2>7. QED BY <1>4, <2>6
<1>7. QED BY <1>2, <1>4, <1>5, <1>6

\* what Retain keeps: the positions in their order, all of them
Picks(h, I) ==
  /\ h \in [1 .. Cardinality(I) -> I]
  /\ \A k, m \in 1 .. Cardinality(I) : k < m => h[k] < h[m]
  /\ \A i \in I : \E k \in 1 .. Cardinality(I) : h[k] = i

\* Vec::retain keeps the elements at the positions I: as many, in their order
LEMMA RetainProperties ==
  ASSUME NEW S, NEW s \in Seq(S), NEW I \in SUBSET (1 .. Len(s))
  PROVE  /\ IsFiniteSet(I) /\ Cardinality(I) \in Nat
         /\ Retain(s, I) \in Seq(S) /\ Len(Retain(s, I)) = Cardinality(I)
         /\ \E h : /\ Picks(h, I)
                   /\ \A k \in 1 .. Cardinality(I) : Retain(s, I)[k] = s[h[k]]
<1> DEFINE n == Cardinality(I)
           h == [k \in 1 .. n |-> CHOOSE i \in I : Rank(I, i) = k - 1]
<1>1. /\ Len(s) \in Nat /\ \A i \in 1 .. Len(s) : s[i] \in S
      /\ \A i \in I : i \in Nat
  BY LenProperties, ElementOfSeq
<1>2. /\ IsFiniteSet(I) /\ n \in Nat
      /\ \A i \in I : Rank(I, i) \in 0 .. n - 1
      /\ \A i, j \in I : i < j => Rank(I, i) < Rank(I, j)
      /\ \A k \in 1 .. n : \E i \in I : Rank(I, i) = k - 1
  BY <1>1, RankNumbers
<1>3. \A k \in 1 .. n : h[k] \in I /\ Rank(I, h[k]) = k - 1
  <2> TAKE k \in 1 .. n
  <2>1. PICK i \in I : Rank(I, i) = k - 1
    BY <1>2
  <2>2. QED BY <2>1
<1>4. Retain(s, I) = [k \in 1 .. n |-> s[h[k]]]
  BY DEF Retain, Rank
<1>5. h \in [1 .. n -> I]
  BY <1>3
<1> HIDE DEF n, h
<1>6. \A k, m \in 1 .. n : k < m => h[k] < h[m]
  <2> SUFFICES ASSUME NEW k \in 1 .. n, NEW m \in 1 .. n, k < m, ~ (h[k] < h[m])
               PROVE  FALSE
    OBVIOUS
  <2>1. h[k] \in Nat /\ h[m] \in Nat /\ h[k] \in I /\ h[m] \in I
    BY <1>1, <1>3
  <2>2. h[m] = h[k] \/ h[m] < h[k]
    BY <2>1
  <2>3. Rank(I, h[m]) <= Rank(I, h[k])
    BY <1>2, <2>1, <2>2
  <2>4. Rank(I, h[k]) = k - 1 /\ Rank(I, h[m]) = m - 1
    BY <1>3
  <2>5. QED BY <1>2, <2>3, <2>4
<1>7. \A i \in I : \E k \in 1 .. n : h[k] = i
  <2> SUFFICES ASSUME NEW i \in I PROVE \E k \in 1 .. n : h[k] = i
    OBVIOUS
  <2> DEFINE k == Rank(I, i) + 1
  <2>1. k \in 1 .. n /\ k - 1 = Rank(I, i)
    BY <1>2
  <2> HIDE DEF k
  <2>2. h[k] \in I /\ Rank(I, h[k]) = Rank(I, i)
    BY <1>3, <2>1
  <2>3. ~ (h[k] < i) /\ ~ (i < h[k])
    <3>1. \A j, m \in I : Rank(I, j) = Rank(I, m) /\ Rank(I, m) \in Nat => ~ (j < m)
      BY <1>2
    <3>2. Rank(I, i) \in Nat
      BY <1>2
    <3>3. QED BY <2>2, <3>1, <3>2
  <2>4. h[k] = i
    <3>1. h[k] \in Nat /\ i \in Nat
      BY <1>1, <2>2
    <3>2. QED BY ONLY <2>3, <3>1
  <2>5. QED BY <2>1, <2>4
<1>8. Picks(h, I) /\ \A k \in 1 .. n : Retain(s, I)[k] = s[h[k]]
  BY <1>4, <1>5, <1>6, <1>7 DEF Picks, n
<1>9. Retain(s, I) \in Seq(S) /\ Len(Retain(s, I)) = n
  <2>1. Retain(s, I) \in [1 .. n -> S]
    BY <1>1, <1>3, <1>4
  <2>2. Retain(s, I) \in Seq(S)
    BY <1>2, <2>1, SeqDef
  <2>3. DOMAIN Retain(s, I) = 1 .. n /\ DOMAIN Retain(s, I) = 1 .. Len(Retain(s, I))
    BY <2>1, <2>2, LenProperties
  <2>4. Len(Retain(s, I)) \in Nat
    BY <2>2, LenProperties
  <2>5. QED BY <1>2, <2>2, <2>3, <2>4
<1>10. QED BY <1>2, <1>8, <1>9 DEF n

\* the first m positions are those of the beginning of the sequence
LEMMA RetainInitial ==
  ASSUME NEW S, NEW s \in Seq(S), NEW m \in 0 .. Len(s)
  PROVE  Retain(s, 1 .. m) = [k \in 1 .. m |-> s[k]]
<1>0. Len(s) \in Nat /\ m \in Nat
  BY LenProperties
<1>1. \A n \in Nat : Cardinality(1 .. n) = n
  <2> TAKE n \in Nat
  <2>1. Cardinality(1 .. n) = IF 1 > n THEN 0 ELSE n - 1 + 1
    BY FS_Interval
  <2>2. QED BY <2>1
<1>2. ASSUME NEW i \in 1 .. m PROVE Cardinality({j \in 1 .. m : j < i}) = i - 1
  <2>1. {j \in 1 .. m : j < i} = 1 .. i - 1 /\ i - 1 \in Nat
    BY <1>0
  <2>2. QED BY <1>1, <2>1
<1>3. ASSUME NEW k \in 1 .. m
      PROVE  (CHOOSE i \in 1 .. m : Cardinality({j \in 1 .. m : j < i}) = k - 1) = k
  <2> DEFINE P(i) == Cardinality({j \in 1 .. m : j < i}) = k - 1
  <2>1. \A i \in 1 .. m : P(i) <=> i = k
    <3> TAKE i \in 1 .. m
    <3>1. i - 1 = k - 1 <=> i = k
      BY <1>0
    <3>2. QED BY <1>2, <3>1
  <2> HIDE DEF P
  <2>2. (CHOOSE i \in 1 .. m : P(i)) = k
    BY <2>1
  <2>3. QED BY <2>2 DEF P
<1> DEFINE h(k) == CHOOSE i \in 1 .. m : Cardinality({j \in 1 .. m : j < i}) = k - 1
<1>4. Retain(s, 1 .. m) = [k \in 1 .. Cardinality(1 .. m) |-> s[h(k)]]
  BY DEF Retain
<1>5. \A k \in 1 .. m : h(k) = k
  BY <1>3
<1> HIDE DEF h
<1>6. Cardinality(1 .. m) = m
  BY <1>0, <1>1
<1>7. QED BY <1>4, <1>5, <1>6

\* which SubSeq is, too
LEMMA InitialPart ==
  ASSUME NEW S, NEW s \in Seq(S), NEW m \in 0 .. Len(s)
  PROVE  /\ SubSeq(s, 1, m) = [k \in 1 .. m |-> s[k]]
         /\ SubSeq(s, 1, m) \in Seq(S) /\ Len(SubSeq(s, 1, m)) = m
<1> DEFINE t == SubSeq(s, 1, m)
<1>1. m \in Nat /\ Len(s) \in Nat /\ \A i \in 1 .. m : s[i] \in S
  BY LenProperties, ElementOfSeq
<1>2. /\ t \in Seq(S) /\ Len(t) = IF 1 <= m THEN m - 1 + 1 ELSE 0
      /\ \A i \in 1 .. m - 1 + 1 : t[i] = s[1 + i - 1]
  BY <1>1, SubSeqProperties
<1> HIDE DEF t
<1>3. Len(t) = m /\ \A i \in 1 .. m : t[i] = s[i]
  <2>1. \A i \in 1 .. m : 1 + i - 1 = i /\ i \in 1 .. m - 1 + 1
    BY <1>1
  <2>2. QED BY <1>1, <1>2, <2>1
<1>4. t = [k \in 1 .. m |-> t[k]]
  BY <1>2, <1>3, LenProperties
<1>5. QED BY <1>2, <1>3, <1>4 DEF t

\* nothing is dropped if all positions are kept
LEMMA RetainAll ==
  ASSUME NEW S, NEW s \in Seq(S)
  PROVE  Retain(s, DOMAIN s) = s
<1>1. Len(s) \in Nat /\ DOMAIN s = 1 .. Len(s) /\ s = [k \in 1 .. Len(s) |-> s[k]]
  BY LenProperties, SeqDef
<1>2. Retain(s, 1 .. Len(s)) = [k \in 1 .. Len(s) |-> s[k]]
  BY <1>1, RetainInitial
<1>3. QED BY <1>1, <1>2

-----------------------------------------------------------------------------
(* FlattenSeq: sequences one after the other.                              *)

\* f builds the concatenation of the first k of the sequences in q
Flattens(q, k, f) ==
  \A i \in 1 .. k : f[i] = IF i = 1 THEN q[i] ELSE f[i - 1] \o q[i]

\* there is such an f for every beginning of q
LEMMA FlattensExists ==
  ASSUME NEW T, NEW q \in Seq(Seq(T)), NEW k \in 1 .. Len(q)
  PROVE  \E f \in [1 .. k -> Seq(T)] : Flattens(q, k, f)
<1> DEFINE Built(j) == \E f \in [1 .. j -> Seq(T)] : Flattens(q, j, f)
           S == {j \in 1 .. Len(q) : ~ Built(j)}
<1>1. /\ Len(q) \in Nat /\ DOMAIN q = 1 .. Len(q)
      /\ \A i \in 1 .. Len(q) : q[i] \in Seq(T)
  BY LenProperties, ElementOfSeq
<1>2. SUFFICES S = {}
  BY <1>1
<1>3. SUFFICES ASSUME S # {} PROVE FALSE
  OBVIOUS
<1>4. PICK j \in S : \A i \in S : j <= i
  <2>1. S \in SUBSET Nat
    BY <1>1
  <2>2. QED BY <1>3, <2>1, LeastOf
<1>5. j \in 1 .. Len(q) /\ ~ Built(j)
  OBVIOUS
<1>6. CASE j = 1
  <2> DEFINE f == [i \in 1 .. 1 |-> q[i]]
  <2>1. f \in [1 .. 1 -> Seq(T)]
    BY <1>1, <1>5, <1>6
  <2>2. Flattens(q, 1, f)
    BY DEF Flattens
  <2>3. QED BY <1>5, <1>6, <2>1, <2>2
<1>7. CASE j # 1
  <2>1. j - 1 \in 1 .. Len(q) /\ j - 1 \notin S
    <3>1. j - 1 \in 1 .. Len(q) /\ ~ (j <= j - 1)
      BY <1>1, <1>5, <1>7
    <3> HIDE DEF S
    <3>2. QED BY <1>4, <3>1
  <2>2. PICK g \in [1 .. j - 1 -> Seq(T)] : Flattens(q, j - 1, g)
    BY <2>1
  <2> DEFINE f == [i \in 1 .. j |-> IF i = j THEN g[j - 1] \o q[j] ELSE g[i]]
  <2>3. \A i \in 1 .. j : i # j => i \in 1 .. j - 1
    BY <1>1, <1>5
  <2>4. j - 1 \in 1 .. j - 1 /\ g[j - 1] \in Seq(T) /\ q[j] \in Seq(T)
    BY <1>1, <1>5, <2>1
  <2>5. g[j - 1] \o q[j] \in Seq(T)
    BY <2>4, ConcatProperties
  <2>6. f \in [1 .. j -> Seq(T)]
    BY <2>3, <2>5
  <2>7. \A i \in 1 .. j : f[i] = IF i = 1 THEN q[i] ELSE f[i - 1] \o q[i]
    <3> TAKE i \in 1 .. j
    <3>1. CASE i = j
      <4>1. j - 1 \in 1 .. j /\ j - 1 # j /\ j \in 1 .. j
        BY <1>1, <1>5, <2>4
      <4>2. f[j] = g[j - 1] \o q[j] /\ f[j - 1] = g[j - 1]
        BY <4>1
      <4>3. QED BY <1>7, <3>1, <4>2
    <3>2. CASE i # j /\ i = 1
      <4>1. 1 \in 1 .. j - 1 /\ f[1] = g[1]
        BY <2>3, <3>2
      <4>2. QED BY <2>2, <3>2, <4>1 DEF Flattens
    <3>3. CASE i # j /\ i # 1
      <4>1. i \in 1 .. j - 1 /\ i - 1 \in 1 .. j /\ i - 1 # j
        BY <1>1, <1>5, <2>3, <3>3
      <4>2. f[i] = g[i] /\ f[i - 1] = g[i - 1]
        BY <3>3, <4>1
      <4>3. g[i] = g[i - 1] \o q[i]
        BY <2>2, <3>3, <4>1 DEF Flattens
      <4>4. QED BY <3>3, <4>2, <4>3
    <3>4. QED BY <3>1, <3>2, <3>3
  <2> HIDE DEF f
  <2>8. Flattens(q, j, f)
    BY <2>7 DEF Flattens
  <2>9. QED BY <1>5, <2>6, <2>8
<1>8. QED BY <1>6, <1>7

\* and FlattenSeq(q) is the last of it
LEMMA FlattenBuilds ==
  ASSUME NEW T, NEW q \in Seq(Seq(T)), q # << >>
  PROVE  \E f \in [1 .. Len(q) -> Seq(T)] : Flattens(q, Len(q), f) /\ FlattenSeq(q) = f[Len(q)]
<1> DEFINE n == Len(q)
           G(g) == g = [i \in 1 .. n |-> IF i = 1 THEN q[i] ELSE g[i - 1] \o q[i]]
<1>1. n \in Nat /\ n # 0 /\ n \in 1 .. n
  BY LenProperties, EmptySeq
<1>2. \A f \in [1 .. n -> Seq(T)] : Flattens(q, n, f) => G(f)
  <2> TAKE f \in [1 .. n -> Seq(T)]
  <2> HAVE Flattens(q, n, f)
  <2>1. \A i \in 1 .. n : f[i] = IF i = 1 THEN q[i] ELSE f[i - 1] \o q[i]
    BY DEF Flattens
  <2> HIDE DEF n
  <2>2. f = [i \in 1 .. n |-> f[i]]
    OBVIOUS
  <2>3. QED BY <2>1, <2>2
<1>3. \A g : G(g) => \A i \in 1 .. n : g[i] = IF i = 1 THEN q[i] ELSE g[i - 1] \o q[i]
  <2> HIDE DEF n
  <2> TAKE g
  <2> DEFINE h == [i \in 1 .. n |-> IF i = 1 THEN q[i] ELSE g[i - 1] \o q[i]]
  <2> HAVE G(g)
  <2>1. g = h
    OBVIOUS
  <2>2. \A i \in 1 .. n : h[i] = IF i = 1 THEN q[i] ELSE g[i - 1] \o q[i]
    OBVIOUS
  <2> HIDE DEF h
  <2>3. QED BY <2>1, <2>2
<1> DEFINE c == CHOOSE g : G(g)
<1>4. G(c)
  <2>1. \E g : G(g)
    BY <1>1, <1>2, FlattensExists
  <2> HIDE DEF G
  <2>2. QED BY <2>1
<1>5. FlattenSeq(q) = c[n]
  BY <1>1 DEF FlattenSeq
<1> HIDE DEF c
<1>6. \A i \in 1 .. n : c[i] = IF i = 1 THEN q[i] ELSE c[i - 1] \o q[i]
  BY <1>3, <1>4
<1>7. \A i \in 1 .. n : c[i] \in Seq(T)
  <2> DEFINE S == {i \in 1 .. n : c[i] \notin Seq(T)}
  <2>1. SUFFICES ASSUME S # {} PROVE FALSE
    OBVIOUS
  <2>2. PICK j \in S : \A i \in S : j <= i
    <3>1. S \in SUBSET Nat
      BY <1>1
    <3>2. QED BY <2>1, <3>1, LeastOf
  <2>3. j \in 1 .. n /\ c[j] \notin Seq(T) /\ q[j] \in Seq(T)
    BY ElementOfSeq, LenProperties
  <2>4. CASE j = 1
    BY <1>6, <2>3, <2>4
  <2>5. CASE j # 1
    <3>1. j - 1 \in 1 .. n /\ j - 1 \notin S
      BY <1>1, <2>2, <2>3, <2>5
    <3>2. c[j - 1] \in Seq(T) /\ c[j] = c[j - 1] \o q[j]
      BY <1>6, <2>3, <2>5, <3>1
    <3>3. QED BY <2>3, <3>2, ConcatProperties
  <2>6. QED BY <2>4, <2>5
<1>8. c \in [1 .. n -> Seq(T)]
  <2> HIDE DEF n
  <2>1. c = [i \in 1 .. n |-> IF i = 1 THEN q[i] ELSE c[i - 1] \o q[i]]
    BY <1>4
  <2>2. DOMAIN c = 1 .. n /\ c = [i \in 1 .. n |-> c[i]]
    BY <1>6, <2>1
  <2>3. QED BY <1>7, <2>2
<1>9. Flattens(q, n, c)
  BY <1>6 DEF Flattens
<1>10. QED BY <1>5, <1>8, <1>9

\* what FlattenSeq makes of sequences over T is one over T
LEMMA FlattenIsSeq ==
  ASSUME NEW T, NEW q \in Seq(Seq(T))
  PROVE  FlattenSeq(q) \in Seq(T)
<1>1. CASE q = << >>
  <2>1. Len(q) = 0
    BY <1>1, EmptySeq
  <2>2. FlattenSeq(q) = q
    BY <2>1 DEF FlattenSeq
  <2>3. QED BY <1>1, <2>2, EmptySeq
<1>2. CASE q # << >>
  <2>1. PICK f \in [1 .. Len(q) -> Seq(T)] :
          Flattens(q, Len(q), f) /\ FlattenSeq(q) = f[Len(q)]
    BY <1>2, FlattenBuilds
  <2>2. Len(q) \in 1 .. Len(q)
    BY <1>2, LenProperties, EmptySeq
  <2>3. QED BY <2>1, <2>2
<1>3. QED BY <1>1, <1>2

\* where an element ends up if all the sequences but the last have w elements
LEMMA FlattenEven ==
  ASSUME NEW T, NEW q \in Seq(Seq(T)), q # << >>, NEW w \in Nat,
         \A k \in 1 .. Len(q) - 1 : Len(q[k]) = w
  PROVE  /\ Len(FlattenSeq(q)) = w * (Len(q) - 1) + Len(q[Len(q)])
         /\ \A k \in 1 .. Len(q) : \A i \in 1 .. Len(q[k]) :
              FlattenSeq(q)[w * (k - 1) + i] = q[k][i]
<1> DEFINE n == Len(q)
<1>1. PICK f \in [1 .. n -> Seq(T)] : Flattens(q, n, f) /\ FlattenSeq(q) = f[n]
  BY FlattenBuilds
<1>2. /\ n \in Nat /\ n # 0 /\ n \in 1 .. n
      /\ \A k \in 1 .. n : q[k] \in Seq(T) /\ Len(q[k]) \in Nat
  BY LenProperties, EmptySeq, ElementOfSeq
<1>3. \A i \in 1 .. n : f[i] = IF i = 1 THEN q[i] ELSE f[i - 1] \o q[i]
  BY <1>1 DEF Flattens
<1> DEFINE Good(j) ==
             /\ Len(f[j]) = w * (j - 1) + Len(q[j])
             /\ \A k \in 1 .. j : \A i \in 1 .. Len(q[k]) : f[j][w * (k - 1) + i] = q[k][i]
           S == {j \in 1 .. n : ~ Good(j)}
<1>4. \A k \in 1 .. n - 1 : Len(q[k]) = w
  OBVIOUS
<1> HIDE DEF n
<1>5. S = {}
  <2>1. SUFFICES ASSUME S # {} PROVE FALSE
    OBVIOUS
  <2>2. PICK j \in S : \A i \in S : j <= i
    <3>1. S \in SUBSET Nat
      BY <1>2
    <3>2. QED BY <2>1, <3>1, LeastOf
  <2>3. j \in 1 .. n /\ ~ Good(j)
    OBVIOUS
  <2>4. j # 1
    <3>0. 1 \in 1 .. n
      BY <1>2
    <3>1. f[1] = q[1] /\ q[1] \in Seq(T) /\ Len(q[1]) \in Nat
      BY <1>2, <1>3, <3>0
    <3>2. \A i \in Nat : w * (1 - 1) + i = i
      OBVIOUS
    <3>3. Len(f[1]) = w * (1 - 1) + Len(q[1])
      BY ONLY <3>1, <3>2
    <3>4. \A k \in 1 .. 1 : \A i \in 1 .. Len(q[k]) : f[1][w * (k - 1) + i] = q[k][i]
      <4> SUFFICES ASSUME NEW i \in 1 .. Len(q[1])
          PROVE f[1][w * (1 - 1) + i] = q[1][i]
        OBVIOUS
      <4>1. w * (1 - 1) + i = i
        BY <3>1, <3>2
      <4>2. QED BY <3>1, <4>1
    <3>5. QED BY <2>3, <3>3, <3>4
  <2>5. j - 1 \in 1 .. n /\ Good(j - 1)
    <3>1. j - 1 \in 1 .. n /\ ~ (j <= j - 1)
      BY <1>2, <2>3, <2>4
    <3>2. j - 1 \notin S
      <4> HIDE DEF S
      <4>1. QED BY <2>2, <3>1
    <3>3. QED BY <3>1, <3>2
  <2> DEFINE a == f[j - 1]
             b == q[j]
  <2>6. /\ a \in Seq(T) /\ b \in Seq(T) /\ f[j] = a \o b /\ Len(b) \in Nat
    BY <1>2, <1>3, <2>3, <2>4, <2>5
  <2>7. Len(a) = w * (j - 1)
    <3>1. j - 1 \in 1 .. n - 1
      BY <1>2, <2>3, <2>5
    <3>2. Len(a) = w * ((j - 1) - 1) + w
      BY <1>4, <2>5, <3>1
    <3>3. w * ((j - 1) - 1) + w = w * (j - 1)
      BY <1>2, <3>1
    <3>4. QED BY <3>2, <3>3
  <2>8. /\ Len(a) \in Nat /\ Len(a \o b) = Len(a) + Len(b)
        /\ \A i \in 1 .. Len(a) + Len(b) :
             (a \o b)[i] = IF i <= Len(a) THEN a[i] ELSE b[i - Len(a)]
    BY <2>6, LenProperties, ConcatProperties
  <2>9. Len(f[j]) = w * (j - 1) + Len(q[j])
    BY <2>6, <2>7, <2>8
  <2>10. ASSUME NEW k \in 1 .. j, NEW i \in 1 .. Len(q[k])
         PROVE  f[j][w * (k - 1) + i] = q[k][i]
    <3>1. CASE k = j
      <4> DEFINE p == w * (j - 1)
      <4>1. p \in Nat /\ p = Len(a)
        BY <2>7, <2>8
      <4> HIDE DEF p, a, b
      <4>2. p + i \in 1 .. Len(a) + Len(b) /\ ~ (p + i <= Len(a)) /\ (p + i) - Len(a) = i
        BY <2>6, <3>1, <4>1 DEF b
      <4>3. (a \o b)[p + i] = b[i]
        BY <2>8, <4>2
      <4>4. QED BY <2>6, <3>1, <4>3 DEF p, b
    <3>2. CASE k # j
      <4>1. k \in 1 .. j - 1 /\ k \in 1 .. n - 1 /\ k \in 1 .. n
        BY <1>2, <2>3, <2>5, <3>2
      <4> DEFINE p == w * (k - 1)
      <4>2. a[p + i] = q[k][i]
        BY <2>5, <4>1
      <4>3. Len(q[k]) = w /\ p \in Nat
        BY <1>4, <4>1
      <4>4. p + w <= Len(a)
        <5>1. p + w = w * k /\ w * k <= w * (j - 1)
          BY <2>3, <4>1
        <5>2. QED BY <2>7, <5>1
      <4> HIDE DEF p, a, b
      <4>5. p + i \in 1 .. Len(a) + Len(b) /\ p + i <= Len(a)
        <5>1. i \in Nat /\ 1 <= i /\ i <= w /\ Len(b) \in Nat /\ Len(a) \in Nat
          BY <2>6, <2>8, <4>3
        <5>2. QED BY ONLY <4>3, <4>4, <5>1, w \in Nat
      <4>6. (a \o b)[p + i] = q[k][i]
        BY <2>8, <4>2, <4>5
      <4>7. QED BY <2>6, <4>6 DEF p
    <3>3. QED BY <3>1, <3>2
  <2>11. Good(j)
    BY <2>9, <2>10
  <2>12. QED BY <2>3, <2>11
<1>6. Good(n)
  BY <1>2, <1>5
<1>7. QED BY <1>1, <1>6 DEF n
=============================================================================
