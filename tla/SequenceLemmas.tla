--------------------------- MODULE SequenceLemmas ---------------------------
(***************************************************************************)
(* What the operators on sequences that the models use do to the set of    *)
(* the elements of a sequence, for the proofs.                             *)
(***************************************************************************)
EXTENDS Naturals, Sequences, FiniteSets, SequencesExt, TLAPS, SequenceTheorems, FiniteSetTheorems,
        FunctionTheorems, WellFoundedInduction

\* A set of numbers has a least one.
LEMMA LeastExists ==
    ASSUME NEW I \in SUBSET Nat, I # {}
    PROVE  \E x \in I : \A y \in I : x <= y
<1>1. \E x \in I : \A y \in I : ~(y < x)
  <2>1. \E x \in I : \A y \in I : ~ (<<y, x>> \in OpToRel(<, Nat))
    BY NatLessThanWellFounded, WFMin
  <2> QED BY <2>1 DEF OpToRel
<1> QED BY <1>1

\* What holds of 0, and of k + 1 whenever of k, holds of every natural number.
LEMMA ByInduction ==
    ASSUME NEW T, 0 \in T, \A k \in Nat : k \in T => k + 1 \in T
    PROVE  Nat \subseteq T
<1> SUFFICES ASSUME Nat \ T # {} PROVE FALSE OBVIOUS
<1> PICK x \in Nat \ T : \A y \in Nat \ T : x <= y
  BY LeastExists
<1>1. x # 0 /\ x - 1 \in Nat /\ x - 1 + 1 = x
  OBVIOUS
<1>2. x - 1 \in T
  BY <1>1
<1> QED BY <1>1, <1>2

LEMMA MinIsLeast ==
    ASSUME NEW I \in SUBSET Nat, I # {}
    PROVE  Min(I) \in I /\ \A y \in I : Min(I) <= y
BY LeastExists DEF Min

\* What a sequence over S holds is in S.
LEMMA ElementsType ==
    ASSUME NEW S, NEW s \in Seq(S)
    PROVE  /\ Len(s) \in Nat /\ DOMAIN s = 1..Len(s)
           /\ \A k \in 1..Len(s) : s[k] \in S /\ s[k] \in ToSet(s)
           /\ ToSet(s) \subseteq S
BY LenProperties, ElementOfSeq DEF ToSet

\* Append() adds one element at the end.
LEMMA AppendElements ==
    ASSUME NEW S, NEW s \in Seq(S), NEW e \in S
    PROVE  /\ Append(s, e) \in Seq(S)
           /\ ToSet(Append(s, e)) = ToSet(s) \cup {e}
           /\ IsInjective(s) /\ e \notin ToSet(s) => IsInjective(Append(s, e))
<1>1. /\ Append(s, e) \in Seq(S) /\ Len(Append(s, e)) = Len(s) + 1
      /\ \A i \in 1..Len(s) : Append(s, e)[i] = s[i]
      /\ Append(s, e)[Len(s) + 1] = e
  BY AppendProperties
<1>2. Len(s) \in Nat /\ DOMAIN s = 1..Len(s) /\ DOMAIN Append(s, e) = 1..(Len(s) + 1)
  BY <1>1, LenProperties
<1>3. ToSet(Append(s, e)) = ToSet(s) \cup {e}
  BY <1>1, <1>2 DEF ToSet
<1>4. ASSUME IsInjective(s), e \notin ToSet(s) PROVE IsInjective(Append(s, e))
  BY <1>1, <1>2, <1>4 DEF ToSet, IsInjective
<1> QED BY <1>1, <1>3, <1>4

\* Head() is the first element, Tail() has the others.
LEMMA TailElements ==
    ASSUME NEW S, NEW s \in Seq(S), s # <<>>
    PROVE  /\ Head(s) \in ToSet(s) /\ Head(s) \in S /\ Tail(s) \in Seq(S)
           /\ ToSet(s) = ToSet(Tail(s)) \cup {Head(s)}
           /\ IsInjective(s) => IsInjective(Tail(s)) /\ Head(s) \notin ToSet(Tail(s))
<1>1. /\ Len(s) \in Nat /\ Len(s) > 0 /\ DOMAIN s = 1..Len(s)
      /\ Head(s) = s[1] /\ Head(s) \in S /\ Tail(s) \in Seq(S) /\ Len(Tail(s)) = Len(s) - 1
      /\ \A i \in 1..(Len(s) - 1) : Tail(s)[i] = s[i + 1]
  BY LenProperties, HeadTailProperties, EmptySeq
<1>2. DOMAIN Tail(s) = 1..(Len(s) - 1)
  BY <1>1, LenProperties
<1>3. Head(s) \in ToSet(s) /\ ToSet(Tail(s)) \subseteq ToSet(s)
  BY <1>1, <1>2 DEF ToSet
<1>4. ASSUME NEW i \in 1..Len(s), i # 1 PROVE s[i] \in ToSet(Tail(s))
  <2>1. i - 1 \in 1..(Len(s) - 1) /\ Tail(s)[i - 1] = s[i]
    BY <1>1, <1>4
  <2> QED BY <2>1, <1>2 DEF ToSet
<1>5. ToSet(s) \subseteq ToSet(Tail(s)) \cup {Head(s)}
  BY <1>1, <1>4 DEF ToSet
<1>6. ASSUME IsInjective(s) PROVE IsInjective(Tail(s)) /\ Head(s) \notin ToSet(Tail(s))
  BY <1>1, <1>2, <1>6 DEF ToSet, IsInjective
<1> QED BY <1>1, <1>3, <1>5, <1>6

\* The last element after Append() and Tail().
LEMMA LastElement ==
    ASSUME NEW S, NEW s \in Seq(S)
    PROVE  /\ \A e \in S : Append(s, e) # <<>> /\ Last(Append(s, e)) = e
           /\ s # <<>> => Last(s) = IF Tail(s) = <<>> THEN Head(s) ELSE Last(Tail(s))
<1>1. ASSUME NEW e \in S PROVE Append(s, e) # <<>> /\ Last(Append(s, e)) = e
  <2>1. Len(Append(s, e)) = Len(s) + 1 /\ Append(s, e)[Len(s) + 1] = e /\ Len(s) \in Nat
        /\ Append(s, e) \in Seq(S)
    BY AppendProperties, LenProperties
  <2> QED BY <2>1, EmptySeq DEF Last
<1>2. ASSUME s # <<>>
      PROVE  Last(s) = IF Tail(s) = <<>> THEN Head(s) ELSE Last(Tail(s))
  <2>1. /\ Len(s) \in Nat /\ Len(s) > 0 /\ Head(s) = s[1] /\ Tail(s) \in Seq(S)
        /\ Len(Tail(s)) = Len(s) - 1
        /\ \A i \in 1..(Len(s) - 1) : Tail(s)[i] = s[i + 1]
    BY <1>2, LenProperties, HeadTailProperties, EmptySeq
  <2>2. CASE Tail(s) = <<>>
    <3>1. Len(Tail(s)) = 0
      BY <2>2, EmptySeq
    <3>2. Len(s) = 1
      <4>1. Len(s) \in Nat /\ Len(Tail(s)) = Len(s) - 1
        BY <2>1
      <4>2. Len(s) - 1 = 0
        BY <3>1, <4>1
      <4> QED BY <4>1, <4>2
    <3>3. Last(s) = s[Len(s)] /\ Head(s) = s[1]
      BY <2>1 DEF Last
    <3> QED BY <2>2, <3>2, <3>3
  <2>3. CASE Tail(s) # <<>>
    <3>1. Len(Tail(s)) > 0
      BY <2>1, <2>3, EmptySeq
    <3> QED BY <2>1, <2>3, <3>1 DEF Last
  <2> QED BY <2>2, <2>3
<1> QED BY <1>1, <1>2

\* RemoveAt() closes the gap.
LEMMA RemoveAtElements ==
    ASSUME NEW S, NEW s \in Seq(S), NEW i \in 1..Len(s)
    PROVE  /\ RemoveAt(s, i) \in Seq(S) /\ Len(RemoveAt(s, i)) = Len(s) - 1
           /\ \A k \in 1..(Len(s) - 1) : RemoveAt(s, i)[k] = IF k < i THEN s[k] ELSE s[k + 1]
<1> DEFINE a == SubSeq(s, 1, i - 1)
           b == SubSeq(s, i + 1, Len(s))
<1>1. a \in Seq(S) /\ Len(a) = i - 1 /\ \A k \in 1..(i - 1) : a[k] = s[k]
  BY SubSeqProperties, ElementOfSeq, LenProperties
<1>2. b \in Seq(S) /\ Len(b) = Len(s) - i /\ \A k \in 1..(Len(s) - i) : b[k] = s[k + i]
  BY SubSeqProperties, ElementOfSeq, LenProperties
<1> HIDE DEF a, b
<1>3. Len(s) \in Nat
  BY LenProperties
<1>4. a \o b \in Seq(S) /\ Len(a \o b) = Len(a) + Len(b)
  BY <1>1, <1>2, ConcatProperties
<1>5. Len(a \o b) = Len(s) - 1
  BY <1>1, <1>2, <1>3, <1>4
<1>6. \A k \in 1..(Len(s) - 1) : (a \o b)[k] = IF k < i THEN s[k] ELSE s[k + 1]
  BY <1>1, <1>2, <1>3, ConcatProperties
<1> QED BY <1>4, <1>5, <1>6 DEF RemoveAt, a, b

\* RemoveFirst() takes away nothing but the element it is given.
LEMMA RemoveFirstElements ==
    ASSUME NEW S, NEW s \in Seq(S), NEW e
    PROVE  /\ RemoveFirst(s, e) \in Seq(S)
           /\ ToSet(RemoveFirst(s, e)) \subseteq ToSet(s)
           /\ ToSet(s) \ {e} \subseteq ToSet(RemoveFirst(s, e))
<1> DEFINE I == {i \in 1..Len(s) : s[i] = e}
<1>1. Len(s) \in Nat /\ DOMAIN s = 1..Len(s)
  BY LenProperties
<1>2. CASE I = {}
  BY <1>1, <1>2 DEF RemoveFirst, ToSet
<1>3. CASE I # {}
  <2>1. I \in SUBSET Nat
    BY <1>1
  <2>2. Min(I) \in I
    <3> HIDE DEF I
    <3> QED BY <1>3, <2>1, MinIsLeast
  <2>3. SelectInSeq(s, LAMBDA v : v = e) = Min(I)
    BY <1>3 DEF SelectInSeq
  <2>4. RemoveFirst(s, e) = RemoveAt(s, Min(I)) /\ Min(I) \in 1..Len(s) /\ s[Min(I)] = e
    BY <2>2, <2>3, <1>3 DEF RemoveFirst
  <2> HIDE <2>3 DEF I
  <2> DEFINE r == RemoveFirst(s, e)
             m == Min(I)
  <2> HIDE DEF r, m
  <2>5. /\ m \in 1..Len(s) /\ s[m] = e /\ r \in Seq(S) /\ Len(r) = Len(s) - 1
        /\ \A k \in 1..(Len(s) - 1) : r[k] = IF k < m THEN s[k] ELSE s[k + 1]
    BY <2>4, RemoveAtElements DEF r, m
  <2>6. DOMAIN r = 1..(Len(s) - 1)
    BY <2>5, LenProperties
  <2>7. ToSet(r) \subseteq ToSet(s)
    <3>1. ASSUME NEW k \in 1..(Len(s) - 1) PROVE r[k] \in ToSet(s)
      <4>1. k \in DOMAIN s /\ k + 1 \in DOMAIN s /\ (r[k] = s[k] \/ r[k] = s[k + 1])
        BY <2>5, <1>1
      <4> QED BY <4>1 DEF ToSet
    <3> QED BY <3>1, <2>6 DEF ToSet
  <2>8. ASSUME NEW k \in 1..Len(s), s[k] # e PROVE s[k] \in ToSet(r)
    <3>1. CASE k < m
      BY <3>1, <2>5, <2>6, <1>1 DEF ToSet
    <3>2. CASE k > m
      <4>1. k - 1 \in 1..(Len(s) - 1) /\ r[k - 1] = s[k]
        BY <3>2, <2>5, <1>1
      <4> QED BY <4>1, <2>6 DEF ToSet
    <3> QED BY <3>1, <3>2, <2>5, <2>8
  <2>9. ToSet(s) \ {e} \subseteq ToSet(r)
    BY <2>8, <1>1 DEF ToSet
  <2> QED BY <2>5, <2>7, <2>9 DEF r
<1> QED BY <1>2, <1>3

\* A sequence has no more elements than places.
LEMMA ElementsBound ==
    ASSUME NEW S, NEW s \in Seq(S)
    PROVE  /\ IsFiniteSet(ToSet(s)) /\ Cardinality(ToSet(s)) \in Nat
           /\ Cardinality(ToSet(s)) <= Len(s)
<1>1. Len(s) \in Nat /\ DOMAIN s = 1..Len(s) /\ s \in [1..Len(s) -> S]
  BY LenProperties
<1>2. s \in Surjection(1..Len(s), ToSet(s))
  BY <1>1 DEF Surjection, ToSet
<1>3. IsFiniteSet(1..Len(s))
  BY <1>1, FS_Interval
<1>4. IsFiniteSet(ToSet(s))
  BY <1>2, <1>3, FS_Surjection
<1>5. Cardinality(ToSet(s)) <= Len(s)
  BY <1>1, <1>2, FS_SurjCardinalityBound DEF ExistsSurjection
<1> QED BY <1>4, <1>5, FS_CardinalityType

\* A finite set has subsets of every size up to its own.
LEMMA SubsetOfSize ==
    ASSUME NEW S, IsFiniteSet(S), NEW n \in Nat, n <= Cardinality(S)
    PROVE  \E T \in SUBSET S : Cardinality(T) = n
<1>1. Cardinality(S) \in Nat /\ ExistsBijection(1..Cardinality(S), S)
  BY FS_CardinalityType
<1> PICK f \in Bijection(1..Cardinality(S), S) : TRUE
  BY <1>1 DEF ExistsBijection
<1> DEFINE T == {f[i] : i \in 1..n}
           g == [i \in 1..n |-> f[i]]
<1>2. f \in [1..Cardinality(S) -> S] /\ \A i, j \in 1..Cardinality(S) : f[i] = f[j] => i = j
  BY DEF Bijection, Injection, Surjection, IsInjective
<1>3. 1..n \subseteq 1..Cardinality(S)
  BY <1>1
<1>4. T \in SUBSET S /\ g \in [1..n -> T]
  BY <1>2, <1>3
<1>5. g \in Bijection(1..n, T)
  BY <1>2, <1>3, <1>4 DEF Bijection, Injection, Surjection, IsInjective
<1>6. IsFiniteSet(1..n) /\ Cardinality(1..n) = n
  BY FS_Interval
<1>7. Cardinality(T) = n
  BY <1>5, <1>6, FS_Bijection DEF ExistsBijection
<1> QED BY <1>4, <1>7

\* The union of two finite sets has no more elements than both together.
LEMMA UnionSize ==
    ASSUME NEW S, IsFiniteSet(S), NEW T, IsFiniteSet(T)
    PROVE  /\ IsFiniteSet(S \cup T) /\ Cardinality(S \cup T) \in Nat
           /\ Cardinality(S \cup T) <= Cardinality(S) + Cardinality(T)
<1>1. /\ IsFiniteSet(S \cup T)
      /\ Cardinality(S \cup T) = Cardinality(S) + Cardinality(T) - Cardinality(S \cap T)
  BY FS_Union
<1>2. IsFiniteSet(S \cap T)
  BY FS_Subset
<1>3. /\ Cardinality(S) \in Nat /\ Cardinality(T) \in Nat
      /\ Cardinality(S \cap T) \in Nat /\ Cardinality(S \cup T) \in Nat
  BY <1>1, <1>2, FS_CardinalityType
<1> QED BY <1>1, <1>3

\* What is appended to the second of two sequences is appended to both.
LEMMA AppendConcat ==
    ASSUME NEW S, NEW s \in Seq(S), NEW t \in Seq(S), NEW e \in S
    PROVE  s \o Append(t, e) = Append(s \o t, e)
<1> DEFINE u == s \o t
<1>1. <<e>> \in Seq(S) /\ u \in Seq(S)
  BY ConcatProperties
<1> HIDE DEF u
<1>2. Append(t, e) = t \o <<e>> /\ Append(u, e) = u \o <<e>>
  BY <1>1, AppendIsConcat
<1>3. (s \o t) \o <<e>> = s \o (t \o <<e>>)
  BY <1>1, ConcatAssociative
<1> QED BY <1>2, <1>3 DEF u

\* Where the elements of a sequence are when one is appended to it.
LEMMA AppendAt ==
    ASSUME NEW S, NEW s \in Seq(S), NEW e \in S
    PROVE  /\ Append(s, e) \in Seq(S) /\ Len(s) \in Nat
           /\ 1..Len(Append(s, e)) = 1..Len(s) \cup {Len(s) + 1} /\ Len(s) + 1 \notin 1..Len(s)
           /\ \A k \in 1..Len(s) : Append(s, e)[k] = s[k] /\ k < Len(s) + 1
           /\ Append(s, e)[Len(s) + 1] = e
<1>1. /\ Append(s, e) \in Seq(S) /\ Len(Append(s, e)) = Len(s) + 1 /\ Len(s) \in Nat
      /\ \A k \in 1..Len(s) : Append(s, e)[k] = s[k]
      /\ Append(s, e)[Len(s) + 1] = e
  BY AppendProperties, LenProperties
<1>2. 1..(Len(s) + 1) = 1..Len(s) \cup {Len(s) + 1} /\ Len(s) + 1 \notin 1..Len(s) /\ \A k \in 1..Len(s) : k < Len(s) + 1
  BY <1>1
<1> QED BY <1>1, <1>2

\* Where the elements of a sequence are when the first is taken away.
LEMMA TailAt ==
    ASSUME NEW S, NEW s \in Seq(S), s # <<>>
    PROVE  /\ Tail(s) \in Seq(S) /\ Head(s) = s[1] /\ Head(s) \in S /\ 1 \in 1..Len(s) /\ Len(s) \in Nat
           /\ \A k \in 1..Len(Tail(s)) : /\ Tail(s)[k] = s[k + 1] /\ k + 1 \in 1..Len(s) /\ k + 1 # 1
                                         /\ \A i \in 1..Len(Tail(s)) : (i # k => i + 1 # k + 1) /\ (i < k <=> i + 1 < k + 1)
<1>1. /\ Tail(s) \in Seq(S) /\ Head(s) = s[1] /\ Head(s) \in S /\ Len(Tail(s)) = Len(s) - 1
      /\ Len(s) \in Nat /\ Len(s) # 0
      /\ \A k \in 1..Len(Tail(s)) : Tail(s)[k] = s[k + 1]
  BY HeadTailProperties, EmptySeq, LenProperties
<1>2. 1 \in 1..Len(s)
  BY <1>1
<1>3. ASSUME NEW k \in 1..Len(Tail(s))
      PROVE  /\ k + 1 \in 1..Len(s) /\ k + 1 # 1
             /\ \A i \in 1..Len(Tail(s)) : (i # k => i + 1 # k + 1) /\ (i < k <=> i + 1 < k + 1)
  BY <1>1
<1> QED BY <1>1, <1>2, <1>3

\* A concatenation has the elements of both, each once if they have nothing in common.
LEMMA ConcatElements ==
    ASSUME NEW S, NEW s \in Seq(S), NEW t \in Seq(S)
    PROVE  /\ s \o t \in Seq(S) /\ Len(s \o t) = Len(s) + Len(t) /\ Len(s) \in Nat /\ Len(t) \in Nat
           /\ \A k \in 1..Len(s) : (s \o t)[k] = s[k]
           /\ \A k \in 1..Len(t) : Len(s) + k \in 1..Len(s \o t) /\ (s \o t)[Len(s) + k] = t[k]
           /\ ToSet(s \o t) = ToSet(s) \cup ToSet(t)
           /\ IsInjective(s) /\ IsInjective(t) /\ ToSet(s) \cap ToSet(t) = {} => IsInjective(s \o t)
<1> DEFINE u == s \o t
<1>1. /\ u \in Seq(S) /\ Len(u) = Len(s) + Len(t) /\ Len(s) \in Nat /\ Len(t) \in Nat
      /\ \A k \in 1..(Len(s) + Len(t)) : u[k] = IF k <= Len(s) THEN s[k] ELSE t[k - Len(s)]
  BY ConcatProperties, LenProperties
<1>2. /\ DOMAIN s = 1..Len(s) /\ DOMAIN t = 1..Len(t) /\ DOMAIN u = 1..(Len(s) + Len(t))
  BY <1>1, LenProperties
<1> HIDE DEF u
<1>3. \A k \in 1..Len(s) : k \in 1..Len(u) /\ u[k] = s[k]
  BY <1>1
<1>4. \A k \in 1..Len(t) : Len(s) + k \in 1..Len(u) /\ u[Len(s) + k] = t[k]
  <2> SUFFICES ASSUME NEW k \in 1..Len(t) PROVE Len(s) + k \in 1..Len(u) /\ u[Len(s) + k] = t[k]
    OBVIOUS
  <2>1. Len(s) + k \in 1..(Len(s) + Len(t)) /\ ~(Len(s) + k <= Len(s)) /\ Len(s) + k - Len(s) = k
    BY <1>1
  <2> QED BY <1>1, <2>1
<1>5. \A k \in 1..Len(u) : \/ k \in 1..Len(s) /\ u[k] = s[k]
                           \/ k - Len(s) \in 1..Len(t) /\ u[k] = t[k - Len(s)]
  BY <1>1
<1>6. ToSet(u) = ToSet(s) \cup ToSet(t)
  <2>1. ASSUME NEW e \in ToSet(u) PROVE e \in ToSet(s) \cup ToSet(t)
    <3> PICK k \in 1..Len(u) : u[k] = e
      BY <1>1, <1>2 DEF ToSet
    <3> QED BY <1>2, <1>5 DEF ToSet
  <2>2. ASSUME NEW e \in ToSet(s) PROVE e \in ToSet(u)
    BY <1>1, <1>2, <1>3 DEF ToSet
  <2>3. ASSUME NEW e \in ToSet(t) PROVE e \in ToSet(u)
    <3> PICK k \in 1..Len(t) : t[k] = e
      BY <1>2 DEF ToSet
    <3>1. Len(s) + k \in DOMAIN u /\ u[Len(s) + k] = e
      BY <1>1, <1>2, <1>4
    <3> QED BY <3>1 DEF ToSet
  <2> QED BY <2>1, <2>2, <2>3
<1>7. ASSUME IsInjective(s), IsInjective(t), ToSet(s) \cap ToSet(t) = {} PROVE IsInjective(u)
  <2> SUFFICES ASSUME NEW a \in 1..Len(u), NEW b \in 1..Len(u), u[a] = u[b] PROVE a = b
    BY <1>1, <1>2 DEF IsInjective
  <2>1. CASE a \in 1..Len(s) /\ u[a] = s[a] /\ b \in 1..Len(s) /\ u[b] = s[b]
    BY <1>2, <1>7, <2>1 DEF IsInjective
  <2>2. CASE /\ a - Len(s) \in 1..Len(t) /\ u[a] = t[a - Len(s)]
             /\ b - Len(s) \in 1..Len(t) /\ u[b] = t[b - Len(s)]
    <3>1. a - Len(s) = b - Len(s)
      BY <1>2, <1>7, <2>2 DEF IsInjective
    <3> QED BY <1>1, <3>1
  <2>3. \A k \in 1..Len(s) : s[k] \in ToSet(s)
    BY <1>2 DEF ToSet
  <2>4. \A k \in 1..Len(t) : t[k] \in ToSet(t)
    BY <1>2 DEF ToSet
  <2> QED BY <1>5, <1>7, <2>1, <2>2, <2>3, <2>4
<1> QED BY <1>1, <1>3, <1>4, <1>6, <1>7 DEF u

\* Sequences put one after the other: the elements of all, each once if no two have any in common.
LEMMA FlattenElements ==
    ASSUME NEW S, NEW ss \in Seq(Seq(S)),
           \A i \in 1..Len(ss) : IsInjective(ss[i]),
           \A i, j \in 1..Len(ss) : i # j => ToSet(ss[i]) \cap ToSet(ss[j]) = {}
    PROVE  /\ FlattenSeq(ss) \in Seq(S) /\ IsInjective(FlattenSeq(ss))
           /\ \A e : e \in ToSet(FlattenSeq(ss)) <=> \E i \in 1..Len(ss) : e \in ToSet(ss[i])
<1> DEFINE Step(f, i) == IF i = 1 THEN ss[i] ELSE f[i - 1] \o ss[i]
           Sound(f, n) == /\ f[n] \in Seq(S) /\ IsInjective(f[n])
                          /\ \A e : e \in ToSet(f[n]) <=> \E i \in 1..n : e \in ToSet(ss[i])
           T == {n \in Nat : n <= Len(ss) =>
                   \E f : f = [i \in 1..n |-> Step(f, i)] /\ \A k \in 1..n : Sound(f, k)}
<1> HIDE DEF Step, Sound
<1>0. \A h : \A k \in Nat : k # 0 => Step(h, k + 1) = h[k] \o ss[k + 1]
  <2> SUFFICES ASSUME NEW h, NEW k \in Nat, k # 0 PROVE Step(h, k + 1) = h[k] \o ss[k + 1]
    OBVIOUS
  <2>1. k + 1 # 1 /\ k + 1 - 1 = k
    OBVIOUS
  <2>2. Step(h, k + 1) = IF k + 1 = 1 THEN ss[k + 1] ELSE h[k + 1 - 1] \o ss[k + 1]
    BY DEF Step
  <2> QED BY <2>1, <2>2
<1>1. Len(ss) \in Nat /\ DOMAIN ss = 1..Len(ss) /\ \A i \in 1..Len(ss) : ss[i] \in Seq(S)
  BY LenProperties, ElementOfSeq
<1>2. CASE Len(ss) = 0
  <2>1. ss = <<>>
    BY <1>2, EmptySeq
  <2>2. FlattenSeq(ss) = <<>>
    BY <1>2, <2>1 DEF FlattenSeq
  <2>3. <<>> \in Seq(S) /\ DOMAIN <<>> = {}
    OBVIOUS
  <2> QED BY <1>2, <2>2, <2>3 DEF ToSet, IsInjective
<1>3. CASE Len(ss) # 0
  <2>1. 0 \in T
    <3> DEFINE g == [i \in 1..0 |-> ss[1]]
    <3>1. g = [i \in 1..0 |-> Step(g, i)] /\ \A k \in 1..0 : Sound(g, k)
      OBVIOUS
    <3> HIDE DEF g
    <3>2. \E f : f = [i \in 1..0 |-> Step(f, i)] /\ \A k \in 1..0 : Sound(f, k)
      BY <3>1
    <3> QED BY <3>2
  <2>2. ASSUME NEW n \in Nat, n \in T PROVE n + 1 \in T
    <3> SUFFICES ASSUME n + 1 <= Len(ss)
                 PROVE  \E g : g = [i \in 1..(n + 1) |-> Step(g, i)] /\ \A k \in 1..(n + 1) : Sound(g, k)
      <4>1. n + 1 \in Nat
        OBVIOUS
      <4> QED BY <4>1
    <3>1. PICK f : f = [i \in 1..n |-> Step(f, i)] /\ \A k \in 1..n : Sound(f, k)
      <4>1. n <= Len(ss)
        BY <1>1
      <4> QED BY <2>2, <4>1
    <3> DEFINE g == [i \in 1..(n + 1) |-> IF i = n + 1 THEN Step(f, i) ELSE f[i]]
    <3>2. \A i \in 1..n : i # n + 1 /\ i \in 1..(n + 1) /\ g[i] = f[i] /\ f[i] = Step(f, i)
      <4> SUFFICES ASSUME NEW i \in 1..n PROVE i # n + 1 /\ i \in 1..(n + 1) /\ g[i] = f[i] /\ f[i] = Step(f, i)
        OBVIOUS
      <4>1. i # n + 1 /\ i \in 1..(n + 1)
        OBVIOUS
      <4>2. f[i] = Step(f, i)
        <5> DEFINE h == [k \in 1..n |-> Step(f, k)]
        <5>1. h[i] = Step(f, i)
          OBVIOUS
        <5>2. f = h
          BY <3>1
        <5> HIDE DEF h
        <5> QED BY <5>1, <5>2
      <4> QED BY <4>1, <4>2
    <3>3. g[n + 1] = Step(f, n + 1) /\ DOMAIN g = 1..(n + 1) /\ \A i \in 1..(n + 1) : i = n + 1 \/ i \in 1..n
      OBVIOUS
    <3> HIDE DEF g
    <3>4. \A i \in 1..(n + 1) : g[i] = Step(g, i)
      <4> SUFFICES ASSUME NEW i \in 1..(n + 1) PROVE g[i] = Step(g, i)
        OBVIOUS
      <4>1. g[i] = Step(f, i)
        BY <3>2, <3>3
      <4>2. i # 1 => i - 1 \in 1..n
        OBVIOUS
      <4> QED BY <3>2, <4>1, <4>2 DEF Step
    <3>5. g = [i \in 1..(n + 1) |-> Step(g, i)]
      <4> DEFINE h == [i \in 1..(n + 1) |-> Step(g, i)]
      <4>1. DOMAIN h = 1..(n + 1) /\ \A i \in 1..(n + 1) : h[i] = Step(g, i)
        OBVIOUS
      <4>2. g = [i \in DOMAIN g |-> g[i]] /\ h = [i \in DOMAIN h |-> h[i]]
        BY DEF g
      <4> HIDE DEF h
      <4>3. DOMAIN g = DOMAIN h /\ \A i \in DOMAIN g : g[i] = h[i]
        BY <3>3, <3>4, <4>1
      <4>4. [i \in DOMAIN g |-> g[i]] = [i \in DOMAIN h |-> h[i]]
        BY <4>3
      <4>5. g = h
        BY <4>2, <4>4
      <4> QED BY <4>5 DEF h
    <3>6. \A k \in 1..n : Sound(g, k)
      BY <3>1, <3>2 DEF Sound
    <3>7. Sound(g, n + 1)
      <4>1. n + 1 \in 1..Len(ss) /\ ss[n + 1] \in Seq(S)
        BY <1>1
      <4>2. CASE n = 0
        <5>1. g[n + 1] = ss[n + 1]
          BY <3>3, <4>2 DEF Step
        <5>2. 1..(n + 1) = {n + 1}
          BY <4>2
        <5>3. IsInjective(ss[n + 1])
          BY <4>1
        <5> QED BY <4>1, <5>1, <5>2, <5>3 DEF Sound
      <4>3. CASE n # 0
        <5>1. n \in 1..n /\ n + 1 # 1 /\ n + 1 - 1 = n /\ 1..(n + 1) = 1..n \cup {n + 1}
          BY <4>3
        <5>2. g[n + 1] = f[n] \o ss[n + 1] /\ Sound(f, n)
          <6>1. Sound(f, n)
            BY <3>1, <5>1
          <6>2. g[n + 1] = f[n] \o ss[n + 1]
            <7>1. Step(f, n + 1) = f[n] \o ss[n + 1]
              BY <1>0, <4>3
            <7> QED BY <3>3, <7>1
          <6> QED BY <6>1, <6>2
        <5>3. ToSet(f[n]) \cap ToSet(ss[n + 1]) = {}
          <6> SUFFICES ASSUME NEW e \in ToSet(f[n]), e \in ToSet(ss[n + 1]) PROVE FALSE
            OBVIOUS
          <6> PICK i \in 1..n : e \in ToSet(ss[i])
            BY <5>2 DEF Sound
          <6>1. i \in 1..Len(ss) /\ i # n + 1
            BY <1>1, <4>1
          <6> QED BY <4>1, <6>1
        <5>4. /\ g[n + 1] \in Seq(S) /\ ToSet(g[n + 1]) = ToSet(f[n]) \cup ToSet(ss[n + 1])
              /\ IsInjective(g[n + 1])
          <6>1. IsInjective(ss[n + 1]) /\ f[n] \in Seq(S) /\ IsInjective(f[n])
            BY <4>1, <5>2 DEF Sound
          <6> QED BY <4>1, <5>2, <5>3, <6>1, ConcatElements
        <5>5. ASSUME NEW e PROVE e \in ToSet(g[n + 1]) <=> \E i \in 1..(n + 1) : e \in ToSet(ss[i])
          BY <5>1, <5>2, <5>4 DEF Sound
        <5> QED BY <5>4, <5>5 DEF Sound
      <4> QED BY <4>2, <4>3
    <3>8. \A k \in 1..(n + 1) : k \in 1..n \/ k = n + 1
      OBVIOUS
    <3> QED BY <3>5, <3>6, <3>7, <3>8
  <2>3. Len(ss) \in T
    <3> HIDE DEF T
    <3>1. \A k \in Nat : k \in T => k + 1 \in T
      BY <2>2
    <3> QED BY <1>1, <2>1, <3>1, ByInduction
  <2> DEFINE F == CHOOSE f : f = [i \in 1..Len(ss) |-> Step(f, i)]
  <2>4. PICK g : g = [i \in 1..Len(ss) |-> Step(g, i)] /\ \A k \in 1..Len(ss) : Sound(g, k)
    BY <1>1, <2>3
  <2>5. F = [i \in 1..Len(ss) |-> Step(F, i)]
    <3>1. \E f : f = [i \in 1..Len(ss) |-> Step(f, i)]
      BY <2>4
    <3> QED BY <3>1
  <2>6. FlattenSeq(ss) = F[Len(ss)]
    BY <1>3 DEF FlattenSeq, Step
  <2> DEFINE U == {n \in Nat : n \in 1..Len(ss) => F[n] = g[n]}
  <2> HIDE DEF F
  <2>7. \A n \in 1..Len(ss) : F[n] = Step(F, n) /\ g[n] = Step(g, n)
    <3> SUFFICES ASSUME NEW n \in 1..Len(ss) PROVE F[n] = Step(F, n) /\ g[n] = Step(g, n)
      OBVIOUS
    <3> DEFINE hF == [i \in 1..Len(ss) |-> Step(F, i)]
               hg == [i \in 1..Len(ss) |-> Step(g, i)]
    <3>1. hF[n] = Step(F, n) /\ hg[n] = Step(g, n) /\ F = hF /\ g = hg
      BY <2>4, <2>5
    <3> HIDE DEF hF, hg
    <3> QED BY <3>1
  <2>8. 0 \in U
    OBVIOUS
  <2>9. ASSUME NEW n \in Nat, n \in U PROVE n + 1 \in U
    <3> SUFFICES ASSUME n + 1 \in 1..Len(ss) PROVE F[n + 1] = g[n + 1]
      OBVIOUS
    <3>1. F[n + 1] = Step(F, n + 1) /\ g[n + 1] = Step(g, n + 1) /\ n + 1 - 1 = n
      BY <2>7
    <3>2. CASE n = 0
      BY <3>1, <3>2 DEF Step
    <3>3. CASE n # 0
      <4>1. F[n] = g[n]
        <5>1. n \in 1..Len(ss)
          BY <1>1, <3>3
        <5> QED BY <2>9, <5>1
      <4> HIDE DEF U
      <4> QED BY <3>1, <4>1 DEF Step
    <3> QED BY <3>2, <3>3
  <2>10. F[Len(ss)] = g[Len(ss)]
    <3>1. Len(ss) \in U
      <4> HIDE DEF U
      <4>1. \A k \in Nat : k \in U => k + 1 \in U
        BY <2>9
      <4> QED BY <1>1, <2>8, <4>1, ByInduction
    <3>2. Len(ss) \in 1..Len(ss)
      BY <1>1, <1>3
    <3> QED BY <3>1, <3>2
  <2>11. Sound(g, Len(ss))
    <3>1. Len(ss) \in 1..Len(ss)
      BY <1>1, <1>3
    <3> QED BY <2>4, <3>1
  <2> QED BY <2>6, <2>10, <2>11 DEF Sound
<1> QED BY <1>1, <1>2, <1>3

\* The elements of a finite set in some order.
LEMMA SetToSeqElements ==
    ASSUME NEW S, IsFiniteSet(S)
    PROVE  SetToSeq(S) \in Seq(S) /\ IsInjective(SetToSeq(S)) /\ ToSet(SetToSeq(S)) = S
<1> DEFINE n == Cardinality(S)
<1>1. n \in Nat /\ ExistsBijection(1..n, S)
  BY FS_CardinalityType
<1>2. PICK g \in [1..n -> S] : IsInjective(g)
  BY <1>1 DEF ExistsBijection, Bijection, Injection, IsInjective
<1>3. SetToSeq(S) \in [1..n -> S] /\ IsInjective(SetToSeq(S))
  BY <1>2 DEF SetToSeq
<1> HIDE DEF n
<1> DEFINE f == SetToSeq(S)
<1>4. f \in [1..n -> S] /\ IsInjective(f)
  BY <1>3
<1> HIDE DEF f
<1>5. f \in Seq(S) /\ DOMAIN f = 1..n
  BY <1>1, <1>4, SeqDef
<1>6. f \in Surjection(1..n, S)
  <2>1. f \in Injection(1..n, S)
    BY <1>4 DEF Injection, IsInjective
  <2>2. IsFiniteSet(1..n) /\ Cardinality(1..n) = n
    BY <1>1, FS_Interval
  <2> QED BY <2>1, <2>2, FS_Injection DEF n
<1>7. ToSet(f) = S
  BY <1>4, <1>5, <1>6 DEF ToSet, Surjection
<1> QED BY <1>4, <1>5, <1>7 DEF f

\* A set of numbers that is not empty and has a bound has a greatest.
LEMMA GreatestExists ==
    ASSUME NEW n \in Nat, NEW I \in SUBSET (1..n), I # {}
    PROVE  \E x \in I : \A y \in I : y <= x
<1> DEFINE J == {k \in Nat : \E x \in I : k = n - x}
<1>1. J \in SUBSET Nat /\ J # {}
  <2>1. PICK x \in I : TRUE
    OBVIOUS
  <2>2. n - x \in J
    OBVIOUS
  <2> QED BY <2>2
<1>2. PICK k \in J : \A l \in J : k <= l
  BY <1>1, LeastExists
<1>3. PICK x \in I : k = n - x
  OBVIOUS
<1>4. ASSUME NEW y \in I PROVE y <= x
  <2>1. n - y \in J
    OBVIOUS
  <2>2. n - x <= n - y
    BY <1>2, <1>3, <2>1
  <2> QED BY <2>2
<1> QED BY <1>4

=============================================================================
