----------------------------- MODULE DataLemmas -----------------------------
(***************************************************************************)
(* Facts about numbers and sequences that the proofs about several         *)
(* components need.  The induction theorems of the library take the        *)
(* formula to be proved as an operator; here it is a set of numbers, which *)
(* the provers can instantiate.                                            *)
(***************************************************************************)
EXTENDS Integers, SequencesExt, WellFoundedInduction, FiniteSetTheorems, SequenceTheorems, TLAPS

-----------------------------------------------------------------------------
(* Numbers.                                                                *)

\* A set of numbers that is not empty has a least element.
LEMMA LeastElement ==
  ASSUME NEW T \in SUBSET Nat, T # {}
  PROVE  \E x \in T : \A y \in T : x <= y
<1> DEFINE R == OpToRel(<, Nat)
<1>1. \E x \in T : \A y \in T : <<y, x>> \notin R
  <2>1. IsWellFoundedOn(R, Nat)
    BY NatLessThanWellFounded
  <2> HIDE DEF R
  <2> QED
    BY <2>1, WFMin
<1>2. \A x, y \in T : <<y, x>> \notin R => x <= y
  BY DEF OpToRel
<1> QED
  BY <1>1, <1>2

\* Min(T) is that element.
LEMMA MinIsLeast ==
  ASSUME NEW T \in SUBSET Nat, T # {}
  PROVE  Min(T) \in T /\ \A y \in T : Min(T) <= y
BY LeastElement DEF Min

\* A set of numbers that has 0, and n + 1 for every n it has, has them all.
LEMMA InductionOnSets ==
  ASSUME NEW T \in SUBSET Nat, 0 \in T, \A n \in T : n + 1 \in T
  PROVE  T = Nat
<1> SUFFICES ASSUME Nat \ T # {} PROVE FALSE
  OBVIOUS
<1>1. PICK x \in Nat \ T : \A y \in Nat \ T : x <= y
  BY LeastElement
<1>2. x - 1 \in T
  BY <1>1
<1> QED
  BY <1>1, <1>2

\* A bounded set of numbers that is not empty has a greatest element.
LEMMA MaxIsGreatest ==
  ASSUME NEW n \in Nat, NEW T \in SUBSET (0..n), T # {}
  PROVE  Max(T) \in T /\ \A y \in T : Max(T) >= y
<1>0. \A y \in T : y \in Nat /\ y \in Int /\ 0 <= y /\ y <= n
  OBVIOUS
<1> DEFINE U == {n - y : y \in T}
<1>1. U \in SUBSET Nat /\ U # {}
  <2>1. \A y \in T : n - y \in Nat
    BY <1>0
  <2> QED
    BY <2>1
<1>2. PICK u \in U : \A v \in U : u <= v
  BY <1>1, LeastElement
<1>3. PICK x \in T : u = n - x
  OBVIOUS
<1>4. \A y \in T : x >= y
  <2> TAKE y \in T
  <2>1. n - y \in U
    OBVIOUS
  <2>2. n - x <= n - y /\ x \in Int /\ y \in Int
    BY <1>0, <1>2, <1>3, <2>1
  <2> QED
    BY <2>2
<1> QED
  BY <1>4 DEF Max

\* Some element of a set of numbers has exactly k elements at or above it.
LEMMA KthFromTheEnd ==
  ASSUME NEW n \in Nat, NEW T \in SUBSET (0..n), NEW k \in Nat \ {0}, k <= Cardinality(T)
  PROVE  \E i \in T : Cardinality({j \in T : j >= i}) = k
<1>0. \A y \in T : y \in Nat /\ y \in Int /\ 0 <= y /\ y <= n
  OBVIOUS
<1>1. IsFiniteSet(T)
  <2>1. T \in SUBSET Nat
    BY <1>0
  <2> QED
    BY <1>0, <2>1, FS_BoundedSetOfNaturals
<1>2. Cardinality(T) \in Nat
  BY <1>1, FS_CardinalityType
<1> DEFINE Above(i) == {j \in T : j >= i}
           N == {m \in Nat : m + 1 <= Cardinality(T) => \E i \in T : Cardinality(Above(i)) = m + 1}
<1>3. 0 \in N
  <2> SUFFICES ASSUME 1 <= Cardinality(T) PROVE \E i \in T : Cardinality(Above(i)) = 1
    OBVIOUS
  <2>1. T # {}
    BY FS_EmptySet, <1>2
  <2>2. Max(T) \in T /\ \A y \in T : Max(T) >= y
    BY <2>1, MaxIsGreatest
  <2>3. Above(Max(T)) = {Max(T)}
    <3> DEFINE x == Max(T)
    <3>1. x \in T /\ \A y \in T : x >= y
      BY <2>2
    <3> HIDE DEF x
    <3>2. \A y \in T : y >= x <=> y = x
      BY <1>0, <3>1
    <3>3. {j \in T : j >= x} = {x}
      BY <3>1, <3>2
    <3> QED
      BY <3>3 DEF x
  <2>4. Cardinality(Above(Max(T))) = 1
    BY <2>3, FS_Singleton
  <2> QED
    BY <2>2, <2>4
<1>4. ASSUME NEW m \in N PROVE m + 1 \in N
  <2> SUFFICES ASSUME (m + 1) + 1 <= Cardinality(T) PROVE \E i \in T : Cardinality(Above(i)) = (m + 1) + 1
    OBVIOUS
  <2>0. m \in Nat
    OBVIOUS
  <2>1. PICK i \in T : Cardinality(Above(i)) = m + 1
    BY <1>2
  <2> DEFINE B == {j \in T : j < i}
  <2>2. B # {}
    <3> SUFFICES ASSUME B = {} PROVE FALSE
      OBVIOUS
    <3>1. Above(i) = T
      <4>1. \A j \in T : j >= i
        BY <1>0
      <4> QED
        BY <4>1
    <3> QED
      BY <1>2, <2>0, <2>1, <3>1
  <2>3. B \in SUBSET (0..n)
    OBVIOUS
  <2>4. Max(B) \in B /\ \A y \in B : Max(B) >= y
    BY <2>2, <2>3, MaxIsGreatest
  <2> DEFINE x == Max(B)
  <2>5. x \in T /\ x < i /\ \A y \in T : y < i => x >= y
    BY <2>4
  <2> HIDE DEF x, B
  <2>6. Above(x) = Above(i) \cup {x} /\ x \notin Above(i)
    <3>1. \A y \in T : y >= x <=> y >= i \/ y = x
      BY <1>0, <2>5
    <3>2. ~(x >= i)
      BY <1>0, <2>5
    <3> QED
      BY <2>5, <3>1, <3>2
  <2>7. IsFiniteSet(Above(i))
    <3>1. Above(i) \subseteq T
      OBVIOUS
    <3> QED
      BY <1>1, <3>1, FS_Subset
  <2> HIDE DEF Above
  <2>8. Cardinality(Above(x)) = Cardinality(Above(i)) + 1
    BY <2>6, <2>7, FS_AddElement
  <2> QED
    BY <2>1, <2>5, <2>8
<1>5. N = Nat
  <2>1. N \in SUBSET Nat
    OBVIOUS
  <2> HIDE DEF N
  <2> QED
    BY <1>3, <1>4, <2>1, InductionOnSets
<1>6. k - 1 \in Nat /\ (k - 1) + 1 = k
  OBVIOUS
<1>7. \A m \in N : m + 1 <= Cardinality(T) => \E i \in T : Cardinality(Above(i)) = m + 1
  OBVIOUS
<1> HIDE DEF N
<1>8. k - 1 \in N
  BY <1>5, <1>6
<1>9. \E i \in T : Cardinality(Above(i)) = k
  BY <1>6, <1>7, <1>8
<1> QED
  BY <1>9

\* Induction from a bound down to 0.
LEMMA InductionDownwards ==
  ASSUME NEW n \in Nat, NEW T, n \in T, \A k \in 0..n : k < n /\ k + 1 \in T => k \in T
  PROVE  \A k \in 0..n : k \in T
<1> DEFINE N == {m \in Nat : m <= n => n - m \in T}
<1>1. 0 \in N
  OBVIOUS
<1>2. ASSUME NEW m \in N PROVE m + 1 \in N
  <2> SUFFICES ASSUME m + 1 <= n PROVE n - (m + 1) \in T
    OBVIOUS
  <2>1. m \in Nat /\ n - m \in T
    OBVIOUS
  <2> DEFINE k == n - (m + 1)
  <2>2. k \in 0..n /\ k < n /\ k + 1 = n - m
    BY <2>1
  <2> HIDE DEF k
  <2>3. k \in T
    BY <2>1, <2>2
  <2> QED
    BY <2>3 DEF k
<1>3. N = Nat
  <2>1. N \in SUBSET Nat
    OBVIOUS
  <2> HIDE DEF N
  <2> QED
    BY <1>1, <1>2, <2>1, InductionOnSets
<1>4. ASSUME NEW k \in 0..n PROVE k \in T
  <2>1. n - k \in Nat /\ n - k <= n /\ n - (n - k) = k
    OBVIOUS
  <2>2. n - k \in N
    BY <1>3, <2>1
  <2> QED
    BY <2>1, <2>2
<1> QED
  BY <1>4

-----------------------------------------------------------------------------
(* Sequences.                                                              *)

Distinct(q) == \A i, j \in DOMAIN q : i # j => q[i] # q[j]

\* What moves from the head of one sequence to the end of another stays in its
\* place among all of them.
LEMMA HeadMoves ==
  ASSUME NEW S, NEW p \in Seq(S), NEW q \in Seq(S), q # <<>>
  PROVE  Append(p, Head(q)) \o Tail(q) = p \o q
<1>1. Head(q) \in S /\ Tail(q) \in Seq(S)
  BY HeadTailProperties
<1>2. <<Head(q)>> \in Seq(S) /\ q = <<Head(q)>> \o Tail(q)
  BY <1>1
<1>3. Append(p, Head(q)) = p \o <<Head(q)>>
  BY <1>1, AppendIsConcat
<1> QED
  BY <1>1, <1>2, <1>3, ConcatAssociative

\* Appending to the second of two sequences is appending to both.
LEMMA AppendToBoth ==
  ASSUME NEW S, NEW p \in Seq(S), NEW q \in Seq(S), NEW x \in S
  PROVE  p \o Append(q, x) = Append(p \o q, x)
<1>1. <<x>> \in Seq(S) /\ p \o q \in Seq(S)
  BY ConcatProperties
<1>2. Append(q, x) = q \o <<x>> /\ Append(p \o q, x) = (p \o q) \o <<x>>
  BY <1>1, AppendIsConcat
<1> QED
  BY <1>1, <1>2, ConcatAssociative

\* Appending adds one element at the end.
LEMMA RangeAppend ==
  ASSUME NEW S, NEW q \in Seq(S), NEW x \in S
  PROVE  /\ Range(Append(q, x)) = Range(q) \cup {x}
         /\ Distinct(q) /\ x \notin Range(q) => Distinct(Append(q, x))
<1>1. /\ DOMAIN q = 1..Len(q) /\ Len(q) \in Nat
      /\ DOMAIN Append(q, x) = 1..(Len(q) + 1)
      /\ \A i \in 1..Len(q) : Append(q, x)[i] = q[i]
      /\ Append(q, x)[Len(q) + 1] = x
  BY AppendProperties, LenProperties
<1> QED
  BY <1>1 DEF Range, Distinct

\* Dropping the head of a sequence without repetitions drops one element.
LEMMA RangeTail ==
  ASSUME NEW S, NEW q \in Seq(S), q # <<>>, Distinct(q)
  PROVE  /\ Range(Tail(q)) = Range(q) \ {Head(q)}
         /\ Distinct(Tail(q))
<1>1. PICK n \in Nat : /\ DOMAIN q = 1..(n + 1) /\ DOMAIN Tail(q) = 1..n
                      /\ \A i \in 1..n : Tail(q)[i] = q[i + 1]
                      /\ Head(q) = q[1]
  <2>1. Len(q) \in Nat \ {0} /\ DOMAIN q = 1..Len(q)
    BY EmptySeq, LenProperties
  <2>2. DOMAIN Tail(q) = 1..(Len(q) - 1) /\ \A i \in 1..(Len(q) - 1) : Tail(q)[i] = q[i + 1]
    BY HeadTailProperties, LenProperties
  <2>3. Len(q) - 1 \in Nat /\ (Len(q) - 1) + 1 = Len(q) /\ Head(q) = q[1]
    BY <2>1
  <2> QED
    BY <2>1, <2>2, <2>3
<1>2. ASSUME NEW y, y \in Range(Tail(q)) PROVE y \in Range(q) /\ y # Head(q)
  <2>1. PICK i \in 1..n : Tail(q)[i] = y
    BY <1>1, <1>2 DEF Range
  <2>2. i + 1 \in 1..(n + 1) /\ i + 1 # 1 /\ 1 \in 1..(n + 1) /\ q[i + 1] = y
    BY <1>1, <2>1
  <2> QED
    BY <1>1, <2>2 DEF Range, Distinct
<1>3. ASSUME NEW y, y \in Range(q), y # Head(q) PROVE y \in Range(Tail(q))
  <2>1. PICK i \in 1..(n + 1) : q[i] = y
    BY <1>1, <1>3 DEF Range
  <2>2. i - 1 \in 1..n /\ (i - 1) + 1 = i
    BY <1>1, <1>3, <2>1
  <2> QED
    BY <1>1, <2>1, <2>2 DEF Range
<1>4. Distinct(Tail(q))
  <2> SUFFICES ASSUME NEW i \in 1..n, NEW j \in 1..n, i # j PROVE Tail(q)[i] # Tail(q)[j]
    BY <1>1 DEF Distinct
  <2>1. i + 1 \in 1..(n + 1) /\ j + 1 \in 1..(n + 1) /\ i + 1 # j + 1
    OBVIOUS
  <2> QED
    BY <1>1, <2>1 DEF Distinct
<1> QED
  BY <1>2, <1>3, <1>4

\* Cutting one place out of a sequence without repetitions drops what was there.
LEMMA RangeRemoved ==
  ASSUME NEW S, NEW q \in Seq(S), NEW k \in DOMAIN q, Distinct(q)
  PROVE  LET r == SubSeq(q, 1, k - 1) \o SubSeq(q, k + 1, Len(q))
         IN  /\ r \in Seq(S)
             /\ Range(r) = Range(q) \ {q[k]}
             /\ Distinct(r)
<1> DEFINE a == SubSeq(q, 1, k - 1)
<1> DEFINE b == SubSeq(q, k + 1, Len(q))
<1> DEFINE r == a \o b
<1>1. PICK n \in Nat : n = Len(q) /\ DOMAIN q = 1..n /\ \A i \in 1..n : q[i] \in S
  BY LenProperties, ElementOfSeq
<1>2. k \in 1..n
  BY <1>1
<1>3. a \in Seq(S) /\ Len(a) = k - 1 /\ \A i \in 1..(k - 1) : a[i] = q[i]
  <2>1. \A i \in 1..(k - 1) : q[i] \in S
    BY <1>1, <1>2
  <2> QED
    BY <1>2, <2>1, SubSeqProperties
<1>4. b \in Seq(S) /\ Len(b) = n - k /\ \A i \in 1..(n - k) : b[i] = q[k + i]
  <2>1. \A i \in (k + 1)..n : q[i] \in S
    BY <1>1, <1>2
  <2>2. /\ SubSeq(q, k + 1, n) \in Seq(S)
        /\ Len(SubSeq(q, k + 1, n)) = IF k + 1 <= n THEN n - (k + 1) + 1 ELSE 0
        /\ \A i \in 1..(n - (k + 1) + 1) : SubSeq(q, k + 1, n)[i] = q[(k + 1) + i - 1]
    BY <1>2, <2>1, SubSeqProperties
  <2>3. b = SubSeq(q, k + 1, n)
    BY <1>1
  <2> HIDE DEF b
  <2>4. n - (k + 1) + 1 = n - k /\ \A i \in 1..(n - k) : (k + 1) + i - 1 = k + i
    BY <1>2
  <2> QED
    BY <1>2, <2>2, <2>3, <2>4
<1> HIDE DEF a, b
<1>5. r \in Seq(S) /\ Len(r) = n - 1
      /\ \A i \in 1..(n - 1) : r[i] = IF i <= k - 1 THEN a[i] ELSE b[i - (k - 1)]
  <2>1. /\ r \in Seq(S) /\ Len(r) = Len(a) + Len(b)
        /\ \A i \in 1..(Len(a) + Len(b)) : r[i] = IF i <= Len(a) THEN a[i] ELSE b[i - Len(a)]
    BY <1>3, <1>4, ConcatProperties
  <2>2. Len(a) + Len(b) = n - 1
    BY <1>2, <1>3, <1>4
  <2> QED
    BY <1>3, <2>1, <2>2
<1>6. DOMAIN r = 1..(n - 1)
  BY <1>5, LenProperties
<1> HIDE DEF r
<1>7. \A i \in 1..(n - 1) : r[i] = q[IF i < k THEN i ELSE i + 1]
  <2> SUFFICES ASSUME NEW i \in 1..(n - 1) PROVE r[i] = q[IF i < k THEN i ELSE i + 1]
    OBVIOUS
  <2>1. CASE i < k
    BY <1>2, <1>3, <1>5, <2>1
  <2>2. CASE ~(i < k)
    <3>1. i - (k - 1) \in 1..(n - k) /\ k + (i - (k - 1)) = i + 1
      BY <1>2, <2>2
    <3> QED
      BY <1>2, <1>4, <1>5, <2>2, <3>1
  <2> QED
    BY <2>1, <2>2
<1>8. ASSUME NEW y, y \in Range(r) PROVE y \in Range(q) /\ y # q[k]
  <2>1. PICK i \in 1..(n - 1) : r[i] = y
    BY <1>6, <1>8 DEF Range
  <2>2. PICK j \in 1..n : j # k /\ q[j] = y
    BY <1>2, <1>7, <2>1
  <2> QED
    BY <1>1, <2>2 DEF Range, Distinct
<1>9. ASSUME NEW y, y \in Range(q), y # q[k] PROVE y \in Range(r)
  <2>1. PICK j \in 1..n : q[j] = y /\ j # k
    BY <1>1, <1>9 DEF Range
  <2>2. CASE j < k
    <3>1. j \in 1..(n - 1) /\ r[j] = y
      BY <1>2, <1>7, <2>1, <2>2
    <3> QED
      BY <1>6, <3>1 DEF Range
  <2>3. CASE j > k
    <3>1. j - 1 \in 1..(n - 1) /\ ~(j - 1 < k) /\ (j - 1) + 1 = j
      BY <1>2, <2>3
    <3>2. r[j - 1] = y
      BY <1>7, <2>1, <3>1
    <3> QED
      BY <1>6, <3>1, <3>2 DEF Range
  <2> QED
    BY <1>2, <2>1, <2>2, <2>3
<1>10. Distinct(r)
  <2> SUFFICES ASSUME NEW i \in 1..(n - 1), NEW j \in 1..(n - 1), i # j PROVE r[i] # r[j]
    BY <1>6 DEF Distinct
  <2> DEFINE at(l) == IF l < k THEN l ELSE l + 1
  <2>1. at(i) \in 1..n /\ at(j) \in 1..n /\ at(i) # at(j)
    BY <1>2
  <2>2. r[i] = q[at(i)] /\ r[j] = q[at(j)]
    BY <1>7
  <2> HIDE DEF at
  <2> QED
    BY <1>1, <2>1, <2>2 DEF Distinct
<1> QED
  BY <1>5, <1>8, <1>9, <1>10 DEF r, a, b

-----------------------------------------------------------------------------
(* Induction over sequences, mapping and flattening them.                  *)

\* A set of sequences that has the empty one, and every extension of those it
\* has, has them all.
LEMMA InductionOnSequences ==
  ASSUME NEW S, NEW T \in SUBSET Seq(S), <<>> \in T, \A s \in T, x \in S : Append(s, x) \in T
  PROVE  T = Seq(S)
<1> DEFINE N == {n \in Nat : \A s \in Seq(S) : Len(s) = n => s \in T}
<1>1. 0 \in N
  BY EmptySeq
<1>2. ASSUME NEW n \in N PROVE n + 1 \in N
  <2> SUFFICES ASSUME NEW s \in Seq(S), Len(s) = n + 1 PROVE s \in T
    OBVIOUS
  <2>1. PICK t \in Seq(S), x \in S : s = Append(t, x)
    <3>1. n + 1 # 0
      OBVIOUS
    <3>2. s # <<>>
      BY <3>1, EmptySeq
    <3> QED
      BY <3>2, SequenceEmptyOrAppend
  <2>2. Len(t) = n
    BY <2>1, AppendProperties, LenProperties
  <2>3. t \in T
    BY <2>2
  <2> QED
    BY <2>1, <2>3
<1>3. N = Nat
  <2>1. N \in SUBSET Nat
    OBVIOUS
  <2> HIDE DEF N
  <2> QED
    BY <1>1, <1>2, <2>1, InductionOnSets
<1>4. ASSUME NEW s \in Seq(S) PROVE s \in T
  BY <1>3, LenProperties
<1> QED
  BY <1>4

\* The functions from S to R, under a name that the provers need not open.
FunctionsTo(S, R) == [S -> R]

\* A function applied to each element.
Mapped(F, s) == [i \in DOMAIN s |-> F[s[i]]]

\* There is nothing to map.
LEMMA MappedNothing == \A F : Mapped(F, <<>>) = <<>>
BY DEF Mapped

\* Mapping keeps places.
LEMMA MappedType ==
  ASSUME NEW S, NEW R, NEW F \in FunctionsTo(S, R), NEW s \in Seq(S)
  PROVE  /\ Mapped(F, s) \in Seq(R) /\ Len(Mapped(F, s)) = Len(s)
         /\ DOMAIN Mapped(F, s) = 1..Len(s)
         /\ \A i \in 1..Len(s) : Mapped(F, s)[i] = F[s[i]]
<1>1. Len(s) \in Nat /\ DOMAIN s = 1..Len(s) /\ \A i \in 1..Len(s) : s[i] \in S
  BY LenProperties, ElementOfSeq
<1>2. F \in [S -> R]
  BY DEF FunctionsTo
<1> QED
  BY <1>1, <1>2 DEF Mapped

\* Mapping two sequences joined.
LEMMA MappedConcat ==
  ASSUME NEW S, NEW R, NEW F \in FunctionsTo(S, R), NEW s \in Seq(S), NEW t \in Seq(S)
  PROVE  Mapped(F, s \o t) = Mapped(F, s) \o Mapped(F, t)
<1>1. /\ s \o t \in Seq(S) /\ Len(s \o t) = Len(s) + Len(t)
      /\ \A i \in 1..(Len(s) + Len(t)) : (s \o t)[i] = IF i <= Len(s) THEN s[i] ELSE t[i - Len(s)]
  BY ConcatProperties
<1> DEFINE a == Mapped(F, s)
           b == Mapped(F, t)
           c == Mapped(F, s \o t)
<1>2. /\ a \in Seq(R) /\ Len(a) = Len(s) /\ \A i \in 1..Len(s) : a[i] = F[s[i]]
      /\ b \in Seq(R) /\ Len(b) = Len(t) /\ \A i \in 1..Len(t) : b[i] = F[t[i]]
      /\ c \in Seq(R) /\ Len(c) = Len(s) + Len(t)
      /\ \A i \in 1..(Len(s) + Len(t)) : c[i] = F[(s \o t)[i]]
  <2>1. /\ Mapped(F, s \o t) \in Seq(R) /\ Len(Mapped(F, s \o t)) = Len(s \o t)
        /\ \A i \in 1..Len(s \o t) : Mapped(F, s \o t)[i] = F[(s \o t)[i]]
    <3> DEFINE u == s \o t
    <3>1. u \in Seq(S)
      BY <1>1
    <3> HIDE DEF u
    <3>2. Mapped(F, u) \in Seq(R) /\ Len(Mapped(F, u)) = Len(u) /\ \A i \in 1..Len(u) : Mapped(F, u)[i] = F[u[i]]
      BY <3>1, MappedType
    <3> QED
      BY <3>2 DEF u
  <2>2. Mapped(F, s) \in Seq(R) /\ Len(Mapped(F, s)) = Len(s) /\ \A i \in 1..Len(s) : Mapped(F, s)[i] = F[s[i]]
    BY MappedType
  <2>3. Mapped(F, t) \in Seq(R) /\ Len(Mapped(F, t)) = Len(t) /\ \A i \in 1..Len(t) : Mapped(F, t)[i] = F[t[i]]
    BY MappedType
  <2> QED
    BY <1>1, <2>1, <2>2, <2>3
<1> HIDE DEF a, b, c
<1>3. /\ a \o b \in Seq(R) /\ Len(a \o b) = Len(s) + Len(t)
      /\ \A i \in 1..(Len(s) + Len(t)) : (a \o b)[i] = IF i <= Len(s) THEN a[i] ELSE b[i - Len(s)]
  <2>1. a \in Seq(R) /\ b \in Seq(R)
    BY <1>2
  <2>2. /\ a \o b \in Seq(R) /\ Len(a \o b) = Len(a) + Len(b)
        /\ \A i \in 1..(Len(a) + Len(b)) : (a \o b)[i] = IF i <= Len(a) THEN a[i] ELSE b[i - Len(a)]
    BY <2>1, ConcatProperties
  <2> QED
    BY <1>2, <2>2
<1>4. \A i \in 1..(Len(s) + Len(t)) : c[i] = (a \o b)[i]
  <2> TAKE i \in 1..(Len(s) + Len(t))
  <2>1. Len(s) \in Nat /\ Len(t) \in Nat
    OBVIOUS
  <2>2. CASE i <= Len(s)
    <3>1. i \in 1..Len(s)
      BY <2>1, <2>2
    <3> QED
      BY <1>1, <1>2, <1>3, <2>2, <3>1
  <2>3. CASE ~(i <= Len(s))
    <3>1. i - Len(s) \in 1..Len(t)
      BY <2>1, <2>3
    <3>2. b[i - Len(s)] = F[t[i - Len(s)]]
      BY <1>2, <3>1
    <3>3. c[i] = F[t[i - Len(s)]] /\ (a \o b)[i] = b[i - Len(s)]
      BY <1>1, <1>2, <1>3, <2>3
    <3> QED
      BY <3>2, <3>3
  <2> QED
    BY <2>2, <2>3
<1> QED
  BY <1>2, <1>3, <1>4, SeqEqual DEF a, b, c

\* Mapping one element.
LEMMA MappedOne ==
  ASSUME NEW x, NEW F
  PROVE  Mapped(F, <<x>>) = <<F[x]>>
<1>1. DOMAIN <<x>> = {1} /\ <<x>>[1] = x
  OBVIOUS
<1>2. Mapped(F, <<x>>) = [i \in {1} |-> F[x]]
  BY <1>1 DEF Mapped
<1> QED
  BY <1>2

\* Mapping one more element.
LEMMA MappedAppend ==
  ASSUME NEW S, NEW R, NEW F \in FunctionsTo(S, R), NEW s \in Seq(S), NEW x \in S
  PROVE  /\ Mapped(F, s) \in Seq(R)
         /\ Mapped(F, Append(s, x)) = Append(Mapped(F, s), F[x])
<1>1. <<x>> \in Seq(S) /\ Append(s, x) = s \o <<x>>
  BY AppendIsConcat
<1>2. Mapped(F, s \o <<x>>) = Mapped(F, s) \o Mapped(F, <<x>>)
  BY <1>1, MappedConcat
<1>3. Mapped(F, s) \in Seq(R)
  BY MappedType
<1>4. F[x] \in R
  BY DEF FunctionsTo
<1>5. Append(Mapped(F, s), F[x]) = Mapped(F, s) \o <<F[x]>>
  BY <1>3, <1>4, AppendIsConcat
<1> QED
  BY <1>1, <1>2, <1>3, <1>5, MappedOne

\* The sequences that flattening goes through.
LEMMA FlattenSteps ==
  ASSUME NEW S, NEW ss \in Seq(S), ss # <<>>
  PROVE  \E g : /\ g = [i \in 1..Len(ss) |-> IF i = 1 THEN ss[i] ELSE g[i - 1] \o ss[i]]
                /\ FlattenSeq(ss) = g[Len(ss)]
<1> DEFINE Is(g, k) == g = [i \in 1..k |-> IF i = 1 THEN ss[i] ELSE g[i - 1] \o ss[i]]
           T == {k \in Nat : \E g : Is(g, k)}
<1>1. 0 \in T
  <2>1. Is([i \in 1..0 |-> 0], 0)
    OBVIOUS
  <2> QED
    BY <2>1
<1>2. ASSUME NEW k \in T PROVE k + 1 \in T
  <2>1. PICK g : Is(g, k)
    OBVIOUS
  <2> DEFINE e == IF k + 1 = 1 THEN ss[k + 1] ELSE g[k] \o ss[k + 1]
  <2> DEFINE h == [i \in 1..(k + 1) |-> IF i = k + 1 THEN e ELSE g[i]]
  <2>2. \A i \in 1..k : g[i] = IF i = 1 THEN ss[i] ELSE g[i - 1] \o ss[i]
    BY <2>1
  <2>3. \A i \in 1..(k + 1) : i # 1 => h[i - 1] = g[i - 1]
    OBVIOUS
  <2>4. ASSUME NEW i \in 1..(k + 1) PROVE h[i] = IF i = 1 THEN ss[i] ELSE h[i - 1] \o ss[i]
    <3>1. CASE i = k + 1
      <4>1. h[i] = e /\ i - 1 = k /\ (i # 1 => h[i - 1] = g[k])
        BY <3>1, <2>3
      <4> QED
        BY <3>1, <4>1
    <3>2. CASE i # k + 1
      <4>1. i \in 1..k /\ h[i] = g[i]
        BY <3>2
      <4> QED
        BY <2>2, <2>3, <4>1
    <3> QED
      BY <3>1, <3>2
  <2>5. h = [i \in 1..(k + 1) |-> h[i]]
    OBVIOUS
  <2> HIDE DEF h
  <2>6. Is(h, k + 1)
    BY <2>4, <2>5
  <2>7. k + 1 \in Nat
    OBVIOUS
  <2>8. \E f : Is(f, k + 1)
    BY <2>6
  <2> HIDE DEF Is
  <2> QED
    BY <2>7, <2>8
<1> HIDE DEF T
<1>3. T = Nat
  <2>1. T \in SUBSET Nat
    BY DEF T
  <2> QED
    BY <1>1, <1>2, <2>1, InductionOnSets
<1>4. Len(ss) \in T
  BY <1>3, LenProperties
<1>5. PICK g0 : Is(g0, Len(ss))
  BY <1>4 DEF T
<1> DEFINE g == CHOOSE h : Is(h, Len(ss))
<1>6. Is(g, Len(ss))
  BY <1>5
<1>7. FlattenSeq(ss) = g[Len(ss)]
  <2>1. Len(ss) # 0
    BY EmptySeq
  <2> QED
    BY <2>1 DEF FlattenSeq
<1> HIDE DEF g
<1> QED
  BY <1>6, <1>7

\* Nothing to flatten.
LEMMA FlattenNothing == FlattenSeq(<<>>) = <<>>
BY DEF FlattenSeq

\* One more sequence comes last.
LEMMA FlattenOneMore ==
  ASSUME NEW S, NEW ss \in Seq(Seq(S)), NEW t \in Seq(S)
  PROVE  FlattenSeq(Append(ss, t)) = IF ss = <<>> THEN t ELSE FlattenSeq(ss) \o t
<1> DEFINE tt == Append(ss, t)
<1>1. /\ tt \in Seq(Seq(S)) /\ Len(tt) = Len(ss) + 1 /\ Len(ss) \in Nat
      /\ \A i \in 1..Len(ss) : tt[i] = ss[i]
      /\ tt[Len(ss) + 1] = t
      /\ tt # <<>>
  BY AppendProperties, LenProperties
<1> HIDE DEF tt
<1>2. PICK h : /\ h = [i \in 1..Len(tt) |-> IF i = 1 THEN tt[i] ELSE h[i - 1] \o tt[i]]
               /\ FlattenSeq(tt) = h[Len(tt)]
  BY <1>1, FlattenSteps
<1>3. CASE ss = <<>>
  <2>1. Len(tt) = 1 /\ tt[1] = t
    BY <1>1, <1>3
  <2>2. h[1] = t
    BY <1>2, <2>1
  <2> QED
    BY <1>2, <1>3, <2>1, <2>2 DEF tt
<1>4. CASE ss # <<>>
  <2>0. Len(ss) \in Nat \ {0}
    BY <1>1, <1>4, EmptySeq
  <2>1. PICK g : /\ g = [i \in 1..Len(ss) |-> IF i = 1 THEN ss[i] ELSE g[i - 1] \o ss[i]]
                 /\ FlattenSeq(ss) = g[Len(ss)]
    BY <1>4, FlattenSteps
  <2> DEFINE T == {k \in Nat : k + 1 <= Len(ss) => g[k + 1] = h[k + 1]}
  <2>2. 0 \in T
    <3>1. 1 \in 1..Len(ss) /\ 1 \in 1..Len(tt) /\ tt[1] = ss[1]
      BY <1>1, <2>0
    <3>2. g[1] = ss[1]
      BY <2>1, <3>1
    <3>3. h[1] = tt[1]
      BY <1>2, <3>1
    <3> QED
      BY <3>1, <3>2, <3>3
  <2>3. ASSUME NEW k \in T PROVE k + 1 \in T
    <3> SUFFICES ASSUME (k + 1) + 1 <= Len(ss) PROVE g[(k + 1) + 1] = h[(k + 1) + 1]
      OBVIOUS
    <3>1. g[k + 1] = h[k + 1]
      BY <2>0
    <3> DEFINE i == (k + 1) + 1
    <3>2. i \in 1..Len(ss) /\ i \in 1..Len(tt) /\ i # 1 /\ i - 1 = k + 1 /\ tt[i] = ss[i]
      BY <1>1, <2>0
    <3> HIDE DEF i
    <3>3. g[i] = g[i - 1] \o ss[i]
      BY <2>1, <3>2
    <3>4. h[i] = h[i - 1] \o tt[i]
      BY <1>2, <3>2
    <3> QED
      BY <3>1, <3>2, <3>3, <3>4 DEF i
  <2>4. T = Nat
    <3>1. T \in SUBSET Nat
      OBVIOUS
    <3> HIDE DEF T
    <3> QED
      BY <2>2, <2>3, <3>1, InductionOnSets
  <2>5. g[Len(ss)] = h[Len(ss)]
    <3>1. Len(ss) - 1 \in Nat /\ (Len(ss) - 1) + 1 = Len(ss)
      BY <2>0
    <3>2. \A k \in T : k + 1 <= Len(ss) => g[k + 1] = h[k + 1]
      OBVIOUS
    <3> HIDE DEF T
    <3>3. Len(ss) - 1 \in T
      BY <2>4, <3>1
    <3> QED
      BY <2>0, <3>1, <3>2, <3>3
  <2>6. Len(tt) \in 1..Len(tt) /\ Len(tt) # 1 /\ Len(tt) - 1 = Len(ss) /\ tt[Len(tt)] = t
    BY <1>1, <2>0
  <2>7. h[Len(tt)] = h[Len(tt) - 1] \o tt[Len(tt)]
    BY <1>2, <2>6
  <2> QED
    BY <1>2, <1>4, <2>1, <2>5, <2>6, <2>7 DEF tt
<1> QED
  BY <1>3, <1>4

\* A flattened sequence of sequences is a sequence of their elements.
LEMMA FlattenType ==
  ASSUME NEW S, NEW ss \in Seq(Seq(S))
  PROVE  FlattenSeq(ss) \in Seq(S)
<1> DEFINE T == {tt \in Seq(Seq(S)) : FlattenSeq(tt) \in Seq(S)}
<1>1. <<>> \in T
  BY FlattenNothing, EmptySeq
<1>2. ASSUME NEW tt \in T, NEW t \in Seq(S) PROVE Append(tt, t) \in T
  <2>1. FlattenSeq(Append(tt, t)) = IF tt = <<>> THEN t ELSE FlattenSeq(tt) \o t
    BY FlattenOneMore
  <2>2. Append(tt, t) \in Seq(Seq(S))
    BY AppendProperties
  <2> QED
    BY <2>1, <2>2, ConcatProperties
<1>3. T = Seq(Seq(S))
  <2>1. T \in SUBSET Seq(Seq(S))
    OBVIOUS
  <2> HIDE DEF T
  <2> QED
    BY <1>1, <1>2, <2>1, InductionOnSequences
<1> QED
  BY <1>3

\* One more sequence comes last, whatever was there.
LEMMA FlattenAppend ==
  ASSUME NEW S, NEW ss \in Seq(Seq(S)), NEW t \in Seq(S)
  PROVE  FlattenSeq(Append(ss, t)) = FlattenSeq(ss) \o t
<1>1. CASE ss = <<>>
  BY <1>1, FlattenOneMore, FlattenNothing, ConcatEmptySeq
<1>2. CASE ss # <<>>
  BY <1>2, FlattenOneMore
<1> QED
  BY <1>1, <1>2

\* Flattening what was joined joins what was flattened.
LEMMA FlattenConcat ==
  ASSUME NEW S, NEW rr \in Seq(Seq(S)), NEW ss \in Seq(Seq(S))
  PROVE  FlattenSeq(rr \o ss) = FlattenSeq(rr) \o FlattenSeq(ss)
<1> DEFINE T == {tt \in Seq(Seq(S)) : FlattenSeq(rr \o tt) = FlattenSeq(rr) \o FlattenSeq(tt)}
<1>1. <<>> \in T
  <2>1. rr \o <<>> = rr
    BY ConcatEmptySeq
  <2>2. FlattenSeq(rr) \o <<>> = FlattenSeq(rr)
    BY FlattenType, ConcatEmptySeq
  <2> QED
    BY <2>1, <2>2, FlattenNothing, EmptySeq
<1>2. ASSUME NEW tt \in T, NEW t \in Seq(S) PROVE Append(tt, t) \in T
  <2>1. rr \o Append(tt, t) = Append(rr \o tt, t) /\ rr \o tt \in Seq(Seq(S)) /\ Append(tt, t) \in Seq(Seq(S))
    BY AppendToBoth, ConcatProperties, AppendProperties
  <2>2. FlattenSeq(Append(rr \o tt, t)) = FlattenSeq(rr \o tt) \o t
    BY <2>1, FlattenAppend
  <2>3. FlattenSeq(Append(tt, t)) = FlattenSeq(tt) \o t
    BY FlattenAppend
  <2>4. FlattenSeq(rr) \in Seq(S) /\ FlattenSeq(tt) \in Seq(S)
    BY FlattenType
  <2>5. (FlattenSeq(rr) \o FlattenSeq(tt)) \o t = FlattenSeq(rr) \o (FlattenSeq(tt) \o t)
    BY <2>4, ConcatAssociative
  <2> QED
    BY <2>1, <2>2, <2>3, <2>5
<1>3. T = Seq(Seq(S))
  <2>1. T \in SUBSET Seq(Seq(S))
    OBVIOUS
  <2> HIDE DEF T
  <2> QED
    BY <1>1, <1>2, <2>1, InductionOnSequences
<1> QED
  BY <1>3

\* Flattening one sequence.
LEMMA FlattenOne ==
  ASSUME NEW S, NEW t \in Seq(S)
  PROVE  FlattenSeq(<<t>>) = t
<1>1. <<>> \in Seq(Seq(S)) /\ Append(<<>>, t) = <<t>>
  BY EmptySeq
<1> QED
  BY <1>1, FlattenOneMore

\* Flattening singletons gives back what they hold.
LEMMA FlattenSingletons ==
  ASSUME NEW S, NEW s \in Seq(S)
  PROVE  FlattenSeq([i \in DOMAIN s |-> <<s[i]>>]) = s
<1>0. PICK F \in FunctionsTo(S, Seq(S)) : \A x \in S : F[x] = <<x>>
  <2>1. [x \in S |-> <<x>>] \in [S -> Seq(S)]
    OBVIOUS
  <2> QED
    BY <2>1 DEF FunctionsTo
<1> DEFINE T == {t \in Seq(S) : FlattenSeq(Mapped(F, t)) = t}
<1>1. <<>> \in T
  <2>1. Mapped(F, <<>>) = <<>>
    BY DEF Mapped
  <2> QED
    BY <2>1, FlattenNothing, EmptySeq
<1>2. ASSUME NEW t \in T, NEW x \in S PROVE Append(t, x) \in T
  <2>0. t \in Seq(S) /\ FlattenSeq(Mapped(F, t)) = t /\ <<x>> \in Seq(S) /\ F[x] = <<x>>
    BY <1>0
  <2>1. Mapped(F, Append(t, x)) = Append(Mapped(F, t), F[x]) /\ Mapped(F, t) \in Seq(Seq(S))
    <3> HIDE DEF T
    <3> QED
      BY <2>0, MappedAppend
  <2>2. FlattenSeq(Append(Mapped(F, t), F[x])) = FlattenSeq(Mapped(F, t)) \o F[x]
    BY <2>0, <2>1, FlattenAppend
  <2>3. Append(t, x) = t \o <<x>> /\ Append(t, x) \in Seq(S)
    BY <2>0, AppendIsConcat, AppendProperties
  <2> QED
    BY <2>0, <2>1, <2>2, <2>3
<1>3. T = Seq(S)
  <2>1. T \in SUBSET Seq(S)
    OBVIOUS
  <2> HIDE DEF T
  <2> QED
    BY <1>1, <1>2, <2>1, InductionOnSequences
<1>4. FlattenSeq(Mapped(F, s)) = s
  BY <1>3
<1>5. Mapped(F, s) = [i \in DOMAIN s |-> <<s[i]>>]
  <2>1. \A i \in DOMAIN s : s[i] \in S
    BY ElementOfSeq, LenProperties
  <2> QED
    BY <1>0, <2>1 DEF Mapped
<1> QED
  BY <1>4, <1>5

\* Where a joined sequence may be cut: within the first, or past it.
LEMMA SubSeqOfJoined ==
  ASSUME NEW S, NEW s \in Seq(S), NEW t \in Seq(S), NEW p \in 0..Len(s \o t)
  PROVE  /\ p <= Len(s) => /\ SubSeq(s \o t, 1, p) = SubSeq(s, 1, p)
                           /\ SubSeq(s \o t, p + 1, Len(s \o t)) = SubSeq(s, p + 1, Len(s)) \o t
         /\ p >= Len(s) => /\ SubSeq(s \o t, 1, p) = s \o SubSeq(t, 1, p - Len(s))
                           /\ SubSeq(s \o t, p + 1, Len(s \o t)) = SubSeq(t, p - Len(s) + 1, Len(t))
<1> DEFINE u == s \o t
<1>1. /\ u \in Seq(S) /\ Len(u) = Len(s) + Len(t) /\ Len(s) \in Nat /\ Len(t) \in Nat
      /\ \A i \in 1..(Len(s) + Len(t)) : u[i] = IF i <= Len(s) THEN s[i] ELSE t[i - Len(s)]
  BY ConcatProperties, LenProperties
<1>2. /\ \A i \in 1..Len(s) : s[i] \in S
      /\ \A i \in 1..Len(t) : t[i] \in S
      /\ \A i \in 1..Len(u) : u[i] \in S
  BY <1>1, ElementOfSeq
<1> HIDE DEF u
<1> SUFFICES
      /\ p <= Len(s) => SubSeq(u, 1, p) = SubSeq(s, 1, p) /\ SubSeq(u, p + 1, Len(u)) = SubSeq(s, p + 1, Len(s)) \o t
      /\ p >= Len(s) => /\ SubSeq(u, 1, p) = s \o SubSeq(t, 1, p - Len(s))
                        /\ SubSeq(u, p + 1, Len(u)) = SubSeq(t, p - Len(s) + 1, Len(t))
  BY DEF u
<1>p. p \in 0..Len(u)
  BY DEF u
<1> DEFINE a == SubSeq(u, 1, p)
           b == SubSeq(u, p + 1, Len(u))
<1>3. a \in Seq(S) /\ Len(a) = p /\ \A i \in 1..p : a[i] = u[i]
  BY <1>1, <1>2, <1>p, SubSeqProperties
<1>4. b \in Seq(S) /\ Len(b) = Len(u) - p /\ \A i \in 1..(Len(u) - p) : b[i] = u[p + i]
  <2>1. \A i \in (p + 1)..Len(u) : u[i] \in S
    BY <1>1, <1>2, <1>p
  <2> QED
    BY <1>1, <1>p, <2>1, SubSeqProperties
<1> HIDE DEF a, b
<1>5. CASE p <= Len(s)
  <2> DEFINE c == SubSeq(s, 1, p)
             d == SubSeq(s, p + 1, Len(s))
  <2>1. c \in Seq(S) /\ Len(c) = p /\ \A i \in 1..p : c[i] = s[i]
    BY <1>1, <1>2, <1>p, <1>5, SubSeqProperties
  <2>2. d \in Seq(S) /\ Len(d) = Len(s) - p /\ \A i \in 1..(Len(s) - p) : d[i] = s[p + i]
    <3>1. \A i \in (p + 1)..Len(s) : s[i] \in S
      BY <1>1, <1>2, <1>p
    <3> QED
      BY <1>1, <1>p, <1>5, <3>1, SubSeqProperties
  <2> HIDE DEF c, d
  <2>3. /\ d \o t \in Seq(S) /\ Len(d \o t) = Len(d) + Len(t)
        /\ \A i \in 1..(Len(d) + Len(t)) : (d \o t)[i] = IF i <= Len(d) THEN d[i] ELSE t[i - Len(d)]
    BY <2>2, ConcatProperties
  <2>4. a = c
    <3>1. \A i \in 1..p : a[i] = c[i]
      BY <1>1, <1>3, <1>5, <1>p, <2>1
    <3> QED
      BY <1>3, <2>1, <3>1, SeqEqual
  <2>5. b = d \o t
    <3> DEFINE e == d \o t
    <3>0. e \in Seq(S) /\ Len(e) = Len(b)
      BY <1>1, <1>4, <2>2, <2>3
    <3>1. \A i \in 1..Len(b) : b[i] = e[i]
      <4> TAKE i \in 1..Len(b)
      <4>1. i \in 1..(Len(u) - p) /\ p + i \in 1..(Len(s) + Len(t)) /\ i \in 1..(Len(d) + Len(t))
        BY <1>1, <1>4, <1>p, <1>5, <2>2
      <4>2. b[i] = IF p + i <= Len(s) THEN s[p + i] ELSE t[p + i - Len(s)]
        BY <1>1, <1>4, <4>1
      <4>3. e[i] = IF i <= Len(d) THEN d[i] ELSE t[i - Len(d)]
        BY <2>3, <4>1
      <4>4. CASE p + i <= Len(s)
        BY <1>1, <1>p, <2>2, <4>1, <4>2, <4>3, <4>4
      <4>5. CASE ~(p + i <= Len(s))
        <5>1. p + i - Len(s) = i - Len(d) /\ ~(i <= Len(d))
          BY <1>1, <1>p, <2>2, <4>5
        <5> QED
          BY <4>2, <4>3, <4>5, <5>1
      <4> QED
        BY <4>4, <4>5
    <3> HIDE DEF e
    <3>2. b = e
      BY <1>4, <3>0, <3>1, SeqEqual
    <3> QED
      BY <3>2 DEF e
  <2>6. p = Len(s) => SubSeq(t, p - Len(s) + 1, Len(t)) = t /\ s \o SubSeq(t, 1, p - Len(s)) = s /\ c = s /\ d = <<>>
    <3> SUFFICES ASSUME p = Len(s)
                 PROVE  SubSeq(t, 1, Len(t)) = t /\ s \o SubSeq(t, 1, 0) = s /\ c = s /\ d = <<>>
      BY <1>1
    <3>1. SubSeq(t, 1, Len(t)) = t
      BY SubSeqFull
    <3>2. SubSeq(t, 1, 0) = <<>>
      BY SubSeqEmpty
    <3>3. c = s
      BY SubSeqFull DEF c
    <3>4. d = <<>>
      BY <1>1, <2>2, EmptySeq
    <3> QED
      BY <3>1, <3>2, <3>3, <3>4, ConcatEmptySeq
  <2>7. p = Len(s) => d \o t = t
    BY <2>6, ConcatEmptySeq
  <2>8. p >= Len(s) => p = Len(s)
    BY <1>1, <1>5, <1>p
  <2> QED
    BY <2>4, <2>5, <2>6, <2>7, <2>8 DEF a, b, c, d
<1>6. CASE ~(p <= Len(s))
  <2> DEFINE q == p - Len(s)
             c == SubSeq(t, 1, q)
             d == SubSeq(t, q + 1, Len(t))
  <2>0. q \in 1..Len(t) /\ p = Len(s) + q
    BY <1>1, <1>6, <1>p
  <2> HIDE DEF q
  <2>1. c \in Seq(S) /\ Len(c) = q /\ \A i \in 1..q : c[i] = t[i]
    BY <1>1, <1>2, <2>0, SubSeqProperties
  <2>2. d \in Seq(S) /\ Len(d) = Len(t) - q /\ \A i \in 1..(Len(t) - q) : d[i] = t[q + i]
    <3>1. \A i \in (q + 1)..Len(t) : t[i] \in S
      BY <1>1, <1>2, <2>0
    <3> QED
      BY <1>1, <2>0, <3>1, SubSeqProperties
  <2> HIDE DEF c, d
  <2>3. /\ s \o c \in Seq(S) /\ Len(s \o c) = Len(s) + Len(c)
        /\ \A i \in 1..(Len(s) + Len(c)) : (s \o c)[i] = IF i <= Len(s) THEN s[i] ELSE c[i - Len(s)]
    BY <2>1, ConcatProperties
  <2>4. a = s \o c
    <3> DEFINE e == s \o c
    <3>0. e \in Seq(S) /\ Len(e) = Len(a)
      BY <1>3, <2>0, <2>1, <2>3
    <3>1. \A i \in 1..Len(a) : a[i] = e[i]
      <4> TAKE i \in 1..Len(a)
      <4>1. i \in 1..p /\ i \in 1..(Len(s) + Len(t)) /\ i \in 1..(Len(s) + Len(c))
        BY <1>1, <1>3, <1>p, <2>0, <2>1
      <4>2. a[i] = IF i <= Len(s) THEN s[i] ELSE t[i - Len(s)]
        BY <1>1, <1>3, <4>1
      <4>3. e[i] = IF i <= Len(s) THEN s[i] ELSE c[i - Len(s)]
        BY <2>3, <4>1
      <4>4. CASE ~(i <= Len(s))
        <5>1. i - Len(s) \in 1..q
          BY <1>1, <2>0, <4>1, <4>4
        <5> QED
          BY <2>1, <4>2, <4>3, <4>4, <5>1
      <4> QED
        BY <4>2, <4>3, <4>4
    <3> HIDE DEF e
    <3>2. a = e
      BY <1>3, <3>0, <3>1, SeqEqual
    <3> QED
      BY <3>2 DEF e
  <2>5. b = d
    <3>1. Len(b) = Len(d)
      BY <1>1, <1>4, <2>0, <2>2
    <3>2. \A i \in 1..Len(b) : b[i] = d[i]
      <4> TAKE i \in 1..Len(b)
      <4>1. i \in 1..(Len(u) - p) /\ p + i \in 1..(Len(s) + Len(t)) /\ ~(p + i <= Len(s)) /\ p + i - Len(s) = q + i
        BY <1>1, <1>4, <1>p, <2>0
      <4>2. i \in 1..(Len(t) - q)
        BY <1>1, <1>4, <2>0
      <4>3. b[i] = t[q + i]
        BY <1>1, <1>4, <4>1
      <4> QED
        BY <2>2, <4>2, <4>3
    <3> QED
      BY <1>4, <2>2, <3>1, <3>2, SeqEqual
  <2> QED
    BY <1>6, <2>4, <2>5 DEF a, b, c, d, q
<1> QED
  BY <1>5, <1>6, <1>p, <1>1

\* A sequence is what comes before a cut, and what comes after.
LEMMA SubSeqJoined ==
  ASSUME NEW S, NEW s \in Seq(S), NEW p \in 0..Len(s)
  PROVE  s = SubSeq(s, 1, p) \o SubSeq(s, p + 1, Len(s))
<1>1. Len(s) \in Nat /\ 1 \in 1..(Len(s) + 1) /\ p \in (1 - 1)..Len(s) /\ Len(s) \in p..Len(s)
  BY LenProperties
<1>2. SubSeq(s, 1, p) \o SubSeq(s, p + 1, Len(s)) = SubSeq(s, 1, Len(s))
  BY <1>1, ConcatAdjacentSubSeq
<1> QED
  BY <1>2, SubSeqFull

\* A pair is two lists of one.
LEMMA PairsJoined ==
  ASSUME NEW x, NEW y
  PROVE  <<x>> \o <<y>> = <<x, y>> /\ <<x>> \o <<>> = <<x>>
<1>1. <<x>> \o <<y>> = <<x, y>>
  <2> DEFINE s == <<x>>
             t == <<y>>
             u == s \o t
             v == <<x, y>>
  <2>1. s \in Seq({x, y}) /\ Len(s) = 1 /\ s[1] = x
    OBVIOUS
  <2>2. t \in Seq({x, y}) /\ Len(t) = 1 /\ t[1] = y
    OBVIOUS
  <2>3. v \in Seq({x, y}) /\ Len(v) = 2 /\ v[1] = x /\ v[2] = y
    OBVIOUS
  <2> HIDE DEF s, t, v
  <2>4. /\ u \in Seq({x, y}) /\ Len(u) = Len(s) + Len(t)
        /\ \A i \in 1..(Len(s) + Len(t)) : u[i] = IF i <= Len(s) THEN s[i] ELSE t[i - Len(s)]
    BY <2>1, <2>2, ConcatProperties
  <2> HIDE DEF u
  <2>5. u[1] = v[1] /\ u[2] = v[2] /\ Len(u) = 2
    BY <2>1, <2>2, <2>3, <2>4
  <2>6. \A i \in 1..2 : u[i] = v[i]
    BY <2>5
  <2>7. u = v
    BY <2>3, <2>4, <2>5, <2>6, SeqEqual
  <2> QED
    BY <2>7 DEF s, t, u, v
<1>2. <<x>> \in Seq({x})
  OBVIOUS
<1> QED
  BY <1>1, <1>2, ConcatEmptySeq

\* The second of two lists is a suffix of both together.
LEMMA SuffixOfJoined ==
  ASSUME NEW S, NEW s \in Seq(S), NEW t \in Seq(S)
  PROVE  IsSuffix(t, s \o t)
<1>1. PICK u : u = s \o t
  OBVIOUS
<1>2. PICK n \in Nat, k \in Nat : n = Len(t) /\ k = Len(s)
  BY LenProperties
<1>3. Len(u) = k + n /\ \A i \in 1..(k + n) : u[i] = IF i <= k THEN s[i] ELSE t[i - k]
  BY <1>1, <1>2, ConcatProperties
<1> DEFINE r == [i \in 1..n |-> t[(n - i) + 1]]
           q == [i \in 1..(k + n) |-> u[(k + n - i) + 1]]
<1>4. Reverse(t) = r /\ Reverse(u) = q
  BY <1>2, <1>3 DEF Reverse
<1>5. \A i \in 1..n : r[i] = q[i]
  <2> TAKE i \in 1..n
  <2>1. (k + n - i) + 1 \in 1..(k + n) /\ ~((k + n - i) + 1 <= k) /\ (k + n - i) + 1 - k = (n - i) + 1 /\ i \in 1..(k + n)
    OBVIOUS
  <2>2. u[(k + n - i) + 1] = t[(n - i) + 1]
    BY <1>3, <2>1
  <2> QED
    BY <2>1, <2>2
<1>6. Len(r) = n /\ Len(q) = k + n
  OBVIOUS
<1> HIDE DEF r, q
<1>7. SubSeq(r, 1, n) = SubSeq(q, 1, n)
  <2>1. SubSeq(r, 1, n) = [i \in 1..n |-> r[i]] /\ SubSeq(q, 1, n) = [i \in 1..n |-> q[i]]
    OBVIOUS
  <2> QED
    BY <1>5, <2>1
<1> QED
  BY <1>1, <1>4, <1>6, <1>7 DEF IsSuffix, IsPrefix

=============================================================================
