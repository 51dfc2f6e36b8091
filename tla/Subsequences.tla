---------------------------- MODULE Subsequences ----------------------------
(***************************************************************************)
(* The elements a loop keeps of a list: std::erase_if, std::copy_if and    *)
(* the filters written out, as the list restricted to a set of its         *)
(* indices, with what the proofs need of it.                               *)
(***************************************************************************)
EXTENDS Naturals, Sequences, FiniteSets, FiniteSetTheorems, SequenceTheorems,
        NaturalsInduction, WellFoundedInduction, TLAPS

Rank(S, i) == Cardinality({j \in S : j < i})

\* The k-th smallest of S.
IndexAt(S, k) == CHOOSE i \in S : Rank(S, i) = k - 1

\* The elements of s at the indices of S, in their order.
SubSeqAt(s, S) == [k \in 1..Cardinality(S) |-> s[IndexAt(S, k)]]

\* The elements of s that are in the set E, in their order.
ElementsIn(s, E) == SubSeqAt(s, {i \in DOMAIN s : s[i] \in E})

----------------------------------------------------------------------------
\* A set of numbers that is not empty has a least element.
LEMMA LeastOf ==
  ASSUME NEW T, T \subseteq Nat, T # {}
  PROVE  \E k \in T : \A l \in T : k <= l
<1> DEFINE Lesser == {r \in Nat \X Nat : r[1] < r[2]}
<1>1. IsWellFoundedOn(Lesser, Nat)
  BY NatLessThanWellFounded DEF OpToRel
<1> HIDE DEF Lesser
<1>2. PICK k \in T : \A l \in T : ~(<<l, k>> \in Lesser)
  BY <1>1, WFMin
<1>3. \A l \in T : l \in Nat /\ k \in Nat /\ ~(l < k)
  BY <1>2 DEF Lesser
<1>4. \A a, b \in Nat : ~(a < b) => b <= a
  OBVIOUS
<1> QED
  BY <1>3, <1>4

\* Indices are a finite set.
LEMMA IndicesAreFinite ==
  ASSUME NEW n \in Nat, NEW S \in SUBSET (1..n)
  PROVE  /\ IsFiniteSet(S) /\ Cardinality(S) \in Nat /\ Cardinality(S) <= n
         /\ Cardinality(S) = n => S = 1..n
<1>1. IsFiniteSet(1..n) /\ Cardinality(1..n) = n
  BY FS_Interval
<1>2. IsFiniteSet(S) /\ Cardinality(S) <= Cardinality(1..n) /\ (Cardinality(S) = Cardinality(1..n) => S = 1..n)
  BY <1>1, FS_Subset
<1> QED
  BY <1>1, <1>2, FS_CardinalityType

\* The rank is a number below the size of S, and strictly increasing on S.
LEMMA RankIncreases ==
  ASSUME NEW n \in Nat, NEW S \in SUBSET (1..n), NEW i \in S
  PROVE  /\ Rank(S, i) \in Nat /\ Rank(S, i) < Cardinality(S)
         /\ \A j \in S : i < j => Rank(S, i) < Rank(S, j)
<1>1. \A T : T \subseteq S => IsFiniteSet(T) /\ Cardinality(T) \in Nat
  BY IndicesAreFinite
<1> DEFINE Below == {j \in S : j < i}
<1>2. Below \subseteq S /\ i \notin Below /\ S \subseteq Nat
  OBVIOUS
<1>3. ASSUME NEW T, T \subseteq S, Below \subseteq T, i \in T PROVE Cardinality(Below) < Cardinality(T)
  <2>1. IsFiniteSet(T) /\ Cardinality(T) \in Nat /\ Cardinality(Below) \in Nat
    BY <1>1, <1>2, <1>3
  <2>2. Cardinality(Below) <= Cardinality(T) /\ (Cardinality(Below) = Cardinality(T) => Below = T)
    BY <2>1, <1>3, FS_Subset
  <2> QED
    BY <2>1, <2>2, <1>2, <1>3
<1>4. Cardinality(Below) \in Nat /\ Cardinality(Below) < Cardinality(S)
  BY <1>1, <1>2, <1>3
<1>5. ASSUME NEW j \in S, i < j PROVE Cardinality(Below) < Cardinality({l \in S : l < j})
  <2>1. i \in {l \in S : l < j} /\ Below \subseteq {l \in S : l < j}
    <3>1. \A l \in S : l < i => l < j
      BY <1>2, <1>5
    <3> QED
      BY <1>5, <3>1
  <2> QED
    BY <1>3, <2>1
<1> QED
  BY <1>4, <1>5 DEF Rank

\* Each number below the size of S is the rank of an index: the least that
\* has none would follow one that is.
LEMMA EveryRankIsTaken ==
  ASSUME NEW n \in Nat, NEW S \in SUBSET (1..n)
  PROVE  \A k \in 1..Cardinality(S) : \E i \in S : Rank(S, i) = k - 1
<1> DEFINE Free == {k \in 1..Cardinality(S) : \A i \in S : Rank(S, i) # k - 1}
<1> SUFFICES ASSUME Free # {} PROVE FALSE
  OBVIOUS
<1>1. IsFiniteSet(S) /\ Cardinality(S) \in Nat /\ S \subseteq Nat
  BY IndicesAreFinite
<1>2. PICK k \in Free : \A l \in Free : k <= l
  <2>1. Free \subseteq Nat
    BY <1>1
  <2> QED
    BY <2>1, LeastOf
<1>0. \A i, j \in S : Rank(S, i) \in Nat /\ (i < j => Rank(S, i) < Rank(S, j))
  BY RankIncreases
<1>3. k \in 1..Cardinality(S) /\ \A i \in S : Rank(S, i) # k - 1
  BY <1>2
<1> DEFINE Lower == {i \in S : Rank(S, i) < k - 1}
           Upper == S \ Lower
\* As many are of a lower rank as there are lower ranks.
<1>4. IsFiniteSet(Lower) /\ Cardinality(Lower) = k - 1
  <2>1. CASE k = 1
    <3>1. Lower = {}
      <4>1. \A i \in S : ~(Rank(S, i) < k - 1)
        BY <2>1, <1>0
      <4> QED
        BY <4>1
    <3> QED
      BY <3>1, <2>1, FS_EmptySet
  <2>2. CASE k # 1
    <3>1. k - 1 \in 1..Cardinality(S) /\ k - 1 \notin Free /\ k \in Nat
      BY <1>1, <1>2, <1>3, <2>2
    <3>2. PICK p \in S : Rank(S, p) = (k - 1) - 1
      BY <3>1
    <3>3. ASSUME NEW i \in S PROVE Rank(S, i) < k - 1 <=> i < p \/ i = p
      <4>1. Rank(S, i) \in Nat /\ i \in Nat /\ p \in Nat /\ (i < p => Rank(S, i) < Rank(S, p)) /\ (p < i => Rank(S, p) < Rank(S, i))
        BY <1>0, <1>1, <3>2
      <4> QED
        BY <3>1, <3>2, <4>1
    <3>4. Lower = {i \in S : i < p} \cup {p}
      BY <3>2, <3>3
    <3>7. p \notin {i \in S : i < p}
      BY <3>2, <1>1
    <3>5. IsFiniteSet({i \in S : i < p}) /\ Cardinality({i \in S : i < p}) = (k - 1) - 1
      BY <3>2, IndicesAreFinite DEF Rank
    <3> HIDE DEF Lower
    <3>6. IsFiniteSet(Lower) /\ Cardinality(Lower) = ((k - 1) - 1) + 1
      BY <3>4, <3>5, <3>7, FS_AddElement
    <3> QED
      BY <3>6, <3>1
  <2> QED
    BY <2>1, <2>2
<1>5. Upper # {}
  <2>1. Lower # S
    <3> HIDE DEF Lower
    <3> QED
      BY <1>1, <1>3, <1>4
  <2> QED
    BY <2>1
<1>6. PICK u \in Upper : \A v \in Upper : u <= v
  BY <1>1, <1>5, LeastOf
\* The least of the others comes right after them.
<1>7. {j \in S : j < u} = Lower
  <2>1. ASSUME NEW j \in S, j < u PROVE j \in Lower
    BY <2>1, <1>1, <1>6
  <2>2. ASSUME NEW j \in Lower PROVE j < u
    <3>1. j \in S /\ u \in S /\ j # u /\ j \in Nat /\ u \in Nat /\ Rank(S, j) \in Nat /\ Rank(S, u) \in Nat
      BY <1>0, <1>1, <1>6
    <3>2. u < j => Rank(S, u) < Rank(S, j)
      BY <1>0, <3>1
    <3>3. ~(Rank(S, u) < k - 1) /\ Rank(S, j) < k - 1 /\ k \in Nat
      BY <1>6, <1>3, <3>1
    <3> QED
      BY <3>1, <3>2, <3>3
  <2> QED
    BY <2>1, <2>2
<1>8. Rank(S, u) = k - 1
  BY <1>4, <1>7 DEF Rank
<1> QED
  BY <1>3, <1>6, <1>8

\* The indices of S in their order, each once.
LEMMA IndexAtProperties ==
  ASSUME NEW n \in Nat, NEW S \in SUBSET (1..n)
  PROVE  /\ Cardinality(S) \in Nat
         /\ \A k \in 1..Cardinality(S) : IndexAt(S, k) \in S
         /\ \A k, l \in 1..Cardinality(S) : k < l => IndexAt(S, k) < IndexAt(S, l)
         /\ \A i \in S : \E k \in 1..Cardinality(S) : IndexAt(S, k) = i
<1>1. Cardinality(S) \in Nat /\ S \subseteq Nat
  BY IndicesAreFinite
<1>0. \A i, j \in S : Rank(S, i) \in Nat /\ Rank(S, i) < Cardinality(S) /\ (i < j => Rank(S, i) < Rank(S, j))
  BY RankIncreases
<1>2. ASSUME NEW k \in 1..Cardinality(S) PROVE IndexAt(S, k) \in S /\ Rank(S, IndexAt(S, k)) = k - 1
  <2>1. \E i \in S : Rank(S, i) = k - 1
    BY EveryRankIsTaken
  <2> QED
    BY <2>1 DEF IndexAt
<1>3. ASSUME NEW k \in 1..Cardinality(S), NEW l \in 1..Cardinality(S), k < l
      PROVE  IndexAt(S, k) < IndexAt(S, l)
  <2>1. /\ IndexAt(S, k) \in S /\ IndexAt(S, l) \in S
        /\ Rank(S, IndexAt(S, k)) = k - 1 /\ Rank(S, IndexAt(S, l)) = l - 1
    BY <1>2
  <2>2. ~(k - 1 = l - 1) /\ ~(l - 1 < k - 1)
    BY <1>1, <1>3
  <2>3. IndexAt(S, l) < IndexAt(S, k) => l - 1 < k - 1
    BY <1>0, <2>1
  <2>4. IndexAt(S, l) # IndexAt(S, k)
    BY <2>1, <2>2
  <2>5. ASSUME NEW a \in Nat, NEW b \in Nat, ~(b < a), b # a PROVE a < b
    BY <2>5
  <2> QED
    BY <1>1, <2>1, <2>2, <2>3, <2>4, <2>5
<1>4. ASSUME NEW i \in S PROVE \E k \in 1..Cardinality(S) : IndexAt(S, k) = i
  <2>1. Rank(S, i) \in Nat /\ Rank(S, i) < Cardinality(S)
    BY <1>0
  <2> DEFINE k == Rank(S, i) + 1
  <2>2. k \in 1..Cardinality(S) /\ k - 1 = Rank(S, i)
    BY <1>1, <2>1
  <2>3. IndexAt(S, k) \in S /\ Rank(S, IndexAt(S, k)) = Rank(S, i)
    BY <1>2, <2>2
  <2>4. ~(IndexAt(S, k) < i) /\ ~(i < IndexAt(S, k))
    <3> HIDE DEF k
    <3>1. ASSUME NEW j \in S, Rank(S, j) = Rank(S, i) PROVE ~(j < i) /\ ~(i < j)
      BY <1>0, <3>1, <2>1
    <3> QED
      BY <2>3, <3>1
  <2>5. IndexAt(S, k) = i
    <3> HIDE DEF k
    <3>1. IndexAt(S, k) \in Nat /\ i \in Nat
      BY <1>1, <2>3
    <3> QED
      BY <2>4, <3>1
  <2> QED
    BY <2>2, <2>5
<1> QED
  BY <1>1, <1>2, <1>3, <1>4

\* What is kept of a list: elements of it, as many as there are indices, all of
\* them if none is left out.
LEMMA SubSeqAtProperties ==
  ASSUME NEW T, NEW s \in Seq(T), NEW S \in SUBSET (1..Len(s))
  PROVE  /\ SubSeqAt(s, S) \in Seq(T)
         /\ Len(SubSeqAt(s, S)) = Cardinality(S)
         /\ Cardinality(S) \in Nat /\ Cardinality(S) <= Len(s)
         /\ \A k \in 1..Len(SubSeqAt(s, S)) : IndexAt(S, k) \in S /\ SubSeqAt(s, S)[k] = s[IndexAt(S, k)]
         /\ \A k, l \in 1..Len(SubSeqAt(s, S)) : k < l => IndexAt(S, k) < IndexAt(S, l)
         /\ \A i \in S : \E k \in 1..Len(SubSeqAt(s, S)) : SubSeqAt(s, S)[k] = s[i]
         /\ Cardinality(S) = Len(s) => SubSeqAt(s, S) = s
<1>1. Len(s) \in Nat /\ s \in [1..Len(s) -> T]
  BY LenProperties
<1>2. Cardinality(S) \in Nat /\ Cardinality(S) <= Len(s) /\ (Cardinality(S) = Len(s) => S = 1..Len(s))
  BY <1>1, IndicesAreFinite
<1>3. /\ \A k \in 1..Cardinality(S) : IndexAt(S, k) \in S
      /\ \A k, l \in 1..Cardinality(S) : k < l => IndexAt(S, k) < IndexAt(S, l)
      /\ \A i \in S : \E k \in 1..Cardinality(S) : IndexAt(S, k) = i
  BY <1>1, IndexAtProperties
<1>4. SubSeqAt(s, S) \in [1..Cardinality(S) -> T]
  BY <1>1, <1>3 DEF SubSeqAt
<1>5. SubSeqAt(s, S) \in Seq(T) /\ Len(SubSeqAt(s, S)) = Cardinality(S)
  <2>1. SubSeqAt(s, S) \in Seq(T)
    BY <1>2, <1>4, SeqDef
  <2>2. DOMAIN SubSeqAt(s, S) = 1..Cardinality(S)
    BY DEF SubSeqAt
  <2>3. DOMAIN SubSeqAt(s, S) = 1..Len(SubSeqAt(s, S)) /\ Len(SubSeqAt(s, S)) \in Nat
    BY <2>1, LenProperties
  <2> QED
    BY <1>2, <2>1, <2>2, <2>3
<1>6. \A k \in 1..Cardinality(S) : SubSeqAt(s, S)[k] = s[IndexAt(S, k)]
  BY DEF SubSeqAt
<1>7. ASSUME Cardinality(S) = Len(s) PROVE SubSeqAt(s, S) = s
  <2>1. S = 1..Len(s)
    BY <1>2, <1>7
  <2>2. ASSUME NEW k \in 1..Len(s) PROVE IndexAt(S, k) = k
    <3>1. IndexAt(S, k) \in 1..Len(s) /\ Rank(S, IndexAt(S, k)) = k - 1
      <4>1. \E i \in S : Rank(S, i) = k - 1
        BY <1>1, <1>7, EveryRankIsTaken
      <4> QED
        BY <4>1, <2>1 DEF IndexAt
    <3>2. ASSUME NEW i \in 1..Len(s) PROVE Rank(S, i) = i - 1
      <4>1. {j \in S : j < i} = 1..(i - 1) /\ i - 1 \in Nat
        BY <1>1, <2>1
      <4>2. \A m \in Nat : Cardinality(1..m) = m
        BY FS_Interval
      <4> QED
        BY <4>1, <4>2 DEF Rank
    <3>3. IndexAt(S, k) - 1 = k - 1
      BY <3>1, <3>2
    <3> QED
      BY <3>1, <3>3
  <2>3. \A k \in 1..Len(s) : SubSeqAt(s, S)[k] = s[k]
    BY <1>6, <1>7, <2>2
  <2> QED
    BY <1>1, <1>4, <1>7, <2>3
<1> QED
  BY <1>2, <1>3, <1>5, <1>6, <1>7

\* The elements of a set that are kept of a list are all of the list's, each of them as
\* often and in the order of the list.
LEMMA ElementsInProperties ==
  ASSUME NEW T, NEW s \in Seq(T), NEW E
  PROVE  /\ ElementsIn(s, E) \in Seq(T) /\ Len(s) \in Nat
         /\ Len(ElementsIn(s, E)) \in Nat /\ Len(ElementsIn(s, E)) <= Len(s)
         /\ \A k \in 1..Len(ElementsIn(s, E)) :
              ElementsIn(s, E)[k] \in E /\ \E i \in 1..Len(s) : ElementsIn(s, E)[k] = s[i]
         /\ \A i \in 1..Len(s) : s[i] \in E => \E k \in 1..Len(ElementsIn(s, E)) : ElementsIn(s, E)[k] = s[i]
         /\ \A k, l \in 1..Len(ElementsIn(s, E)) : k < l =>
              \E i, j \in 1..Len(s) : i < j /\ ElementsIn(s, E)[k] = s[i] /\ ElementsIn(s, E)[l] = s[j]
<1> DEFINE S == {i \in DOMAIN s : s[i] \in E}
           r == SubSeqAt(s, S)
<1>1. Len(s) \in Nat /\ DOMAIN s = 1..Len(s)
  BY LenProperties
<1>2. S \in SUBSET (1..Len(s))
  BY <1>1
<1>3. \A i \in 1..Len(s) : s[i] \in E <=> i \in S
  BY <1>1
<1> HIDE DEF S
<1>4. /\ r \in Seq(T) /\ Len(r) \in Nat /\ Len(r) <= Len(s)
      /\ \A k \in 1..Len(r) : IndexAt(S, k) \in S /\ r[k] = s[IndexAt(S, k)]
      /\ \A k, l \in 1..Len(r) : k < l => IndexAt(S, k) < IndexAt(S, l)
      /\ \A i \in S : \E k \in 1..Len(r) : r[k] = s[i]
  BY <1>2, SubSeqAtProperties
<1>5. ElementsIn(s, E) = r
  BY DEF ElementsIn, S
<1> HIDE DEF r
<1> DEFINE kept == ElementsIn(s, E)
<1> HIDE DEF kept
<1>6. kept \in Seq(T) /\ Len(kept) \in Nat /\ Len(kept) <= Len(s)
  BY <1>4, <1>5 DEF kept
<1>7. \A k \in 1..Len(kept) : kept[k] \in E /\ \E i \in 1..Len(s) : kept[k] = s[i]
  <2>1. \A k \in 1..Len(r) : r[k] \in E /\ \E i \in 1..Len(s) : r[k] = s[i]
    BY <1>2, <1>3, <1>4
  <2> QED
    BY <1>5, <2>1 DEF kept
<1>8. \A k, l \in 1..Len(kept) : k < l => \E i, j \in 1..Len(s) : i < j /\ kept[k] = s[i] /\ kept[l] = s[j]
  <2>1. \A k, l \in 1..Len(r) : k < l => \E i, j \in 1..Len(s) : i < j /\ r[k] = s[i] /\ r[l] = s[j]
    BY <1>2, <1>4
  <2> QED
    BY <1>5, <2>1 DEF kept
<1>9. \A i \in 1..Len(s) : s[i] \in E => \E k \in 1..Len(kept) : kept[k] = s[i]
  <2>1. \A i \in 1..Len(s) : s[i] \in E => \E k \in 1..Len(r) : r[k] = s[i]
    BY <1>3, <1>4
  <2> QED
    BY <1>5, <2>1 DEF kept
<1> QED
  BY <1>1, <1>6, <1>7, <1>8, <1>9 DEF kept
=============================================================================
