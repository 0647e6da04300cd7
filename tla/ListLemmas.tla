----------------------------- MODULE ListLemmas -----------------------------
(***************************************************************************)
(* The operators that the models build lists with: SetToSeq, which puts    *)
(* the events of one change in some order; RemoveAt, which takes a row out *)
(* of a table; and the n-th member of a set of positions, by which the     *)
(* rows and callbacks that stay are picked.                                *)
(***************************************************************************)
EXTENDS Naturals, Sequences, SequencesExt, SequenceTheorems, FiniteSetTheorems,
        WellFoundedInduction, TLAPS

\* SetToSeq lists each element of a finite set once.
LEMMA SetToSeqLists ==
    ASSUME NEW S, IsFiniteSet(S)
    PROVE  /\ Cardinality(S) \in Nat
           /\ SetToSeq(S) \in [1..Cardinality(S) -> S]
           /\ \A i, j \in 1..Cardinality(S) : SetToSeq(S)[i] = SetToSeq(S)[j] => i = j
           /\ \A x \in S : \E i \in 1..Cardinality(S) : SetToSeq(S)[i] = x
<1> DEFINE n == Cardinality(S)
           f == SetToSeq(S)
<1>1. n \in Nat /\ ExistsBijection(1..n, S) BY FS_CardinalityType
<1>2. PICK g : g \in Bijection(1..n, S) BY <1>1 DEF ExistsBijection
<1>3. g \in [1..n -> S] /\ IsInjective(g) BY <1>2 DEF Bijection, Injection
<1>4. f \in [1..n -> S] /\ IsInjective(f) BY <1>3 DEF SetToSeq
<1>5. IsFiniteSet(1..n) /\ Cardinality(1..n) = n
  <2>1. 1 \in Int /\ n \in Int /\ (1 > n => n = 0) /\ (n - 1) + 1 = n BY <1>1
  <2> HIDE DEF n
  <2>2. IsFiniteSet(1..n) /\ Cardinality(1..n) = IF 1 > n THEN 0 ELSE n - 1 + 1
    BY <2>1, FS_Interval
  <2> QED BY <2>1, <2>2
<1>6. f \in Injection(1..n, S) BY <1>4 DEF Injection
<1>7. f \in Surjection(1..n, S)
  <2> HIDE DEF f
  <2> QED BY <1>5, <1>6, FS_Injection
<1>8. \A x \in S : \E i \in 1..n : f[i] = x BY <1>7 DEF Surjection
<1>9. \A i, j \in 1..n : f[i] = f[j] => i = j BY <1>4 DEF IsInjective
<1> QED BY <1>1, <1>4, <1>8, <1>9

\* A list is its head and then its tail.
LEMMA HeadThenTail ==
    ASSUME NEW S, NEW s \in Seq(S), s # <<>>
    PROVE  Head(s) \in S /\ Tail(s) \in Seq(S) /\ <<Head(s)>> \o Tail(s) = s
<1> DEFINE h == Head(s)
           t == Tail(s)
           d == <<h>> \o t
<1>1. /\ h \in S /\ h = s[1] /\ t \in Seq(S) /\ Len(t) = Len(s) - 1
      /\ \A i \in 1..Len(t) : t[i] = s[i + 1]
      /\ Len(s) \in Nat
  BY HeadTailProperties
<1> HIDE DEF h, t
<1>2. <<h>> \in Seq(S) /\ Len(<<h>>) = 1 /\ <<h>>[1] = h BY <1>1
<1>3. /\ d \in Seq(S) /\ Len(d) = 1 + Len(t)
      /\ \A i \in 1..(1 + Len(t)) : d[i] = IF i <= 1 THEN <<h>>[i] ELSE t[i - 1]
  BY <1>1, <1>2, ConcatProperties
<1> HIDE DEF d
<1>4. Len(d) = Len(s) BY <1>1, <1>3
<1>5. ASSUME NEW i \in 1..Len(d) PROVE d[i] = s[i]
  <2>1. CASE i = 1 BY <1>1, <1>2, <1>3, <2>1
  <2>2. CASE i # 1
    <3> DEFINE j == i - 1
    <3>1. j \in 1..Len(t) /\ j + 1 = i /\ ~(i <= 1) BY <1>1, <1>3, <2>2
    <3>2. d[i] = t[j] BY <1>1, <1>3, <3>1
    <3> HIDE DEF j
    <3> QED BY <1>1, <3>1, <3>2
  <2> QED BY <2>1, <2>2
<1>6. d = s BY <1>3, <1>4, <1>5, SeqEqual
<1> QED BY <1>1, <1>6 DEF d, h, t

LEMMA RemoveAtTyped ==
    ASSUME NEW S, NEW s \in Seq(S), NEW i \in DOMAIN s
    PROVE  RemoveAt(s, i) \in Seq(S) /\ Len(RemoveAt(s, i)) = Len(s) - 1
<1>1. i \in 1..Len(s) /\ Len(s) \in Nat OBVIOUS
<1>2. SubSeq(s, 1, i - 1) \in Seq(S) /\ Len(SubSeq(s, 1, i - 1)) = i - 1
  <2>1. \A n \in 1..(i - 1) : s[n] \in S BY <1>1
  <2>2. 1 \in Int /\ i - 1 \in Int /\ (IF 1 <= i - 1 THEN i - 1 - 1 + 1 ELSE 0) = i - 1 BY <1>1
  <2> QED BY <2>1, <2>2, SubSeqProperties
<1>3. SubSeq(s, i + 1, Len(s)) \in Seq(S) /\ Len(SubSeq(s, i + 1, Len(s))) = Len(s) - i
  <2>1. \A n \in (i + 1)..Len(s) : s[n] \in S BY <1>1
  <2>2. /\ i + 1 \in Int /\ Len(s) \in Int
        /\ (IF i + 1 <= Len(s) THEN Len(s) - (i + 1) + 1 ELSE 0) = Len(s) - i BY <1>1
  <2> QED BY <2>1, <2>2, SubSeqProperties
<1> DEFINE a == SubSeq(s, 1, i - 1)
           b == SubSeq(s, i + 1, Len(s))
<1>4. a \in Seq(S) /\ b \in Seq(S) /\ Len(a) = i - 1 /\ Len(b) = Len(s) - i
  BY <1>2, <1>3
<1>5. RemoveAt(s, i) = a \o b BY DEF RemoveAt
<1> HIDE DEF a, b
<1>6. a \o b \in Seq(S) /\ Len(a \o b) = Len(a) + Len(b) BY <1>4, ConcatProperties
<1> QED BY <1>1, <1>4, <1>5, <1>6

LEMMA RemoveAtEntries ==
    ASSUME NEW S, NEW s \in Seq(S), NEW i \in DOMAIN s
    PROVE  /\ \A j \in 1..(i - 1) : RemoveAt(s, i)[j] = s[j]
           /\ \A j \in i..(Len(s) - 1) : RemoveAt(s, i)[j] = s[j + 1]
<1> DEFINE a == SubSeq(s, 1, i - 1)
           b == SubSeq(s, i + 1, Len(s))
<1>1. i \in 1..Len(s) /\ Len(s) \in Nat OBVIOUS
<1>2. /\ a \in Seq(S) /\ Len(a) = i - 1
      /\ \A j \in 1..(i - 1) : a[j] = s[j]
  <2>1. \A n \in 1..(i - 1) : s[n] \in S BY <1>1
  <2>2. 1 \in Int /\ i - 1 \in Int /\ (IF 1 <= i - 1 THEN i - 1 - 1 + 1 ELSE 0) = i - 1 BY <1>1
  <2>3. \A j \in 1..(i - 1) : 1 + j - 1 = j BY <1>1
  <2> QED BY <2>1, <2>2, <2>3, SubSeqProperties
<1>3. /\ b \in Seq(S) /\ Len(b) = Len(s) - i
      /\ \A j \in 1..(Len(s) - i) : b[j] = s[i + j]
  <2>1. \A n \in (i + 1)..Len(s) : s[n] \in S BY <1>1
  <2>2. /\ i + 1 \in Int /\ Len(s) \in Int
        /\ (IF i + 1 <= Len(s) THEN Len(s) - (i + 1) + 1 ELSE 0) = Len(s) - i BY <1>1
  <2>3. \A j \in 1..(Len(s) - i) : (i + 1) + j - 1 = i + j BY <1>1
  <2> QED BY <2>1, <2>2, <2>3, SubSeqProperties
<1>4. RemoveAt(s, i) = a \o b BY DEF RemoveAt
<1> HIDE DEF a, b
<1>5. \A j \in 1..(Len(a) + Len(b)) : (a \o b)[j] = IF j <= Len(a) THEN a[j] ELSE b[j - Len(a)]
  BY <1>2, <1>3, ConcatProperties
<1>6. ASSUME NEW j \in 1..(i - 1) PROVE (a \o b)[j] = s[j]
  <2>1. j \in 1..(Len(a) + Len(b)) /\ j <= Len(a) BY <1>1, <1>2, <1>3
  <2> QED BY <1>2, <1>5, <2>1
<1>7. ASSUME NEW j \in i..(Len(s) - 1) PROVE (a \o b)[j] = s[j + 1]
  <2>1. /\ j \in 1..(Len(a) + Len(b)) /\ ~(j <= Len(a))
        /\ j - Len(a) = j - i + 1 /\ j - i + 1 \in 1..(Len(s) - i) /\ i + (j - i + 1) = j + 1
    BY <1>1, <1>2, <1>3
  <2>2. (a \o b)[j] = b[j - i + 1] BY <1>5, <2>1
  <2>3. b[j - i + 1] = s[i + (j - i + 1)] BY <1>3, <2>1
  <2> QED BY <2>1, <2>2, <2>3
<1> QED BY <1>4, <1>6, <1>7

\* A set of numbers has a first one; a set of positions has a last one.
LEMMA FirstOf ==
    ASSUME NEW T \in SUBSET Nat, T # {}
    PROVE  \E x \in T : \A y \in T : x <= y
<1> DEFINE R == OpToRel(<, Nat)
<1>1. IsWellFoundedOn(R, Nat) BY NatLessThanWellFounded, Zenon
<1>2. PICK x \in T : \A y \in T : ~(<<y, x>> \in R)
  <2> HIDE DEF R
  <2> QED BY <1>1, WFMin
<1>3. \A y \in T : ~(y < x) BY <1>2 DEF OpToRel
<1> HIDE DEF R
<1> QED BY <1>3

LEMMA LastOf ==
    ASSUME NEW n \in Nat, NEW T \in SUBSET (1..n), T # {}
    PROVE  \E x \in T : \A y \in T : x >= y
<1> DEFINE U == {n - i : i \in T}
<1>1. U \subseteq Nat /\ U # {}
  <2>1. \A i \in T : n - i \in Nat OBVIOUS
  <2>2. \E i \in T : TRUE OBVIOUS
  <2> QED BY <2>1, <2>2, Zenon
<1>2. PICK u \in U : \A v \in U : u <= v
  <2> HIDE DEF U
  <2> QED BY <1>1, FirstOf
<1>3. PICK x \in T : u = n - x BY <1>2
<1>4. \A y \in T : n - x <= n - y BY <1>2, <1>3
<1> QED BY <1>3, <1>4

\* Of the positions in a set there is an n-th one, up to their number.
LEMMA NthOf ==
    ASSUME NEW N \in Nat, NEW keep \in SUBSET (1..N), NEW n \in 1..Cardinality(keep)
    PROVE  \E i \in keep : Cardinality({j \in keep : j <= i}) = n
<1>1. \A j \in keep : j \in Nat /\ 1 <= j /\ j <= N OBVIOUS
<1>2. IsFiniteSet(keep)
  <2>1. IsFiniteSet(1..N) BY FS_Interval
  <2> QED BY <2>1, FS_Subset
<1>3. n \in Nat /\ 1 <= n /\ n <= Cardinality(keep)
  <2>1. Cardinality(keep) \in Nat BY <1>2, FS_CardinalityType
  <2> QED BY <2>1
<1> DEFINE upto(i) == {j \in keep : j <= i}
<1>4. upto(N) = keep /\ upto(0) = {}
  <2>1. \A j \in keep : j <= N /\ ~(j <= 0) BY <1>1
  <2> QED BY <2>1
<1>5. \A i \in Nat \ {0} : i \notin keep => upto(i) = upto(i - 1)
  <2> SUFFICES ASSUME NEW i \in Nat \ {0}, i \notin keep PROVE upto(i) = upto(i - 1)
    OBVIOUS
  <2>1. \A j \in keep : j <= i <=> j <= i - 1
    <3> SUFFICES ASSUME NEW j \in keep PROVE j <= i <=> j <= i - 1 OBVIOUS
    <3>1. j \in Nat /\ j # i BY <1>1
    <3> QED BY <3>1
  <2> QED BY <2>1
<1>6. \A i \in keep : upto(i) = upto(i - 1) \cup {i} /\ i \notin upto(i - 1)
  <2> SUFFICES ASSUME NEW i \in keep
               PROVE  upto(i) = upto(i - 1) \cup {i} /\ i \notin upto(i - 1)
    OBVIOUS
  <2>1. i \in Nat /\ i <= i /\ ~(i <= i - 1) BY <1>1
  <2>2. \A j \in keep : j <= i <=> j <= i - 1 \/ j = i
    <3> SUFFICES ASSUME NEW j \in keep PROVE j <= i <=> j <= i - 1 \/ j = i OBVIOUS
    <3>1. j \in Nat BY <1>1
    <3> QED BY <2>1, <3>1
  <2> QED BY <2>1, <2>2
<1>7. \A i : IsFiniteSet(upto(i)) /\ Cardinality(upto(i)) \in Nat
  BY <1>2, FS_Subset, FS_CardinalityType
<1>8. \A i : upto(i) = {j \in keep : j <= i} OBVIOUS
<1> HIDE DEF upto
<1>9. PICK x \in Nat : /\ Cardinality(upto(x)) >= n
                       /\ \A y \in Nat : Cardinality(upto(y)) >= n => x <= y
  <2> DEFINE T == {i \in Nat : Cardinality(upto(i)) >= n}
  <2>1. N \in T BY <1>3, <1>4, <1>7
  <2>2. T \in SUBSET Nat /\ T # {} BY <2>1
  <2>3. PICK x \in T : \A y \in T : x <= y
    <3> HIDE DEF T
    <3> QED BY <2>2, FirstOf
  <2> QED BY <2>3
<1>10. x # 0 BY <1>3, <1>4, <1>9, FS_EmptySet
<1>11. Cardinality(upto(x - 1)) < n
  <2>1. x - 1 \in Nat /\ ~(x <= x - 1) BY <1>10
  <2>2. ~(Cardinality(upto(x - 1)) >= n) BY <1>9, <2>1
  <2> QED BY <1>3, <1>7, <2>2
<1>12. x \in keep BY <1>3, <1>5, <1>7, <1>9, <1>10, <1>11
<1>13. Cardinality(upto(x)) = Cardinality(upto(x - 1)) + 1
  BY <1>6, <1>7, <1>12, FS_AddElement
<1>14. Cardinality(upto(x)) = n BY <1>3, <1>7, <1>9, <1>11, <1>13
<1> QED BY <1>8, <1>12, <1>14

\* Every position of a set has its number, and that number chooses it.
LEMMA NthOnto ==
    ASSUME NEW N \in Nat, NEW keep \in SUBSET (1..N), NEW i \in keep
    PROVE  \E n \in 1..Cardinality(keep) :
              i = CHOOSE k \in keep : Cardinality({j \in keep : j <= k}) = n
<1> DEFINE upto(k) == {j \in keep : j <= k}
           n == Cardinality(upto(i))
<1>1. \A k \in keep : k \in Nat OBVIOUS
<1>2. IsFiniteSet(keep)
  <2>1. IsFiniteSet(1..N) BY FS_Interval
  <2> QED BY <2>1, FS_Subset
<1>3. \A k \in keep : IsFiniteSet(upto(k)) /\ Cardinality(upto(k)) \in Nat
                      /\ Cardinality(upto(k)) <= Cardinality(keep)
  BY <1>2, FS_Subset, FS_CardinalityType
<1>4. n \in 1..Cardinality(keep)
  <2>1. i \in upto(i) BY <1>1
  <2>2. n # 0 BY <1>3, <2>1, FS_EmptySet
  <2>3. Cardinality(keep) \in Nat BY <1>2, FS_CardinalityType
  <2> QED BY <1>3, <2>2, <2>3
<1>5. \A k \in keep : Cardinality(upto(k)) = n => k = i
  <2> SUFFICES ASSUME NEW k \in keep, Cardinality(upto(k)) = n PROVE k = i OBVIOUS
  <2>1. CASE k < i
    <3>1. upto(k) \subseteq upto(i) /\ i \in upto(i) /\ i \notin upto(k)
      <4>1. k <= i /\ ~(i <= k) /\ i <= i BY <1>1, <2>1
      <4>2. \A j \in keep : j <= k => j <= i BY <1>1, <2>1
      <4> QED BY <4>1, <4>2
    <3> HIDE DEF upto
    <3> QED BY <1>3, <3>1, FS_Subset
  <2>2. CASE i < k
    <3>1. upto(i) \subseteq upto(k) /\ k \in upto(k) /\ k \notin upto(i)
      <4>1. i <= k /\ ~(k <= i) /\ k <= k BY <1>1, <2>2
      <4>2. \A j \in keep : j <= i => j <= k BY <1>1, <2>2
      <4> QED BY <4>1, <4>2
    <3> HIDE DEF upto
    <3> QED BY <1>3, <3>1, FS_Subset
  <2> QED BY <1>1, <2>1, <2>2
<1>6. i = CHOOSE k \in keep : Cardinality(upto(k)) = n
  <2> DEFINE P(k) == Cardinality(upto(k)) = n
  <2>1. P(i) /\ \A k \in keep : P(k) => k = i BY <1>5
  <2> HIDE DEF P
  <2>2. i = CHOOSE k \in keep : P(k) BY <2>1
  <2> QED BY <2>2 DEF P
<1> QED BY <1>4, <1>6
=============================================================================
