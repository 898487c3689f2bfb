------------------------------- MODULE Lists -------------------------------
(***************************************************************************)
(* What the proofs need to know of natural numbers, of loops that run n    *)
(* times, and of sequences that are used as lists, beyond the theorems of  *)
(* the library.                                                            *)
(***************************************************************************)
EXTENDS Naturals, SequencesExt, NaturalsInduction, SequenceTheorems, FiniteSetTheorems, TLAPS

-----------------------------------------------------------------------------
(***************************************************************************)
(* Numbers and loops.                                                      *)
(***************************************************************************)

\* A set of numbers has a least one: intervals are well ordered by inclusion.
LEMMA LeastNat ==
  ASSUME NEW S \in SUBSET Nat, S # {}
  PROVE  \E m \in S : \A k \in S : m <= k
<1> DEFINE T == {0 .. n : n \in S}
<1>1. \A n \in Nat : 0 .. n \in SUBSET Nat /\ IsFiniteSet(0 .. n)
  BY FS_Interval
<1>2. T \subseteq FiniteSubsetsOf(Nat) /\ T # {}
  BY <1>1 DEF FiniteSubsetsOf
<1>3. IsWellFoundedOn(StrictSubsetOrdering(Nat), FiniteSubsetsOf(Nat))
  BY FS_StrictSubsetOrderingWellFounded
<1>4. PICK x \in T : \A y \in T : <<y, x>> \notin StrictSubsetOrdering(Nat)
  <2> HIDE DEF T
  <2> QED
    BY <1>2, <1>3, WFMin
<1>5. PICK m \in S : x = 0 .. m
  OBVIOUS
<1>6. ASSUME NEW k \in S, k < m
      PROVE  FALSE
  <2>1. 0 .. k \subseteq 0 .. m /\ 0 .. k # 0 .. m /\ 0 .. k \in SUBSET Nat /\ 0 .. m \in SUBSET Nat
    BY <1>6
  <2>2. <<0 .. k, x>> \in StrictSubsetOrdering(Nat)
    BY <1>5, <2>1 DEF StrictSubsetOrdering
  <2> QED
    BY <1>4, <2>2
<1> QED
  BY <1>6

\* Induction, over the set of the numbers that have the property
LEMMA NatsBySteps ==
  ASSUME NEW P \in SUBSET Nat, 0 \in P, \A n \in P : n + 1 \in P
  PROVE  P = Nat
<1>1. SUFFICES ASSUME Nat \ P # {} PROVE FALSE
  OBVIOUS
<1>2. PICK m \in Nat \ P : \A k \in Nat \ P : m <= k
  BY <1>1, LeastNat
<1>3. m # 0 /\ m - 1 \in Nat
  BY <1>2
<1>4. m - 1 \in P
  BY <1>2, <1>3
<1> QED
  BY <1>2, <1>4

\* A loop that runs n times is well defined: the function of its states exists.
\* step[i][x] is what its run i makes of x.
LEMMA RunsExist ==
  ASSUME NEW X, NEW start \in X, NEW step \in [Nat -> [X -> X]], NEW n \in Nat
  PROVE  \E f \in [0..n -> X] :
           f[0] = start /\ \A i \in 1..n : f[i] = step[i][f[i - 1]]
<1> DEFINE Runs(m, f) == f[0] = start /\ \A i \in 1..m : f[i] = step[i][f[i - 1]]
           P == {m \in Nat : \E f \in [0..m -> X] : Runs(m, f)}
<1>1. 0 \in P
  <2>1. Runs(0, [i \in 0..0 |-> start])
    OBVIOUS
  <2> QED
    BY <2>1
<1>2. ASSUME NEW m \in P
      PROVE  m + 1 \in P
  <2>1. PICK f \in [0..m -> X] : Runs(m, f)
    BY <1>2
  <2> DEFINE g == [i \in 0..(m + 1) |-> IF i <= m THEN f[i] ELSE step[m + 1][f[m]]]
  <2>2. m \in Nat /\ f[m] \in X
    OBVIOUS
  <2>3. step[m + 1][f[m]] \in X
    BY <2>2
  <2>4. g \in [0..(m + 1) -> X]
    BY <2>2, <2>3
  <2>5. g[0] = start
    BY <2>1, <2>2
  <2>6. ASSUME NEW i \in 1..(m + 1)
        PROVE  g[i] = step[i][g[i - 1]]
    <3>1. CASE i <= m
      <4>1. f[i] = step[i][f[i - 1]]
        BY <2>1, <2>2, <3>1
      <4> QED
        BY <2>2, <3>1, <4>1
    <3>2. CASE i = m + 1
      BY <2>2, <3>2
    <3> QED
      BY <2>2, <3>1, <3>2
  <2> HIDE DEF g
  <2>7. Runs(m + 1, g)
    BY <2>5, <2>6
  <2> HIDE DEF Runs
  <2>8. \E h \in [0..(m + 1) -> X] : Runs(m + 1, h)
    BY <2>4, <2>7
  <2> QED
    BY <2>2, <2>8
<1>3. P = Nat
  <2> HIDE DEF P
  <2>1. P \subseteq Nat
    BY DEF P
  <2> QED
    BY <1>1, <1>2, <2>1, NatsBySteps
<1> QED
  BY <1>3

-----------------------------------------------------------------------------
(***************************************************************************)
(* Lists.                                                                  *)
(***************************************************************************)

\* A sequence without repetitions has as many entries as elements.
LEMMA DistinctEntriesCount ==
  ASSUME NEW S, NEW s \in Seq(S), IsInjective(s)
  PROVE  Cardinality(ToSet(s)) = Len(s)
<1>1. Len(s) \in Nat /\ s \in [1..Len(s) -> S] /\ DOMAIN s = 1..Len(s)
  BY LenProperties
<1>2. s \in [1..Len(s) -> ToSet(s)]
  BY <1>1 DEF ToSet
<1>3. \A e \in ToSet(s) : \E i \in 1..Len(s) : s[i] = e
  BY <1>1 DEF ToSet
<1>5. s \in Bijection(1..Len(s), ToSet(s))
  BY <1>2, <1>3 DEF Bijection, Injection, Surjection
<1>6. ExistsBijection(1..Len(s), ToSet(s))
  BY <1>5 DEF ExistsBijection
<1> QED
  BY <1>1, <1>6, FS_CountingElements

\* A new element at the end
LEMMA AppendAddsOne ==
  ASSUME NEW S, NEW s \in Seq(S), NEW e \in S
  PROVE  /\ Append(s, e) \in Seq(S)
         /\ Len(Append(s, e)) = Len(s) + 1
         /\ ToSet(Append(s, e)) = ToSet(s) \cup {e}
         /\ Append(s, e) # <<>>
         /\ IsInjective(s) /\ e \notin ToSet(s) => IsInjective(Append(s, e))
<1> DEFINE a == Append(s, e)
<1>1. Len(s) \in Nat /\ DOMAIN s = 1..Len(s)
  BY LenProperties
<1>2. /\ Len(a) = Len(s) + 1 /\ DOMAIN a = 1..Len(a) /\ a # <<>> /\ a \in Seq(S)
      /\ \A i \in 1..Len(s) : a[i] = s[i]
      /\ a[Len(s) + 1] = e
  BY AppendProperties, LenProperties
<1> HIDE DEF a
<1>3. 1..Len(a) = (1..Len(s)) \cup {Len(s) + 1}
  BY <1>1, <1>2
<1>4. ToSet(a) = ToSet(s) \cup {e}
  BY <1>1, <1>2, <1>3 DEF ToSet
<1>5. ASSUME IsInjective(s), e \notin ToSet(s), NEW i \in DOMAIN a, NEW k \in DOMAIN a, a[i] = a[k]
      PROVE  i = k
  <2>1. \A j \in 1..Len(s) : a[j] # e
    BY <1>1, <1>2, <1>5 DEF ToSet
  <2>2. CASE i \in 1..Len(s) /\ k \in 1..Len(s)
    BY <1>1, <1>2, <1>5, <2>2 DEF IsInjective
  <2>3. CASE i = Len(s) + 1 \/ k = Len(s) + 1
    BY <1>2, <1>3, <1>5, <2>1, <2>3
  <2> QED
    BY <1>2, <1>3, <2>2, <2>3
<1> QED
  BY <1>2, <1>4, <1>5 DEF a, IsInjective

\* A new element in front
LEMMA FrontAddsOne ==
  ASSUME NEW S, NEW s \in Seq(S), NEW e \in S
  PROVE  /\ <<e>> \o s \in Seq(S)
         /\ Len(<<e>> \o s) = Len(s) + 1
         /\ ToSet(<<e>> \o s) = ToSet(s) \cup {e}
         /\ IsInjective(s) /\ e \notin ToSet(s) => IsInjective(<<e>> \o s)
<1> DEFINE a == <<e>> \o s
<1>1. Len(s) \in Nat /\ DOMAIN s = 1..Len(s)
  BY LenProperties
<1>2. <<e>> \in Seq(S) /\ Len(<<e>>) = 1 /\ <<e>>[1] = e
  OBVIOUS
<1>3. /\ a \in Seq(S) /\ Len(a) = 1 + Len(s)
      /\ \A i \in 1..(1 + Len(s)) : a[i] = IF i <= 1 THEN <<e>>[i] ELSE s[i - 1]
  BY <1>2, ConcatProperties
<1>4. DOMAIN a = 1..Len(a)
  BY <1>3, LenProperties
<1> HIDE DEF a
<1>5. a[1] = e /\ \A i \in 2..(1 + Len(s)) : a[i] = s[i - 1]
  BY <1>1, <1>2, <1>3
<1>6. ToSet(a) = ToSet(s) \cup {e}
  <2>1. \A i \in 1..Len(s) : s[i] = a[i + 1] /\ i + 1 \in DOMAIN a
    BY <1>1, <1>3, <1>4, <1>5
  <2>2. \A i \in DOMAIN a : i = 1 \/ (i - 1 \in 1..Len(s) /\ a[i] = s[i - 1])
    BY <1>1, <1>3, <1>4, <1>5
  <2>3. 1 \in DOMAIN a
    BY <1>1, <1>3, <1>4
  <2> QED
    BY <1>1, <1>5, <2>1, <2>2, <2>3 DEF ToSet
<1>7. ASSUME IsInjective(s), e \notin ToSet(s), NEW i \in DOMAIN a, NEW k \in DOMAIN a, a[i] = a[k]
      PROVE  i = k
  <2>1. \A j \in 1..Len(s) : s[j] # e
    BY <1>1, <1>7 DEF ToSet
  <2>2. CASE i = 1 \/ k = 1
    <3>1. \A j \in 2..(1 + Len(s)) : a[j] # e
      BY <1>1, <1>5, <2>1
    <3> QED
      BY <1>1, <1>3, <1>4, <1>5, <1>7, <2>2, <3>1
  <2>3. CASE i # 1 /\ k # 1
    <3>1. i - 1 \in 1..Len(s) /\ k - 1 \in 1..Len(s) /\ s[i - 1] = s[k - 1]
      BY <1>1, <1>3, <1>4, <1>5, <1>7, <2>3
    <3>2. i - 1 = k - 1
      BY <1>1, <1>7, <3>1 DEF IsInjective
    <3> QED
      BY <1>3, <1>4, <3>2
  <2> QED
    BY <2>2, <2>3
<1> QED
  BY <1>1, <1>3, <1>6, <1>7 DEF a, IsInjective

\* The list without the element at place i
LEMMA RemoveAtFacts ==
  ASSUME NEW S, NEW s \in Seq(S), NEW i \in 1..Len(s)
  PROVE  /\ RemoveAt(s, i) \in Seq(S)
         /\ Len(RemoveAt(s, i)) = Len(s) - 1
         /\ \A k \in 1..(Len(s) - 1) : RemoveAt(s, i)[k] = IF k < i THEN s[k] ELSE s[k + 1]
<1>1. Len(s) \in Nat /\ \A k \in 1..Len(s) : s[k] \in S
  BY ElementOfSeq, LenProperties
<1> DEFINE s1 == SubSeq(s, 1, i - 1)
           s2 == SubSeq(s, i + 1, Len(s))
<1>2. /\ s1 \in Seq(S) /\ Len(s1) = i - 1
      /\ \A k \in 1..(i - 1) : s1[k] = s[k]
  <2>1. \A k \in 1..(i - 1) : s[k] \in S
    BY <1>1
  <2>2. 1 \in Int /\ i - 1 \in Int /\ i - 1 >= 0
    BY <1>1
  <2>3. /\ s1 \in Seq(S) /\ Len(s1) = IF 1 <= i - 1 THEN (i - 1) - 1 + 1 ELSE 0
        /\ \A k \in 1..((i - 1) - 1 + 1) : s1[k] = s[1 + k - 1]
    BY <2>1, <2>2, SubSeqProperties
  <2> HIDE DEF s1
  <2> QED
    BY <1>1, <2>2, <2>3
<1>3. /\ s2 \in Seq(S) /\ Len(s2) = Len(s) - i
      /\ \A k \in 1..(Len(s) - i) : s2[k] = s[i + k]
  <2>1. \A k \in (i + 1)..Len(s) : s[k] \in S
    BY <1>1
  <2>2. i + 1 \in Int /\ Len(s) \in Int /\ i <= Len(s)
    BY <1>1
  <2>3. /\ s2 \in Seq(S) /\ Len(s2) = IF i + 1 <= Len(s) THEN Len(s) - (i + 1) + 1 ELSE 0
        /\ \A k \in 1..(Len(s) - (i + 1) + 1) : s2[k] = s[(i + 1) + k - 1]
    BY <2>1, <2>2, SubSeqProperties
  <2> HIDE DEF s2
  <2> QED
    BY <1>1, <2>2, <2>3
<1>4. /\ s1 \o s2 \in Seq(S) /\ Len(s1 \o s2) = Len(s1) + Len(s2)
      /\ \A k \in 1..(Len(s1) + Len(s2)) :
           (s1 \o s2)[k] = IF k <= Len(s1) THEN s1[k] ELSE s2[k - Len(s1)]
  BY <1>2, <1>3, ConcatProperties
<1>5. RemoveAt(s, i) = s1 \o s2
  BY DEF RemoveAt
<1> HIDE DEF s1, s2
<1>6. Len(s1) + Len(s2) = Len(s) - 1
  BY <1>1, <1>2, <1>3
<1>7. ASSUME NEW k \in 1..(Len(s) - 1)
      PROVE  (s1 \o s2)[k] = IF k < i THEN s[k] ELSE s[k + 1]
  <2>1. (s1 \o s2)[k] = IF k <= i - 1 THEN s1[k] ELSE s2[k - (i - 1)]
    BY <1>2, <1>4, <1>6
  <2>2. CASE k < i
    BY <1>1, <1>2, <2>1, <2>2
  <2>3. CASE ~(k < i)
    <3>1. k - (i - 1) \in 1..(Len(s) - i) /\ i + (k - (i - 1)) = k + 1
      BY <1>1, <2>3
    <3>2. s2[k - (i - 1)] = s[i + (k - (i - 1))]
      BY <1>3, <3>1
    <3> QED
      BY <1>1, <2>1, <2>3, <3>1, <3>2
  <2> QED
    BY <2>2, <2>3
<1> QED
  BY <1>4, <1>5, <1>6, <1>7

LEMMA RemoveAtKeeps ==
  ASSUME NEW S, NEW s \in Seq(S), NEW i \in 1..Len(s)
  PROVE  /\ ToSet(RemoveAt(s, i)) \subseteq ToSet(s)
         /\ IsInjective(s) => /\ IsInjective(RemoveAt(s, i))
                              /\ ToSet(RemoveAt(s, i)) = ToSet(s) \ {s[i]}
<1> DEFINE r == RemoveAt(s, i)
<1>1. Len(s) \in Nat /\ DOMAIN s = 1..Len(s)
  BY LenProperties
<1>2. /\ r \in Seq(S) /\ Len(r) = Len(s) - 1
      /\ \A k \in 1..(Len(s) - 1) : r[k] = IF k < i THEN s[k] ELSE s[k + 1]
  BY RemoveAtFacts
<1>3. DOMAIN r = 1..(Len(s) - 1)
  BY <1>2, LenProperties
<1> HIDE DEF r
\* Place k of the rest was place j of the list, and not i.
<1>4. ASSUME NEW k \in DOMAIN r
      PROVE  \E j \in 1..Len(s) : j # i /\ r[k] = s[j] /\ (j = IF k < i THEN k ELSE k + 1)
  <2>1. CASE k < i
    BY <1>1, <1>2, <1>3, <2>1
  <2>2. CASE ~(k < i)
    <3>1. k + 1 \in 1..Len(s) /\ k + 1 # i
      BY <1>1, <1>3, <2>2
    <3> QED
      BY <1>2, <1>3, <2>2, <3>1
  <2> QED
    BY <2>1, <2>2
<1>5. ASSUME NEW j \in 1..Len(s), j # i
      PROVE  \E k \in DOMAIN r : r[k] = s[j]
  <2>1. CASE j < i
    <3>1. j \in DOMAIN r
      BY <1>1, <1>3, <2>1
    <3> QED
      BY <1>2, <1>3, <2>1, <3>1
  <2>2. CASE ~(j < i)
    <3>1. j - 1 \in DOMAIN r /\ ~(j - 1 < i) /\ (j - 1) + 1 = j
      BY <1>1, <1>3, <1>5, <2>2
    <3>2. r[j - 1] = s[(j - 1) + 1]
      BY <1>2, <1>3, <3>1
    <3> QED
      BY <3>1, <3>2
  <2> QED
    BY <2>1, <2>2
<1>6. ToSet(r) \subseteq ToSet(s)
  BY <1>1, <1>4 DEF ToSet
<1>7. ASSUME IsInjective(s) PROVE IsInjective(r)
  <2> SUFFICES ASSUME NEW a \in DOMAIN r, NEW b \in DOMAIN r, r[a] = r[b] PROVE a = b
    BY DEF IsInjective
  <2>1. PICK x \in 1..Len(s) : r[a] = s[x] /\ (x = IF a < i THEN a ELSE a + 1)
    BY <1>4
  <2>2. PICK y \in 1..Len(s) : r[b] = s[y] /\ (y = IF b < i THEN b ELSE b + 1)
    BY <1>4
  <2>3. x = y
    BY <1>1, <1>7, <2>1, <2>2 DEF IsInjective
  <2> QED
    BY <1>1, <1>3, <2>1, <2>2, <2>3
<1>8. ASSUME IsInjective(s) PROVE ToSet(r) = ToSet(s) \ {s[i]}
  <2>1. \A j \in 1..Len(s) : j # i <=> s[j] # s[i]
    BY <1>1, <1>8 DEF IsInjective
  <2> QED
    BY <1>1, <1>4, <1>5, <2>1 DEF ToSet
<1> QED
  BY <1>6, <1>7, <1>8 DEF r

\* The list behind its first element
LEMMA TailKeeps ==
  ASSUME NEW S, NEW s \in Seq(S), s # <<>>
  PROVE  /\ Head(s) \in ToSet(s) /\ Head(s) \in S
         /\ Tail(s) \in Seq(S)
         /\ ToSet(Tail(s)) \subseteq ToSet(s)
         /\ IsInjective(s) => IsInjective(Tail(s)) /\ Head(s) \notin ToSet(Tail(s))
<1>1. Len(s) \in Nat /\ Len(s) # 0 /\ DOMAIN s = 1..Len(s)
  BY EmptySeq, LenProperties
<1>2. /\ Head(s) \in S /\ Tail(s) \in Seq(S) /\ Len(Tail(s)) = Len(s) - 1
      /\ \A i \in 1..Len(Tail(s)) : Tail(s)[i] = s[i + 1]
  BY HeadTailProperties
<1>3. DOMAIN Tail(s) = 1..(Len(s) - 1)
  BY <1>2, LenProperties
<1>4. Head(s) = s[1] /\ 1 \in DOMAIN s
  BY <1>1
<1> DEFINE t == Tail(s)
<1>5. \A i \in DOMAIN t : t[i] = s[i + 1] /\ i + 1 \in DOMAIN s /\ i + 1 # 1
  BY <1>1, <1>2, <1>3
<1>6. t \in Seq(S) /\ DOMAIN t \subseteq Nat
  BY <1>2, <1>3
<1> HIDE DEF t
<1>7. ToSet(t) \subseteq ToSet(s) /\ Head(s) \in ToSet(s)
  BY <1>4, <1>5 DEF ToSet
<1>8. ASSUME IsInjective(s) PROVE IsInjective(t) /\ Head(s) \notin ToSet(t)
  <2>1. \A i \in DOMAIN t : t[i] # s[1]
    BY <1>4, <1>5, <1>8 DEF IsInjective
  <2>2. \A a, b \in DOMAIN t : t[a] = t[b] => a + 1 = b + 1
    BY <1>5, <1>8 DEF IsInjective
  <2> QED
    BY <1>4, <1>6, <2>1, <2>2 DEF IsInjective, ToSet
<1> QED
  BY <1>2, <1>6, <1>7, <1>8 DEF t
=============================================================================
