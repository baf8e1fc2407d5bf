-------------------------- MODULE MmctlQuotaProofs --------------------------
(***************************************************************************)
(* What is proved of the quota reports of mmctl, for any file systems,      *)
(* filesets, accounts, commands and tokens.  A report is made of lists that  *)
(* are put in order and picked from; the first part says what Listed, Taken *)
(* and Only make of finite sets and sequences.                              *)
(***************************************************************************)
EXTENDS MmctlQuota, Inductions, FiniteSetTheorems, SequenceTheorems

-----------------------------------------------------------------------------
(* Finite sets in order *)

StrictOrder(R, S) ==
  /\ \A x \in S : <<x, x>> \notin R
  /\ \A x, y \in S : x = y \/ <<x, y>> \in R \/ <<y, x>> \in R
  /\ \A x, y, z \in S : <<x, y>> \in R /\ <<y, z>> \in R => <<x, z>> \in R

IsLast(x, S, R) == x \in S /\ \A y \in S : y = x \/ <<y, x>> \in R

LEMMA LastElement ==
  ASSUME NEW S, IsFiniteSet(S), S # {}, NEW R, StrictOrder(R, S)
  PROVE  \E x : IsLast(x, S, R)
<1> DEFINE Has == {n \in Nat : \A T \in SUBSET S : Cardinality(T) = n + 1 => \E x : IsLast(x, T, R)}
<1>0. \A T \in SUBSET S : IsFiniteSet(T) /\ Cardinality(T) \in Nat
  BY FS_Subset, FS_CardinalityType
<1>1. 0 \in Has
  <2> SUFFICES ASSUME NEW T \in SUBSET S, Cardinality(T) = 1 PROVE \E x : IsLast(x, T, R)
    OBVIOUS
  <2>1. PICK x : T = {x}
    BY <1>0, FS_Singleton
  <2> QED BY <2>1 DEF IsLast
<1>2. ASSUME NEW n \in Nat, n \in Has PROVE n + 1 \in Has
  <2> SUFFICES ASSUME NEW T \in SUBSET S, Cardinality(T) = n + 2 PROVE \E x : IsLast(x, T, R)
    OBVIOUS
  <2>1. PICK a : a \in T
    BY <1>0, FS_EmptySet
  <2>2. T \ {a} \in SUBSET S /\ Cardinality(T \ {a}) = n + 1
    BY <1>0, <2>1, FS_RemoveElement
  <2>3. PICK b : IsLast(b, T \ {a}, R)
    BY <1>2, <2>2
  <2>4. CASE <<b, a>> \in R
    <3>1. IsLast(a, T, R)
      BY <2>1, <2>3, <2>4 DEF IsLast, StrictOrder
    <3> QED BY <3>1
  <2>5. CASE <<b, a>> \notin R
    <3>1. IsLast(b, T, R)
      BY <2>1, <2>3, <2>5 DEF IsLast, StrictOrder
    <3> QED BY <3>1
  <2> QED BY <2>4, <2>5
<1>3. Nat \subseteq Has
  <2> HIDE DEF Has
  <2> QED BY <1>1, <1>2, SetInduction
<1>4. Cardinality(S) - 1 \in Nat /\ Cardinality(S) = (Cardinality(S) - 1) + 1
  BY <1>0, FS_EmptySet
<1> QED BY <1>3, <1>4

\* s has every member of S once, in the order R.
InOrderOf(s, S, R) ==
  /\ s \in [1..Cardinality(S) -> S]
  /\ \A i, j \in 1..Cardinality(S) : i < j => <<s[i], s[j]>> \in R
  /\ \A x \in S : \E i \in 1..Cardinality(S) : s[i] = x

LEMMA OrderedListing ==
  ASSUME NEW S, IsFiniteSet(S), NEW R, StrictOrder(R, S)
  PROVE  \E s : InOrderOf(s, S, R)
<1> DEFINE Has == {n \in Nat : \A T \in SUBSET S : Cardinality(T) = n => \E s : InOrderOf(s, T, R)}
<1>0. \A T \in SUBSET S : IsFiniteSet(T) /\ Cardinality(T) \in Nat
  BY FS_Subset, FS_CardinalityType
<1>1. 0 \in Has
  <2> SUFFICES ASSUME NEW T \in SUBSET S, Cardinality(T) = 0 PROVE \E s : InOrderOf(s, T, R)
    OBVIOUS
  <2>1. T = {}
    BY <1>0, FS_EmptySet
  <2>2. InOrderOf([i \in 1..0 |-> i], T, R)
    BY <2>1 DEF InOrderOf
  <2> QED BY <2>2
<1>2. ASSUME NEW n \in Nat, n \in Has PROVE n + 1 \in Has
  <2> SUFFICES ASSUME NEW T \in SUBSET S, Cardinality(T) = n + 1 PROVE \E s : InOrderOf(s, T, R)
    OBVIOUS
  <2>1. StrictOrder(R, T) /\ T # {}
    BY FS_EmptySet DEF StrictOrder
  <2>2. PICK z : IsLast(z, T, R)
    BY <1>0, <2>1, LastElement
  <2> DEFINE U == T \ {z}
  <2>3. U \in SUBSET S /\ Cardinality(U) = n
    <3>1. z \in T /\ IsFiniteSet(T)
      BY <1>0, <2>2 DEF IsLast
    <3>2. Cardinality(U) = Cardinality(T) - 1
      BY <3>1, FS_RemoveElement
    <3> QED BY <3>2
  <2>4. PICK s : InOrderOf(s, U, R)
    BY <1>2, <2>3
  <2> DEFINE t == [i \in 1..(n + 1) |-> IF i = n + 1 THEN z ELSE s[i]]
  <2>5. \A i \in 1..(n + 1) : i # n + 1 => i \in 1..n
    OBVIOUS
  <2>6. /\ \A i \in 1..n : s[i] \in U /\ t[i] = s[i]
        /\ t[n + 1] = z
    <3>1. s \in [1..n -> U]
      BY <2>3, <2>4 DEF InOrderOf
    <3>2. \A i \in 1..n : i \in 1..(n + 1) /\ i # n + 1
      OBVIOUS
    <3> HIDE DEF U
    <3> QED BY <3>1, <3>2
  <2>7. t \in [1..(n + 1) -> T]
    BY <2>2, <2>5, <2>6 DEF IsLast
  <2>8. ASSUME NEW i \in 1..(n + 1), NEW j \in 1..(n + 1), i < j PROVE <<t[i], t[j]>> \in R
    <3>1. i \in 1..n
      BY <2>8
    <3>2. CASE j = n + 1
      BY <2>2, <2>6, <3>1, <3>2 DEF IsLast
    <3>3. CASE j # n + 1
      BY <2>3, <2>4, <2>5, <2>6, <2>8, <3>1, <3>3 DEF InOrderOf
    <3> QED BY <3>2, <3>3
  <2>9. ASSUME NEW x \in T PROVE \E i \in 1..(n + 1) : t[i] = x
    <3>1. CASE x = z
      BY <2>6, <3>1
    <3>2. CASE x # z
      <4>1. PICK i \in 1..n : s[i] = x
        BY <2>3, <2>4, <3>2 DEF InOrderOf
      <4>2. t[i] = x /\ i \in 1..(n + 1)
        BY <2>6, <4>1
      <4> QED BY <4>2
    <3> QED BY <3>1, <3>2
  <2> HIDE DEF t
  <2>10. InOrderOf(t, T, R)
    BY <2>7, <2>8, <2>9 DEF InOrderOf
  <2> QED BY <2>10
<1>3. Nat \subseteq Has
  <2> HIDE DEF Has
  <2> QED BY <1>1, <1>2, SetInduction
<1>4. S \in SUBSET S /\ Cardinality(S) \in Has
  BY <1>0, <1>3
<1> QED BY <1>4

LEMMA InOrderOnce ==
  ASSUME NEW S, NEW R, StrictOrder(R, S), NEW s, InOrderOf(s, S, R), IsFiniteSet(S)
  PROVE  /\ Cardinality(S) \in Nat
         /\ \A i, j \in 1..Cardinality(S) : s[i] = s[j] => i = j
         /\ \A i, j \in 1..Cardinality(S) : <<s[i], s[j]>> \in R => i < j
<1>1. Cardinality(S) \in Nat
  BY FS_CardinalityType
<1>2. \A i \in 1..Cardinality(S) : s[i] \in S /\ <<s[i], s[i]>> \notin R
  BY DEF InOrderOf, StrictOrder
<1>3. \A i, j \in 1..Cardinality(S) : <<s[i], s[j]>> \in R => <<s[j], s[i]>> \notin R
  BY <1>2 DEF StrictOrder
<1>4. \A i, j \in 1..Cardinality(S) : i < j => <<s[i], s[j]>> \in R
  BY DEF InOrderOf
<1>5. \A i, j \in 1..Cardinality(S) : i < j \/ j < i \/ i = j
  BY <1>1
<1> QED BY <1>1, <1>2, <1>3, <1>4, <1>5

\* The place of a member is one more than the number of those before it.
LEMMA ListedInOrder ==
  ASSUME NEW S, IsFiniteSet(S), NEW R, StrictOrder(R, S)
  PROVE  InOrderOf(Listed(S, R), S, R)
<1> DEFINE n == Cardinality(S)
           rank == [x \in S |-> Cardinality({y \in S : <<y, x>> \in R})]
<1>1. PICK s : InOrderOf(s, S, R)
  BY OrderedListing
<1>2. /\ n \in Nat
      /\ \A i, j \in 1..n : s[i] = s[j] => i = j
      /\ \A i, j \in 1..n : <<s[i], s[j]>> \in R <=> i < j
  BY <1>1, InOrderOnce DEF InOrderOf
<1>3. ASSUME NEW k \in 1..n PROVE rank[s[k]] = k - 1
  <2> DEFINE B == {y \in S : <<y, s[k]>> \in R}
             f == [i \in 1..(k - 1) |-> s[i]]
  <2>1. s[k] \in S /\ 1..(k - 1) \subseteq 1..n /\ k - 1 \in Nat
    BY <1>1, <1>2 DEF InOrderOf
  <2>2. \A i \in 1..(k - 1) : i \in 1..n /\ i < k
    BY <1>2
  <2>3. f \in [1..(k - 1) -> B]
    BY <1>1, <1>2, <2>2 DEF InOrderOf
  <2>4. \A i, j \in 1..(k - 1) : f[i] = f[j] => i = j
    BY <1>2, <2>2
  <2>5. \A y \in B : \E i \in 1..(k - 1) : f[i] = y
    <3> SUFFICES ASSUME NEW y \in B PROVE \E i \in 1..(k - 1) : f[i] = y
      OBVIOUS
    <3>1. PICK i \in 1..n : s[i] = y
      BY <1>1 DEF InOrderOf
    <3>2. i < k
      BY <1>2, <3>1
    <3>3. i \in 1..(k - 1)
      BY <3>2, <1>2
    <3> QED BY <3>1, <3>3
  <2>6. f \in Bijection(1..(k - 1), B)
    <3> HIDE DEF f, B
    <3> QED BY <2>3, <2>4, <2>5 DEF Bijection, Injection, Surjection, IsInjective
  <2>7. ExistsBijection(1..(k - 1), B)
    BY <2>6 DEF ExistsBijection
  <2>8. Cardinality(B) = k - 1
    <3> HIDE DEF B
    <3> QED BY <2>1, <2>7, FS_CountingElements
  <2> QED BY <2>1, <2>8
<1>4. ASSUME NEW k \in 1..n PROVE (CHOOSE x \in S : rank[x] = k - 1) = s[k]
  <2>1. s[k] \in S
    BY <1>1 DEF InOrderOf
  <2>2. ASSUME NEW x \in S, rank[x] = k - 1 PROVE x = s[k]
    <3>1. PICK i \in 1..n : s[i] = x
      BY <1>1 DEF InOrderOf
    <3> HIDE DEF rank
    <3>2. i - 1 = k - 1
      BY <1>3, <2>2, <3>1
    <3>3. i = k
      BY <3>2, <1>2
    <3> QED BY <3>1, <3>3
  <2> HIDE DEF rank
  <2> QED BY <1>3, <2>1, <2>2
<1>5. Listed(S, R) = [k \in 1..n |-> s[k]]
  <2>1. Listed(S, R) = [k \in 1..n |-> CHOOSE x \in S : rank[x] = k - 1]
    BY DEF Listed
  <2> HIDE DEF rank
  <2> QED BY <1>4, <2>1
<1>6. Listed(S, R) = s
  BY <1>1, <1>5 DEF InOrderOf
<1> QED BY <1>1, <1>6

LEMMA AscendingIsOrder ==
  ASSUME NEW P \in SUBSET Nat
  PROVE  StrictOrder(Ascending(P), P)
<1>1. \A x, y \in P : <<x, y>> \in Ascending(P) <=> x < y
  BY DEF Ascending
<1>2. P \subseteq Nat
  OBVIOUS
<1> QED BY <1>1, <1>2 DEF StrictOrder

-----------------------------------------------------------------------------
(* Picking from a sequence *)

LEMMA PlacesFinite ==
  ASSUME NEW X, NEW s \in Seq(X), NEW P \in SUBSET DOMAIN s
  PROVE  IsFiniteSet(P) /\ Cardinality(P) \in Nat /\ P \subseteq Nat
<1>1. DOMAIN s = 1..Len(s) /\ Len(s) \in Nat
  BY LenProperties
<1>2. IsFiniteSet(1..Len(s))
  BY <1>1, FS_Interval
<1>3. IsFiniteSet(P)
  BY <1>1, <1>2, FS_Subset
<1> QED BY <1>1, <1>3, FS_CardinalityType

\* t has what stands in places P of s, each place once.
Picks(t, s, P) ==
  \E o \in Bijection(1..Cardinality(P), P) : t = [k \in 1..Cardinality(P) |-> s[o[k]]]

LEMMA TakenPicks ==
  ASSUME NEW X, NEW s \in Seq(X), NEW P \in SUBSET DOMAIN s, NEW R, StrictOrder(R, P)
  PROVE  Picks(Taken(s, P, R), s, P)
<1> DEFINE o == Listed(P, R)
<1>1. IsFiniteSet(P)
  BY PlacesFinite
<1>2. InOrderOf(o, P, R)
  BY <1>1, ListedInOrder
<1>3. Taken(s, P, R) = [k \in 1..Cardinality(P) |-> s[o[k]]]
  BY DEF Taken
<1> HIDE DEF o
<1>4. o \in Bijection(1..Cardinality(P), P)
  BY <1>1, <1>2, InOrderOnce DEF InOrderOf, Bijection, Injection, Surjection, IsInjective
<1> QED BY <1>3, <1>4 DEF Picks

LEMMA OnlyPicks ==
  ASSUME NEW X, NEW s \in Seq(X), NEW P \in SUBSET DOMAIN s
  PROVE  Picks(Only(s, P), s, P)
<1>1. StrictOrder(Ascending(P), P)
  BY PlacesFinite, AscendingIsOrder
<1> QED BY <1>1, TakenPicks DEF Only

LEMMA PicksMembers ==
  ASSUME NEW X, NEW s \in Seq(X), NEW P \in SUBSET DOMAIN s, NEW t, Picks(t, s, P)
  PROVE  /\ t \in Seq(X)
         /\ \A k \in DOMAIN t : \E i \in P : t[k] = s[i]
         /\ \A i \in P : \E k \in DOMAIN t : t[k] = s[i]
<1>1. PICK o \in Bijection(1..Cardinality(P), P) : t = [k \in 1..Cardinality(P) |-> s[o[k]]]
  BY DEF Picks
<1>2. /\ Cardinality(P) \in Nat
      /\ \A i \in P : s[i] \in X
      /\ \A k \in 1..Cardinality(P) : o[k] \in P
      /\ \A i \in P : \E k \in 1..Cardinality(P) : o[k] = i
  BY PlacesFinite, ElementOfSeq, LenProperties DEF Bijection, Injection, Surjection
<1>3. t \in [1..Cardinality(P) -> X]
  BY <1>1, <1>2
<1>4. t \in Seq(X) /\ DOMAIN t = 1..Cardinality(P)
  BY <1>2, <1>3, SeqDef
<1> QED BY <1>1, <1>2, <1>4

-----------------------------------------------------------------------------
(* How many places of a sequence hold a member of T *)

Count(s, T) == Cardinality({i \in DOMAIN s : s[i] \in T})

LEMMA CountPicked ==
  ASSUME NEW X, NEW s \in Seq(X), NEW P \in SUBSET DOMAIN s, NEW t, Picks(t, s, P), NEW T
  PROVE  Count(t, T) = Cardinality({i \in P : s[i] \in T})
<1>1. PICK o \in Bijection(1..Cardinality(P), P) : t = [k \in 1..Cardinality(P) |-> s[o[k]]]
  BY DEF Picks
<1> DEFINE n == Cardinality(P)
           A == {k \in 1..n : s[o[k]] \in T}
           B == {i \in P : s[i] \in T}
           f == [k \in A |-> o[k]]
<1>2. /\ \A k \in 1..n : o[k] \in P
      /\ \A i \in P : \E k \in 1..n : o[k] = i
      /\ \A j, k \in 1..n : o[j] = o[k] => j = k
  BY DEF Bijection, Injection, Surjection, IsInjective
<1>3. n \in Nat
  BY PlacesFinite
<1>4. f \in [A -> B] /\ (\A j, k \in A : f[j] = f[k] => j = k) /\ (\A i \in B : \E k \in A : f[k] = i)
  BY <1>2
<1>5. ExistsBijection(A, B)
  <2> HIDE DEF f, A, B
  <2> QED BY <1>4 DEF ExistsBijection, Bijection, Injection, Surjection, IsInjective
<1>6. IsFiniteSet(A)
  <2>1. IsFiniteSet(1..n)
    BY <1>3, FS_Interval
  <2> QED BY <2>1, FS_Subset
<1>7. Cardinality(A) = Cardinality(B)
  <2> HIDE DEF A, B
  <2> QED BY <1>5, <1>6, FS_Bijection
<1>8. {k \in DOMAIN t : t[k] \in T} = A
  BY <1>1
<1> QED BY <1>7, <1>8 DEF Count

LEMMA CountType ==
  ASSUME NEW X, NEW s \in Seq(X), NEW T
  PROVE  Count(s, T) \in Nat
BY PlacesFinite DEF Count

LEMMA CountConcat ==
  ASSUME NEW X, NEW s \in Seq(X), NEW t \in Seq(X), NEW T
  PROVE  Count(s \o t, T) = Count(s, T) + Count(t, T)
<1> DEFINE m == Len(s)
           n == Len(t)
           A == {i \in DOMAIN s : s[i] \in T}
           B == {i \in DOMAIN t : t[i] \in T}
           C == {i \in DOMAIN (s \o t) : (s \o t)[i] \in T /\ i > m}
           f == [i \in B |-> i + m]
<1>1. /\ m \in Nat /\ n \in Nat /\ DOMAIN s = 1..m /\ DOMAIN t = 1..n
      /\ DOMAIN (s \o t) = 1..(m + n)
      /\ \A i \in 1..(m + n) : (s \o t)[i] = IF i <= m THEN s[i] ELSE t[i - m]
  BY LenProperties, ConcatProperties
<1>2. {i \in DOMAIN (s \o t) : (s \o t)[i] \in T} = A \cup C
  <2>1. ASSUME NEW i \in 1..m PROVE i \in 1..(m + n) /\ (s \o t)[i] = s[i]
    BY <1>1
  <2>2. ASSUME NEW i \in 1..(m + n), ~(i > m) PROVE i \in 1..m
    BY <1>1, <2>2
  <2> QED BY <1>1, <2>1, <2>2
<1>3. A \cap C = {}
  BY <1>1
<1>4. f \in [B -> C]
  <2> SUFFICES ASSUME NEW i \in B PROVE i + m \in C
    OBVIOUS
  <2>1. i \in 1..n /\ i + m \in 1..(m + n) /\ i + m > m /\ (i + m) - m = i
    BY <1>1
  <2> QED BY <1>1, <2>1
<1>5. \A i, j \in B : f[i] = f[j] => i = j
  BY <1>1
<1>6. ASSUME NEW c \in C PROVE \E i \in B : f[i] = c
  <2>1. c - m \in 1..n /\ (c - m) + m = c /\ (s \o t)[c] = t[c - m]
    BY <1>1
  <2> QED BY <1>1, <2>1
<1>7. ExistsBijection(B, C)
  <2> HIDE DEF f, B, C
  <2> QED BY <1>4, <1>5, <1>6 DEF ExistsBijection, Bijection, Injection, Surjection, IsInjective
<1>8. IsFiniteSet(A) /\ IsFiniteSet(B) /\ Cardinality(A) \in Nat /\ Cardinality(B) \in Nat
  BY PlacesFinite
<1>9. IsFiniteSet(C) /\ Cardinality(C) = Cardinality(B)
  <2> HIDE DEF B, C
  <2> QED BY <1>7, <1>8, FS_Bijection
<1>10. Cardinality(A \cup C) = Cardinality(A) + Cardinality(C) - Cardinality(A \cap C)
  <2> HIDE DEF A, C
  <2> QED BY <1>8, <1>9, FS_Union
<1>11. Cardinality(A \cap C) = 0
  BY <1>3, FS_EmptySet
<1> HIDE DEF A, C
<1>12. Cardinality(A \cup C) = Cardinality(A) + Cardinality(B)
  BY <1>8, <1>9, <1>10, <1>11
<1> QED BY <1>2, <1>12 DEF Count, A

LEMMA EmptyCount == \A T : Count(<<>>, T) = 0
<1>1. \A T : {i \in DOMAIN << >> : << >>[i] \in T} = {}
  OBVIOUS
<1> QED BY <1>1, FS_EmptySet DEF Count

LEMMA CountOne ==
  ASSUME NEW x, NEW T
  PROVE  Count(<<x>>, T) = IF x \in T THEN 1 ELSE 0
<1>1. DOMAIN <<x>> = {1} /\ <<x>>[1] = x
  OBVIOUS
<1>2. {i \in DOMAIN <<x>> : <<x>>[i] \in T} = IF x \in T THEN {1} ELSE {}
  BY <1>1
<1>3. Cardinality({1}) = 1 /\ Cardinality({}) = 0
  BY FS_Singleton, FS_EmptySet
<1> QED BY <1>2, <1>3 DEF Count

LEMMA CountHeadTail ==
  ASSUME NEW X, NEW s \in Seq(X), s # <<>>, NEW T
  PROVE  /\ Tail(s) \in Seq(X)
         /\ Count(s, T) = (IF Head(s) \in T THEN 1 ELSE 0) + Count(Tail(s), T)
<1>1. Head(s) \in X /\ Tail(s) \in Seq(X) /\ <<Head(s)>> \in Seq(X) /\ s = <<Head(s)>> \o Tail(s)
  OBVIOUS
<1>2. Count(s, T) = Count(<<Head(s)>>, T) + Count(Tail(s), T)
  BY <1>1, CountConcat
<1> QED BY <1>1, <1>2, CountOne

\* Every member once, in whatever order.
LEMMA SetToSeqOnce ==
  ASSUME NEW S, IsFiniteSet(S)
  PROVE  /\ SetToSeq(S) \in [1..Cardinality(S) -> S]
         /\ SetToSeq(S) \in Seq(S)
         /\ \A x \in S : \E i \in 1..Cardinality(S) : SetToSeq(S)[i] = x
         /\ \A x : Count(SetToSeq(S), {x}) = IF x \in S THEN 1 ELSE 0
<1> DEFINE n == Cardinality(S)
           s == SetToSeq(S)
<1>1. n \in Nat /\ \E f : f \in Bijection(1..n, S)
  BY FS_CardinalityType DEF ExistsBijection
<1>2. s = CHOOSE f \in [1..n -> S] : IsInjective(f)
  BY DEF SetToSeq
<1>3. \E f \in [1..n -> S] : IsInjective(f)
  BY <1>1 DEF Bijection, Injection
<1> HIDE DEF s
<1>4. s \in [1..n -> S] /\ IsInjective(s)
  BY <1>2, <1>3
<1>5. IsFiniteSet(1..n) /\ Cardinality(1..n) = n
  BY <1>1, FS_Interval
<1>6. s \in Injection(1..n, S)
  BY <1>4 DEF Injection
<1>7. s \in Surjection(1..n, S)
  BY <1>5, <1>6, FS_Injection
<1>8. \A x \in S : \E i \in 1..n : s[i] = x
  BY <1>7 DEF Surjection
<1>9. ASSUME NEW x \in S PROVE Count(s, {x}) = 1
  <2>1. PICK i \in 1..n : s[i] = x
    BY <1>8
  <2>2. {j \in DOMAIN s : s[j] \in {x}} = {i}
    BY <1>4, <2>1 DEF IsInjective
  <2> QED BY <2>2, FS_Singleton DEF Count
<1>10. ASSUME NEW x, x \notin S PROVE Count(s, {x}) = 0
  <2>1. {j \in DOMAIN s : s[j] \in {x}} = {}
    BY <1>4, <1>10
  <2> QED BY <2>1, FS_EmptySet DEF Count
<1>11. s \in Seq(S)
  BY <1>1, <1>4, SeqDef
<1> QED BY <1>4, <1>8, <1>9, <1>10, <1>11 DEF s

-----------------------------------------------------------------------------
(* What stands in a sequence *)

LEMMA RangeOfParts ==
  ASSUME NEW X, NEW s \in Seq(X)
  PROVE  /\ Range(s) \subseteq X
         /\ Range(s) = {s[i] : i \in 1..Len(s)}
         /\ s # <<>> => /\ Head(s) \in Range(s) /\ Tail(s) \in Seq(X)
                        /\ Range(Tail(s)) \subseteq Range(s)
                        /\ Range(s) \subseteq {Head(s)} \cup Range(Tail(s))
<1>1. DOMAIN s = 1..Len(s) /\ Len(s) \in Nat /\ \A i \in 1..Len(s) : s[i] \in X
  BY LenProperties, ElementOfSeq
<1>2. Range(s) \subseteq X /\ Range(s) = {s[i] : i \in 1..Len(s)}
  BY <1>1 DEF Range
<1>3. ASSUME s # <<>>
      PROVE  /\ Head(s) \in Range(s) /\ Tail(s) \in Seq(X)
             /\ Range(Tail(s)) \subseteq Range(s)
             /\ Range(s) \subseteq {Head(s)} \cup Range(Tail(s))
  <2>1. /\ Tail(s) \in Seq(X) /\ Len(Tail(s)) = Len(s) - 1 /\ Len(s) # 0 /\ Head(s) = s[1]
        /\ \A i \in 1..(Len(s) - 1) : Tail(s)[i] = s[i + 1]
    BY <1>1, <1>3
  <2>2. DOMAIN Tail(s) = 1..(Len(s) - 1)
    BY <2>1, LenProperties
  <2>3. \A i \in 1..(Len(s) - 1) : i + 1 \in 1..Len(s)
    BY <1>1
  <2>4. \A i \in 1..Len(s) : i = 1 \/ (i - 1 \in 1..(Len(s) - 1) /\ (i - 1) + 1 = i)
    BY <1>1
  <2>5. 1 \in 1..Len(s)
    BY <1>1, <2>1
  <2>6. Head(s) \in Range(s)
    BY <1>1, <2>1, <2>5 DEF Range
  <2>7. Range(Tail(s)) \subseteq Range(s)
    BY <1>1, <2>1, <2>2, <2>3 DEF Range
  <2>8. ASSUME NEW i \in 1..Len(s) PROVE s[i] = Head(s) \/ s[i] \in Range(Tail(s))
    <3>1. CASE i = 1
      BY <2>1, <3>1
    <3>2. CASE i - 1 \in 1..(Len(s) - 1) /\ (i - 1) + 1 = i
      <4>1. Tail(s)[i - 1] = s[i] /\ i - 1 \in DOMAIN Tail(s)
        BY <2>1, <2>2, <3>2
      <4> QED BY <4>1 DEF Range
    <3> QED BY <2>4, <3>1, <3>2
  <2>9. Range(s) \subseteq {Head(s)} \cup Range(Tail(s))
    BY <1>2, <2>8
  <2> QED BY <2>1, <2>6, <2>7, <2>9
<1> QED BY <1>2, <1>3

LEMMA RangeOfConcat ==
  ASSUME NEW X, NEW s \in Seq(X), NEW t \in Seq(X)
  PROVE  s \o t \in Seq(X) /\ Range(s \o t) = Range(s) \cup Range(t)
<1>1. /\ Len(s) \in Nat /\ Len(t) \in Nat /\ DOMAIN s = 1..Len(s) /\ DOMAIN t = 1..Len(t)
      /\ DOMAIN (s \o t) = 1..(Len(s) + Len(t)) /\ s \o t \in Seq(X)
      /\ \A i \in 1..(Len(s) + Len(t)) : (s \o t)[i] = IF i <= Len(s) THEN s[i] ELSE t[i - Len(s)]
  BY LenProperties, ConcatProperties
<1> DEFINE m == Len(s)
           n == Len(t)
<1>2. \A i \in 1..m : i \in 1..(m + n) /\ (s \o t)[i] = s[i]
  BY <1>1
<1>3. \A i \in 1..n : m + i \in 1..(m + n) /\ (s \o t)[m + i] = t[i]
  BY <1>1
<1>4. \A i \in 1..(m + n) : i \in 1..m \/ (i - m \in 1..n /\ m + (i - m) = i)
  BY <1>1
<1>5. \A i \in 1..(m + n) : (i \in 1..m /\ (s \o t)[i] = s[i]) \/ (i - m \in 1..n /\ (s \o t)[i] = t[i - m])
  <2> SUFFICES ASSUME NEW i \in 1..(m + n)
               PROVE  (i \in 1..m /\ (s \o t)[i] = s[i]) \/ (i - m \in 1..n /\ (s \o t)[i] = t[i - m])
    OBVIOUS
  <2>1. CASE i \in 1..m
    BY <1>2, <2>1
  <2>2. CASE i - m \in 1..n /\ m + (i - m) = i
    BY <1>3, <2>2
  <2> QED BY <1>4, <2>1, <2>2
<1>6. Range(s \o t) \subseteq Range(s) \cup Range(t)
  BY <1>1, <1>5 DEF Range
<1>7. Range(s) \subseteq Range(s \o t)
  BY <1>1, <1>2 DEF Range
<1>8. Range(t) \subseteq Range(s \o t)
  <2> SUFFICES ASSUME NEW i \in 1..n PROVE t[i] \in Range(s \o t)
    BY <1>1 DEF Range
  <2>1. m + i \in DOMAIN (s \o t) /\ (s \o t)[m + i] = t[i]
    BY <1>1, <1>3
  <2> QED BY <2>1 DEF Range
<1> QED BY <1>1, <1>6, <1>7, <1>8

LEMMA PickedType ==
  ASSUME NEW X, NEW s \in Seq(X), NEW P \in SUBSET DOMAIN s, NEW t, Picks(t, s, P)
  PROVE  t \in Seq(X)
BY PicksMembers

LEMMA RangePicked ==
  ASSUME NEW X, NEW s \in Seq(X), NEW P \in SUBSET DOMAIN s, NEW t, Picks(t, s, P)
  PROVE  Range(t) = {s[i] : i \in P}
BY PicksMembers DEF Range

LEMMA RangeOfListedSet ==
  ASSUME NEW S, IsFiniteSet(S)
  PROVE  SetToSeq(S) \in Seq(S) /\ Range(SetToSeq(S)) = S
<1>1. SetToSeq(S) \in [1..Cardinality(S) -> S] /\ SetToSeq(S) \in Seq(S)
      /\ \A x \in S : \E i \in 1..Cardinality(S) : SetToSeq(S)[i] = x
  BY SetToSeqOnce
<1> HIDE DEF SetToSeq
<1> QED BY <1>1 DEF Range

LEMMA FiniteRange ==
  ASSUME NEW f, IsFiniteSet(DOMAIN f), f = [x \in DOMAIN f |-> f[x]]
  PROVE  IsFiniteSet(Range(f))
<1>1. f \in Surjection(DOMAIN f, Range(f))
  BY DEF Surjection, Range
<1> QED BY <1>1, FS_Surjection

-----------------------------------------------------------------------------
(* The filesets of the GUI *)

IdsDiffer ==
  \A f \in FS :
    /\ \A m, n \in Fileset : ids[f][m] = ids[f][n] /\ m # n => ids[f][m] = 0
    /\ \A n \in Fileset : ids[f][n] <= lastId[f]

LEMMA NamesFinite == IsFiniteSet(Name)
<1>1. IsFiniteSet(Fileset \cup {Root})
  BY QuotaAssumption, FS_AddElement
<1> QED BY <1>1 DEF Name

LEMMA LastInitialId ==
  ASSUME NEW f \in FS
  PROVE  LET m == Max({0} \cup {InitialIds[f][n] : n \in Fileset})
         IN  m \in 0..MaxId /\ \A n \in Fileset : InitialIds[f][n] <= m
<1> DEFINE S == {0} \cup {InitialIds[f][n] : n \in Fileset}
<1>1. S \subseteq 0..MaxId /\ S # {} /\ MaxId \in Nat
  BY QuotaAssumption
<1> HIDE DEF S
<1>2. IsFiniteSet(S)
  <2>1. IsFiniteSet(0..MaxId) /\ S \in SUBSET (0..MaxId)
    BY <1>1, FS_Interval
  <2> QED BY <2>1, FS_Subset
<1>3. S \in SUBSET Nat
  BY <1>1
<1>4. PICK x : IsLast(x, S, Ascending(S))
  BY <1>1, <1>2, <1>3, AscendingIsOrder, LastElement
<1>5. x \in S /\ \A y \in S : x >= y
  <2>1. \A y, z \in S : <<y, z>> \in Ascending(S) => y < z
    BY DEF Ascending
  <2>2. x \in S /\ \A y \in S : y = x \/ y < x
    BY <1>4, <2>1 DEF IsLast
  <2> QED BY <1>3, <2>2
<1>6. Max(S) \in S /\ \A y \in S : Max(S) >= y
  BY <1>5 DEF Max
<1>7. Max(S) \in 0..MaxId /\ \A y \in S : y <= Max(S)
  BY <1>1, <1>6
<1> QED BY <1>7 DEF S

LEMMA IdsApart ==
  ASSUME ids \in [FS -> [Fileset -> 0..MaxId]], IdsDiffer, NEW f \in FS
  PROVE  /\ \A n \in Name : IdOf(f, n) \in 0..MaxId
         /\ \A m, n \in Name : Exists(f, m) /\ Exists(f, n) /\ IdOf(f, m) = IdOf(f, n) => m = n
BY QuotaAssumption DEF IdsDiffer, Name, IdOf, Exists

LEMMA ByIdListsAll ==
  ASSUME ids \in [FS -> [Fileset -> 0..MaxId]], IdsDiffer, NEW f \in FS
  PROVE  LET S == {n \in Name : Exists(f, n)}
         IN  /\ Cardinality(S) \in Nat
             /\ ById(f) \in [1..Cardinality(S) -> S]
             /\ \A n \in S : \E i \in 1..Cardinality(S) : ById(f)[i] = n
             /\ \A i, j \in 1..Cardinality(S) : ById(f)[i] = ById(f)[j] => i = j
             /\ \A i, j \in 1..Cardinality(S) : i < j => IdOf(f, ById(f)[i]) < IdOf(f, ById(f)[j])
             /\ 1 <= Cardinality(S)
<1> DEFINE S == {n \in Name : Exists(f, n)}
           R == {p \in Name \X Name : IdOf(f, p[1]) < IdOf(f, p[2])}
<1>1. IsFiniteSet(S) /\ Cardinality(S) \in Nat
  BY NamesFinite, FS_Subset, FS_CardinalityType
<1>2. /\ \A n \in S : IdOf(f, n) \in Nat
      /\ \A m, n \in S : IdOf(f, m) = IdOf(f, n) => m = n
      /\ \A m, n \in S : <<m, n>> \in R <=> IdOf(f, m) < IdOf(f, n)
  BY QuotaAssumption, IdsApart
<1>3. Root \in S
  BY DEF Name, Exists
<1> HIDE DEF S, R
<1>4. StrictOrder(R, S)
  <2>1. \A x \in S : <<x, x>> \notin R
    BY <1>2
  <2>2. \A x, y \in S : x = y \/ <<x, y>> \in R \/ <<y, x>> \in R
    <3> SUFFICES ASSUME NEW x \in S, NEW y \in S, x # y
                 PROVE  <<x, y>> \in R \/ <<y, x>> \in R
      OBVIOUS
    <3>1. IdOf(f, x) \in Nat /\ IdOf(f, y) \in Nat /\ IdOf(f, x) # IdOf(f, y)
      BY <1>2
    <3>2. IdOf(f, x) < IdOf(f, y) \/ IdOf(f, y) < IdOf(f, x)
      BY <3>1
    <3> QED BY <1>2, <3>2
  <2>3. \A x, y, z \in S : <<x, y>> \in R /\ <<y, z>> \in R => <<x, z>> \in R
    <3> SUFFICES ASSUME NEW x \in S, NEW y \in S, NEW z \in S, <<x, y>> \in R, <<y, z>> \in R
                 PROVE  <<x, z>> \in R
      OBVIOUS
    <3>1. IdOf(f, x) < IdOf(f, y) /\ IdOf(f, y) < IdOf(f, z)
      BY <1>2
    <3>2. IdOf(f, x) < IdOf(f, z)
      BY <1>2, <3>1
    <3> QED BY <1>2, <3>2
  <2> QED BY <2>1, <2>2, <2>3 DEF StrictOrder
<1>5. InOrderOf(Listed(S, R), S, R)
  BY <1>1, <1>4, ListedInOrder
<1>6. ById(f) = Listed(S, R)
  BY DEF ById, S, R
<1>7. Cardinality(S) # 0
  BY <1>1, <1>3, FS_EmptySet
<1>8. InOrderOf(ById(f), S, R)
  BY <1>5, <1>6
<1>9. \A i, j \in 1..Cardinality(S) : ById(f)[i] = ById(f)[j] => i = j
  BY <1>1, <1>4, <1>8, InOrderOnce
<1>10. \A i \in 1..Cardinality(S) : ById(f)[i] \in S
  BY <1>8 DEF InOrderOf
<1>11. \A i, j \in 1..Cardinality(S) : i < j => IdOf(f, ById(f)[i]) < IdOf(f, ById(f)[j])
  BY <1>2, <1>8, <1>10 DEF InOrderOf
<1>12. /\ ById(f) \in [1..Cardinality(S) -> S]
       /\ \A n \in S : \E i \in 1..Cardinality(S) : ById(f)[i] = n
  BY <1>8 DEF InOrderOf
<1>13. 1 <= Cardinality(S)
  BY <1>1, <1>7
<1> QED BY <1>1, <1>9, <1>11, <1>12, <1>13 DEF S

-----------------------------------------------------------------------------
(* What the lists of a report are made of *)

\* A place of Pairs is a place of the one list and one of the other.
LEMMA Quotients ==
  ASSUME NEW j \in Nat, NEW k \in Nat, k # 0
  PROVE  j \div k \in Nat /\ j % k \in 0..(k - 1) /\ j = k * (j \div k) + (j % k)
OBVIOUS

LEMMA QuotientBelow ==
  ASSUME NEW n \in Nat, NEW k \in Nat, NEW q \in Nat, NEW r \in Nat, k # 0, k * q + r < n * k
  PROVE  q < n
OBVIOUS

LEMMA QuotientsUnique ==
  ASSUME NEW k \in Nat, NEW q \in Nat, NEW r \in 0..(k - 1), NEW p \in Nat, NEW t \in 0..(k - 1),
         k * q + r = k * p + t
  PROVE  q = p /\ r = t
OBVIOUS

LEMMA ProductAbove ==
  ASSUME NEW n \in Nat, NEW k \in Nat, NEW q \in 0..(n - 1), NEW r \in 0..(k - 1)
  PROVE  k * q + r \in Nat /\ k * q + r < n * k
OBVIOUS

LEMMA PairPlaces ==
  ASSUME NEW n \in Nat, NEW k \in Nat
  PROVE  /\ n * k \in Nat
         /\ \A i \in 1..(n * k) :
              /\ ((i - 1) \div k) + 1 \in 1..n
              /\ ((i - 1) % k) + 1 \in 1..k
              /\ i = k * ((i - 1) \div k) + ((i - 1) % k) + 1
         /\ \A a \in 1..n, b \in 1..k :
              LET i == k * (a - 1) + (b - 1) + 1
              IN  i \in 1..(n * k) /\ ((i - 1) \div k) + 1 = a /\ ((i - 1) % k) + 1 = b
<1>0. n * k \in Nat
  OBVIOUS
<1>1. ASSUME NEW i \in 1..(n * k)
      PROVE  /\ ((i - 1) \div k) + 1 \in 1..n
             /\ ((i - 1) % k) + 1 \in 1..k
             /\ i = k * ((i - 1) \div k) + ((i - 1) % k) + 1
  <2> DEFINE q == (i - 1) \div k
             r == (i - 1) % k
  <2>1. i - 1 \in Nat /\ i - 1 < n * k /\ i \in Nat
    BY <1>0
  <2>2. k # 0
    BY <2>1
  <2>3. q \in Nat /\ r \in 0..(k - 1) /\ i - 1 = k * q + r
    BY <2>1, <2>2, Quotients
  <2> HIDE DEF q, r
  <2>4. q < n
    BY <2>1, <2>2, <2>3, QuotientBelow
  <2>5. q + 1 \in 1..n /\ r + 1 \in 1..k /\ i = k * q + r + 1
    BY <2>1, <2>3, <2>4
  <2> QED BY <2>5 DEF q, r
<1>2. ASSUME NEW a \in 1..n, NEW b \in 1..k
      PROVE  LET i == k * (a - 1) + (b - 1) + 1
             IN  i \in 1..(n * k) /\ ((i - 1) \div k) + 1 = a /\ ((i - 1) % k) + 1 = b
  <2> DEFINE j == k * (a - 1) + (b - 1)
  <2>1. a - 1 \in 0..(n - 1) /\ b - 1 \in 0..(k - 1) /\ k # 0 /\ a - 1 \in Nat
    OBVIOUS
  <2>2. j \in Nat /\ j < n * k
    BY <2>1, ProductAbove
  <2> HIDE DEF j
  <2>3. j \div k \in Nat /\ j % k \in 0..(k - 1) /\ j = k * (j \div k) + (j % k)
    BY <2>1, <2>2, Quotients
  <2>4. j \div k = a - 1 /\ j % k = b - 1
    BY <2>1, <2>3, QuotientsUnique DEF j
  <2>5. (j + 1) - 1 = j /\ j + 1 \in 1..(n * k)
    BY <1>0, <2>2
  <2>6. (j \div k) + 1 = a /\ (j % k) + 1 = b
    BY <2>4
  <2>7. /\ j + 1 \in 1..(n * k)
        /\ (((j + 1) - 1) \div k) + 1 = a
        /\ (((j + 1) - 1) % k) + 1 = b
    BY <2>5, <2>6, Zenon
  <2> QED BY <2>7, Zenon DEF j
<1> QED BY <1>0, <1>1, <1>2

LEMMA PairsMembers ==
  ASSUME NEW X, NEW Y, NEW ts \in Seq(X), NEW tys \in Seq(Y)
  PROVE  /\ Pairs(ts, tys) \in Seq(X \X Y)
         /\ \A p \in Range(Pairs(ts, tys)) : p[1] \in Range(ts) /\ p[2] \in Range(tys)
<1> DEFINE n == Len(ts)
           k == Len(tys)
           s == Pairs(ts, tys)
<1>1. n \in Nat /\ k \in Nat /\ DOMAIN ts = 1..n /\ DOMAIN tys = 1..k
  BY LenProperties
<1>2. \A i \in 1..n : ts[i] \in X /\ ts[i] \in Range(ts)
  BY <1>1, ElementOfSeq DEF Range
<1>3. \A i \in 1..k : tys[i] \in Y /\ tys[i] \in Range(tys)
  BY <1>1, ElementOfSeq DEF Range
<1>4. s = [i \in 1..(n * k) |-> <<ts[((i - 1) \div k) + 1], tys[((i - 1) % k) + 1]>>]
  BY DEF Pairs
<1>5. /\ n * k \in Nat
      /\ \A i \in 1..(n * k) : ((i - 1) \div k) + 1 \in 1..n /\ ((i - 1) % k) + 1 \in 1..k
  BY <1>1, PairPlaces
<1> HIDE DEF n, k, s
<1>6. s \in [1..(n * k) -> X \X Y]
  BY <1>2, <1>3, <1>4, <1>5
<1>7. s \in Seq(X \X Y) /\ DOMAIN s = 1..(n * k)
  <2>1. DOMAIN s = 1..(n * k)
    BY <1>4
  <2>2. s \in UNION {[1..m -> X \X Y] : m \in Nat}
    BY <1>5, <1>6
  <2> QED BY <2>1, <2>2, SeqDef
<1>8. ASSUME NEW i \in 1..(n * k) PROVE s[i][1] \in Range(ts) /\ s[i][2] \in Range(tys)
  <2> DEFINE a == ((i - 1) \div k) + 1
             b == ((i - 1) % k) + 1
  <2>1. a \in 1..n /\ b \in 1..k
    BY <1>5
  <2>2. s[i] = <<ts[a], tys[b]>>
    BY <1>4
  <2> HIDE DEF a, b
  <2> QED BY <1>2, <1>3, <2>1, <2>2
<1>9. \A p \in Range(s) : p[1] \in Range(ts) /\ p[2] \in Range(tys)
  BY <1>7, <1>8 DEF Range
<1> QED BY <1>7, <1>9 DEF s

LEMMA PickedTargets ==
  ASSUME NEW ts \in Seq(Target), NEW P \in SUBSET DOMAIN ts, NEW first, Picks(first, ts, P)
  PROVE  /\ [k \in DOMAIN first |-> first[k].fs] \in Seq(FS)
         /\ \A k \in DOMAIN first : \E t \in Range(ts) : t.fs = first[k].fs
<1>0. first \in Seq(Target)
  BY PickedType
<1>1. Range(first) = {ts[i] : i \in P}
  BY RangePicked
<1>2. Len(first) \in Nat /\ DOMAIN first = 1..Len(first) /\ \A k \in DOMAIN first : first[k] \in Target
  BY <1>0, LenProperties, ElementOfSeq
<1>3. [k \in DOMAIN first |-> first[k].fs] \in [1..Len(first) -> FS]
  BY <1>2 DEF Target
<1>4. [k \in DOMAIN first |-> first[k].fs] \in Seq(FS)
  BY <1>2, <1>3, SeqDef
<1> QED BY <1>1, <1>4 DEF Range

LEMMA FileSystemsOfMembers ==
  ASSUME NEW ts \in Seq(Target)
  PROVE  /\ FileSystemsOf(ts) \in Seq(FS)
         /\ \A f \in Range(FileSystemsOf(ts)) : \E t \in Range(ts) : t.fs = f
<1> DEFINE P == {i \in DOMAIN ts : \A j \in 1..(i - 1) : ts[j].fs # ts[i].fs}
           first == Only(ts, P)
<1>1. P \in SUBSET DOMAIN ts
  OBVIOUS
<1> HIDE DEF P
<1>2. Picks(first, ts, P)
  BY <1>1, OnlyPicks
<1> HIDE DEF first
<1>3. /\ [k \in DOMAIN first |-> first[k].fs] \in Seq(FS)
      /\ \A k \in DOMAIN first : \E t \in Range(ts) : t.fs = first[k].fs
  BY <1>1, <1>2, PickedTargets
<1>4. FileSystemsOf(ts) = [k \in DOMAIN first |-> first[k].fs]
  BY DEF FileSystemsOf, first, P
<1> QED BY <1>3, <1>4 DEF Range

LEMMA TargetsFileSystems ==
  ASSUME NEW ts \in Seq(Target)
  PROVE  /\ [i \in DOMAIN ts |-> ts[i].fs] \in Seq(FS)
         /\ Range([i \in DOMAIN ts |-> ts[i].fs]) = {t.fs : t \in Range(ts)}
<1>1. Len(ts) \in Nat /\ DOMAIN ts = 1..Len(ts) /\ \A i \in DOMAIN ts : ts[i] \in Target
  BY LenProperties, ElementOfSeq
<1>2. [i \in DOMAIN ts |-> ts[i].fs] \in [1..Len(ts) -> FS]
  BY <1>1 DEF Target
<1>3. [i \in DOMAIN ts |-> ts[i].fs] \in Seq(FS)
  BY <1>1, <1>2, SeqDef
<1> QED BY <1>3 DEF Range

LEMMA DefaultTargetsMembers ==
  /\ DefaultTargets \in Seq(Target)
  /\ \A t \in Range(DefaultTargets) : t.fileset = NoFileset
<1> DEFINE n == Cardinality(FS)
           s == SetToSeq(FS)
<1>1. n \in Nat /\ s \in [1..n -> FS]
  BY QuotaAssumption, FS_CardinalityType, SetToSeqOnce
<1>2. DefaultTargets = [i \in 1..n |-> [fs |-> s[i], fileset |-> NoFileset]]
  BY DEF DefaultTargets
<1> HIDE DEF n, s
<1>3. DefaultTargets \in [1..n -> Target]
  BY <1>1, <1>2 DEF Target
<1>4. DefaultTargets \in Seq(Target)
  BY <1>1, <1>3, SeqDef
<1> QED BY <1>2, <1>4 DEF Range

LEMMA FiniteImage ==
  ASSUME NEW S, IsFiniteSet(S), NEW f, DOMAIN f = S, f = [x \in S |-> f[x]]
  PROVE  IsFiniteSet({f[x] : x \in S})
<1>1. Range(f) = {f[x] : x \in S}
  BY DEF Range
<1> QED BY <1>1, FiniteRange

\* A collection is finite, and all in it are quotas of its file system.
LEMMA CollectionMembers ==
  ASSUME ids \in [FS -> [Fileset -> 0..MaxId]], IdsDiffer,
         NEW s \in Target, NEW type \in QuotaType
  PROVE  /\ IsFiniteSet(Collection(s, type))
         /\ Collection(s, type) \subseteq Entry
         /\ \A e \in Collection(s, type) : e.fs = s.fs
<1> DEFINE Of == {[fs |-> s.fs, fileset |-> InRoot(s.fileset), type |-> type, name |-> a, id |-> Account[a]] :
                    a \in DOMAIN Account}
           N == {x \in Name : s.fileset = NoFileset /\ Exists(s.fs, x)}
           Filesets == {[fs |-> s.fs, fileset |-> n, type |-> type, name |-> n, id |-> IdOf(s.fs, n)] : n \in N}
<1>0. s.fs \in FS /\ s.fileset \in Name \cup {NoFileset}
  BY DEF Target
<1>1. InRoot(s.fileset) \in Name
  BY <1>0 DEF InRoot, Name
<1>2. Account \in [DOMAIN Account -> Nat] /\ IsFiniteSet(DOMAIN Account)
  BY QuotaAssumption
<1>3. Of \subseteq Entry /\ \A e \in Of : e.fs = s.fs
  BY <1>0, <1>1, <1>2 DEF Entry
<1>4. IsFiniteSet(Of)
  <2> DEFINE f == [a \in DOMAIN Account |-> [fs |-> s.fs, fileset |-> InRoot(s.fileset),
                                             type |-> type, name |-> a, id |-> Account[a]]]
  <2>1. DOMAIN f = DOMAIN Account /\ f = [a \in DOMAIN Account |-> f[a]]
    OBVIOUS
  <2>2. Of = {f[a] : a \in DOMAIN Account}
    OBVIOUS
  <2> HIDE DEF f, Of
  <2> QED BY <1>2, <2>1, <2>2, FiniteImage
<1>5. \A n \in Name : IdOf(s.fs, n) \in Nat
  BY <1>0, IdsApart, QuotaAssumption
<1>6. Filesets \subseteq Entry /\ \A e \in Filesets : e.fs = s.fs
  BY <1>0, <1>5 DEF Entry
<1>7. IsFiniteSet(Filesets)
  <2> DEFINE f == [n \in N |-> [fs |-> s.fs, fileset |-> n, type |-> type, name |-> n, id |-> IdOf(s.fs, n)]]
  <2>1. DOMAIN f = N /\ f = [n \in N |-> f[n]]
    OBVIOUS
  <2>2. Filesets = {f[n] : n \in N}
    OBVIOUS
  <2>3. IsFiniteSet(N)
    BY NamesFinite, FS_Subset
  <2> HIDE DEF f, Filesets, N
  <2> QED BY <2>1, <2>2, <2>3, FiniteImage
<1>8. IsFiniteSet({})
  BY FS_EmptySet
<1>9. Collection(s, type) = Filesets \/ Collection(s, type) = {} \/ Collection(s, type) = Of
  BY DEF Collection
<1> HIDE DEF Of, Filesets
<1> QED BY <1>3, <1>4, <1>6, <1>7, <1>8, <1>9

\* By id, and among equal ids by place.
Stable(s, P) ==
  {p \in P \X P : s[p[1]].id < s[p[2]].id \/ (s[p[1]].id = s[p[2]].id /\ p[1] < p[2])}

LEMMA SortOrder ==
  ASSUME NEW s \in Seq(Entry), NEW P \in SUBSET DOMAIN s
  PROVE  StrictOrder(Stable(s, P), P) /\ SortQuotas(s, P) = Taken(s, P, Stable(s, P))
<1> DEFINE R == Stable(s, P)
<1>1. P \subseteq Nat /\ \A i \in P : s[i].id \in Nat
  <2>1. P \subseteq Nat
    BY PlacesFinite
  <2>2. \A i \in P : s[i] \in Entry
    BY ElementOfSeq, LenProperties
  <2>3. \A e \in Entry : e.id \in Nat
    BY DEF Entry
  <2> QED BY <2>1, <2>2, <2>3
<1>2. \A i, j \in P : <<i, j>> \in R <=> s[i].id < s[j].id \/ (s[i].id = s[j].id /\ i < j)
  BY DEF Stable
<1>3. SortQuotas(s, P) = Taken(s, P, R)
  BY DEF SortQuotas, Stable
<1> HIDE DEF R
<1>4. StrictOrder(R, P)
  <2>1. \A i \in P : <<i, i>> \notin R
    BY <1>1, <1>2
  <2>2. ASSUME NEW i \in P, NEW j \in P PROVE i = j \/ <<i, j>> \in R \/ <<j, i>> \in R
    <3>1. i \in Nat /\ j \in Nat /\ s[i].id \in Nat /\ s[j].id \in Nat
      BY <1>1
    <3>2. i = j \/ (s[i].id < s[j].id \/ (s[i].id = s[j].id /\ i < j))
                \/ (s[j].id < s[i].id \/ (s[j].id = s[i].id /\ j < i))
      BY <3>1
    <3> QED BY <1>2, <3>2
  <2>3. ASSUME NEW i \in P, NEW j \in P, NEW k \in P, <<i, j>> \in R, <<j, k>> \in R
        PROVE  <<i, k>> \in R
    BY <1>1, <1>2, <2>3
  <2> QED BY <2>1, <2>2, <2>3 DEF StrictOrder
<1> QED BY <1>3, <1>4 DEF R

LEMMA SortPicks ==
  ASSUME NEW s \in Seq(Entry), NEW P \in SUBSET DOMAIN s
  PROVE  Picks(SortQuotas(s, P), s, P)
BY SortOrder, TakenPicks

LEMMA ReportMembers ==
  ASSUME entries \in Seq(Entry), NEW s \in Seq(Entry)
  PROVE  Report(s) \in Seq(Entry) /\ Range(Report(s)) \subseteq Range(entries) \cup Range(s)
<1> DEFINE all == entries \o s
           P == {i \in DOMAIN all : Matches(all[i], command.object)}
<1>1. all \in Seq(Entry) /\ Range(all) = Range(entries) \cup Range(s)
  BY RangeOfConcat
<1>2. CASE command.name = "mmlsquota"
  <2>1. P \in SUBSET DOMAIN all
    OBVIOUS
  <2>2. Report(s) = SortQuotas(all, P)
    BY <1>2 DEF Report
  <2> HIDE DEF P, all
  <2>3. Picks(SortQuotas(all, P), all, P)
    BY <1>1, <2>1, SortPicks
  <2>4. Report(s) \in Seq(Entry)
    BY <1>1, <2>1, <2>2, <2>3, PickedType
  <2>5. Range(Report(s)) = {all[i] : i \in P}
    BY <1>1, <2>1, <2>2, <2>3, RangePicked
  <2>6. Range(Report(s)) \subseteq Range(all)
    BY <2>1, <2>5 DEF Range
  <2> QED BY <1>1, <2>4, <2>6
<1>3. CASE command.name # "mmlsquota"
  <2> DEFINE t == SortQuotas(s, DOMAIN s)
  <2>1. Report(s) = entries \o t
    BY <1>3 DEF Report
  <2>2. Picks(t, s, DOMAIN s)
    BY SortPicks
  <2> HIDE DEF t
  <2>3. t \in Seq(Entry)
    BY <2>2, PickedType
  <2>4. Range(t) = {s[i] : i \in DOMAIN s}
    BY <2>2, RangePicked
  <2>5. Range(t) = Range(s)
    BY <2>4 DEF Range
  <2> QED BY <2>1, <2>3, <2>5, RangeOfConcat
<1> QED BY <1>2, <1>3

-----------------------------------------------------------------------------
(* The invariant *)

\* A scope is the target under way, or one of its filesets that the listing
\* had: it is there or has gone since.
Belongs(s) ==
  \/ s = Now[1]
  \/ /\ Now[1].fileset = NoFileset /\ s.fs = Now[1].fs /\ s.fileset # NoFileset
     /\ Exists(s.fs, s.fileset) \/ <<s.fs, s.fileset>> \in gone

\* What each phase finds.
UnderWay ==
  /\ phase = "exited" <=> exit # "none"
  /\ phase = "targets" =>
       targets = <<>> /\ todo = <<>> /\ found = <<>> /\ entries = <<>> /\ fids = <<>> /\ states = <<>>
  /\ phase \in {"filesystem", "filesets", "quotas"} => todo # <<>>
  /\ phase \in {"filesystem", "filesets"} => ~Direct(Now) /\ found = <<>>
  /\ phase = "filesets" => Now[1].fs \in PerFileset
  /\ phase = "quotas" => scopes # <<>> /\ \A s \in Range(scopes) : Belongs(s)
  /\ phase = "ids" \/ exit = "ok" => todo = <<>>

\* The lists under way come from the targets, and the targets from the operands.
Drawn ==
  /\ \A t \in Range(targets) : t.fileset # NoFileset => t \in Range(command.operands)
  /\ \A p \in Range(todo) : p[1] \in Range(targets) /\ p[2] \in Range(command.types)
  /\ \A f \in Range(idsTodo) : \E t \in Range(targets) : t.fs = f
  /\ \A e \in Range(found) \cup Range(entries) : \E t \in Range(targets) : t.fs = e.fs

\* Ids read of a file system that all targets are in are right while the
\* fileset stays.
IdsRead ==
  \A f \in FS :
    (\A t \in Range(targets) : t.fs = f) =>
      \A n \in DOMAIN fids : Steady(f, n) => fids[n] = IdOf(f, n)

\* The states of a file system are right; each is read, still to be read, or
\* was not to be had.
StatesRead ==
  /\ \A f \in DOMAIN states : states[f] = Enforced[f]
  /\ (phase = "ids" \/ exit = "ok") /\ ReadsStates /\ ~trouble =>
       \A t \in Range(targets) : t.fs \in DOMAIN states \cup Range(statesTodo)
  /\ exit = "ok" => statesTodo = <<>>

\* The quotas a report has to have.
Kept == {e \in AnyQuota : Steady(e.fs, e.fileset)}

\* The pairs that ask for a quota, and the collections that hold it.
Asking(e) == {p \in Target \X QuotaType : p[2] = e.type /\ AsksFor(p[1], e) /\ About(e)}
Holding(e, type) ==
  {s \in Target :
     /\ s.fs = e.fs /\ type = e.type
     /\ IF type = "FILESET" THEN s.fileset = NoFileset
        ELSE InRoot(s.fileset) = e.fileset /\ ~(s.fileset = NoFileset /\ s.fs \in PerFileset)}

\* A quota stands in the report once for each pair done that asks for it, and
\* of the pair under way it is read or in one of the collections still to read.
EachOnce ==
  \A e \in Kept :
    /\ Count(entries, {e}) + Count(todo, Asking(e)) = Count(Pairs(targets, command.types), Asking(e))
    /\ phase = "quotas" =>
         Count(found, {e}) + Count(scopes, Holding(e, Now[2])) =
           IF Now[2] = e.type /\ AsksFor(Now[1], e) THEN 1 ELSE 0

-----------------------------------------------------------------------------
(* Types *)

LEMMA QuotaInit ==
  ASSUME Init
  PROVE  TypeOK /\ IdsDiffer
<1>0. \A f \in FS : lastId[f] \in 0..MaxId /\ \A n \in Fileset : ids[f][n] <= lastId[f]
  <2> SUFFICES ASSUME NEW f \in FS
               PROVE  lastId[f] \in 0..MaxId /\ \A n \in Fileset : ids[f][n] <= lastId[f]
    OBVIOUS
  <2> DEFINE m == Max({0} \cup {InitialIds[f][n] : n \in Fileset})
  <2>1. m \in 0..MaxId /\ \A n \in Fileset : InitialIds[f][n] <= m
    BY LastInitialId
  <2>2. lastId[f] = m /\ ids = InitialIds
    BY DEF Init
  <2> HIDE DEF m
  <2> QED BY <2>1, <2>2
<1>1. lastId \in [FS -> 0..MaxId]
  <2>1. lastId = [f \in FS |-> lastId[f]]
    BY DEF Init
  <2> QED BY <1>0, <2>1
<1>2. IdsDiffer
  BY <1>0, QuotaAssumption DEF IdsDiffer, Init
<1>3. /\ <<>> \in Seq(Target) /\ <<>> \in Seq(Target \X QuotaType) /\ <<>> \in Seq(Entry)
      /\ <<>> \in Seq(FS) /\ DOMAIN <<>> = {} /\ Range(<<>>) = {}
  BY EmptySeq DEF Range
<1>4. TypeOK
  BY <1>1, <1>3, QuotaAssumption DEF Init, TypeOK, Phase
<1> QED BY <1>2, <1>4

LEMMA ContinueType ==
  ASSUME TypeOK, NEW ts \in Seq(Target), NEW pairs \in Seq(Target \X QuotaType), Continue(ts, pairs)
  PROVE  /\ todo' = pairs
         /\ phase' \in {"ids", "exited", "quotas", "filesystem"}
         /\ scopes' \in Seq(Target)
         /\ idsTodo' \in Seq(FS)
         /\ statesTodo' \in Seq(FS)
         /\ exit' \in {"none", "ok", "failed", "usage"}
<1>1. <<>> \in Seq(Target) /\ <<>> \in Seq(FS)
  BY EmptySeq
<1>2. FileSystemsOf(ts) \in Seq(FS) /\ [i \in DOMAIN ts |-> ts[i].fs] \in Seq(FS)
  BY FileSystemsOfMembers, TargetsFileSystems
<1>3. pairs # <<>> => <<Head(pairs)[1]>> \in Seq(Target)
  <2>1. ASSUME pairs # <<>> PROVE Head(pairs) \in Target \X QuotaType
    BY <2>1
  <2>2. ASSUME pairs # <<>> PROVE Head(pairs)[1] \in Target
    BY <2>1, <2>2
  <2>3. \A t \in Target : <<t>> \in Seq(Target)
    OBVIOUS
  <2> QED BY <2>2, <2>3
<1>4. idsTodo \in Seq(FS) /\ statesTodo \in Seq(FS) /\ exit \in {"none", "ok", "failed", "usage"}
  BY DEF TypeOK
<1>5. CASE pairs = <<>>
  BY <1>1, <1>2, <1>4, <1>5 DEF Continue
<1>6. CASE pairs # <<>>
  BY <1>1, <1>3, <1>4, <1>6 DEF Continue
<1> QED BY <1>5, <1>6

Core == TypeOK /\ IdsDiffer /\ UnderWay

LEMMA NowType ==
  ASSUME Core, phase \in {"filesystem", "filesets", "quotas"}
  PROVE  /\ todo # <<>> /\ Tail(todo) \in Seq(Target \X QuotaType)
         /\ Now \in Range(todo) /\ Range(Tail(todo)) \subseteq Range(todo)
         /\ Now = <<Now[1], Now[2]>> /\ Now[1] \in Target /\ Now[2] \in QuotaType
         /\ Now[1].fs \in FS /\ Now[1].fileset \in Name \cup {NoFileset}
<1>1. todo \in Seq(Target \X QuotaType) /\ todo # <<>>
  BY DEF Core, TypeOK, UnderWay
<1>2. Head(todo) \in Range(todo) /\ Tail(todo) \in Seq(Target \X QuotaType)
      /\ Range(Tail(todo)) \subseteq Range(todo)
  BY <1>1, RangeOfParts
<1>3. Head(todo) \in Target \X QuotaType
  BY <1>1
<1>4. \A t \in Target : t.fs \in FS /\ t.fileset \in Name \cup {NoFileset}
  BY DEF Target
<1> QED BY <1>1, <1>2, <1>3, <1>4 DEF Now

\* The quotas read of a collection are those of its file system.
LEMMA ReadMembers ==
  ASSUME Core, phase = "quotas"
  PROVE  LET s == Head(scopes)
             read == found \o SetToSeq(Collection(s, Now[2]))
         IN  /\ s \in Range(scopes) /\ s \in Target
             /\ Tail(scopes) \in Seq(Target) /\ Range(Tail(scopes)) \subseteq Range(scopes)
             /\ IsFiniteSet(Collection(s, Now[2]))
             /\ SetToSeq(Collection(s, Now[2])) \in Seq(Entry)
             /\ read \in Seq(Entry)
             /\ \A e \in Range(read) : e \in Range(found) \/ e.fs = s.fs
<1> DEFINE s == Head(scopes)
           C == Collection(s, Now[2])
<1>1. scopes \in Seq(Target) /\ scopes # <<>> /\ found \in Seq(Entry)
  BY DEF Core, TypeOK, UnderWay
<1>2. s \in Range(scopes) /\ Range(scopes) \subseteq Target /\ Tail(scopes) \in Seq(Target)
      /\ Range(Tail(scopes)) \subseteq Range(scopes)
  BY <1>1, RangeOfParts
<1>3. Now[2] \in QuotaType
  BY NowType
<1>4. IsFiniteSet(C) /\ C \subseteq Entry /\ \A e \in C : e.fs = s.fs
  <2> HIDE DEF s
  <2>1. s \in Target
    BY <1>2
  <2> QED BY <1>3, <2>1, CollectionMembers DEF Core, TypeOK
<1> HIDE DEF C, s
<1>5. SetToSeq(C) \in Seq(C) /\ Range(SetToSeq(C)) = C
  BY <1>4, RangeOfListedSet
<1>6. SetToSeq(C) \in Seq(Entry)
  BY <1>4, <1>5
<1>7. found \o SetToSeq(C) \in Seq(Entry) /\ Range(found \o SetToSeq(C)) = Range(found) \cup C
  BY <1>1, <1>5, <1>6, RangeOfConcat
<1> QED BY <1>2, <1>4, <1>6, <1>7 DEF C, s

LEMMA ListingMembers ==
  ASSUME Core, NEW f \in FS
  PROVE  LET filesets == ById(f)
             s == [i \in DOMAIN filesets |-> [fs |-> f, fileset |-> filesets[i]]]
         IN  /\ s \in Seq(Target) /\ s # <<>>
             /\ \A t \in Range(s) : t.fs = f /\ t.fileset \in Name /\ Exists(f, t.fileset)
<1> DEFINE S == {n \in Name : Exists(f, n)}
           c == Cardinality(S)
           s == [i \in DOMAIN ById(f) |-> [fs |-> f, fileset |-> ById(f)[i]]]
<1>1. c \in Nat /\ ById(f) \in [1..c -> S] /\ 1 <= c
  BY ByIdListsAll DEF Core, TypeOK
<1>2. DOMAIN ById(f) = 1..c /\ \A i \in 1..c : ById(f)[i] \in Name /\ Exists(f, ById(f)[i])
  BY <1>1
<1> HIDE DEF c
<1>3. s \in [1..c -> Target]
  BY <1>2 DEF Target
<1>4. s \in Seq(Target) /\ DOMAIN s = 1..c
  BY <1>1, <1>3, SeqDef
<1>5. s # <<>>
  BY <1>1, <1>4
<1>6. \A i \in 1..c : s[i].fs = f /\ s[i].fileset \in Name /\ Exists(f, s[i].fileset)
  BY <1>2
<1> HIDE DEF s
<1>7. \A t \in Range(s) : t.fs = f /\ t.fileset \in Name /\ Exists(f, t.fileset)
  BY <1>4, <1>6 DEF Range
<1> QED BY <1>4, <1>5, <1>7 DEF s

LEMMA WithIdsType ==
  ASSUME Core, NEW f \in FS
  PROVE  DOMAIN WithIds(f, fids) \subseteq Name /\ Range(WithIds(f, fids)) \subseteq 0..MaxId
<1>1. \A n \in Name : IdOf(f, n) \in 0..MaxId
  BY IdsApart DEF Core, TypeOK
<1>2. DOMAIN fids \subseteq Name /\ \A n \in DOMAIN fids : fids[n] \in 0..MaxId
  BY DEF Core, TypeOK, Range
<1> QED BY <1>1, <1>2 DEF WithIds, Range

LEMMA GetStatesMembers ==
  ASSUME Core, statesTodo # <<>>
  PROVE  LET f == Head(statesTodo)
             rest == Only(statesTodo, {i \in DOMAIN statesTodo : statesTodo[i] # f})
         IN  f \in FS /\ rest \in Seq(FS) /\ Range(statesTodo) \subseteq {f} \cup Range(rest)
<1> DEFINE f == Head(statesTodo)
           P == {i \in DOMAIN statesTodo : statesTodo[i] # f}
<1>1. statesTodo \in Seq(FS)
  BY DEF Core, TypeOK
<1>2. f \in FS
  BY <1>1
<1>3. P \in SUBSET DOMAIN statesTodo
  OBVIOUS
<1>4. \A i \in DOMAIN statesTodo : i \in P \/ statesTodo[i] = f
  OBVIOUS
<1> HIDE DEF P, f
<1>5. Picks(Only(statesTodo, P), statesTodo, P)
  BY <1>1, <1>3, OnlyPicks
<1>6. Only(statesTodo, P) \in Seq(FS)
  BY <1>1, <1>3, <1>5, PickedType
<1>7. Range(Only(statesTodo, P)) = {statesTodo[i] : i \in P}
  BY <1>1, <1>3, <1>5, RangePicked
<1>8. Range(statesTodo) \subseteq {f} \cup Range(Only(statesTodo, P))
  BY <1>4, <1>7 DEF Range
<1> QED BY <1>2, <1>6, <1>8 DEF P, f

LEMMA TypeStep ==
  ASSUME Core, Next
  PROVE  TypeOK' /\ IdsDiffer'
<1>0. TypeOK /\ IdsDiffer
  BY DEF Core
<1>1. CASE ResolveTargets
  <2>1. command.operands \in Seq(Target) /\ command.types \in Seq(QuotaType)
    BY <1>0, QuotaAssumption DEF QuotaCommand, TypeOK
  <2>2. targets' \in Seq(Target)
    BY <1>1, <2>1, DefaultTargetsMembers DEF ResolveTargets
  <2>3. Pairs(targets', command.types) \in Seq(Target \X QuotaType)
    BY <2>1, <2>2, PairsMembers
  <2>4. Continue(targets', Pairs(targets', command.types))
    BY <1>1 DEF ResolveTargets
  <2>5. /\ todo' \in Seq(Target \X QuotaType) /\ phase' \in Phase /\ scopes' \in Seq(Target)
        /\ idsTodo' \in Seq(FS) /\ statesTodo' \in Seq(FS) /\ exit' \in {"none", "ok", "failed", "usage"}
    BY <1>0, <2>2, <2>3, <2>4, ContinueType DEF Phase
  <2> QED BY <1>0, <1>1, <2>2, <2>5 DEF ResolveTargets, gui, given, TypeOK, IdsDiffer
<1>2. CASE GetFilesystem
  <2>1. <<Now[1]>> \in Seq(Target)
    BY <1>2, NowType DEF GetFilesystem
  <2> QED BY <1>0, <1>2, <2>1 DEF GetFilesystem, Fail, gui, given, decoration, TypeOK, IdsDiffer, Phase
<1>3. CASE ListFilesets
  <2>1. Now[1].fs \in FS
    BY <1>3, NowType DEF ListFilesets
  <2>2. scopes' \in Seq(Target)
    BY <1>3, <2>1, ListingMembers DEF ListFilesets
  <2> QED BY <1>0, <1>3, <2>2 DEF ListFilesets, gui, given, decoration, TypeOK, IdsDiffer, Phase
<1>4. CASE GetQuotas
  <2> DEFINE s == Head(scopes)
             read == found \o SetToSeq(Collection(s, Now[2]))
  <2>1. read \in Seq(Entry) /\ Tail(scopes) \in Seq(Target)
    BY <1>4, ReadMembers DEF GetQuotas
  <2>2. /\ UNCHANGED <<gui, given, targets, fids, states, trouble>>
        /\ \/ /\ found' = read /\ scopes' = Tail(scopes)
              /\ UNCHANGED <<phase, todo, entries, idsTodo, statesTodo, exit>>
           \/ /\ entries' = Report(read) /\ found' = <<>> /\ Continue(targets, Tail(todo))
           \/ Fail /\ UNCHANGED <<collected, idsTodo, statesTodo>>
    BY <1>4 DEF GetQuotas
  <2> HIDE DEF read
  <2>3. CASE /\ found' = read /\ scopes' = Tail(scopes)
             /\ UNCHANGED <<phase, todo, entries, idsTodo, statesTodo, exit>>
    BY <1>0, <2>1, <2>2, <2>3 DEF gui, given, TypeOK, IdsDiffer
  <2>4. CASE entries' = Report(read) /\ found' = <<>> /\ Continue(targets, Tail(todo))
    <3>1. Tail(todo) \in Seq(Target \X QuotaType) /\ targets \in Seq(Target)
      BY <1>0, <1>4, NowType DEF GetQuotas, TypeOK
    <3>2. /\ todo' \in Seq(Target \X QuotaType) /\ phase' \in Phase /\ scopes' \in Seq(Target)
          /\ idsTodo' \in Seq(FS) /\ statesTodo' \in Seq(FS) /\ exit' \in {"none", "ok", "failed", "usage"}
      BY <1>0, <2>4, <3>1, ContinueType DEF Phase
    <3>3. entries' \in Seq(Entry)
      BY <1>0, <2>1, <2>4, ReportMembers DEF TypeOK
    <3>4. found' \in Seq(Entry)
      BY <2>4, EmptySeq
    <3> QED BY <1>0, <2>2, <3>2, <3>3, <3>4 DEF gui, given, TypeOK, IdsDiffer
  <2>5. CASE Fail /\ UNCHANGED <<collected, idsTodo, statesTodo>>
    BY <1>0, <2>2, <2>5 DEF Fail, gui, given, collected, TypeOK, IdsDiffer, Phase
  <2> QED BY <2>2, <2>3, <2>4, <2>5
<1>5. CASE GetIds
  <2>1. idsTodo \in Seq(FS) /\ idsTodo # <<>>
    BY <1>0, <1>5 DEF GetIds, TypeOK
  <2>2. Head(idsTodo) \in FS /\ Tail(idsTodo) \in Seq(FS)
    BY <2>1
  <2>3. DOMAIN fids' \subseteq Name /\ Range(fids') \subseteq 0..MaxId
    BY <1>5, <2>2, WithIdsType DEF GetIds
  <2> QED BY <1>0, <1>5, <2>2, <2>3 DEF GetIds, gui, given, collected, TypeOK, IdsDiffer
<1>6. CASE IdsUnavailable
  <2>1. Tail(idsTodo) \in Seq(FS)
    BY <1>0, <1>6 DEF IdsUnavailable, TypeOK
  <2> QED BY <1>0, <1>6, <2>1 DEF IdsUnavailable, gui, given, collected, TypeOK, IdsDiffer
<1>7. CASE GetStates
  <2> DEFINE f == Head(statesTodo)
  <2>1. f \in FS /\ statesTodo' \in Seq(FS)
    BY <1>7, GetStatesMembers DEF GetStates
  <2>2. states' = [d \in DOMAIN states \cup {f} |-> IF d = f THEN Enforced[f] ELSE states[d]]
    BY <1>7 DEF GetStates
  <2> HIDE DEF f
  <2>3. Enforced[f] \subseteq QuotaType
    BY <2>1, QuotaAssumption
  <2>4. DOMAIN states' \subseteq FS /\ Range(states') \subseteq SUBSET QuotaType
    BY <1>0, <2>1, <2>2, <2>3 DEF TypeOK, Range
  <2> QED BY <1>0, <1>7, <2>1, <2>4 DEF GetStates, gui, given, collected, TypeOK, IdsDiffer
<1>8. CASE StatesUnavailable
  <2>1. Tail(statesTodo) \in Seq(FS)
    BY <1>0, <1>8 DEF StatesUnavailable, TypeOK
  <2> QED BY <1>0, <1>8, <2>1 DEF StatesUnavailable, gui, given, collected, TypeOK, IdsDiffer
<1>9. CASE PrintReport
  BY <1>0, <1>9 DEF PrintReport, gui, given, collected, decoration, TypeOK, IdsDiffer, Phase
<1>10. CASE RequestFails
  BY <1>0, <1>10 DEF RequestFails, Fail, gui, given, collected, decoration, TypeOK, IdsDiffer, Phase
<1>11. ASSUME NEW f \in FS, NEW n \in Fileset, CreateFileset(f, n) PROVE TypeOK' /\ IdsDiffer'
  <2> DEFINE new == lastId[f] + 1
  <2>1. /\ new \in 0..MaxId /\ new > lastId[f] /\ lastId[f] \in Nat
        /\ ids' = [ids EXCEPT ![f][n] = new] /\ lastId' = [lastId EXCEPT ![f] = new]
        /\ made' = made \cup {<<f, n>>}
        /\ UNCHANGED <<given, phase, targets, collected, decoration, exit, trouble, gone>>
    BY <1>0, <1>11, QuotaAssumption DEF CreateFileset, TypeOK
  <2> HIDE DEF new
  <2>2. ids \in [FS -> [Fileset -> 0..MaxId]] /\ lastId \in [FS -> 0..MaxId] /\ MaxId \in Nat
    BY <1>0, QuotaAssumption DEF TypeOK
  <2>3. ids' \in [FS -> [Fileset -> 0..MaxId]] /\ lastId' \in [FS -> 0..MaxId]
    BY <2>1, <2>2
  <2>4. TypeOK'
    BY <1>0, <2>1, <2>3 DEF given, collected, decoration, TypeOK
  <2>5. \A g \in FS, m \in Fileset : /\ ids'[g][m] = IF g = f /\ m = n THEN new ELSE ids[g][m]
                                     /\ lastId'[g] = IF g = f THEN new ELSE lastId[g]
                                     /\ ids[g][m] <= lastId[g]
                                     /\ ids[g][m] \in Nat /\ lastId[g] \in Nat
    BY <1>0, <2>1, <2>2 DEF IdsDiffer
  <2>6. ASSUME NEW g \in FS, NEW m \in Fileset PROVE ids'[g][m] <= lastId'[g]
    BY <2>1, <2>2, <2>5
  <2>7. ASSUME NEW g \in FS, NEW k \in Fileset, NEW m \in Fileset, ids'[g][k] = ids'[g][m], k # m
        PROVE  ids'[g][k] = 0
    <3>1. CASE g # f
      BY <1>0, <2>5, <2>7, <3>1 DEF IdsDiffer
    <3>2. CASE g = f /\ k # n /\ m # n
      BY <1>0, <2>5, <2>7, <3>2 DEF IdsDiffer
    <3>3. CASE g = f /\ (k = n \/ m = n)
      BY <2>1, <2>5, <2>7, <3>3
    <3> QED BY <3>1, <3>2, <3>3
  <2> QED BY <2>4, <2>6, <2>7 DEF IdsDiffer
<1>12. ASSUME NEW f \in FS, NEW n \in Fileset, DeleteFileset(f, n) PROVE TypeOK' /\ IdsDiffer'
  <2>1. /\ ids' = [ids EXCEPT ![f][n] = 0]
        /\ gone' = gone \cup {<<f, n>>}
        /\ UNCHANGED <<lastId, given, phase, targets, collected, decoration, exit, trouble, made>>
    BY <1>12 DEF DeleteFileset
  <2>2. ids \in [FS -> [Fileset -> 0..MaxId]] /\ lastId \in [FS -> 0..MaxId] /\ MaxId \in Nat
    BY <1>0, QuotaAssumption DEF TypeOK
  <2>3. ids' \in [FS -> [Fileset -> 0..MaxId]]
    BY <2>1, <2>2
  <2>4. TypeOK'
    BY <1>0, <2>1, <2>3 DEF given, collected, decoration, TypeOK
  <2>5. \A g \in FS, m \in Fileset : /\ ids'[g][m] = IF g = f /\ m = n THEN 0 ELSE ids[g][m]
                                     /\ ids[g][m] <= lastId[g]
                                     /\ ids[g][m] \in Nat /\ lastId[g] \in Nat
    BY <1>0, <2>1, <2>2 DEF IdsDiffer
  <2>6. \A g \in FS, m \in Fileset : ids'[g][m] <= lastId'[g]
    BY <2>1, <2>5
  <2>7. \A g \in FS : \A k, m \in Fileset : ids'[g][k] = ids'[g][m] /\ k # m => ids'[g][k] = 0
    BY <1>0, <2>5 DEF IdsDiffer
  <2> QED BY <2>4, <2>6, <2>7 DEF IdsDiffer
<1> QED BY <1>1, <1>2, <1>3, <1>4, <1>5, <1>6, <1>7, <1>8, <1>9, <1>10, <1>11, <1>12 DEF Next, Command

-----------------------------------------------------------------------------
(* The order of the requests *)

LEMMA OneRange == \A x : Range(<<x>>) = {x} /\ <<x>> # <<>>
<1> SUFFICES ASSUME NEW x PROVE Range(<<x>>) = {x} /\ <<x>> # <<>>
  OBVIOUS
<1>1. DOMAIN <<x>> = {1} /\ <<x>>[1] = x
  OBVIOUS
<1> QED BY <1>1 DEF Range

LEMMA EmptyRange == Range(<<>>) = {}
BY DEF Range

\* What Continue does, in each of its cases.
LEMMA ContinueCases ==
  ASSUME NEW ts, NEW pairs, Continue(ts, pairs)
  PROVE  /\ todo' = pairs
         /\ \/ /\ pairs = <<>> /\ phase' = "ids" /\ exit' = exit
               /\ idsTodo' = IF ReadsIds THEN FileSystemsOf(ts) ELSE <<>>
               /\ statesTodo' = IF ReadsStates THEN [i \in DOMAIN ts |-> ts[i].fs] ELSE <<>>
            \/ /\ pairs # <<>> /\ Refused(Head(pairs)) /\ phase' = "exited" /\ exit' = "usage"
               /\ UNCHANGED <<idsTodo, statesTodo>>
            \/ /\ pairs # <<>> /\ Direct(Head(pairs)) /\ phase' = "quotas"
               /\ scopes' = <<Head(pairs)[1]>> /\ exit' = exit /\ UNCHANGED <<idsTodo, statesTodo>>
            \/ /\ pairs # <<>> /\ ~Direct(Head(pairs)) /\ phase' = "filesystem" /\ exit' = exit
               /\ UNCHANGED <<idsTodo, statesTodo>>
<1>1. CASE pairs = <<>>
  BY <1>1 DEF Continue
<1>2. CASE pairs # <<>> /\ Refused(Head(pairs))
  BY <1>2 DEF Continue
<1>3. CASE pairs # <<>> /\ ~Refused(Head(pairs)) /\ Direct(Head(pairs))
  BY <1>3 DEF Continue
<1>4. CASE pairs # <<>> /\ ~Refused(Head(pairs)) /\ ~Direct(Head(pairs))
  BY <1>4 DEF Continue
<1> QED BY <1>1, <1>2, <1>3, <1>4

LEMMA ContinueUnderWay ==
  ASSUME NEW ts, NEW pairs, Continue(ts, pairs), exit = "none", found' = <<>>
  PROVE  UnderWay'
<1>1. todo' = pairs /\ (Now)' = Head(todo')
  BY ContinueCases DEF Now
<1>2. CASE pairs = <<>> /\ phase' = "ids" /\ exit' = exit
  BY <1>1, <1>2 DEF UnderWay
<1>3. CASE phase' = "exited" /\ exit' = "usage"
  BY <1>1, <1>3 DEF UnderWay
<1>4. CASE /\ pairs # <<>> /\ Direct(Head(pairs)) /\ phase' = "quotas"
           /\ scopes' = <<Head(pairs)[1]>> /\ exit' = exit
  <2>1. Range(scopes') = {(Now)'[1]} /\ scopes' # <<>>
    BY <1>1, <1>4, OneRange
  <2>2. \A s \in Range(scopes') : Belongs(s)'
    BY <2>1 DEF Belongs
  <2> QED BY <1>1, <1>4, <2>1, <2>2 DEF UnderWay
<1>5. CASE pairs # <<>> /\ ~Direct(Head(pairs)) /\ phase' = "filesystem" /\ exit' = exit
  <2>1. ~Direct(Now)'
    BY <1>1, <1>5 DEF Direct
  <2> QED BY <1>1, <1>5, <2>1 DEF UnderWay
<1> QED BY <1>2, <1>3, <1>4, <1>5, ContinueCases

\* Filesets come and go under a command without disturbing its scopes.
LEMMA GuiKeepsScopes ==
  ASSUME Core, NEW f \in FS, NEW n \in Fileset, CreateFileset(f, n) \/ DeleteFileset(f, n),
         NEW s \in Target, Belongs(s)
  PROVE  Belongs(s)'
<1>1. ids \in [FS -> [Fileset -> 0..MaxId]] /\ lastId \in [FS -> 0..MaxId] /\ todo' = todo
  BY DEF Core, TypeOK, CreateFileset, DeleteFileset, collected
<1>2. s.fs \in FS
  BY DEF Target
<1>3. CASE CreateFileset(f, n)
  <2>1. ids' = [ids EXCEPT ![f][n] = lastId[f] + 1] /\ gone' = gone /\ lastId[f] + 1 # 0
    BY <1>1, <1>3 DEF CreateFileset
  <2> DEFINE new == lastId[f] + 1
  <2> HIDE DEF new
  <2>2. ids' = [ids EXCEPT ![f][n] = new] /\ new # 0
    BY <2>1 DEF new
  <2>3. Exists(s.fs, s.fileset) => Exists(s.fs, s.fileset)'
    BY <1>1, <1>2, <2>2 DEF Exists
  <2> QED BY <1>1, <2>1, <2>3 DEF Belongs, Now
<1>4. CASE DeleteFileset(f, n)
  <2>1. ids' = [ids EXCEPT ![f][n] = 0] /\ gone' = gone \cup {<<f, n>>}
    BY <1>4 DEF DeleteFileset
  <2>2. Exists(s.fs, s.fileset) => Exists(s.fs, s.fileset)' \/ <<s.fs, s.fileset>> = <<f, n>>
    BY <1>1, <1>2, <2>1 DEF Exists
  <2> QED BY <1>1, <2>1, <2>2 DEF Belongs, Now
<1> QED BY <1>3, <1>4

LEMMA UnderWayStep ==
  ASSUME Core, Next
  PROVE  UnderWay'
<1>0. UnderWay /\ TypeOK
  BY DEF Core
<1>1. CASE ResolveTargets
  <2>1. exit = "none" /\ found' = <<>>
    BY <1>0, <1>1 DEF UnderWay, ResolveTargets, Phase, TypeOK
  <2>2. Continue(targets', Pairs(targets', command.types))
    BY <1>1 DEF ResolveTargets
  <2> QED BY <2>1, <2>2, ContinueUnderWay
<1>2. CASE GetFilesystem
  <2>1. Range(<<Now[1]>>) = {Now[1]} /\ <<Now[1]>> # <<>>
    BY OneRange
  <2>2. Belongs(Now[1])
    BY DEF Belongs
  <2> QED BY <1>0, <1>2, <2>1, <2>2 DEF UnderWay, GetFilesystem, Fail, Belongs, Now, Direct, Exists, gui, given, decoration
<1>3. CASE ListFilesets
  <2>1. Now[1].fs \in FS
    BY <1>3, NowType DEF ListFilesets
  <2>2. /\ scopes' # <<>>
        /\ \A s \in Range(scopes') : /\ s.fs = Now[1].fs /\ s.fileset \in Name
                                     /\ Exists(Now[1].fs, s.fileset)
    BY <1>3, <2>1, ListingMembers DEF ListFilesets
  <2>3. UNCHANGED <<ids, gone, todo>> /\ Now[1].fileset = NoFileset
    BY <1>0, <1>3 DEF ListFilesets, gui, UnderWay, Direct
  <2>4. \A n \in Name : n # NoFileset
    BY QuotaAssumption DEF Name, Root, NoFileset
  <2>5. \A s \in Range(scopes') : Belongs(s)
    BY <2>2, <2>3, <2>4 DEF Belongs
  <2>6. \A s \in Range(scopes') : Belongs(s)'
    BY <2>3, <2>5 DEF Belongs, Now, Exists
  <2> QED BY <1>0, <1>3, <2>2, <2>6 DEF UnderWay, ListFilesets, gui, given, decoration
<1>4. CASE GetQuotas
  <2>0. phase = "quotas" /\ exit = "none"
    BY <1>0, <1>4 DEF GetQuotas, UnderWay
  <2>1. CASE /\ Len(scopes) > 1 /\ scopes' = Tail(scopes)
             /\ UNCHANGED <<ids, gone, phase, todo, exit>>
    <3>1. scopes \in Seq(Target)
      BY <1>0 DEF TypeOK
    <3>2. scopes' # <<>>
      BY <2>1, <3>1
    <3>3. Range(scopes') \subseteq Range(scopes)
      BY <1>4, <2>1, ReadMembers DEF GetQuotas
    <3>4. \A s \in Range(scopes') : Belongs(s)'
      BY <1>0, <2>0, <2>1, <3>3 DEF UnderWay, Belongs, Now, Exists
    <3> QED BY <1>0, <2>0, <2>1, <3>2, <3>4 DEF UnderWay
  <2>2. CASE found' = <<>> /\ Continue(targets, Tail(todo))
    BY <2>0, <2>2, ContinueUnderWay
  <2>3. CASE Fail
    BY <2>3 DEF Fail, UnderWay
  <2> QED BY <1>4, <2>1, <2>2, <2>3 DEF GetQuotas, gui
<1>5. CASE GetIds \/ IdsUnavailable
  BY <1>0, <1>5 DEF GetIds, IdsUnavailable, gui, given, collected, UnderWay
<1>6. CASE GetStates \/ StatesUnavailable
  BY <1>0, <1>6 DEF GetStates, StatesUnavailable, gui, given, collected, UnderWay
<1>7. CASE PrintReport
  BY <1>0, <1>7 DEF PrintReport, gui, given, collected, decoration, UnderWay
<1>8. CASE RequestFails
  BY <1>0, <1>8 DEF RequestFails, Fail, gui, given, collected, decoration, UnderWay
<1>9. ASSUME NEW f \in FS, NEW n \in Fileset, CreateFileset(f, n) \/ DeleteFileset(f, n) PROVE UnderWay'
  <2>1. UNCHANGED <<given, phase, targets, collected, decoration, exit>>
    BY <1>9 DEF CreateFileset, DeleteFileset
  <2>2. ASSUME phase = "quotas", NEW s \in Range(scopes) PROVE Belongs(s)'
    <3>1. s \in Target /\ Belongs(s)
      BY <1>0, <2>2, RangeOfParts DEF TypeOK, UnderWay
    <3> QED BY <1>9, <3>1, GuiKeepsScopes
  <2> QED BY <1>0, <2>1, <2>2 DEF UnderWay, given, collected, decoration, Now, Direct
<1> QED BY <1>1, <1>2, <1>3, <1>4, <1>5, <1>6, <1>7, <1>8, <1>9 DEF Next, Command

LEMMA ContinueDrawn ==
  ASSUME NEW ts \in Seq(Target), NEW pairs, Continue(ts, pairs),
         \A f \in Range(idsTodo) : \E t \in Range(ts) : t.fs = f
  PROVE  \A f \in Range(idsTodo') : \E t \in Range(ts) : t.fs = f
<1>1. CASE idsTodo' = idsTodo
  BY <1>1
<1>2. CASE idsTodo' = FileSystemsOf(ts)
  BY <1>2, FileSystemsOfMembers
<1>3. CASE idsTodo' = <<>>
  BY <1>3, EmptyRange
<1> QED BY <1>1, <1>2, <1>3, ContinueCases

LEMMA DrawnStep ==
  ASSUME Core, Drawn, Next
  PROVE  Drawn'
<1>0. UnderWay /\ TypeOK
  BY DEF Core
<1>1. CASE ResolveTargets
  <2>1. command.operands \in Seq(Target) /\ command.types \in Seq(QuotaType)
    BY <1>0, QuotaAssumption DEF QuotaCommand, TypeOK
  <2>2. /\ targets' \in Seq(Target)
        /\ \A t \in Range(targets') : t.fileset # NoFileset => t \in Range(command.operands)
    BY <1>1, <2>1, DefaultTargetsMembers DEF ResolveTargets
  <2>3. \A p \in Range(Pairs(targets', command.types)) :
          p[1] \in Range(targets') /\ p[2] \in Range(command.types)
    BY <2>1, <2>2, PairsMembers
  <2>4. Continue(targets', Pairs(targets', command.types)) /\ todo' = Pairs(targets', command.types)
    BY <1>1, ContinueCases DEF ResolveTargets
  <2>5. targets = <<>> /\ found = <<>> /\ entries = <<>> /\ UNCHANGED <<found, entries, command>>
    BY <1>0, <1>1 DEF UnderWay, ResolveTargets, given
  <2>6. Range(idsTodo) = {}
    BY <2>5, EmptyRange DEF Drawn
  <2>7. \A f \in Range(idsTodo') : \E t \in Range(targets') : t.fs = f
    BY <2>2, <2>4, <2>6, ContinueDrawn
  <2> QED BY <2>2, <2>3, <2>4, <2>5, <2>7, EmptyRange DEF Drawn
<1>2. CASE GetQuotas
  <2> DEFINE s == Head(scopes)
             read == found \o SetToSeq(Collection(s, Now[2]))
  <2>0. UNCHANGED <<command, targets>> /\ phase = "quotas"
    BY <1>2 DEF GetQuotas, given
  <2>1. read \in Seq(Entry) /\ s \in Range(scopes) /\ \A e \in Range(read) : e \in Range(found) \/ e.fs = s.fs
    BY <1>0, <2>0, ReadMembers
  <2>2. Now \in Range(todo) /\ Range(Tail(todo)) \subseteq Range(todo) /\ targets \in Seq(Target)
    BY <1>0, <2>0, NowType DEF TypeOK
  <2>3. Now[1] \in Range(targets) /\ s.fs = Now[1].fs
    BY <1>0, <2>0, <2>1, <2>2 DEF Drawn, UnderWay, Belongs
  <2>4. \A e \in Range(read) : \E t \in Range(targets) : t.fs = e.fs
    BY <2>1, <2>3 DEF Drawn
  <2>5. /\ \/ found' = read /\ UNCHANGED <<todo, entries, idsTodo>>
           \/ entries' = Report(read) /\ found' = <<>> /\ Continue(targets, Tail(todo))
           \/ UNCHANGED <<found, todo, entries, idsTodo>>
    BY <1>2 DEF GetQuotas, collected
  <2> HIDE DEF read, s
  <2>6. CASE found' = read /\ UNCHANGED <<todo, entries, idsTodo>>
    BY <2>0, <2>4, <2>6 DEF Drawn
  <2>7. CASE entries' = Report(read) /\ found' = <<>> /\ Continue(targets, Tail(todo))
    <3>1. Range(entries') \subseteq Range(entries) \cup Range(read)
      BY <1>0, <2>1, <2>7, ReportMembers DEF TypeOK
    <3>2. \A e \in Range(found') \cup Range(entries') : \E t \in Range(targets) : t.fs = e.fs
      BY <2>4, <2>7, <3>1, EmptyRange DEF Drawn
    <3>3. \A f \in Range(idsTodo') : \E t \in Range(targets) : t.fs = f
      BY <2>2, <2>7, ContinueDrawn DEF Drawn
    <3>4. todo' = Tail(todo)
      BY <2>7, ContinueCases
    <3> QED BY <2>0, <2>2, <3>2, <3>3, <3>4 DEF Drawn
  <2>8. CASE UNCHANGED <<found, todo, entries, idsTodo>>
    BY <2>0, <2>8 DEF Drawn
  <2> QED BY <2>5, <2>6, <2>7, <2>8
<1>3. CASE GetIds \/ IdsUnavailable
  <2>1. idsTodo \in Seq(FS) /\ idsTodo # <<>> /\ idsTodo' = Tail(idsTodo)
    BY <1>0, <1>3 DEF GetIds, IdsUnavailable, TypeOK
  <2>2. Range(idsTodo') \subseteq Range(idsTodo)
    BY <2>1, RangeOfParts
  <2>3. UNCHANGED <<command, targets, todo, found, entries>>
    BY <1>3 DEF GetIds, IdsUnavailable, given, collected
  <2> QED BY <2>2, <2>3 DEF Drawn
<1>4. CASE UNCHANGED <<command, targets, todo, found, entries, idsTodo>>
  BY <1>4 DEF Drawn
<1>5. \/ ResolveTargets \/ GetQuotas \/ GetIds \/ IdsUnavailable
      \/ UNCHANGED <<command, targets, todo, found, entries, idsTodo>>
  BY DEF Next, Command, GetFilesystem, ListFilesets, GetStates, StatesUnavailable, PrintReport,
         RequestFails, CreateFileset, DeleteFileset, given, collected, decoration
<1> QED BY <1>1, <1>2, <1>3, <1>4, <1>5

-----------------------------------------------------------------------------
(* Failures *)

\* A fileset that stays has stayed, with its id.
LEMMA SteadyBefore ==
  ASSUME Core, Next, NEW f \in FS, NEW n \in Name, Steady(f, n)'
  PROVE  Steady(f, n) /\ IdOf(f, n)' = IdOf(f, n) /\ Exists(f, n)
<1>0. ids \in [FS -> [Fileset -> 0..MaxId]]
  BY DEF Core, TypeOK
<1>1. CASE UNCHANGED <<ids, gone, made>>
  BY <1>1 DEF Steady, Exists, IdOf
<1>2. ASSUME NEW g \in FS, NEW m \in Fileset, CreateFileset(g, m) \/ DeleteFileset(g, m)
      PROVE  Steady(f, n) /\ IdOf(f, n)' = IdOf(f, n) /\ Exists(f, n)
  <2>1. PICK i : ids' = [ids EXCEPT ![g][m] = i]
    BY <1>2 DEF CreateFileset, DeleteFileset
  <2>2. gone \cup made \cup {<<g, m>>} = gone' \cup made'
    BY <1>2 DEF CreateFileset, DeleteFileset
  <2>3. CASE n = Root
    BY <2>3 DEF Steady, IdOf, Exists
  <2>4. CASE n # Root
    <3>1. n \in Fileset /\ ids'[f][n] # 0 /\ <<f, n>> \notin gone' \cup made'
      BY <2>4 DEF Steady, Exists
    <3>2. <<f, n>> # <<g, m>> /\ <<f, n>> \notin gone \cup made
      BY <2>2, <3>1
    <3>3. ids'[f][n] = ids[f][n]
      BY <1>0, <2>1, <3>1, <3>2
    <3> QED BY <2>4, <3>1, <3>2, <3>3 DEF Steady, Exists, IdOf
  <2> QED BY <2>3, <2>4
<1>3. \/ UNCHANGED <<ids, gone, made>>
      \/ \E g \in FS, m \in Fileset : CreateFileset(g, m) \/ DeleteFileset(g, m)
  BY DEF Next, Command, ResolveTargets, GetFilesystem, ListFilesets, GetQuotas, GetIds, IdsUnavailable,
         GetStates, StatesUnavailable, PrintReport, RequestFails, gui
<1> QED BY <1>1, <1>2, <1>3

LEMMA NoStepAfterExit ==
  ASSUME Core, Next
  PROVE  phase # "exited" /\ exit = "none"
<1>1. phase # "exited"
  BY DEF Next, Command, ResolveTargets, GetFilesystem, ListFilesets, GetQuotas, GetIds, IdsUnavailable,
         GetStates, StatesUnavailable, PrintReport, RequestFails, CreateFileset, DeleteFileset
<1> QED BY <1>1 DEF Core, UnderWay

\* mmlsquota refuses a pair: its one type is FILESET, and an operand names a fileset.
LEMMA RefusalHasCause ==
  ASSUME Core, command' = command, NEW ts \in Seq(Target), NEW pairs \in Seq(Target \X QuotaType),
         Continue(ts, pairs),
         \A t \in Range(ts) : t.fileset # NoFileset => t \in Range(command.operands),
         \A p \in Range(pairs) : p[1] \in Range(ts) /\ p[2] \in Range(command.types),
         exit' = "usage", exit = "none"
  PROVE  /\ command.name = "mmlsquota" /\ command.types = <<"FILESET">>
         /\ \E t \in Range(command.operands) : t.fileset # NoFileset
<1>1. pairs # <<>> /\ Refused(Head(pairs))
  BY ContinueCases
<1>2. Head(pairs) \in Range(pairs)
  BY <1>1, RangeOfParts
<1>3. /\ command.name = "mmlsquota" /\ "FILESET" \in Range(command.types)
      /\ \E t \in Range(command.operands) : t.fileset # NoFileset
  BY <1>1, <1>2 DEF Refused
<1>4. command \in Commands
  BY DEF Core, TypeOK
<1>5. Len(command.types) = 1 /\ command.types \in Seq(QuotaType)
  BY <1>3, <1>4, QuotaAssumption DEF QuotaCommand
<1>6. command.types = <<command.types[1]>>
  BY <1>5
<1>7. Range(command.types) = {command.types[1]}
  BY <1>6, OneRange
<1> QED BY <1>3, <1>6, <1>7

LEMMA CauseStep ==
  ASSUME Core, Drawn, Drawn', Next
  PROVE  FailureHasCause'
<1>0. UnderWay /\ TypeOK /\ exit = "none"
  BY NoStepAfterExit DEF Core
<1>1. CASE ResolveTargets
  <2>1. command.operands \in Seq(Target) /\ command.types \in Seq(QuotaType)
    BY <1>0, QuotaAssumption DEF QuotaCommand, TypeOK
  <2>2. targets' \in Seq(Target) /\ command' = command
    BY <1>1, <2>1, DefaultTargetsMembers DEF ResolveTargets, given
  <2>3. Pairs(targets', command.types) \in Seq(Target \X QuotaType)
    BY <2>1, <2>2, PairsMembers
  <2>4. Continue(targets', Pairs(targets', command.types)) /\ todo' = Pairs(targets', command.types)
    BY <1>1, ContinueCases DEF ResolveTargets
  <2>5. exit' # "failed"
    BY <1>0, <2>4, ContinueCases
  <2>6. ASSUME exit' = "usage"
        PROVE  /\ command.name = "mmlsquota" /\ command.types = <<"FILESET">>
               /\ \E t \in Range(command.operands) : t.fileset # NoFileset
    BY <1>0, <2>2, <2>3, <2>4, <2>6, RefusalHasCause DEF Drawn
  <2> QED BY <2>2, <2>5, <2>6 DEF FailureHasCause
<1>2. CASE GetFilesystem
  <2>1. Now[1] \in Range(targets)
    BY <1>2, NowType DEF GetFilesystem, Drawn
  <2>2. UNCHANGED <<targets, allowed>> /\ (exit' = "none" \/ (exit' = "failed" /\ ~Reachable(Now[1].fs)))
    BY <1>0, <1>2 DEF GetFilesystem, Fail, given
  <2> QED BY <2>1, <2>2 DEF FailureHasCause, Reachable
<1>3. CASE GetQuotas
  <2> DEFINE s == Head(scopes)
  <2>0. UNCHANGED <<command, targets, allowed, ids, gone, made>> /\ phase = "quotas"
    BY <1>3 DEF GetQuotas, given, gui
  <2>1. /\ Now \in Range(todo) /\ Tail(todo) \in Seq(Target \X QuotaType) /\ Now[1] \in Target
        /\ Now[1] \in Range(targets) /\ Range(Tail(todo)) \subseteq Range(todo) /\ targets \in Seq(Target)
    BY <1>0, <2>0, NowType DEF Drawn, TypeOK
  <2>2. s \in Range(scopes) /\ s \in Target
    BY <2>0, ReadMembers
  <2>3. Belongs(s)
    BY <1>0, <2>0, <2>2 DEF UnderWay
  <2>4. \/ exit' = exit
        \/ Continue(targets, Tail(todo))
        \/ ~Answers(s) /\ exit' = "failed"
    BY <1>3 DEF GetQuotas, Fail
  <2> HIDE DEF s
  <2>5. CASE exit' = exit
    BY <1>0, <2>5 DEF FailureHasCause
  <2>6. CASE Continue(targets, Tail(todo))
    <3>1. exit' # "failed"
      BY <1>0, <2>6, ContinueCases
    <3>2. ASSUME exit' = "usage"
          PROVE  /\ command.name = "mmlsquota" /\ command.types = <<"FILESET">>
                 /\ \E t \in Range(command.operands) : t.fileset # NoFileset
      BY <1>0, <2>0, <2>1, <2>6, <3>2, RefusalHasCause DEF Drawn
    <3> QED BY <2>0, <3>1, <3>2 DEF FailureHasCause
  <2>7. CASE ~Answers(s) /\ exit' = "failed"
    <3>1. \/ ~Reachable(s.fs)
          \/ s.fileset # NoFileset /\ ~Exists(s.fs, s.fileset)
      BY <2>7 DEF Answers
    <3>2. s.fs = Now[1].fs /\ s.fileset \in Name \cup {NoFileset}
      BY <2>2, <2>3 DEF Belongs, Target
    <3>3. CASE ~Reachable(s.fs)
      BY <2>0, <2>1, <2>7, <3>2, <3>3 DEF FailureHasCause, Reachable
    <3>4. CASE s = Now[1] /\ s.fileset # NoFileset /\ ~Exists(s.fs, s.fileset)
      <4>1. ~Steady(s.fs, s.fileset)
        BY <3>4 DEF Steady, Exists
      <4>2. \A f, n : Steady(f, n)' => Steady(f, n)
        BY <2>0 DEF Steady, Exists
      <4>3. PICK t \in Range(targets) : t.fileset # NoFileset /\ ~Steady(t.fs, t.fileset)
        BY <2>1, <3>4, <4>1
      <4>4. t.fileset # NoFileset /\ ~Steady(t.fs, t.fileset)' /\ t \in Range(targets')
        BY <2>0, <4>2, <4>3
      <4> QED BY <2>7, <4>4 DEF FailureHasCause
    <3>5. CASE s # Now[1] /\ s.fileset # NoFileset /\ ~Exists(s.fs, s.fileset)
      <4>1. Now[1].fileset = NoFileset /\ <<s.fs, s.fileset>> \in gone /\ s.fileset # Root
        BY <2>3, <3>5 DEF Belongs, Exists
      <4>2. s.fileset \in Fileset
        BY <3>2, <3>5, <4>1 DEF Name
      <4> QED BY <2>0, <2>1, <2>7, <3>2, <4>1, <4>2 DEF FailureHasCause
    <3> QED BY <3>1, <3>3, <3>4, <3>5
  <2> QED BY <2>4, <2>5, <2>6, <2>7
<1>4. CASE RequestFails
  BY <1>4 DEF RequestFails, Fail, FailureHasCause
<1>5. CASE exit' = exit \/ PrintReport
  <2>1. exit' # "failed" /\ exit' # "usage"
    BY <1>0, <1>5 DEF PrintReport
  <2> QED BY <2>1 DEF FailureHasCause
<1>6. \/ ResolveTargets \/ GetFilesystem \/ GetQuotas \/ RequestFails \/ PrintReport \/ exit' = exit
  BY DEF Next, Command, ListFilesets, GetIds, IdsUnavailable, GetStates, StatesUnavailable,
         CreateFileset, DeleteFileset, decoration
<1> QED BY <1>1, <1>2, <1>3, <1>4, <1>5, <1>6

-----------------------------------------------------------------------------
(* Ids and states *)

LEMMA IdsReadStep ==
  ASSUME Core, Drawn, IdsRead, Next
  PROVE  IdsRead'
<1>0. UnderWay /\ TypeOK
  BY DEF Core
<1> SUFFICES ASSUME NEW f \in FS, \A t \in Range(targets') : t.fs = f,
                    NEW n \in DOMAIN fids', Steady(f, n)'
             PROVE  fids'[n] = IdOf(f, n)'
  BY DEF IdsRead
<1>1. CASE ResolveTargets
  <2>1. fids' = <<>>
    BY <1>0, <1>1 DEF ResolveTargets, UnderWay
  <2> QED BY <2>1
<1>2. CASE GetIds
  <2> DEFINE g == Head(idsTodo)
  <2>1. idsTodo \in Seq(FS) /\ idsTodo # <<>> /\ fids' = WithIds(g, fids) /\ targets' = targets
    BY <1>0, <1>2 DEF GetIds, TypeOK
  <2>2. g \in Range(idsTodo)
    BY <2>1, RangeOfParts
  <2>3. PICK t \in Range(targets) : t.fs = g
    BY <2>2 DEF Drawn
  <2> HIDE DEF g
  <2>4. g = f
    BY <2>1, <2>3
  <2>5. n \in Name /\ (Exists(f, n) \/ n \in DOMAIN fids) /\ fids'[n] = IF Exists(f, n) THEN IdOf(f, n) ELSE fids[n]
    BY <1>0, <2>1, <2>4 DEF WithIds, TypeOK
  <2>6. Steady(f, n) /\ IdOf(f, n)' = IdOf(f, n) /\ Exists(f, n)
    BY <2>5, SteadyBefore
  <2> QED BY <2>5, <2>6
<1>3. CASE UNCHANGED <<fids, targets>>
  <2>1. n \in Name /\ n \in DOMAIN fids
    BY <1>0, <1>3 DEF TypeOK
  <2>2. Steady(f, n) /\ IdOf(f, n)' = IdOf(f, n)
    BY <2>1, SteadyBefore
  <2>3. fids[n] = IdOf(f, n)
    BY <1>3, <2>1, <2>2 DEF IdsRead
  <2> QED BY <1>3, <2>2, <2>3
<1>4. ResolveTargets \/ GetIds \/ UNCHANGED <<fids, targets>>
  BY DEF Next, Command, GetFilesystem, ListFilesets, GetQuotas, IdsUnavailable, GetStates,
         StatesUnavailable, PrintReport, RequestFails, CreateFileset, DeleteFileset, decoration
<1> QED BY <1>1, <1>2, <1>3, <1>4

LEMMA ContinueStates ==
  ASSUME NEW ts \in Seq(Target), NEW pairs, Continue(ts, pairs), command' = command,
         exit = "none", phase' = "ids" \/ exit' = "ok", ReadsStates'
  PROVE  Range(statesTodo') = {t.fs : t \in Range(ts)}
<1>1. statesTodo' = [i \in DOMAIN ts |-> ts[i].fs]
  BY ContinueCases DEF ReadsStates
<1>2. Range([i \in DOMAIN ts |-> ts[i].fs]) = {t.fs : t \in Range(ts)}
  BY TargetsFileSystems
<1> QED BY <1>1, <1>2

LEMMA StatesReadStep ==
  ASSUME Core, TypeOK', StatesRead, Next
  PROVE  StatesRead'
<1>0. UnderWay /\ TypeOK /\ exit = "none"
  BY NoStepAfterExit DEF Core
<1>1. CASE ResolveTargets
  <2>1. /\ Continue(targets', Pairs(targets', command.types)) /\ targets' \in Seq(Target)
        /\ UNCHANGED <<states, command>>
    BY <1>1 DEF ResolveTargets, given, TypeOK
  <2>2. exit' # "ok"
    BY <1>0, <2>1, ContinueCases
  <2>3. ASSUME phase' = "ids", ReadsStates' PROVE Range(statesTodo') = {t.fs : t \in Range(targets')}
    BY <1>0, <2>1, <2>3, ContinueStates
  <2> QED BY <2>1, <2>2, <2>3 DEF StatesRead
<1>2. CASE GetQuotas
  <2>0. UNCHANGED <<states, command, targets>> /\ targets \in Seq(Target) /\ phase = "quotas"
    BY <1>0, <1>2 DEF GetQuotas, given, TypeOK
  <2>1. \/ phase' = "quotas" /\ exit' = exit
        \/ Continue(targets, Tail(todo))
        \/ phase' = "exited" /\ exit' = "failed"
    BY <1>2 DEF GetQuotas, Fail
  <2>2. CASE Continue(targets, Tail(todo))
    <3>1. exit' # "ok"
      BY <1>0, <2>2, ContinueCases
    <3>2. ASSUME phase' = "ids", ReadsStates' PROVE Range(statesTodo') = {t.fs : t \in Range(targets)}
      BY <1>0, <2>0, <2>2, <3>2, ContinueStates
    <3> QED BY <2>0, <3>1, <3>2 DEF StatesRead
  <2>3. CASE (phase' = "quotas" /\ exit' = exit) \/ (phase' = "exited" /\ exit' = "failed")
    BY <1>0, <2>0, <2>3 DEF StatesRead
  <2> QED BY <2>1, <2>2, <2>3
<1>3. CASE GetStates
  <2> DEFINE f == Head(statesTodo)
  <2>1. f \in FS /\ Range(statesTodo) \subseteq {f} \cup Range(statesTodo')
    BY <1>3, GetStatesMembers DEF GetStates
  <2>2. /\ states' = [d \in DOMAIN states \cup {f} |-> IF d = f THEN Enforced[f] ELSE states[d]]
        /\ phase = "ids" /\ UNCHANGED <<phase, exit, command, targets, trouble>>
    BY <1>3 DEF GetStates, given
  <2> HIDE DEF f
  <2>3. \A d \in DOMAIN states' : states'[d] = Enforced[d]
    BY <2>2 DEF StatesRead
  <2>4. DOMAIN states \cup Range(statesTodo) \subseteq DOMAIN states' \cup Range(statesTodo')
    BY <2>1, <2>2
  <2> QED BY <1>0, <2>2, <2>3, <2>4 DEF StatesRead, ReadsStates
<1>4. CASE StatesUnavailable
  BY <1>0, <1>4 DEF StatesUnavailable, StatesRead
<1>5. CASE PrintReport
  BY <1>5 DEF PrintReport, StatesRead, decoration, ReadsStates, given
<1>6. CASE /\ UNCHANGED <<states, statesTodo, command, targets>>
           /\ trouble => trouble'
           /\ phase' = phase \/ phase' \in {"filesets", "quotas", "exited"}
           /\ exit' = exit \/ exit' = "failed"
  BY <1>0, <1>6 DEF StatesRead, ReadsStates
<1>7. \/ ResolveTargets \/ GetQuotas \/ GetStates \/ StatesUnavailable \/ PrintReport
      \/ /\ UNCHANGED <<states, statesTodo, command, targets>>
         /\ trouble => trouble'
         /\ phase' = phase \/ phase' \in {"filesets", "quotas", "exited"}
         /\ exit' = exit \/ exit' = "failed"
  BY DEF Next, Command, GetFilesystem, ListFilesets, GetIds, IdsUnavailable, RequestFails, Fail,
         CreateFileset, DeleteFileset, decoration, given
<1> QED BY <1>1, <1>2, <1>3, <1>4, <1>5, <1>6, <1>7

-----------------------------------------------------------------------------
(* Theorems *)

QuotaInv == Core /\ Drawn /\ FailureHasCause /\ IdsRead /\ StatesRead

LEMMA QuotaInvInit == Init => QuotaInv
<1> SUFFICES ASSUME Init PROVE QuotaInv
  OBVIOUS
<1>1. Core
  BY QuotaInit DEF Core, UnderWay, Init
<1>2. Drawn /\ FailureHasCause /\ StatesRead
  BY EmptyRange DEF Drawn, FailureHasCause, StatesRead, Init
<1>3. IdsRead
  BY DEF IdsRead, Init
<1> QED BY <1>1, <1>2, <1>3 DEF QuotaInv

LEMMA QuotaInvStep == QuotaInv /\ [Next]_vars => QuotaInv'
<1> SUFFICES ASSUME QuotaInv, [Next]_vars PROVE QuotaInv'
  OBVIOUS
<1>1. CASE Next
  <2>1. Core'
    BY <1>1, TypeStep, UnderWayStep DEF QuotaInv, Core
  <2>2. Drawn'
    BY <1>1, DrawnStep DEF QuotaInv
  <2>3. FailureHasCause'
    BY <1>1, <2>2, CauseStep DEF QuotaInv
  <2>4. IdsRead'
    BY <1>1, IdsReadStep DEF QuotaInv
  <2>5. StatesRead'
    BY <1>1, <2>1, StatesReadStep DEF QuotaInv, Core
  <2> QED BY <2>1, <2>2, <2>3, <2>4, <2>5 DEF QuotaInv
<1>2. CASE UNCHANGED vars
  <2>1. UNCHANGED <<Core, Drawn, FailureHasCause, IdsRead, StatesRead>>
    BY <1>2 DEF vars, Core, TypeOK, IdsDiffer, UnderWay, Belongs, Now, Direct, Exists, Drawn, FailureHasCause,
                Reachable, Steady, IdsRead, IdOf, StatesRead, ReadsStates
  <2> QED BY <2>1 DEF QuotaInv
<1> QED BY <1>1, <1>2

LEMMA QuotaInvariant == Spec => []QuotaInv
<1>1. Spec => Init /\ [][Next]_vars
  BY PTL DEF Spec
<1> QED BY <1>1, QuotaInvInit, QuotaInvStep, PTL

\* Every variable of a report has its type.
THEOREM QuotaTypeCorrect == Spec => []TypeOK
<1>1. QuotaInv => TypeOK
  BY DEF QuotaInv, Core
<1> QED BY <1>1, QuotaInvariant, PTL

\* A report fails only for a request that did not get through or for one of
\* its targets, whatever filesets come and go (quota.go:75-135, 564-573).
THEOREM ReportFailuresHaveCauses == Spec => []FailureHasCause
<1>1. QuotaInv => FailureHasCause
  BY DEF QuotaInv
<1> QED BY <1>1, QuotaInvariant, PTL

\* A report over one file system shows the right id beside each quota of a
\* fileset that stayed (quota.go:294-312).
THEOREM IdsRightInOne == Spec => []FidsRightInOne
<1>1. ASSUME QuotaInv PROVE FidsRightInOne
  <2> DEFINE F == {t.fs : t \in Range(targets)}
  <2> SUFFICES ASSUME Cardinality(F) = 1, NEW e \in Range(entries),
                      Steady(e.fs, e.fileset), e.fileset \in DOMAIN fids
               PROVE  fids[e.fileset] = IdOf(e.fs, e.fileset)
    BY DEF FidsRightInOne, FidRight
  <2>1. F \subseteq FS
    <3>1. Range(targets) \subseteq Target
      BY <1>1, RangeOfParts DEF QuotaInv, Core, TypeOK
    <3> QED BY <3>1 DEF Target
  <2>2. IsFiniteSet(F)
    <3> HIDE DEF F
    <3> QED BY <2>1, QuotaAssumption, FS_Subset
  <2>3. PICK f : F = {f}
    <3> HIDE DEF F
    <3> QED BY <2>2, FS_Singleton
  <2>4. \A t \in Range(targets) : t.fs = f
    BY <2>3
  <2>5. e.fs \in F
    BY <1>1 DEF QuotaInv, Drawn
  <2>6. e.fs = f /\ f \in FS
    BY <2>1, <2>3, <2>5
  <2> QED BY <1>1, <2>4, <2>6 DEF QuotaInv, IdsRead
<1> QED BY <1>1, QuotaInvariant, PTL

\* mmrepquota -Y shows as enforced only what is, and as off what is enforced
\* only after a request failed (quota.go:249-266).
THEOREM EnforcementIsRight == Spec => []EnforcementRight
<1>1. ASSUME QuotaInv PROVE EnforcementRight
  <2> SUFFICES ASSUME exit = "ok", ReadsStates, NEW e \in Range(entries)
               PROVE  /\ ShownEnforced(e) => e.type \in Enforced[e.fs]
                      /\ e.type \in Enforced[e.fs] => ShownEnforced(e) \/ trouble
    BY DEF EnforcementRight
  <2>1. \A f \in DOMAIN states : states[f] = Enforced[f]
    BY <1>1 DEF QuotaInv, StatesRead
  <2>2. PICK t \in Range(targets) : t.fs = e.fs
    BY <1>1 DEF QuotaInv, Drawn
  <2>3. trouble \/ e.fs \in DOMAIN states
    BY <1>1, <2>2, EmptyRange DEF QuotaInv, StatesRead
  <2> QED BY <2>1, <2>3 DEF ShownEnforced
<1> QED BY <1>1, QuotaInvariant, PTL

-----------------------------------------------------------------------------
(* Every quota once for each target that asks for it *)

\* The places in ts whose member is in T, if y is one of tys.
Places(ts, tys, y, T) == {i \in DOMAIN ts : y \in Range(tys) /\ ts[i] \in T}

\* A second list without repetition multiplies nothing.
LEMMA CountPairs ==
  ASSUME NEW X, NEW Y, NEW ts \in Seq(X), NEW tys \in Seq(Y), IsInjective(tys), NEW y, NEW T,
         NEW U, \A p \in X \X Y : p \in U <=> p[1] \in T /\ p[2] = y
  PROVE  Count(Pairs(ts, tys), U) = Cardinality(Places(ts, tys, y, T))
<1> SUFFICES Count(Pairs(ts, tys), U) = Cardinality({i \in DOMAIN ts : y \in Range(tys) /\ ts[i] \in T})
  BY DEF Places
<1> DEFINE n == Len(ts)
           k == Len(tys)
           s == Pairs(ts, tys)
           A == {i \in DOMAIN ts : y \in Range(tys) /\ ts[i] \in T}
           B == {p \in DOMAIN s : s[p] \in U}
           at(i) == ((i - 1) \div k) + 1
           of(i) == ((i - 1) % k) + 1
<1>1. n \in Nat /\ k \in Nat /\ DOMAIN ts = 1..n /\ DOMAIN tys = 1..k
  BY LenProperties
<1>2. /\ \A i \in 1..n : ts[i] \in X
      /\ \A i \in 1..k : tys[i] \in Y
      /\ \A i, j \in 1..k : tys[i] = tys[j] => i = j
  BY <1>1, ElementOfSeq DEF IsInjective
<1>3. s = [i \in 1..(n * k) |-> <<ts[at(i)], tys[of(i)]>>]
  BY DEF Pairs
<1>4. /\ n * k \in Nat
      /\ \A i \in 1..(n * k) : at(i) \in 1..n /\ of(i) \in 1..k /\ i = k * (at(i) - 1) + (of(i) - 1) + 1
  <2>1. /\ n * k \in Nat
        /\ \A i \in 1..(n * k) : at(i) \in 1..n /\ of(i) \in 1..k
                                 /\ i = k * ((i - 1) \div k) + ((i - 1) % k) + 1
    BY <1>1, PairPlaces
  <2>2. \A i \in 1..(n * k) : (i - 1) \div k = at(i) - 1 /\ (i - 1) % k = of(i) - 1
    <3> SUFFICES ASSUME NEW i \in 1..(n * k)
                 PROVE (i - 1) \div k = at(i) - 1 /\ (i - 1) % k = of(i) - 1
      OBVIOUS
    <3>1. i - 1 \in Nat /\ k # 0
      BY <1>1, <2>1
    <3>2. (i - 1) \div k \in Nat /\ (i - 1) % k \in 0..(k - 1)
      BY <1>1, <3>1, Quotients
    <3>3. \A a \in Nat : a = (a + 1) - 1
      OBVIOUS
    <3>4. (i - 1) % k \in Nat
      BY <1>1, <3>2
    <3> QED BY <3>2, <3>3, <3>4
  <2> QED BY <2>1, <2>2, Zenon
<1>5. \A a \in 1..n, b \in 1..k :
        k * (a - 1) + (b - 1) + 1 \in 1..(n * k) /\ at(k * (a - 1) + (b - 1) + 1) = a
                                                 /\ of(k * (a - 1) + (b - 1) + 1) = b
  <2>1. n \in Nat /\ k \in Nat
    BY <1>1
  <2> HIDE DEF n, k
  <2>2. \A a \in 1..n, b \in 1..k :
          LET i == k * (a - 1) + (b - 1) + 1
          IN  i \in 1..(n * k) /\ ((i - 1) \div k) + 1 = a /\ ((i - 1) % k) + 1 = b
    BY <2>1, PairPlaces
  <2> QED BY <2>2, Zenon
<1> HIDE DEF n, k, s, at, of
<1>6. DOMAIN s = 1..(n * k) /\ \A i \in 1..(n * k) : s[i] = <<ts[at(i)], tys[of(i)]>>
  BY <1>3
<1>7. \A i \in 1..(n * k) : s[i] \in U <=> ts[at(i)] \in T /\ tys[of(i)] = y
  <2> SUFFICES ASSUME NEW i \in 1..(n * k) PROVE s[i] \in U <=> ts[at(i)] \in T /\ tys[of(i)] = y
    OBVIOUS
  <2> DEFINE p == <<ts[at(i)], tys[of(i)]>>
  <2>1. p \in X \X Y /\ p[1] = ts[at(i)] /\ p[2] = tys[of(i)] /\ s[i] = p
    BY <1>2, <1>4, <1>6
  <2>2. p \in U <=> p[1] \in T /\ p[2] = y
    BY <2>1
  <2> HIDE DEF p
  <2> QED BY <2>1, <2>2
<1>8. CASE y \notin Range(tys)
  <2>1. A = {}
    BY <1>8
  <2>2. \A i \in 1..(n * k) : tys[of(i)] # y
    BY <1>1, <1>4, <1>8 DEF Range
  <2>3. B = {}
    BY <1>6, <1>7, <2>2
  <2> QED BY <2>1, <2>3 DEF Count, s
<1>9. CASE y \in Range(tys)
  <2>1. PICK b \in 1..k : tys[b] = y
    BY <1>1, <1>9 DEF Range
  <2> DEFINE f == [i \in B |-> at(i)]
  <2>2. \A i \in B : i \in 1..(n * k) /\ ts[at(i)] \in T /\ of(i) = b
    BY <1>2, <1>4, <1>6, <1>7, <2>1
  <2>3. f \in [B -> A]
    BY <1>1, <1>4, <1>9, <2>2
  <2>4. ASSUME NEW i \in B, NEW j \in B, f[i] = f[j] PROVE i = j
    <3>1. at(i) = at(j) /\ of(i) = of(j)
      BY <2>2, <2>4
    <3>2. i = k * (at(i) - 1) + (of(i) - 1) + 1 /\ j = k * (at(j) - 1) + (of(j) - 1) + 1
      BY <1>4, <2>2
    <3> QED BY <3>1, <3>2, Zenon
  <2>5. ASSUME NEW a \in A PROVE \E i \in B : f[i] = a
    <3> DEFINE i == k * (a - 1) + (b - 1) + 1
    <3>1. a \in 1..n /\ ts[a] \in T
      BY <1>1
    <3>2. i \in 1..(n * k) /\ at(i) = a /\ of(i) = b
      BY <1>5, <3>1
    <3> HIDE DEF i
    <3>3. i \in B
      BY <1>6, <1>7, <2>1, <3>1, <3>2
    <3>4. f[i] = a
      BY <3>2, <3>3
    <3> QED BY <3>3, <3>4
  <2> HIDE DEF f, A, B
  <2>6. ExistsBijection(B, A)
    BY <2>3, <2>4, <2>5 DEF ExistsBijection, Bijection, Injection, Surjection, IsInjective
  <2>7. IsFiniteSet(B)
    <3>1. s \in Seq(X \X Y)
      BY PairsMembers DEF s
    <3> QED BY <3>1, PlacesFinite DEF B
  <2>8. Cardinality(A) = Cardinality(B)
    BY <2>6, <2>7, FS_Bijection
  <2> QED BY <2>8 DEF Count, s, A, B
<1> QED BY <1>8, <1>9

\* A report holds of each quota it is about what it had and what was read.
LEMMA ReportCount ==
  ASSUME entries \in Seq(Entry), NEW s \in Seq(Entry), NEW e
  PROVE  Count(Report(s), {e}) = IF About(e) THEN Count(entries, {e}) + Count(s, {e}) ELSE 0
<1> DEFINE all == entries \o s
           P == {i \in DOMAIN all : Matches(all[i], command.object)}
<1>1. all \in Seq(Entry) /\ Count(all, {e}) = Count(entries, {e}) + Count(s, {e})
  BY RangeOfConcat, CountConcat
<1>2. CASE command.name = "mmlsquota"
  <2>1. P \in SUBSET DOMAIN all
    OBVIOUS
  <2>2. Report(s) = SortQuotas(all, P)
    BY <1>2 DEF Report
  <2>3. {i \in P : all[i] \in {e}} = IF About(e) THEN {i \in DOMAIN all : all[i] \in {e}} ELSE {}
    BY <1>2 DEF Matches, About
  <2> HIDE DEF P, all
  <2>4. Picks(SortQuotas(all, P), all, P)
    BY <1>1, <2>1, SortPicks
  <2>5. Count(Report(s), {e}) = Cardinality({i \in P : all[i] \in {e}})
    BY <1>1, <2>1, <2>2, <2>4, CountPicked
  <2> QED BY <1>1, <2>3, <2>5, FS_EmptySet DEF Count
<1>3. CASE command.name # "mmlsquota"
  <2> DEFINE t == SortQuotas(s, DOMAIN s)
  <2>1. Report(s) = entries \o t /\ About(e)
    BY <1>3 DEF Report, About
  <2>2. Picks(t, s, DOMAIN s)
    BY SortPicks
  <2> HIDE DEF t
  <2>3. t \in Seq(Entry)
    BY <2>2, PickedType
  <2>4. Count(t, {e}) = Cardinality({i \in DOMAIN s : s[i] \in {e}})
    BY <2>2, CountPicked
  <2>5. Count(entries \o t, {e}) = Count(entries, {e}) + Count(t, {e})
    BY <2>3, CountConcat
  <2> QED BY <2>1, <2>4, <2>5 DEF Count
<1> QED BY <1>2, <1>3

LEMMA QuotaForms ==
  ASSUME NEW e \in AnyQuota
  PROVE  /\ e.fs \in FS /\ e.fileset \in Name /\ e.type \in QuotaType
         /\ e = [fs |-> e.fs, fileset |-> e.fileset, type |-> e.type, name |-> e.name, id |-> e.id]
         /\ e.type = "FILESET" =>
              Exists(e.fs, e.fileset) /\ e.name = e.fileset /\ e.id = IdOf(e.fs, e.fileset)
         /\ e.type # "FILESET" => e.name \in DOMAIN Account /\ e.id = Account[e.name]
BY DEF AnyQuota, QuotaType

\* Which collections hold a quota.
LEMMA CollectionHolds ==
  ASSUME NEW e \in AnyQuota, NEW s \in Target, NEW type \in QuotaType
  PROVE  e \in Collection(s, type) <=> s \in Holding(e, type)
<1>1. /\ e.fs \in FS /\ e.fileset \in Name
      /\ e = [fs |-> e.fs, fileset |-> e.fileset, type |-> e.type, name |-> e.name, id |-> e.id]
  BY QuotaForms
<1>2. CASE type = "FILESET"
  <2>1. Collection(s, type) =
          {[fs |-> s.fs, fileset |-> n, type |-> type, name |-> n, id |-> IdOf(s.fs, n)] :
             n \in {x \in Name : s.fileset = NoFileset /\ Exists(s.fs, x)}}
    BY <1>2 DEF Collection
  <2>2. e \in Collection(s, type) => s.fs = e.fs /\ type = e.type /\ s.fileset = NoFileset
    BY <2>1
  <2>3. ASSUME s.fs = e.fs, type = e.type, s.fileset = NoFileset PROVE e \in Collection(s, type)
    <3>1. Exists(s.fs, e.fileset) /\ e.name = e.fileset /\ e.id = IdOf(s.fs, e.fileset)
      BY <1>2, <2>3, QuotaForms
    <3>2. e = [fs |-> s.fs, fileset |-> e.fileset, type |-> type, name |-> e.fileset, id |-> IdOf(s.fs, e.fileset)]
      BY <1>1, <2>3, <3>1
    <3> QED BY <1>1, <2>1, <2>3, <3>1, <3>2
  <2> QED BY <1>2, <2>2, <2>3 DEF Holding
<1>3. CASE type # "FILESET" /\ s.fileset = NoFileset /\ s.fs \in PerFileset
  <2>1. Collection(s, type) = {}
    BY <1>3 DEF Collection
  <2> QED BY <1>3, <2>1 DEF Holding
<1>4. CASE type # "FILESET" /\ ~(s.fileset = NoFileset /\ s.fs \in PerFileset)
  <2>1. Collection(s, type) =
          {[fs |-> s.fs, fileset |-> InRoot(s.fileset), type |-> type, name |-> a, id |-> Account[a]] :
             a \in DOMAIN Account}
    BY <1>4 DEF Collection
  <2>2. e \in Collection(s, type) => s.fs = e.fs /\ type = e.type /\ InRoot(s.fileset) = e.fileset
    BY <2>1
  <2>3. ASSUME s.fs = e.fs, type = e.type, InRoot(s.fileset) = e.fileset PROVE e \in Collection(s, type)
    <3>1. e.name \in DOMAIN Account /\ e.id = Account[e.name]
      BY <1>4, <2>3, QuotaForms
    <3>2. e = [fs |-> s.fs, fileset |-> InRoot(s.fileset), type |-> type, name |-> e.name, id |-> Account[e.name]]
      BY <1>1, <2>3, <3>1
    <3> QED BY <2>1, <3>1, <3>2
  <2> QED BY <1>4, <2>2, <2>3 DEF Holding
<1> QED BY <1>2, <1>3, <1>4

\* Where nothing is listed, the one collection holds what the pair asks for.
LEMMA HeldDirectly ==
  ASSUME NEW e \in AnyQuota, NEW t \in Target, NEW type \in QuotaType,
         t.fileset # NoFileset \/ type = "FILESET" \/ t.fs \notin PerFileset
  PROVE  Count(<<t>>, Holding(e, type)) = IF type = e.type /\ AsksFor(t, e) THEN 1 ELSE 0
<1>1. t \in Holding(e, type) <=> type = e.type /\ AsksFor(t, e)
  <2>1. e.fileset \in Name /\ \A n \in Name : n # NoFileset
    BY QuotaForms, QuotaAssumption DEF Name, Root, NoFileset
  <2> QED BY <2>1 DEF Holding, AsksFor, InRoot
<1> QED BY <1>1, CountOne

\* Where the filesets are listed, one of their collections does.
LEMMA HeldOnce ==
  ASSUME Core, NEW e \in AnyQuota, Exists(e.fs, e.fileset), NEW t \in Target, NEW type \in QuotaType,
         t.fileset = NoFileset, type # "FILESET", t.fs \in PerFileset
  PROVE  LET filesets == ById(t.fs)
         IN  Count([i \in DOMAIN filesets |-> [fs |-> t.fs, fileset |-> filesets[i]]], Holding(e, type)) =
               IF type = e.type /\ AsksFor(t, e) THEN 1 ELSE 0
<1> DEFINE S == {n \in Name : Exists(t.fs, n)}
           c == Cardinality(S)
           s == [i \in DOMAIN ById(t.fs) |-> [fs |-> t.fs, fileset |-> ById(t.fs)[i]]]
<1>0. t.fs \in FS
  BY DEF Target
<1>1. /\ c \in Nat /\ ById(t.fs) \in [1..c -> S]
      /\ \A n \in S : \E i \in 1..c : ById(t.fs)[i] = n
      /\ \A i, j \in 1..c : ById(t.fs)[i] = ById(t.fs)[j] => i = j
  BY <1>0, ByIdListsAll DEF Core, TypeOK
<1>2. DOMAIN s = 1..c /\ \A i \in 1..c : s[i] = [fs |-> t.fs, fileset |-> ById(t.fs)[i]] /\ ById(t.fs)[i] \in Name
  BY <1>1
<1> HIDE DEF c, s
<1>3. \A n \in Name : n # NoFileset
  BY QuotaAssumption DEF Name, Root, NoFileset
<1>4. \A i \in 1..c : s[i] \in Holding(e, type) <=> t.fs = e.fs /\ type = e.type /\ ById(t.fs)[i] = e.fileset
  <2> SUFFICES ASSUME NEW i \in 1..c
               PROVE  s[i] \in Holding(e, type) <=> t.fs = e.fs /\ type = e.type /\ ById(t.fs)[i] = e.fileset
    OBVIOUS
  <2>1. s[i] \in Target /\ s[i].fs = t.fs /\ s[i].fileset = ById(t.fs)[i] /\ s[i].fileset # NoFileset
    BY <1>0, <1>2, <1>3 DEF Target
  <2> QED BY <2>1 DEF Holding, InRoot
<1>5. AsksFor(t, e) <=> e.fs = t.fs
  BY DEF AsksFor
<1>6. CASE type = e.type /\ e.fs = t.fs
  <2>1. e.fileset \in S
    BY <1>6, QuotaForms
  <2>2. PICK i \in 1..c : ById(t.fs)[i] = e.fileset
    BY <1>1, <2>1
  <2>3. {j \in DOMAIN s : s[j] \in Holding(e, type)} = {i}
    <3>1. DOMAIN s = 1..c
      BY <1>2
    <3>2. \A j \in 1..c : s[j] \in Holding(e, type) <=> ById(t.fs)[j] = ById(t.fs)[i]
      BY <1>4, <1>6, <2>2
    <3>3. \A j \in 1..c : ById(t.fs)[j] = ById(t.fs)[i] <=> j = i
      BY <1>1, <2>2
    <3> QED BY <2>2, <3>1, <3>2, <3>3
  <2>4. Count(s, Holding(e, type)) = 1
    BY <2>3, FS_Singleton DEF Count
  <2> QED BY <1>5, <1>6, <2>4 DEF s
<1>7. CASE ~(type = e.type /\ e.fs = t.fs)
  <2>1. {j \in DOMAIN s : s[j] \in Holding(e, type)} = {}
    BY <1>2, <1>4, <1>7
  <2>2. Count(s, Holding(e, type)) = 0
    BY <2>1, FS_EmptySet DEF Count
  <2> QED BY <1>5, <1>7, <2>2 DEF s
<1> QED BY <1>6, <1>7

\* A quota that has to be reported after a step had to be before it.
LEMMA KeptBefore ==
  ASSUME Core, Next, NEW e \in Kept'
  PROVE  e \in Kept /\ Exists(e.fs, e.fileset)
<1>1. e \in (AnyQuota)' /\ Steady(e.fs, e.fileset)'
  BY DEF Kept
<1>2. e.fs \in FS /\ e.fileset \in Name
  BY <1>1 DEF AnyQuota
<1>3. Steady(e.fs, e.fileset) /\ IdOf(e.fs, e.fileset)' = IdOf(e.fs, e.fileset) /\ Exists(e.fs, e.fileset)
  BY <1>1, <1>2, SteadyBefore
<1>4. e \in AnyQuota
  <2> DEFINE OfAccounts == {[fs |-> f, fileset |-> n, type |-> ty, name |-> a, id |-> Account[a]] :
                              f \in FS, n \in Name, ty \in {"USR", "GRP"}, a \in DOMAIN Account}
  <2>1. CASE e \in OfAccounts
    BY <2>1 DEF AnyQuota
  <2>2. CASE e \notin OfAccounts
    <3>1. PICK x \in FS \X Name :
            e = [fs |-> x[1], fileset |-> x[2], type |-> "FILESET", name |-> x[2], id |-> IdOf(x[1], x[2])']
      BY <1>1, <2>2 DEF AnyQuota
    <3>2. x[1] = e.fs /\ x[2] = e.fileset
      BY <3>1
    <3>3. e = [fs |-> x[1], fileset |-> x[2], type |-> "FILESET", name |-> x[2], id |-> IdOf(x[1], x[2])]
      BY <1>3, <3>1, <3>2
    <3>4. x \in {y \in FS \X Name : Exists(y[1], y[2])}
      BY <1>3, <3>1, <3>2
    <3> QED BY <3>3, <3>4 DEF AnyQuota
  <2> QED BY <2>1, <2>2
<1> QED BY <1>3, <1>4 DEF Kept

LEMMA ContinueEach ==
  ASSUME NEW ts, NEW pairs \in Seq(Target \X QuotaType), Continue(ts, pairs), found' = <<>>,
         NEW e \in AnyQuota, phase' = "quotas", exit = "none"
  PROVE  Count(found', {e}) + Count(scopes', Holding(e, Now[2]')) =
           IF Now[2]' = e.type /\ AsksFor(Now[1]', e) THEN 1 ELSE 0
<1>1. /\ pairs # <<>> /\ Direct(Head(pairs)) /\ scopes' = <<Head(pairs)[1]>> /\ todo' = pairs
  BY ContinueCases
<1>2. Now[1]' = Head(pairs)[1] /\ Now[2]' = Head(pairs)[2]
  BY <1>1 DEF Now
<1>3. Head(pairs)[1] \in Target /\ Head(pairs)[2] \in QuotaType
  <2>1. Head(pairs) \in Target \X QuotaType
    BY <1>1
  <2> QED BY <2>1
<1>4. Count(<<Head(pairs)[1]>>, Holding(e, Head(pairs)[2])) =
        IF Head(pairs)[2] = e.type /\ AsksFor(Head(pairs)[1], e) THEN 1 ELSE 0
  BY <1>1, <1>3, HeldDirectly DEF Direct
<1>5. Count(found', {e}) = 0
  BY EmptyCount
<1> QED BY <1>1, <1>2, <1>4, <1>5

\* A sequence of one element has nothing after it.
LEMMA LastOfOne ==
  ASSUME NEW X, NEW s \in Seq(X), Len(s) = 1
  PROVE  Tail(s) = <<>>
<1>1. s # <<>>
  BY EmptySeq
<1>2. Tail(s) \in Seq(X) /\ Len(Tail(s)) = 0
  BY <1>1
<1> QED BY <1>2, EmptySeq

LEMMA EachOnceStep ==
  ASSUME Core, Core', EachOnce, Next
  PROVE  EachOnce'
<1>0. UnderWay /\ TypeOK /\ exit = "none"
  BY NoStepAfterExit DEF Core
<1> SUFFICES ASSUME NEW e \in Kept'
             PROVE  /\ Count(entries', {e}) + Count(todo', Asking(e)') =
                         Count(Pairs(targets', command.types'), Asking(e)')
                    /\ phase' = "quotas" =>
                         Count(found', {e}) + Count(scopes', Holding(e, Now[2]')) =
                           IF Now[2]' = e.type /\ AsksFor(Now[1]', e) THEN 1 ELSE 0
  BY DEF EachOnce, Asking, Holding, AsksFor
<1>1. e \in Kept /\ e \in AnyQuota /\ Exists(e.fs, e.fileset)
  BY <1>0, KeptBefore DEF Kept
<1>2. /\ Count(entries, {e}) + Count(todo, Asking(e)) = Count(Pairs(targets, command.types), Asking(e))
      /\ phase = "quotas" =>
           Count(found, {e}) + Count(scopes, Holding(e, Now[2])) =
             IF Now[2] = e.type /\ AsksFor(Now[1], e) THEN 1 ELSE 0
  BY <1>1 DEF EachOnce
<1>3. command' = command /\ Asking(e)' = Asking(e)
  BY DEF Asking, About, Next, Command, ResolveTargets, GetFilesystem, ListFilesets, GetQuotas, GetIds,
         IdsUnavailable, GetStates, StatesUnavailable, PrintReport, RequestFails, CreateFileset,
         DeleteFileset, given
<1>4. CASE ResolveTargets
  <2>1. /\ Continue(targets', Pairs(targets', command.types)) /\ todo' = Pairs(targets', command.types)
        /\ entries' = <<>> /\ found' = <<>>
    BY <1>0, <1>4, ContinueCases DEF ResolveTargets, UnderWay
  <2>2. Pairs(targets', command.types) \in Seq(Target \X QuotaType)
    BY <2>1 DEF Core, TypeOK
  <2>3. Count(todo', Asking(e)) \in Nat /\ Count(entries', {e}) = 0
    BY <2>1, <2>2, CountType, EmptyCount
  <2>4. Count(entries', {e}) + Count(todo', Asking(e)) = Count(todo', Asking(e))
    BY <2>3
  <2>5. phase' = "quotas" =>
          Count(found', {e}) + Count(scopes', Holding(e, Now[2]')) =
            IF Now[2]' = e.type /\ AsksFor(Now[1]', e) THEN 1 ELSE 0
    BY <1>0, <1>1, <2>1, <2>2, ContinueEach
  <2> QED BY <1>3, <2>1, <2>4, <2>5
<1>5. CASE GetFilesystem
  <2>0. /\ UNCHANGED <<entries, todo, targets, found>> /\ found = <<>> /\ (Now)' = Now
        /\ phase' = "quotas" => scopes' = <<Now[1]>> /\ Now[1].fs \notin PerFileset
    BY <1>0, <1>5 DEF GetFilesystem, Fail, UnderWay, Now
  <2>1. Now[1] \in Target /\ Now[2] \in QuotaType
    BY <1>5, NowType DEF GetFilesystem
  <2>2. phase' = "quotas" =>
          Count(<<Now[1]>>, Holding(e, Now[2])) = IF Now[2] = e.type /\ AsksFor(Now[1], e) THEN 1 ELSE 0
    BY <1>1, <2>0, <2>1, HeldDirectly
  <2>3. Count(found', {e}) = 0
    BY <2>0, EmptyCount
  <2> QED BY <1>2, <1>3, <2>0, <2>2, <2>3
<1>6. CASE ListFilesets
  <2> DEFINE filesets == ById(Now[1].fs)
             listing == [i \in DOMAIN filesets |-> [fs |-> Now[1].fs, fileset |-> filesets[i]]]
  <2>0. /\ UNCHANGED <<entries, todo, targets, found>> /\ found = <<>> /\ (Now)' = Now
        /\ scopes' = listing /\ Now[1].fs \in PerFileset /\ Now[1].fileset = NoFileset
        /\ Now[2] # "FILESET"
    BY <1>0, <1>6 DEF ListFilesets, UnderWay, Now, Direct
  <2>1. Now[1] \in Target /\ Now[2] \in QuotaType
    BY <1>6, NowType DEF ListFilesets
  <2>2. Count(listing, Holding(e, Now[2])) = IF Now[2] = e.type /\ AsksFor(Now[1], e) THEN 1 ELSE 0
    BY <1>1, <2>0, <2>1, HeldOnce
  <2> HIDE DEF listing
  <2>3. Count(found', {e}) = 0
    BY <2>0, EmptyCount
  <2> QED BY <1>2, <1>3, <2>0, <2>2, <2>3
<1>7. CASE GetQuotas
  <2> DEFINE s == Head(scopes)
             C == Collection(s, Now[2])
             read == found \o SetToSeq(C)
             asks == Now[2] = e.type /\ AsksFor(Now[1], e)
  <2>0. phase = "quotas" /\ targets' = targets /\ scopes \in Seq(Target) /\ scopes # <<>> /\ found \in Seq(Entry)
        /\ todo \in Seq(Target \X QuotaType) /\ entries \in Seq(Entry)
    BY <1>0, <1>7 DEF GetQuotas, UnderWay, TypeOK
  <2>1. /\ s \in Target /\ IsFiniteSet(C) /\ SetToSeq(C) \in Seq(Entry) /\ read \in Seq(Entry)
    BY <2>0, ReadMembers
  <2>2. /\ todo # <<>> /\ Tail(todo) \in Seq(Target \X QuotaType) /\ Now[1] \in Target /\ Now[2] \in QuotaType
        /\ Now = <<Now[1], Now[2]>>
    BY <2>0, NowType
  <2> HIDE DEF C
  <2>3. Count(SetToSeq(C), {e}) = IF e \in C THEN 1 ELSE 0
    BY <2>1, SetToSeqOnce
  <2>4. e \in C <=> s \in Holding(e, Now[2])
    <3> HIDE DEF s
    <3> QED BY <1>1, <2>1, <2>2, CollectionHolds DEF C
  <2>5. Count(read, {e}) = Count(found, {e}) + Count(SetToSeq(C), {e})
    BY <2>0, <2>1, CountConcat
  <2>6. /\ Count(scopes, Holding(e, Now[2])) =
             (IF s \in Holding(e, Now[2]) THEN 1 ELSE 0) + Count(Tail(scopes), Holding(e, Now[2]))
        /\ Tail(scopes) \in Seq(Target)
    BY <2>0, CountHeadTail
  <2>7. /\ Count(found, {e}) \in Nat /\ Count(Tail(scopes), Holding(e, Now[2])) \in Nat
        /\ Count(entries, {e}) \in Nat /\ Count(Tail(todo), Asking(e)) \in Nat
    BY <2>0, <2>2, <2>6, CountType
  <2> HIDE DEF read, s, asks
  <2>8. Count(read, {e}) + Count(Tail(scopes), Holding(e, Now[2])) = IF asks THEN 1 ELSE 0
    BY <1>2, <2>0, <2>3, <2>4, <2>5, <2>6, <2>7 DEF asks
  <2>9. \/ /\ found' = read /\ scopes' = Tail(scopes) /\ UNCHANGED <<phase, todo, entries>>
        \/ /\ Len(scopes) = 1 /\ entries' = Report(read) /\ found' = <<>>
           /\ Continue(targets, Tail(todo))
        \/ phase' = "exited" /\ UNCHANGED <<entries, todo>>
    BY <1>7 DEF GetQuotas, Fail, collected, read, C, s
  <2>10. CASE found' = read /\ scopes' = Tail(scopes) /\ UNCHANGED <<phase, todo, entries>>
    <3>1. (Now)' = Now
      BY <2>10 DEF Now
    <3> QED BY <1>2, <1>3, <2>0, <2>8, <2>10, <3>1 DEF asks
  <2>11. CASE /\ Len(scopes) = 1 /\ entries' = Report(read) /\ found' = <<>>
              /\ Continue(targets, Tail(todo))
    <3>1. Tail(scopes) = <<>>
      BY <2>0, <2>11, LastOfOne
    <3>2. Count(read, {e}) = IF asks THEN 1 ELSE 0
      <4>1. Count(Tail(scopes), Holding(e, Now[2])) = 0
        BY <3>1, EmptyCount
      <4>2. Count(read, {e}) \in Nat
        BY <2>1, CountType
      <4> QED BY <2>8, <4>1, <4>2
    <3>3. Count(entries', {e}) = IF About(e) THEN Count(entries, {e}) + Count(read, {e}) ELSE 0
      BY <2>0, <2>1, <2>11, ReportCount
    <3>4. todo' = Tail(todo)
      BY <2>11, ContinueCases
    <3>5. Count(todo, Asking(e)) = (IF Now \in Asking(e) THEN 1 ELSE 0) + Count(Tail(todo), Asking(e))
      BY <2>0, <2>2, CountHeadTail DEF Now
    <3>6. Now \in Asking(e) <=> asks /\ About(e)
      BY <2>2 DEF Asking, asks
    <3>7. ASSUME ~About(e) PROVE \A t \in Seq(Target \X QuotaType) : Count(t, Asking(e)) = 0
      <4>1. Asking(e) = {}
        BY <3>7 DEF Asking
      <4>2. \A t \in Seq(Target \X QuotaType) : {i \in DOMAIN t : t[i] \in {}} = {}
        OBVIOUS
      <4> QED BY <4>1, <4>2, FS_EmptySet DEF Count
    <3>8. Count(entries', {e}) + Count(Tail(todo), Asking(e)) = Count(entries, {e}) + Count(todo, Asking(e))
      <4>1. CASE About(e)
        BY <2>7, <3>2, <3>3, <3>5, <3>6, <4>1
      <4>2. CASE ~About(e)
        <5>1. Count(todo, Asking(e)) = 0 /\ Count(Tail(todo), Asking(e)) = 0
          BY <2>0, <2>2, <3>7, <4>2
        <5>2. Count(Pairs(targets, command.types), Asking(e)) = 0
          <6>1. Pairs(targets, command.types) \in Seq(Target \X QuotaType)
            BY <1>0, PairsMembers, QuotaAssumption DEF TypeOK, QuotaCommand
          <6> QED BY <3>7, <4>2, <6>1
        <5> QED BY <1>2, <2>7, <3>3, <4>2, <5>1, <5>2
      <4> QED BY <4>1, <4>2
    <3>9. phase' = "quotas" =>
            Count(found', {e}) + Count(scopes', Holding(e, Now[2]')) =
              IF Now[2]' = e.type /\ AsksFor(Now[1]', e) THEN 1 ELSE 0
      BY <1>0, <1>1, <2>2, <2>11, ContinueEach
    <3> QED BY <1>2, <1>3, <2>0, <3>4, <3>8, <3>9
  <2>12. CASE phase' = "exited" /\ UNCHANGED <<entries, todo>>
    BY <1>2, <1>3, <2>0, <2>12
  <2> QED BY <2>9, <2>10, <2>11, <2>12
<1>8. CASE /\ UNCHANGED <<entries, todo, targets, found, scopes>>
           /\ phase' = phase \/ phase' = "exited"
  <2>1. (Now)' = Now
    BY <1>8 DEF Now
  <2> QED BY <1>2, <1>3, <1>8, <2>1
<1>9. \/ ResolveTargets \/ GetFilesystem \/ ListFilesets \/ GetQuotas
      \/ /\ UNCHANGED <<entries, todo, targets, found, scopes>>
         /\ phase' = phase \/ phase' = "exited"
  BY DEF Next, Command, GetIds, IdsUnavailable, GetStates, StatesUnavailable, PrintReport, RequestFails,
         Fail, CreateFileset, DeleteFileset, collected
<1> QED BY <1>4, <1>5, <1>6, <1>7, <1>8, <1>9

LEMMA EachOnceInvariant == Spec => []EachOnce
<1>1. Init => EachOnce
  <2> SUFFICES ASSUME Init, NEW e \in Kept
               PROVE  Count(entries, {e}) + Count(todo, Asking(e)) =
                        Count(Pairs(targets, command.types), Asking(e))
    BY DEF EachOnce, Init
  <2>1. entries = <<>> /\ todo = <<>> /\ targets = <<>> /\ command \in Commands
    BY DEF Init
  <2>2. Pairs(<<>>, command.types) = <<>>
    <3>1. Len(command.types) \in Nat
      BY <2>1, QuotaAssumption, LenProperties DEF QuotaCommand
    <3>2. Len(<<>>) * Len(command.types) = 0
      BY <3>1
    <3>3. DOMAIN Pairs(<<>>, command.types) = 1..0
      BY <3>2 DEF Pairs
    <3>4. Pairs(<<>>, command.types) \in Seq(Target \X QuotaType)
      BY <2>1, PairsMembers, EmptySeq, QuotaAssumption DEF QuotaCommand
    <3> QED BY <3>3, <3>4
  <2> QED BY <2>1, <2>2, EmptyCount
<1>2. QuotaInv /\ QuotaInv' /\ EachOnce /\ [Next]_vars => EachOnce'
  <2> SUFFICES ASSUME QuotaInv, QuotaInv', EachOnce, [Next]_vars PROVE EachOnce'
    OBVIOUS
  <2>1. CASE Next
    BY <2>1, EachOnceStep DEF QuotaInv
  <2>2. CASE UNCHANGED vars
    BY <2>2 DEF vars, EachOnce, Kept, AnyQuota, Steady, Exists, IdOf, Asking, About, AsksFor, Holding, Now
  <2> QED BY <2>1, <2>2
<1>3. Spec => Init /\ [][Next]_vars
  BY PTL DEF Spec
<1> QED BY <1>1, <1>2, <1>3, QuotaInvariant, PTL

\* A printed report has every quota of a fileset that stayed, once for each
\* target that asks for it (quota.go:75-135).
THEOREM StableQuotasAreReported == Spec => []StableQuotasReported
<1>1. ASSUME QuotaInv, EachOnce PROVE StableQuotasReported
  <2> SUFFICES ASSUME exit = "ok", NEW e \in AnyQuota, Steady(e.fs, e.fileset)
               PROVE  Cardinality({i \in DOMAIN entries : entries[i] = e}) =
                        Cardinality({i \in DOMAIN targets :
                          e.type \in Range(command.types) /\ AsksFor(targets[i], e) /\ About(e)})
    BY DEF StableQuotasReported
  <2>1. todo = <<>> /\ TypeOK
    BY <1>1 DEF QuotaInv, Core, UnderWay
  <2>2. command.types \in Seq(QuotaType) /\ IsInjective(command.types) /\ targets \in Seq(Target)
        /\ entries \in Seq(Entry)
    BY <2>1, QuotaAssumption DEF TypeOK, QuotaCommand
  <2>3. Count(entries, {e}) + Count(todo, Asking(e)) = Count(Pairs(targets, command.types), Asking(e))
    BY <1>1 DEF EachOnce, Kept
  <2>4. Count(todo, Asking(e)) = 0 /\ Count(entries, {e}) \in Nat
    BY <2>1, <2>2, EmptyCount, CountType
  <2> DEFINE T == {t \in Target : AsksFor(t, e) /\ About(e)}
  <2>5. \A p \in Target \X QuotaType : p \in Asking(e) <=> p[1] \in T /\ p[2] = e.type
    BY DEF Asking
  <2> HIDE DEF T
  <2>6. Count(Pairs(targets, command.types), Asking(e)) =
          Cardinality({i \in DOMAIN targets : e.type \in Range(command.types) /\ targets[i] \in T})
    <3>1. Count(Pairs(targets, command.types), Asking(e)) =
            Cardinality(Places(targets, command.types, e.type, T))
      BY <2>2, <2>5, CountPairs
    <3> QED BY <3>1 DEF Places
  <2>7. \A i \in DOMAIN targets : targets[i] \in Target
    BY <2>2, ElementOfSeq, LenProperties
  <2>8. {i \in DOMAIN targets : e.type \in Range(command.types) /\ targets[i] \in T} =
          {i \in DOMAIN targets : e.type \in Range(command.types) /\ AsksFor(targets[i], e) /\ About(e)}
    BY <2>7 DEF T
  <2>9. {i \in DOMAIN entries : entries[i] \in {e}} = {i \in DOMAIN entries : entries[i] = e}
    OBVIOUS
  <2> QED BY <2>3, <2>4, <2>6, <2>8, <2>9 DEF Count
<1> QED BY <1>1, QuotaInvariant, EachOnceInvariant, PTL

-----------------------------------------------------------------------------
(* Sequences along which a relation holds, from each element to every later *)

Along(s, R) == \A i, j \in DOMAIN s : i < j => <<s[i], s[j]>> \in R

LEMMA AlongConcat ==
  ASSUME NEW X, NEW s \in Seq(X), NEW t \in Seq(X), NEW R, Along(s, R), Along(t, R),
         \A x \in Range(s), y \in Range(t) : <<x, y>> \in R
  PROVE  Along(s \o t, R)
<1> DEFINE m == Len(s)
           n == Len(t)
           c == s \o t
<1>1. /\ m \in Nat /\ n \in Nat /\ DOMAIN s = 1..m /\ DOMAIN t = 1..n /\ DOMAIN c = 1..(m + n)
      /\ \A i \in 1..(m + n) : c[i] = IF i <= m THEN s[i] ELSE t[i - m]
  BY LenProperties, ConcatProperties
<1> HIDE DEF m, n, c
<1>2. SUFFICES ASSUME NEW i \in 1..(m + n), NEW j \in 1..(m + n), i < j PROVE <<c[i], c[j]>> \in R
  BY <1>1 DEF Along, c
<1>3. CASE j <= m
  <2>1. i \in DOMAIN s /\ j \in DOMAIN s /\ c[i] = s[i] /\ c[j] = s[j]
    BY <1>1, <1>2, <1>3
  <2> QED BY <1>2, <2>1 DEF Along
<1>4. CASE i <= m /\ ~(j <= m)
  <2>1. i \in DOMAIN s /\ j - m \in DOMAIN t /\ c[i] = s[i] /\ c[j] = t[j - m]
    BY <1>1, <1>2, <1>4
  <2>2. s[i] \in Range(s) /\ t[j - m] \in Range(t)
    BY <2>1 DEF Range
  <2> QED BY <2>1, <2>2
<1>5. CASE ~(i <= m)
  <2>1. i - m \in DOMAIN t /\ j - m \in DOMAIN t /\ i - m < j - m /\ c[i] = t[i - m] /\ c[j] = t[j - m]
    BY <1>1, <1>2, <1>5
  <2> QED BY <2>1 DEF Along
<1> QED BY <1>1, <1>2, <1>3, <1>4, <1>5

LEMMA AlongTail ==
  ASSUME NEW X, NEW s \in Seq(X), s # <<>>, NEW R, Along(s, R)
  PROVE  Along(Tail(s), R) /\ \A y \in Range(Tail(s)) : <<Head(s), y>> \in R
<1> DEFINE m == Len(s)
           t == Tail(s)
<1>1. m \in Nat /\ DOMAIN s = 1..m /\ m # 0 /\ t \in Seq(X) /\ Len(t) = m - 1 /\ Head(s) = s[1]
      /\ \A i \in 1..(m - 1) : t[i] = s[i + 1]
  BY LenProperties
<1>2. DOMAIN t = 1..(m - 1)
  BY <1>1, LenProperties
<1> HIDE DEF m, t
<1>3. \A i \in 1..(m - 1) : i + 1 \in 1..m /\ 1 < i + 1 /\ 1 \in 1..m
  BY <1>1
<1>4. ASSUME NEW i \in 1..(m - 1), NEW j \in 1..(m - 1), i < j PROVE <<t[i], t[j]>> \in R
  <2>1. i + 1 \in 1..m /\ j + 1 \in 1..m /\ i + 1 < j + 1
    BY <1>1, <1>4
  <2> QED BY <1>1, <2>1 DEF Along
<1>5. Along(t, R)
  BY <1>2, <1>4 DEF Along
<1>6. \A i \in 1..(m - 1) : <<s[1], t[i]>> \in R
  BY <1>1, <1>3 DEF Along
<1>7. \A y \in Range(t) : \E i \in 1..(m - 1) : y = t[i]
  BY <1>2 DEF Range
<1> QED BY <1>1, <1>5, <1>6, <1>7 DEF t

LEMMA AlongMore ==
  ASSUME NEW s, NEW R, NEW Q, Along(s, R), R \subseteq Q
  PROVE  Along(s, Q)
BY DEF Along

LEMMA AlongAll ==
  ASSUME NEW s, NEW R, \A x, y \in Range(s) : <<x, y>> \in R
  PROVE  Along(s, R)
BY DEF Along, Range

LEMMA AlongNothing == \A R : Along(<<>>, R)
<1>1. DOMAIN <<>> = {}
  OBVIOUS
<1> QED BY <1>1 DEF Along

LEMMA AlongOne == \A x, R : Along(<<x>>, R)
<1>1. \A x : DOMAIN <<x>> = 1..1
  OBVIOUS
<1>2. \A i, j \in 1..1 : ~(i < j)
  OBVIOUS
<1> QED BY <1>1, <1>2 DEF Along

\* Quotas sorted by id stand as R has it when R is in favour of the lower id
\* and, among equal ids, of the earlier quota.
LEMMA AlongSorted ==
  ASSUME NEW s \in Seq(Entry), NEW P \in SUBSET DOMAIN s, NEW R, NEW Q, Along(s, Q),
         \A x, y \in Range(s) : x.id < y.id \/ (x.id = y.id /\ <<x, y>> \in Q) => <<x, y>> \in R
  PROVE  Along(SortQuotas(s, P), R)
<1> DEFINE O == Stable(s, P)
           o == Listed(P, O)
           c == Cardinality(P)
<1>1. StrictOrder(O, P)
  BY SortOrder
<1>2. IsFiniteSet(P) /\ c \in Nat
  BY PlacesFinite
<1>3. InOrderOf(o, P, O)
  BY <1>1, <1>2, ListedInOrder
<1>4. SortQuotas(s, P) = [k \in 1..c |-> s[o[k]]]
  BY SortOrder DEF Taken
<1>5. \A i, j \in P : <<i, j>> \in O => s[i].id < s[j].id \/ (s[i].id = s[j].id /\ i < j)
  BY DEF Stable
<1> HIDE DEF O, o, c
<1>6. SUFFICES ASSUME NEW i \in 1..c, NEW j \in 1..c, i < j PROVE <<s[o[i]], s[o[j]]>> \in R
  BY <1>4 DEF Along
<1>7. o[i] \in P /\ o[j] \in P /\ <<o[i], o[j]>> \in O
  BY <1>3, <1>6 DEF InOrderOf, c
<1>8. s[o[i]] \in Range(s) /\ s[o[j]] \in Range(s)
  BY <1>7 DEF Range
<1>9. o[i] < o[j] => <<s[o[i]], s[o[j]]>> \in Q
  BY <1>7 DEF Along
<1> QED BY <1>5, <1>7, <1>8, <1>9

-----------------------------------------------------------------------------
(* Where lines belong *)

LEMMA ThreeInOrder ==
  ASSUME NEW a \in Nat, NEW b \in Nat, NEW c \in Nat, NEW d \in Nat, NEW e \in Nat, NEW f \in Nat,
         a < d \/ (a = d /\ (b < e \/ (b = e /\ c <= f)))
  PROVE  InOrder(<<a, b, c>>, <<d, e, f>>)
<1> DEFINE p == <<a, b, c>>
           q == <<d, e, f>>
<1>1. DOMAIN p = 1..3
  OBVIOUS
<1>2. p[1] = a /\ p[2] = b /\ p[3] = c /\ q[1] = d /\ q[2] = e /\ q[3] = f
  OBVIOUS
<1>3. a = d /\ b = e /\ c = f => p = q
  OBVIOUS
<1> HIDE DEF p, q
<1>4. SUFFICES p # q => \E k \in 1..3 : p[k] < q[k] /\ \A j \in 1..(k - 1) : p[j] = q[j]
  BY <1>1 DEF InOrder, p, q
<1>5. ASSUME a < d PROVE \E k \in 1..3 : p[k] < q[k] /\ \A j \in 1..(k - 1) : p[j] = q[j]
  <2>1. 1 \in 1..3 /\ p[1] < q[1] /\ \A j \in 1..(1 - 1) : p[j] = q[j]
    BY <1>2, <1>5
  <2> QED BY <2>1
<1>6. ASSUME a = d, b < e PROVE \E k \in 1..3 : p[k] < q[k] /\ \A j \in 1..(k - 1) : p[j] = q[j]
  <2>1. 2 \in 1..3 /\ p[2] < q[2] /\ \A j \in 1..(2 - 1) : p[j] = q[j]
    BY <1>2, <1>6
  <2> QED BY <2>1
<1>7. ASSUME a = d, b = e, c < f PROVE \E k \in 1..3 : p[k] < q[k] /\ \A j \in 1..(k - 1) : p[j] = q[j]
  <2>1. \A j \in 1..(3 - 1) : j = 1 \/ j = 2
    OBVIOUS
  <2>2. 3 \in 1..3 /\ p[3] < q[3] /\ \A j \in 1..(3 - 1) : p[j] = q[j]
    BY <1>2, <1>7, <2>1
  <2> QED BY <2>2
<1> QED BY <1>3, <1>5, <1>6, <1>7

LEMMA FourInOrder ==
  ASSUME NEW a \in Nat, NEW b \in Nat, NEW c \in Nat, NEW g \in Nat,
         NEW d \in Nat, NEW e \in Nat, NEW f \in Nat, NEW h \in Nat,
         a < d \/ (a = d /\ (b < e \/ (b = e /\ (c < f \/ (c = f /\ g <= h)))))
  PROVE  InOrder(<<a, b, c, g>>, <<d, e, f, h>>)
<1> DEFINE p == <<a, b, c, g>>
           q == <<d, e, f, h>>
<1>1. DOMAIN p = 1..4
  OBVIOUS
<1>2. /\ p[1] = a /\ p[2] = b /\ p[3] = c /\ p[4] = g
      /\ q[1] = d /\ q[2] = e /\ q[3] = f /\ q[4] = h
  OBVIOUS
<1>3. a = d /\ b = e /\ c = f /\ g = h => p = q
  OBVIOUS
<1> HIDE DEF p, q
<1>4. SUFFICES p # q => \E k \in 1..4 : p[k] < q[k] /\ \A j \in 1..(k - 1) : p[j] = q[j]
  BY <1>1 DEF InOrder, p, q
<1>5. ASSUME a < d PROVE \E k \in 1..4 : p[k] < q[k] /\ \A j \in 1..(k - 1) : p[j] = q[j]
  <2>1. 1 \in 1..4 /\ p[1] < q[1] /\ \A j \in 1..(1 - 1) : p[j] = q[j]
    BY <1>2, <1>5
  <2> QED BY <2>1
<1>6. ASSUME a = d, b < e PROVE \E k \in 1..4 : p[k] < q[k] /\ \A j \in 1..(k - 1) : p[j] = q[j]
  <2>1. 2 \in 1..4 /\ p[2] < q[2] /\ \A j \in 1..(2 - 1) : p[j] = q[j]
    BY <1>2, <1>6
  <2> QED BY <2>1
<1>7. ASSUME a = d, b = e, c < f PROVE \E k \in 1..4 : p[k] < q[k] /\ \A j \in 1..(k - 1) : p[j] = q[j]
  <2>1. \A j \in 1..(3 - 1) : j = 1 \/ j = 2
    OBVIOUS
  <2>2. 3 \in 1..4 /\ p[3] < q[3] /\ \A j \in 1..(3 - 1) : p[j] = q[j]
    BY <1>2, <1>7, <2>1
  <2> QED BY <2>2
<1>8. ASSUME a = d, b = e, c = f, g < h
      PROVE  \E k \in 1..4 : p[k] < q[k] /\ \A j \in 1..(k - 1) : p[j] = q[j]
  <2>1. \A j \in 1..(4 - 1) : j = 1 \/ j = 2 \/ j = 3
    OBVIOUS
  <2>2. 4 \in 1..4 /\ p[4] < q[4] /\ \A j \in 1..(4 - 1) : p[j] = q[j]
    BY <1>2, <1>8, <2>1
  <2> QED BY <2>2
<1> QED BY <1>3, <1>5, <1>6, <1>7, <1>8

\* Every target is on a file system of its own.
Distinct(ts) == \A i, j \in DOMAIN ts : ts[i].fs = ts[j].fs => i = j

\* The fileset a line or a collection is about, its id, and whether it stayed.
Rank(x) == IdOf(x.fs, InRoot(x.fileset))
Stays(x) == Steady(x.fs, InRoot(x.fileset))

Filed == Target \cup Entry

\* The filesets in the order of their ids; the same for quotas of one id; and
\* two lines in their places.
Climbing == {p \in Filed \X Filed : Stays(p[1]) /\ Stays(p[2]) => Rank(p[1]) <= Rank(p[2])}
Tied == {p \in Entry \X Entry : p[1].id = p[2].id /\ Stays(p[1]) /\ Stays(p[2]) => Rank(p[1]) <= Rank(p[2])}
Lined == {p \in Entry \X Entry : Stays(p[1]) /\ Stays(p[2]) => InOrder(Place(p[1]), Place(p[2]))}

LEMMA RankType ==
  ASSUME Core, NEW x \in Filed
  PROVE  /\ x.fs \in FS /\ InRoot(x.fileset) \in Name
         /\ Stays(x) => Rank(x) \in Nat
         /\ x \in Entry => InRoot(x.fileset) = x.fileset
<1>1. x.fs \in FS /\ x.fileset \in Name \cup {NoFileset}
  BY DEF Filed, Target, Entry
<1>2. InRoot(x.fileset) \in Name
  BY <1>1 DEF InRoot, Name
<1>3. \A n \in Name : n # NoFileset
  BY QuotaAssumption DEF Name, Root, NoFileset
<1>4. x \in Entry => InRoot(x.fileset) = x.fileset
  BY <1>3 DEF Entry, InRoot
<1>5. Stays(x) => Rank(x) \in Nat
  <2>1. ids \in [FS -> [Fileset -> 0..MaxId]]
    BY DEF Core, TypeOK
  <2>2. MaxId \in Nat /\ Root \notin Fileset
    BY QuotaAssumption
  <2> QED BY <1>1, <1>2, <2>1, <2>2 DEF Rank, IdOf, Name
<1> QED BY <1>1, <1>2, <1>4, <1>5

\* The target and the type of a quota by their places.
LEMMA PlaceOf ==
  ASSUME NEW e \in Entry, NEW a \in DOMAIN targets, NEW b \in DOMAIN command.types,
         Distinct(targets), IsInjective(command.types),
         targets[a].fs = e.fs, command.types[b] = e.type
  PROVE  Place(e) = IF command.name = "mmlsquota"
                    THEN <<e.id, a, IdOf(e.fs, e.fileset)>>
                    ELSE <<a, b, e.id, IdOf(e.fs, e.fileset)>>
<1>1. (CHOOSE i \in DOMAIN targets : targets[i].fs = e.fs) = a
  BY DEF Distinct
<1>2. (CHOOSE i \in DOMAIN command.types : command.types[i] = e.type) = b
  BY DEF IsInjective
<1> QED BY <1>1, <1>2, Zenon DEF Place

\* Two lines stand in order when their places do.
LEMMA LineOrder ==
  ASSUME Core, Distinct(targets), NEW e \in Entry, NEW f \in Entry,
         NEW a \in DOMAIN targets, NEW b \in DOMAIN command.types,
         targets[a].fs = e.fs, command.types[b] = e.type,
         NEW c \in DOMAIN targets, NEW d \in DOMAIN command.types,
         targets[c].fs = f.fs, command.types[d] = f.type,
         IF command.name = "mmlsquota"
         THEN e.id < f.id \/ (e.id = f.id /\ (a < c \/ (a = c /\ <<e, f>> \in Tied)))
         ELSE a < c \/ (a = c /\ (b < d \/ (b = d /\ (e.id < f.id \/ (e.id = f.id /\ <<e, f>> \in Tied)))))
  PROVE  <<e, f>> \in Lined
<1>1. SUFFICES ASSUME Stays(e), Stays(f) PROVE InOrder(Place(e), Place(f))
  BY DEF Lined
<1>2. command \in QuotaCommand /\ IsInjective(command.types) /\ command.types \in Seq(QuotaType)
  BY QuotaAssumption DEF Core, TypeOK, QuotaCommand
<1>3. a \in Nat /\ b \in Nat /\ c \in Nat /\ d \in Nat /\ e.id \in Nat /\ f.id \in Nat
  <2>1. DOMAIN targets = 1..Len(targets) /\ DOMAIN command.types = 1..Len(command.types)
    BY <1>2, LenProperties DEF Core, TypeOK
  <2>2. \A x \in Entry : x.id \in Nat
    BY DEF Entry
  <2> QED BY <2>1, <2>2
<1> DEFINE x == IdOf(e.fs, e.fileset)
           y == IdOf(f.fs, f.fileset)
<1>4. x = Rank(e) /\ x \in Nat /\ y = Rank(f) /\ y \in Nat
  <2>1. Rank(e) \in Nat /\ Rank(f) \in Nat /\ InRoot(e.fileset) = e.fileset /\ InRoot(f.fileset) = f.fileset
    BY <1>1, RankType DEF Filed
  <2> QED BY <2>1 DEF Rank
<1>5. <<e, f>> \in Tied /\ e.id = f.id => x <= y
  BY <1>1, <1>4 DEF Tied
<1>6. /\ Place(e) = IF command.name = "mmlsquota" THEN <<e.id, a, x>> ELSE <<a, b, e.id, x>>
      /\ Place(f) = IF command.name = "mmlsquota" THEN <<f.id, c, y>> ELSE <<c, d, f.id, y>>
  BY <1>2, PlaceOf
<1> HIDE DEF x, y
<1>7. CASE command.name = "mmlsquota"
  <2>1. InOrder(<<e.id, a, x>>, <<f.id, c, y>>)
    <3>1. e.id < f.id \/ (e.id = f.id /\ (a < c \/ (a = c /\ x <= y)))
      BY <1>5, <1>7
    <3> HIDE DEF Tied, Entry
    <3> QED BY <1>3, <1>4, <3>1, ThreeInOrder
  <2> QED BY <1>6, <1>7, <2>1
<1>8. CASE command.name # "mmlsquota"
  <2>1. InOrder(<<a, b, e.id, x>>, <<c, d, f.id, y>>)
    <3>1. a < c \/ (a = c /\ (b < d \/ (b = d /\ (e.id < f.id \/ (e.id = f.id /\ x <= y)))))
      BY <1>5, <1>8
    <3> QED BY <1>3, <1>4, <3>1, FourInOrder
  <2> QED BY <1>6, <1>8, <2>1
<1> QED BY <1>7, <1>8

LEMMA LowerPair ==
  ASSUME NEW k \in Nat, NEW a \in Nat, NEW b \in 1..k, NEW c \in Nat, NEW d \in 1..k,
         k * (a - 1) + (b - 1) + 1 < k * (c - 1) + (d - 1) + 1
  PROVE  a < c \/ (a = c /\ b < d)
<1>1. CASE c < a
  <2>1. PICK m \in Nat : a = c + 1 + m
    <3>1. a - c - 1 \in Nat /\ a = c + 1 + (a - c - 1)
      BY <1>1
    <3> QED BY <3>1
  <2>2. k * (a - 1) = k * (c - 1) + k + k * m
    BY <2>1
  <2>3. k * m \in Nat /\ k * (c - 1) \in Int
    BY <2>1
  <2> QED BY <2>2, <2>3
<1> QED BY <1>1

LEMMA PairAt ==
  ASSUME NEW n \in Nat, NEW k \in Nat, NEW i \in 1..(n * k)
  PROVE  \E a \in 1..n, b \in 1..k :
           a = ((i - 1) \div k) + 1 /\ b = ((i - 1) % k) + 1 /\ i = k * (a - 1) + (b - 1) + 1
<1> DEFINE u == (i - 1) \div k
           v == (i - 1) % k
<1>1. n * k \in Nat /\ u + 1 \in 1..n /\ v + 1 \in 1..k /\ i = k * u + v + 1
  BY PairPlaces
<1>2. i - 1 \in Nat /\ k # 0
  BY <1>1
<1>3. u \in Nat /\ v \in Nat
  <2>1. u \in Nat /\ v \in 0..(k - 1)
    BY <1>2, Quotients
  <2> QED BY <2>1
<1> HIDE DEF u, v
<1>4. (u + 1) - 1 = u /\ (v + 1) - 1 = v
  BY <1>3
<1>5. i = k * ((u + 1) - 1) + ((v + 1) - 1) + 1
  BY <1>1, <1>4, Zenon
<1> QED BY <1>1, <1>5, Zenon DEF u, v

\* The pairs go target by target and, within one, type by type.
LEMMA PairsInOrder ==
  ASSUME NEW X, NEW Y, NEW ts \in Seq(X), NEW tys \in Seq(Y),
         NEW p \in DOMAIN Pairs(ts, tys), NEW q \in DOMAIN Pairs(ts, tys), p <= q
  PROVE  \E a, c \in DOMAIN ts, b, d \in DOMAIN tys :
           /\ Pairs(ts, tys)[p] = <<ts[a], tys[b]>> /\ Pairs(ts, tys)[q] = <<ts[c], tys[d]>>
           /\ p = q => a = c /\ b = d
           /\ p < q => a < c \/ (a = c /\ b < d)
<1> DEFINE n == Len(ts)
           k == Len(tys)
           at(i) == ((i - 1) \div k) + 1
           of(i) == ((i - 1) % k) + 1
<1>1. n \in Nat /\ k \in Nat /\ DOMAIN ts = 1..n /\ DOMAIN tys = 1..k
  BY LenProperties
<1>2. Pairs(ts, tys) = [i \in 1..(n * k) |-> <<ts[at(i)], tys[of(i)]>>]
  BY DEF Pairs
<1>3. p \in 1..(n * k) /\ q \in 1..(n * k)
  BY <1>2
<1>4. /\ Pairs(ts, tys)[p] = <<ts[at(p)], tys[of(p)]>>
      /\ Pairs(ts, tys)[q] = <<ts[at(q)], tys[of(q)]>>
  BY <1>2, <1>3
<1> HIDE DEF n, k
<1>5. PICK a \in 1..n, b \in 1..k : a = at(p) /\ b = of(p) /\ p = k * (a - 1) + (b - 1) + 1
  BY <1>1, <1>3, PairAt
<1>6. PICK c \in 1..n, d \in 1..k : c = at(q) /\ d = of(q) /\ q = k * (c - 1) + (d - 1) + 1
  BY <1>1, <1>3, PairAt
<1> HIDE DEF at, of
<1>7. p < q => a < c \/ (a = c /\ b < d)
  <2> SUFFICES ASSUME p < q PROVE a < c \/ (a = c /\ b < d)
    OBVIOUS
  <2>1. a \in Nat /\ c \in Nat /\ k \in Nat
    BY <1>1
  <2>2. k * (a - 1) + (b - 1) + 1 < k * (c - 1) + (d - 1) + 1
    <3>1. p = k * (a - 1) + (b - 1) + 1 /\ q = k * (c - 1) + (d - 1) + 1
      BY <1>5, <1>6
    <3> QED BY <3>1, Zenon
  <2> QED BY <2>1, <2>2, LowerPair
<1>8. p = q => a = c /\ b = d
  BY <1>5, <1>6
<1>9. /\ Pairs(ts, tys)[p] = <<ts[a], tys[b]>> /\ Pairs(ts, tys)[q] = <<ts[c], tys[d]>>
  BY <1>4, <1>5, <1>6
<1> QED BY <1>1, <1>7, <1>8, <1>9, Zenon
-----------------------------------------------------------------------------
(* A pair read to its end *)

All == Pairs(targets, command.types)

\* The pairs that are still to be listed are the last ones.
Done == Len(All) - Len(todo)
Remaining == Len(todo) <= Len(All) /\ \A i \in 1..Len(todo) : todo[i] = All[Done + i]

\* x is a quota that pair asks for, or could.
Of(x, pair) == x.fs = pair[1].fs /\ x.type = pair[2]

\* The report is made of pairs that are done.
DoneBefore == \A e \in Range(entries) : \E p \in 1..Done : Of(e, All[p])

\* What is read and what is still to be read of a pair is in order.
Reading ==
  phase = "quotas" =>
    /\ \A e \in Range(found) : Of(e, Now)
    /\ Now[2] = "FILESET" => found = <<>> /\ Len(scopes) = 1
    /\ Now[2] # "FILESET" =>
         /\ Along(found, Climbing) /\ Along(scopes, Climbing)
         /\ \A x \in Range(found), y \in Range(scopes) : <<x, y>> \in Climbing

LinesStand == Distinct(targets) => Along(entries, Lined)

Ordered == Remaining /\ DoneBefore /\ Reading /\ LinesStand

LEMMA CommandType ==
  ASSUME Core
  PROVE  /\ command.types \in Seq(QuotaType) /\ IsInjective(command.types)
         /\ command.name = "mmlsquota" => Len(command.types) = 1
         /\ targets \in Seq(Target) /\ All \in Seq(Target \X QuotaType)
         /\ DOMAIN All = 1..Len(All) /\ Len(All) \in Nat
<1>1. /\ command.types \in Seq(QuotaType) /\ IsInjective(command.types)
      /\ command.name = "mmlsquota" => Len(command.types) = 1
      /\ targets \in Seq(Target)
  BY QuotaAssumption DEF Core, TypeOK, QuotaCommand
<1>2. All \in Seq(Target \X QuotaType)
  BY <1>1, PairsMembers DEF All
<1> QED BY <1>1, <1>2, LenProperties

\* A line of an earlier pair stands before one of a later pair, and within a
\* pair the ids decide; in mmlsquota the ids come first.
LEMMA LinesOfPairs ==
  ASSUME Core, Distinct(targets), NEW e \in Entry, NEW f \in Entry,
         NEW p \in DOMAIN All, NEW q \in DOMAIN All, Of(e, All[p]), Of(f, All[q]), p <= q
  PROVE  /\ p < q => command.name = "mmlsquota" \/ <<e, f>> \in Lined
         /\ p < q /\ e.id = f.id => <<e, f>> \in Lined
         /\ p = q /\ e.id = f.id /\ <<e, f>> \in Tied => <<e, f>> \in Lined
         /\ e.id < f.id => <<e, f>> \in Lined
<1>1. PICK a, c \in DOMAIN targets, b, d \in DOMAIN command.types :
           /\ All[p] = <<targets[a], command.types[b]>> /\ All[q] = <<targets[c], command.types[d]>>
           /\ p = q => a = c /\ b = d
           /\ p < q => a < c \/ (a = c /\ b < d)
  <2> DEFINE ts == targets
             tys == command.types
  <2>1. p \in DOMAIN Pairs(ts, tys) /\ q \in DOMAIN Pairs(ts, tys)
    BY DEF All
  <2>2. ts \in Seq(Target) /\ tys \in Seq(QuotaType)
    BY CommandType
  <2> HIDE DEF ts, tys
  <2>3. \E a, c \in DOMAIN ts, b, d \in DOMAIN tys :
           /\ Pairs(ts, tys)[p] = <<ts[a], tys[b]>> /\ Pairs(ts, tys)[q] = <<ts[c], tys[d]>>
           /\ p = q => a = c /\ b = d
           /\ p < q => a < c \/ (a = c /\ b < d)
    BY <2>1, <2>2, PairsInOrder
  <2> QED BY <2>3 DEF ts, tys, All
<1>2. /\ targets[a].fs = e.fs /\ command.types[b] = e.type
      /\ targets[c].fs = f.fs /\ command.types[d] = f.type
  BY <1>1 DEF Of
<1>3. command.name = "mmlsquota" => b = 1 /\ d = 1
  <2>1. DOMAIN command.types = 1..Len(command.types)
    BY CommandType, LenProperties
  <2>2. \A i \in 1..1 : i = 1
    OBVIOUS
  <2> QED BY <2>1, <2>2, CommandType, Zenon
<1>4. p \in Nat /\ q \in Nat
  BY CommandType
<1>5. CASE command.name = "mmlsquota"
  <2>1. e.id < f.id \/ (e.id = f.id /\ (a < c \/ (a = c /\ <<e, f>> \in Tied))) => <<e, f>> \in Lined
    BY <1>2, <1>5, LineOrder
  <2>2. p < q => a < c
    BY <1>1, <1>3, <1>5
  <2> QED BY <1>1, <1>5, <2>1, <2>2
<1>6. CASE command.name # "mmlsquota"
  <2>1. a < c \/ (a = c /\ (b < d \/ (b = d /\ (e.id < f.id \/ (e.id = f.id /\ <<e, f>> \in Tied)))))
           => <<e, f>> \in Lined
    BY <1>2, <1>6, LineOrder
  <2>2. p < q => <<e, f>> \in Lined
    BY <1>1, <2>1
  <2>3. p = q \/ p < q
    BY <1>4
  <2> QED BY <1>1, <2>1, <2>2, <2>3
<1> QED BY <1>5, <1>6

LEMMA LinesOfObject ==
  ASSUME Core, Distinct(targets), NEW e \in Entry, NEW f \in Entry,
         NEW p \in DOMAIN All, NEW q \in DOMAIN All, Of(e, All[p]), Of(f, All[q]),
         command.name = "mmlsquota", e.id < f.id
  PROVE  <<e, f>> \in Lined
<1>1. PICK a \in DOMAIN targets, b \in DOMAIN command.types : All[p] = <<targets[a], command.types[b]>>
  <2>1. p <= p
    BY CommandType
  <2> QED BY <2>1, CommandType, PairsInOrder DEF All
<1>2. PICK c \in DOMAIN targets, d \in DOMAIN command.types : All[q] = <<targets[c], command.types[d]>>
  <2>1. q <= q
    BY CommandType
  <2> QED BY <2>1, CommandType, PairsInOrder DEF All
<1>3. /\ targets[a].fs = e.fs /\ command.types[b] = e.type
      /\ targets[c].fs = f.fs /\ command.types[d] = f.type
  BY <1>1, <1>2 DEF Of
<1> QED BY <1>3, LineOrder

LEMMA SortedMembers ==
  ASSUME NEW s \in Seq(Entry)
  PROVE  SortQuotas(s, DOMAIN s) \in Seq(Entry) /\ Range(SortQuotas(s, DOMAIN s)) \subseteq Range(s)
<1> DEFINE t == SortQuotas(s, DOMAIN s)
           P == DOMAIN s
<1>1. Picks(t, s, P)
  BY SortPicks
<1>2. P \in SUBSET DOMAIN s
  OBVIOUS
<1> HIDE DEF t, P
<1>3. t \in Seq(Entry)
  BY <1>1, <1>2, PickedType
<1>4. Range(t) = {s[i] : i \in P}
  BY <1>1, <1>2, RangePicked
<1> QED BY <1>3, <1>4 DEF t, P, Range

\* The report with one more pair is in order when what was read of it is.
LEMMA ReportInOrder ==
  ASSUME Core, Distinct(targets), Along(entries, Lined), NEW q \in DOMAIN All,
         \A e \in Range(entries) : \E p \in 1..(q - 1) : Of(e, All[p]),
         NEW read \in Seq(Entry), \A e \in Range(read) : Of(e, All[q]), Along(read, Tied)
  PROVE  Along(Report(read), Lined)
<1>1. entries \in Seq(Entry) /\ Range(entries) \subseteq Entry /\ Range(read) \subseteq Entry
  BY RangeOfParts DEF Core, TypeOK
<1>2. q \in Nat /\ \A p \in 1..(q - 1) : p \in DOMAIN All /\ p < q /\ p <= q
  BY CommandType
<1>3. ASSUME NEW e \in Range(entries), NEW f \in Range(read)
      PROVE  /\ command.name = "mmlsquota" \/ <<e, f>> \in Lined
             /\ e.id = f.id => <<e, f>> \in Lined
             /\ e.id < f.id => <<e, f>> \in Lined
             /\ command.name = "mmlsquota" /\ f.id < e.id => <<f, e>> \in Lined
  <2>1. PICK p \in 1..(q - 1) : Of(e, All[p])
    BY <1>3
  <2>2. e \in Entry /\ f \in Entry /\ Of(f, All[q]) /\ p \in DOMAIN All /\ p < q /\ p <= q
    BY <1>1, <1>2, <2>1
  <2>3. /\ command.name = "mmlsquota" \/ <<e, f>> \in Lined
        /\ e.id = f.id => <<e, f>> \in Lined
        /\ e.id < f.id => <<e, f>> \in Lined
    BY <2>1, <2>2, LinesOfPairs
  <2>4. command.name = "mmlsquota" /\ f.id < e.id => <<f, e>> \in Lined
    BY <2>1, <2>2, LinesOfObject
  <2> QED BY <2>3, <2>4
<1>4. \A e, f \in Range(read) : e.id < f.id \/ (e.id = f.id /\ <<e, f>> \in Tied) => <<e, f>> \in Lined
  <2> SUFFICES ASSUME NEW e \in Range(read), NEW f \in Range(read),
                      e.id < f.id \/ (e.id = f.id /\ <<e, f>> \in Tied)
               PROVE  <<e, f>> \in Lined
    OBVIOUS
  <2>1. e \in Entry /\ f \in Entry /\ Of(e, All[q]) /\ Of(f, All[q]) /\ q <= q
    BY <1>1, <1>2
  <2> QED BY <2>1, LinesOfPairs
<1>5. CASE command.name # "mmlsquota"
  <2> DEFINE sorted == SortQuotas(read, DOMAIN read)
  <2>1. Along(sorted, Lined)
    BY <1>4, AlongSorted
  <2>2. sorted \in Seq(Entry) /\ Range(sorted) \subseteq Range(read)
    BY SortedMembers
  <2>3. Report(read) = entries \o sorted
    BY <1>5 DEF Report
  <2> HIDE DEF sorted
  <2>4. \A e \in Range(entries), f \in Range(sorted) : <<e, f>> \in Lined
    BY <1>3, <1>5, <2>2
  <2> QED BY <1>1, <2>1, <2>2, <2>3, <2>4, AlongConcat
<1>6. CASE command.name = "mmlsquota"
  <2> DEFINE all == entries \o read
             P == {i \in DOMAIN all : Matches(all[i], command.object)}
             Q == {p \in Entry \X Entry : p[1].id = p[2].id => p \in Lined}
  <2>1. all \in Seq(Entry) /\ Range(all) = Range(entries) \cup Range(read)
    BY <1>1, RangeOfConcat
  <2>2. Report(read) = SortQuotas(all, P)
    BY <1>6 DEF Report
  <2>3. P \in SUBSET DOMAIN all
    OBVIOUS
  <2>4. \A e, f \in Entry : <<e, f>> \in Q <=> (e.id = f.id => <<e, f>> \in Lined)
    OBVIOUS
  <2> HIDE DEF P, Q
  <2>5. Along(entries, Q)
    <3>1. \A i \in DOMAIN entries : entries[i] \in Entry
      BY <1>1, ElementOfSeq, LenProperties
    <3> QED BY <2>4, <3>1 DEF Along
  <2>6. Along(read, Q)
    <3>1. \A i \in DOMAIN read : read[i] \in Entry /\ read[i] \in Range(read)
      BY <1>1 DEF Range
    <3> QED BY <1>4, <2>4, <3>1 DEF Along
  <2>7. \A e \in Range(entries), f \in Range(read) : <<e, f>> \in Q
    BY <1>1, <1>3, <2>4
  <2>8. Along(all, Q)
    BY <1>1, <2>5, <2>6, <2>7, AlongConcat
  <2>9. \A e, f \in Range(all) : e.id < f.id => <<e, f>> \in Lined
    <3> SUFFICES ASSUME NEW e \in Range(all), NEW f \in Range(all), e.id < f.id PROVE <<e, f>> \in Lined
      OBVIOUS
    <3>1. CASE e \in Range(entries) /\ f \in Range(entries)
      <4>1. PICK p \in 1..(q - 1) : Of(e, All[p])
        BY <3>1
      <4>2. PICK r \in 1..(q - 1) : Of(f, All[r])
        BY <3>1
      <4> QED BY <1>1, <1>2, <1>6, <3>1, <4>1, <4>2, LinesOfObject
    <3> QED BY <1>3, <1>4, <1>6, <2>1, <3>1
  <2>10. \A e, f \in Range(all) : e.id < f.id \/ (e.id = f.id /\ <<e, f>> \in Q) => <<e, f>> \in Lined
    BY <1>1, <2>1, <2>4, <2>9
  <2> HIDE DEF all
  <2> QED BY <2>1, <2>2, <2>3, <2>8, <2>10, AlongSorted
<1> QED BY <1>5, <1>6

\* The quotas of one collection.
LEMMA CollectionOf ==
  ASSUME NEW s \in Target, NEW type \in QuotaType, NEW e \in Collection(s, type)
  PROVE  /\ e.fs = s.fs /\ e.type = type
         /\ type = "FILESET" => e.id = IdOf(e.fs, e.fileset)
         /\ type # "FILESET" => e.fileset = InRoot(s.fileset)
<1>1. CASE type = "FILESET"
  BY <1>1 DEF Collection
<1>2. CASE type # "FILESET"
  <2>1. e \in {[fs |-> s.fs, fileset |-> InRoot(s.fileset), type |-> type, name |-> a, id |-> Account[a]] :
                 a \in DOMAIN Account}
    BY <1>2 DEF Collection
  <2> QED BY <1>2, <2>1
<1> QED BY <1>1, <1>2

\* What is read of a pair stays in order with one more collection.
LEMMA ReadInOrder ==
  ASSUME Core, Reading, phase = "quotas"
  PROVE  LET read == found \o SetToSeq(Collection(Head(scopes), Now[2]))
         IN  /\ \A e \in Range(read) : Of(e, Now)
             /\ Along(read, Tied)
             /\ Now[2] # "FILESET" =>
                  /\ Along(read, Climbing)
                  /\ \A x \in Range(read), y \in Range(Tail(scopes)) : <<x, y>> \in Climbing
<1> DEFINE s == Head(scopes)
           new == SetToSeq(Collection(s, Now[2]))
           read == found \o new
<1>1. /\ s \in Range(scopes) /\ s \in Target /\ IsFiniteSet(Collection(s, Now[2]))
      /\ new \in Seq(Entry) /\ read \in Seq(Entry)
  BY ReadMembers
<1>2. /\ Now[2] \in QuotaType /\ Now[1].fs = s.fs
      /\ scopes \in Seq(Target) /\ scopes # <<>> /\ found \in Seq(Entry)
  <2>1. Belongs(s)
    BY <1>1 DEF Core, UnderWay
  <2>2. Now[1].fs = s.fs
    BY <2>1 DEF Belongs
  <2> QED BY <2>2, NowType DEF Core, TypeOK, UnderWay
<1>3. Range(new) = Collection(s, Now[2])
  BY <1>1, RangeOfListedSet
<1> HIDE DEF s, new
<1>4. ASSUME NEW e \in Range(new)
      PROVE  /\ e \in Entry /\ Of(e, Now)
             /\ Now[2] = "FILESET" => e.id = IdOf(e.fs, e.fileset)
             /\ Now[2] # "FILESET" => e.fs = s.fs /\ e.fileset = InRoot(s.fileset)
  <2>1. e \in Collection(s, Now[2])
    BY <1>3
  <2>2. /\ e.fs = s.fs /\ e.type = Now[2]
        /\ Now[2] = "FILESET" => e.id = IdOf(e.fs, e.fileset)
        /\ Now[2] # "FILESET" => e.fileset = InRoot(s.fileset)
    BY <1>1, <1>2, <2>1, CollectionOf
  <2>3. e \in Entry
    BY <1>1, RangeOfParts
  <2> QED BY <1>2, <2>2, <2>3 DEF Of
<1>5. Range(read) = Range(found) \cup Range(new) /\ Range(found) \subseteq Entry
  BY <1>1, <1>2, RangeOfConcat, RangeOfParts
<1>6. \A e \in Range(read) : Of(e, Now)
  BY <1>4, <1>5 DEF Reading
<1>7. CASE Now[2] = "FILESET"
  <2>1. Range(read) = Range(new)
    BY <1>5, <1>7, EmptyRange DEF Reading
  <2>2. \A e \in Entry : InRoot(e.fileset) = e.fileset
    <3>1. \A n \in Name : n # NoFileset
      BY QuotaAssumption DEF Name, Root, NoFileset
    <3> QED BY <3>1 DEF Entry, InRoot
  <2>3. \A e \in Range(read) : e \in Entry /\ e.id = Rank(e)
    BY <1>4, <1>7, <2>1, <2>2 DEF Rank
  <2>4. \A e, f \in Range(read) : <<e, f>> \in Tied
    <3> SUFFICES ASSUME NEW e \in Range(read), NEW f \in Range(read), e.id = f.id
                 PROVE  Rank(e) <= Rank(f)
      BY <2>3 DEF Tied
    <3>1. \A x \in Entry : x.id \in Nat
      BY DEF Entry
    <3> QED BY <2>3, <3>1
  <2> HIDE DEF read
  <2>5. Along(read, Tied)
    BY <2>4, AlongAll
  <2> QED BY <1>6, <1>7, <2>5 DEF read, new, s
<1>8. CASE Now[2] # "FILESET"
  <2>1. /\ Along(found, Climbing) /\ Along(scopes, Climbing)
        /\ \A x \in Range(found), y \in Range(scopes) : <<x, y>> \in Climbing
    BY <1>8 DEF Reading
  <2>2. Along(Tail(scopes), Climbing) /\ \A y \in Range(Tail(scopes)) : <<s, y>> \in Climbing
    BY <1>2, <2>1, AlongTail DEF s
  <2>3. \A e \in Range(new) : e \in Filed /\ Rank(e) = Rank(s) /\ (Stays(e) <=> Stays(s))
    <3> SUFFICES ASSUME NEW e \in Range(new) PROVE e \in Filed /\ Rank(e) = Rank(s) /\ (Stays(e) <=> Stays(s))
      OBVIOUS
    <3>1. e \in Entry /\ e.fs = s.fs /\ e.fileset = InRoot(s.fileset)
      BY <1>4, <1>8
    <3>2. InRoot(e.fileset) = InRoot(s.fileset)
      BY <3>1 DEF InRoot, Root, NoFileset
    <3> QED BY <3>1, <3>2 DEF Rank, Stays, Filed
  <2>4. s \in Filed
    BY <1>1 DEF Filed
  <2>5. \A x \in Range(found), e \in Range(new) : <<x, e>> \in Climbing
    <3> SUFFICES ASSUME NEW x \in Range(found), NEW e \in Range(new) PROVE <<x, e>> \in Climbing
      OBVIOUS
    <3>1. <<x, s>> \in Climbing
      BY <1>1, <2>1
    <3> QED BY <2>3, <3>1 DEF Climbing
  <2>6. \A e \in Range(new), y \in Range(Tail(scopes)) : <<e, y>> \in Climbing
    <3> SUFFICES ASSUME NEW e \in Range(new), NEW y \in Range(Tail(scopes)) PROVE <<e, y>> \in Climbing
      OBVIOUS
    <3>1. <<s, y>> \in Climbing
      BY <2>2
    <3> QED BY <2>3, <3>1 DEF Climbing
  <2>7. \A e, f \in Range(new) : <<e, f>> \in Climbing
    <3> SUFFICES ASSUME NEW e \in Range(new), NEW f \in Range(new), Stays(s) PROVE Rank(e) <= Rank(f)
      BY <2>3 DEF Climbing
    <3>1. Rank(s) \in Nat /\ Rank(e) = Rank(s) /\ Rank(f) = Rank(s)
      BY <2>3, <2>4, RankType
    <3> QED BY <3>1
  <2>8. Along(read, Climbing)
    <3>1. Along(new, Climbing)
      BY <2>7, AlongAll
    <3> QED BY <1>1, <1>2, <2>1, <2>5, <3>1, AlongConcat
  <2>9. \A x \in Range(read), y \in Range(Tail(scopes)) : <<x, y>> \in Climbing
    <3>1. Range(Tail(scopes)) \subseteq Range(scopes)
      BY <1>2, RangeOfParts
    <3> QED BY <1>5, <2>1, <2>6, <3>1
  <2>10. Along(read, Tied)
    <3>1. \A i \in DOMAIN read : read[i] \in Entry
      BY <1>1, ElementOfSeq, LenProperties
    <3>2. \A e, f \in Entry : <<e, f>> \in Climbing => <<e, f>> \in Tied
      BY DEF Climbing, Tied
    <3> HIDE DEF read
    <3> QED BY <2>8, <3>1, <3>2 DEF Along
  <2> QED BY <1>6, <1>8, <2>8, <2>9, <2>10 DEF read, new, s
<1> QED BY <1>7, <1>8

\* The filesets of a file system are listed in the order of their ids.
LEMMA ListingClimbs ==
  ASSUME Core, NEW f \in FS
  PROVE  LET filesets == ById(f)
         IN  Along([i \in DOMAIN filesets |-> [fs |-> f, fileset |-> filesets[i]]], Climbing)
<1> DEFINE S == {n \in Name : Exists(f, n)}
           c == Cardinality(S)
           s == [i \in DOMAIN ById(f) |-> [fs |-> f, fileset |-> ById(f)[i]]]
<1>1. /\ ById(f) \in [1..c -> S]
      /\ \A i, j \in 1..c : i < j => IdOf(f, ById(f)[i]) < IdOf(f, ById(f)[j])
  BY ByIdListsAll DEF Core, TypeOK
<1>2. /\ DOMAIN s = 1..c
      /\ \A i \in 1..c : ById(f)[i] \in Name /\ s[i] = [fs |-> f, fileset |-> ById(f)[i]]
  BY <1>1
<1> HIDE DEF c, s
<1>3. \A n \in Name : n # NoFileset
  BY QuotaAssumption DEF Name, Root, NoFileset
<1>4. \A i \in 1..c : s[i] \in Filed /\ Rank(s[i]) = IdOf(f, ById(f)[i])
  <2> SUFFICES ASSUME NEW i \in 1..c PROVE s[i] \in Filed /\ Rank(s[i]) = IdOf(f, ById(f)[i])
    OBVIOUS
  <2>1. s[i] \in Filed
    BY <1>2 DEF Filed, Target
  <2>2. s[i].fs = f /\ s[i].fileset = ById(f)[i] /\ InRoot(ById(f)[i]) = ById(f)[i]
    BY <1>2, <1>3 DEF InRoot
  <2> QED BY <2>1, <2>2 DEF Rank
<1>5. ASSUME NEW i \in 1..c, NEW j \in 1..c, i < j PROVE <<s[i], s[j]>> \in Climbing
  <2>1. Rank(s[i]) < Rank(s[j])
    BY <1>1, <1>4, <1>5
  <2>2. Stays(s[i]) /\ Stays(s[j]) => Rank(s[i]) <= Rank(s[j])
    <3>1. Stays(s[i]) /\ Stays(s[j]) => Rank(s[i]) \in Nat /\ Rank(s[j]) \in Nat
      BY <1>4, RankType
    <3> QED BY <2>1, <3>1
  <2> QED BY <1>4, <2>2 DEF Climbing
<1>6. Along(s, Climbing)
  BY <1>2, <1>5 DEF Along
<1> QED BY <1>6 DEF s

\* What stood in order does so after a step: what stays has kept its id.
LEMMA OrderKept ==
  ASSUME Core, Next, UNCHANGED <<targets, command>>
  PROVE  Climbing \subseteq Climbing' /\ Lined \subseteq Lined'
<1>1. \A x \in Filed : Stays(x)' => Stays(x) /\ Rank(x)' = Rank(x)
  <2> SUFFICES ASSUME NEW x \in Filed, Stays(x)' PROVE Stays(x) /\ Rank(x)' = Rank(x)
    OBVIOUS
  <2>1. x.fs \in FS /\ InRoot(x.fileset) \in Name
    BY RankType
  <2>2. Steady(x.fs, InRoot(x.fileset))'
    BY DEF Stays
  <2> QED BY <2>1, <2>2, SteadyBefore DEF Stays, Rank
<1>2. Climbing \subseteq Climbing'
  <2> SUFFICES ASSUME NEW p \in Climbing PROVE p \in Climbing'
    OBVIOUS
  <2>1. p \in Filed \X Filed /\ (Stays(p[1]) /\ Stays(p[2]) => Rank(p[1]) <= Rank(p[2]))
    BY DEF Climbing
  <2>2. p[1] \in Filed /\ p[2] \in Filed
    BY <2>1
  <2>3. Stays(p[1])' /\ Stays(p[2])' => Rank(p[1])' <= Rank(p[2])'
    BY <1>1, <2>1, <2>2
  <2> QED BY <2>1, <2>3 DEF Climbing
<1>3. \A x \in Entry : Rank(x)' = Rank(x) => Place(x)' = Place(x)
  <2> SUFFICES ASSUME NEW x \in Entry, Rank(x)' = Rank(x) PROVE Place(x)' = Place(x)
    OBVIOUS
  <2>1. InRoot(x.fileset) = x.fileset
    BY RankType DEF Filed
  <2>2. IdOf(x.fs, x.fileset)' = IdOf(x.fs, x.fileset)
    BY <2>1 DEF Rank
  <2> DEFINE at(ts) == CHOOSE i \in DOMAIN ts : ts[i].fs = x.fs
             of(tys) == CHOOSE i \in DOMAIN tys : tys[i] = x.type
             place(name, a, b, r) == IF name = "mmlsquota" THEN <<x.id, a, r>> ELSE <<a, b, x.id, r>>
  <2>3. targets' = targets /\ command' = command
    OBVIOUS
  <2>4. /\ Place(x) = place(command.name, at(targets), of(command.types), IdOf(x.fs, x.fileset))
        /\ Place(x)' = place(command'.name, at(targets'), of(command'.types), IdOf(x.fs, x.fileset)')
    BY DEF Place
  <2> HIDE DEF at, of, place
  <2> QED BY <2>2, <2>3, <2>4
<1>4. Lined \subseteq Lined'
  <2> SUFFICES ASSUME NEW p \in Lined PROVE p \in Lined'
    OBVIOUS
  <2>1. p \in Entry \X Entry /\ (Stays(p[1]) /\ Stays(p[2]) => InOrder(Place(p[1]), Place(p[2])))
    BY DEF Lined
  <2>2. p[1] \in Entry /\ p[2] \in Entry /\ p[1] \in Filed /\ p[2] \in Filed
    BY <2>1 DEF Filed
  <2>3. Stays(p[1])' /\ Stays(p[2])' => InOrder(Place(p[1])', Place(p[2])')
    BY <1>1, <1>3, <2>1, <2>2
  <2> QED BY <2>1, <2>3 DEF Lined
<1> QED BY <1>2, <1>4

\* A pair begins with nothing read and one collection, or none yet.
LEMMA ReadingBegins ==
  ASSUME found' = <<>>, phase' = "quotas" => \E x : scopes' = <<x>>
  PROVE  Reading'
<1> SUFFICES ASSUME phase' = "quotas"
             PROVE  /\ \A e \in Range(found') : Of(e, Now')
                    /\ Now'[2] = "FILESET" => found' = <<>> /\ Len(scopes') = 1
                    /\ Along(found', Climbing') /\ Along(scopes', Climbing')
                    /\ \A x \in Range(found'), y \in Range(scopes') : <<x, y>> \in Climbing'
  BY DEF Reading
<1>1. PICK x : scopes' = <<x>>
  OBVIOUS
<1>2. Range(found') = {}
  BY EmptyRange
<1>3. Len(scopes') = 1
  BY <1>1
<1>4. Along(found', Climbing') /\ Along(scopes', Climbing')
  BY <1>1, AlongNothing, AlongOne
<1> QED BY <1>2, <1>3, <1>4

LEMMA NowIsNext ==
  ASSUME Core, Remaining, todo # <<>>
  PROVE  /\ Done + 1 \in DOMAIN All /\ Done \in Nat /\ Now = All[Done + 1]
         /\ Len(Tail(todo)) = Len(todo) - 1 /\ Len(todo) \in Nat
         /\ \A i \in 1..Len(Tail(todo)) : Tail(todo)[i] = todo[i + 1]
<1>1. todo \in Seq(Target \X QuotaType)
  BY DEF Core, TypeOK
<1>2. Len(todo) \in Nat /\ Len(todo) # 0 /\ Head(todo) = todo[1] /\ Len(Tail(todo)) = Len(todo) - 1
      /\ \A i \in 1..Len(Tail(todo)) : Tail(todo)[i] = todo[i + 1]
  BY <1>1
<1>3. Len(All) \in Nat /\ DOMAIN All = 1..Len(All)
  BY CommandType
<1>4. 1 \in 1..Len(todo)
  BY <1>2
<1> QED BY <1>2, <1>3, <1>4 DEF Remaining, Done, Now

\* The pair under way is done.
LEMMA PairDone ==
  ASSUME Core, Core', Next, Ordered, phase = "quotas", UNCHANGED <<targets, command>>,
         NEW read \in Seq(Entry), \A e \in Range(read) : Of(e, Now), Along(read, Tied),
         entries' = Report(read), todo' = Tail(todo)
  PROVE  Remaining' /\ DoneBefore' /\ LinesStand'
<1>1. todo # <<>>
  BY DEF Core, UnderWay
<1>2. All' = All /\ Len(todo') = Len(todo) - 1
  BY <1>1, NowIsNext DEF All, Ordered
<1>3. Done' = Done + 1
  BY <1>1, <1>2, NowIsNext, CommandType DEF Done, Ordered
<1>4. Remaining'
  <2>1. Len(todo') <= Len(All')
    BY <1>1, <1>2, NowIsNext, CommandType DEF Remaining, Ordered
  <2>2. ASSUME NEW i \in 1..Len(todo') PROVE todo'[i] = All'[Done' + i]
    <3>1. todo'[i] = todo[i + 1] /\ i + 1 \in 1..Len(todo) /\ Done + (i + 1) = Done' + i
      BY <1>1, <1>2, <1>3, NowIsNext DEF Ordered
    <3>2. todo[i + 1] = All[Done + (i + 1)]
      BY <3>1 DEF Remaining, Ordered
    <3> QED BY <1>2, <3>1, <3>2
  <2> QED BY <2>1, <2>2 DEF Remaining
<1>5. /\ Done + 1 \in DOMAIN All /\ Done \in Nat /\ (Done + 1) - 1 = Done
      /\ Now = All[Done + 1]
  BY <1>1, NowIsNext DEF Ordered
<1>6. entries \in Seq(Entry) /\ Range(entries') \subseteq Range(entries) \cup Range(read)
  BY ReportMembers DEF Core, TypeOK
<1>7. DoneBefore'
  <2>1. \A e \in Range(entries') : \E p \in 1..Done' : Of(e, All'[p])
    <3> SUFFICES ASSUME NEW e \in Range(entries') PROVE \E p \in 1..(Done + 1) : Of(e, All[p])
      BY <1>2, <1>3
    <3>1. CASE e \in Range(entries)
      <4>1. PICK p \in 1..Done : Of(e, All[p])
        BY <3>1 DEF DoneBefore, Ordered
      <4>2. p \in 1..(Done + 1)
        BY <1>5
      <4> QED BY <4>1, <4>2
    <3>2. CASE e \in Range(read)
      <4>1. Of(e, All[Done + 1]) /\ Done + 1 \in 1..(Done + 1)
        BY <1>5, <3>2
      <4> QED BY <4>1
    <3> QED BY <1>6, <3>1, <3>2
  <2> QED BY <2>1 DEF DoneBefore, Of
<1>8. LinesStand'
  <2> SUFFICES ASSUME Distinct(targets) PROVE Along(entries', Lined')
    BY DEF LinesStand
  <2>1. Along(entries, Lined)
    BY DEF LinesStand, Ordered
  <2>2. \A e \in Range(entries) : \E p \in 1..((Done + 1) - 1) : Of(e, All[p])
    BY <1>5 DEF DoneBefore, Ordered
  <2>3. \A e \in Range(read) : Of(e, All[Done + 1])
    BY <1>5
  <2>4. Along(Report(read), Lined)
    BY <1>5, <2>1, <2>2, <2>3, ReportInOrder
  <2> QED BY <2>4, OrderKept, AlongMore
<1> QED BY <1>4, <1>7, <1>8

\* A step that adds no line and finishes no pair.
LEMMA OrderFrame ==
  ASSUME Core, Next, Ordered, UNCHANGED <<targets, command, todo, entries>>, Reading'
  PROVE  Ordered'
<1>1. All' = All /\ Done' = Done
  BY DEF All, Done
<1>2. Remaining'
  BY <1>1 DEF Ordered, Remaining
<1>3. DoneBefore'
  BY <1>1 DEF Ordered, DoneBefore, Of
<1>4. LinesStand'
  <2> SUFFICES ASSUME Distinct(targets) PROVE Along(entries', Lined')
    BY DEF LinesStand
  <2>1. Along(entries, Lined)
    BY DEF Ordered, LinesStand
  <2> QED BY <2>1, OrderKept, AlongMore
<1> QED BY <1>2, <1>3, <1>4 DEF Ordered

LEMMA OrderedStep == Core /\ Core' /\ Ordered /\ Next => Ordered'
<1> SUFFICES ASSUME Core, Core', Ordered, Next PROVE Ordered'
  OBVIOUS
<1>1. CASE ResolveTargets
  <2>1. /\ Continue(targets', Pairs(targets', command.types)) /\ found' = found /\ entries' = entries
        /\ command' = command /\ found = <<>> /\ entries = <<>>
    BY <1>1 DEF ResolveTargets, given, Core, UnderWay
  <2>2. todo' = All' /\ (phase' = "quotas" => \E x : scopes' = <<x>>)
    BY <2>1, ContinueCases DEF All
  <2>3. Len(All') \in Nat
    BY CommandType DEF All
  <2>4. Remaining'
    <3>1. Len(todo') = Len(All') /\ Done' = 0
      BY <2>2, <2>3 DEF Done
    <3>2. \A i \in 1..Len(All') : Done' + i = i
      BY <3>1
    <3> QED BY <2>2, <2>3, <3>1, <3>2 DEF Remaining
  <2>5. DoneBefore' /\ LinesStand'
    BY <2>1, EmptyRange, AlongNothing DEF DoneBefore, LinesStand
  <2>6. Reading'
    BY <2>1, <2>2, ReadingBegins
  <2> QED BY <2>4, <2>5, <2>6 DEF Ordered
<1>2. CASE GetFilesystem
  <2>1. /\ UNCHANGED <<targets, command, todo, entries, found>> /\ found = <<>>
        /\ phase' = "quotas" => scopes' = <<Now[1]>>
    BY <1>2 DEF GetFilesystem, Fail, given, Core, UnderWay
  <2>2. Reading'
    BY <2>1, ReadingBegins
  <2> QED BY <2>1, <2>2, OrderFrame
<1>3. CASE ListFilesets
  <2> DEFINE listing == [i \in DOMAIN ById(Now[1].fs) |-> [fs |-> Now[1].fs, fileset |-> ById(Now[1].fs)[i]]]
  <2>1. /\ UNCHANGED <<targets, command, todo, entries, found, ids, gone, made>> /\ found = <<>>
        /\ scopes' = listing /\ Now[2] # "FILESET" /\ phase = "filesets"
    BY <1>3 DEF ListFilesets, given, gui, Core, UnderWay, Direct
  <2>2. Along(listing, Climbing)
    <3>1. Now[1].fs \in FS
      BY <2>1, NowType
    <3> DEFINE f == Now[1].fs
    <3> HIDE DEF f
    <3>2. Along([i \in DOMAIN ById(f) |-> [fs |-> f, fileset |-> ById(f)[i]]], Climbing)
      BY <3>1, ListingClimbs DEF f
    <3> QED BY <3>2 DEF f
  <2> HIDE DEF listing
  <2>3. Along(scopes', Climbing')
    BY <2>1, <2>2, OrderKept, AlongMore
  <2>4. Along(found', Climbing') /\ Range(found') = {}
    BY <2>1, AlongNothing, EmptyRange
  <2>5. Now' = Now
    BY <2>1 DEF Now
  <2>6. Reading'
    BY <2>1, <2>3, <2>4, <2>5 DEF Reading
  <2> QED BY <2>1, <2>6, OrderFrame
<1>4. CASE GetQuotas
  <2> DEFINE C == Collection(Head(scopes), Now[2])
             read == found \o SetToSeq(C)
  <2>0. /\ phase = "quotas" /\ UNCHANGED <<targets, command, ids, gone, made>>
        /\ scopes \in Seq(Target) /\ scopes # <<>>
    BY <1>4 DEF GetQuotas, given, gui, Core, TypeOK, UnderWay
  <2>1. \/ /\ Len(scopes) > 1 /\ found' = read /\ scopes' = Tail(scopes) /\ UNCHANGED <<phase, todo, entries>>
        \/ /\ entries' = Report(read) /\ found' = <<>> /\ Continue(targets, Tail(todo))
        \/ phase' = "exited" /\ UNCHANGED <<entries, todo>>
    BY <1>4 DEF GetQuotas, Fail, collected
  <2>2. /\ \A e \in Range(read) : Of(e, Now)
        /\ Along(read, Tied)
        /\ Now[2] # "FILESET" =>
             /\ Along(read, Climbing)
             /\ \A x \in Range(read), y \in Range(Tail(scopes)) : <<x, y>> \in Climbing
    BY <2>0, ReadInOrder DEF Ordered
  <2>3. read \in Seq(Entry)
    BY <2>0, ReadMembers
  <2> HIDE DEF read, C
  <2>4. CASE Len(scopes) > 1 /\ found' = read /\ scopes' = Tail(scopes) /\ UNCHANGED <<phase, todo, entries>>
    <3>1. Now' = Now
      BY <2>4 DEF Now
    <3>2. Now[2] # "FILESET" /\ Along(scopes, Climbing)
      <4>1. 1 > 1 <=> FALSE
        OBVIOUS
      <4> QED BY <2>0, <2>4, <4>1 DEF Ordered, Reading
    <3>3. Along(found', Climbing') /\ Along(scopes', Climbing')
          /\ \A x \in Range(found'), y \in Range(scopes') : <<x, y>> \in Climbing'
      <4>1. Along(Tail(scopes), Climbing)
        BY <2>0, <3>2, AlongTail
      <4>2. Climbing \subseteq Climbing'
        BY <2>0, OrderKept
      <4> QED BY <2>2, <2>4, <3>2, <4>1, <4>2, AlongMore
    <3>4. \A e \in Range(found') : Of(e, Now')
      BY <2>2, <2>4, <3>1
    <3>5. Reading'
      BY <3>1, <3>2, <3>3, <3>4 DEF Reading
    <3> QED BY <2>0, <2>4, <3>5, OrderFrame
  <2>5. CASE entries' = Report(read) /\ found' = <<>> /\ Continue(targets, Tail(todo))
    <3>1. todo' = Tail(todo) /\ (phase' = "quotas" => \E x : scopes' = <<x>>)
      BY <2>5, ContinueCases
    <3>2. Reading'
      BY <2>5, <3>1, ReadingBegins
    <3>3. Remaining' /\ DoneBefore' /\ LinesStand'
      BY <2>0, <2>2, <2>3, <2>5, <3>1, PairDone
    <3> QED BY <3>2, <3>3 DEF Ordered
  <2>6. CASE phase' = "exited" /\ UNCHANGED <<entries, todo>>
    <3>1. Reading'
      BY <2>6 DEF Reading
    <3> QED BY <2>0, <2>6, <3>1, OrderFrame
  <2> QED BY <2>1, <2>4, <2>5, <2>6
<1>5. CASE /\ UNCHANGED <<entries, todo, targets, command, found, scopes>>
           /\ phase' = phase \/ phase' = "exited"
  <2>1. Now' = Now /\ Climbing \subseteq Climbing'
    BY <1>5, OrderKept DEF Now
  <2>2. CASE phase' = phase /\ phase = "quotas"
    <3>1. /\ \A e \in Range(found) : Of(e, Now)
          /\ Now[2] = "FILESET" => found = <<>> /\ Len(scopes) = 1
          /\ Now[2] # "FILESET" =>
               /\ Along(found, Climbing) /\ Along(scopes, Climbing)
               /\ \A x \in Range(found), y \in Range(scopes) : <<x, y>> \in Climbing
      BY <2>2 DEF Ordered, Reading
    <3>2. Now[2] # "FILESET" => Along(found, Climbing') /\ Along(scopes, Climbing')
      BY <2>1, <3>1, AlongMore
    <3>3. found' = found /\ scopes' = scopes
      BY <1>5
    <3>4. /\ \A e \in Range(found') : Of(e, Now')
          /\ Now'[2] = "FILESET" => found' = <<>> /\ Len(scopes') = 1
          /\ Now'[2] # "FILESET" =>
               /\ Along(found', Climbing') /\ Along(scopes', Climbing')
               /\ \A x \in Range(found'), y \in Range(scopes') : <<x, y>> \in Climbing'
      BY <2>1, <3>1, <3>2, <3>3
    <3> QED BY <1>5, <3>4, OrderFrame DEF Reading
  <2>3. CASE phase' # "quotas"
    <3>1. Reading'
      BY <2>3 DEF Reading
    <3> QED BY <1>5, <3>1, OrderFrame
  <2> QED BY <1>5, <2>2, <2>3
<1>6. \/ ResolveTargets \/ GetFilesystem \/ ListFilesets \/ GetQuotas
      \/ /\ UNCHANGED <<entries, todo, targets, command, found, scopes>>
         /\ phase' = phase \/ phase' = "exited"
  BY DEF Next, Command, GetIds, IdsUnavailable, GetStates, StatesUnavailable, PrintReport, RequestFails,
         Fail, CreateFileset, DeleteFileset, collected, given
<1> QED BY <1>1, <1>2, <1>3, <1>4, <1>5, <1>6

LEMMA OrderedInvariant == Spec => []Ordered
<1>1. Init => Ordered
  <2> SUFFICES ASSUME Init PROVE Ordered
    OBVIOUS
  <2>1. entries = <<>> /\ todo = <<>> /\ phase = "targets"
    BY DEF Init
  <2>2. Core
    BY QuotaInit DEF Core, UnderWay, Init
  <2>3. Len(All) \in Nat /\ Len(todo) = 0
    BY <2>1, <2>2, CommandType
  <2>4. Remaining
    BY <2>3 DEF Remaining
  <2> QED BY <2>1, <2>4, EmptyRange, AlongNothing DEF Ordered, DoneBefore, Reading, LinesStand
<1>2. QuotaInv /\ QuotaInv' /\ Ordered /\ [Next]_vars => Ordered'
  <2> SUFFICES ASSUME QuotaInv, QuotaInv', Ordered, [Next]_vars PROVE Ordered'
    OBVIOUS
  <2>1. CASE Next
    BY <2>1, OrderedStep DEF QuotaInv
  <2>2. CASE UNCHANGED vars
    BY <2>2 DEF vars, Ordered, Remaining, DoneBefore, Reading, LinesStand, All, Done, Now, Climbing, Lined,
                Stays, Rank, Steady, Exists, IdOf, Place
  <2> QED BY <2>1, <2>2
<1>3. Spec => Init /\ [][Next]_vars
  BY PTL DEF Spec
<1> QED BY <1>1, <1>2, <1>3, QuotaInvariant, PTL

\* In a report over different file systems the quotas of filesets that stayed
\* stand in their places (quota.go:377-383, 540-547).
THEOREM LinesKeepTheirPlaces == Spec => []LinesInPlace
<1>1. ASSUME Core, Ordered PROVE LinesInPlace
  <2> SUFFICES ASSUME \A i, j \in DOMAIN targets : targets[i].fs = targets[j].fs => i = j,
                      NEW i \in DOMAIN entries, NEW j \in DOMAIN entries, i < j,
                      Steady(entries[i].fs, entries[i].fileset), Steady(entries[j].fs, entries[j].fileset)
               PROVE  InOrder(Place(entries[i]), Place(entries[j]))
    BY DEF LinesInPlace
  <2>1. <<entries[i], entries[j]>> \in Lined
    BY <1>1 DEF Ordered, LinesStand, Along, Distinct
  <2>2. entries[i] \in Entry /\ entries[j] \in Entry
    BY <2>1 DEF Lined
  <2>3. Stays(entries[i]) /\ Stays(entries[j])
    <3>1. InRoot(entries[i].fileset) = entries[i].fileset /\ InRoot(entries[j].fileset) = entries[j].fileset
      BY <1>1, <2>2, RankType DEF Filed
    <3> QED BY <3>1 DEF Stays
  <2> QED BY <2>1, <2>3 DEF Lined
<1> QED BY <1>1, QuotaInvariant, OrderedInvariant, PTL DEF QuotaInv
=============================================================================
