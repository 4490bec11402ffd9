------------------------------ MODULE ListsProofs ------------------------------
(***************************************************************************)
(* Lemmas about finite lists: the elements kept by a filter (Lists), joined *)
(* and shortened lists, and how many elements they have.                   *)
(***************************************************************************)
EXTENDS Lists, FiniteSetTheorems, WellFoundedInduction, TLAPS

\* A nonempty set of numbers has a least one.
LEMMA LeastExists ==
  ASSUME NEW T, T \subseteq Nat, T # {}
  PROVE  \E x \in T : \A y \in T : x <= y
  <1>1. PICK x \in T : \A y \in T : ~ (<<y, x>> \in OpToRel(<, Nat))
    BY NatLessThanWellFounded, WFMin
  <1>2. \A y \in T : ~ (y < x)
    BY <1>1 DEF OpToRel
  <1> QED
    BY <1>2

\* A list has as many places as its length says.
LEMMA PlacesFinite ==
  ASSUME NEW R, NEW s \in Seq(R)
  PROVE  IsFiniteSet(DOMAIN s) /\ Cardinality(DOMAIN s) = Len(s)
  <1>1. DOMAIN s = 1..Len(s) /\ Len(s) \in Nat /\ Len(s) \in Int /\ 1 \in Int
    OBVIOUS
  <1>2. IsFiniteSet(1..Len(s)) /\ Cardinality(1..Len(s)) = IF 1 > Len(s) THEN 0 ELSE Len(s) - 1 + 1
    BY <1>1, FS_Interval
  <1> QED
    BY <1>1, <1>2

-----------------------------------------------------------------------------
(* The elements a filter keeps *)

\* The places of the elements kept, numbered in their order: every number up to their
\* count belongs to one of them, as different places have different numbers.
LEMMA PlacesInOrder ==
  ASSUME NEW R, NEW s \in Seq(R), NEW S
  PROVE  LET n == Cardinality(Places(s, S))
         IN  /\ n \in Nat /\ n <= Len(s)
             /\ \A k \in 1..n : Place(s, S, k) \in Places(s, S)
             /\ \A j, k \in 1..n : j < k => Place(s, S, j) < Place(s, S, k)
             /\ \A i \in Places(s, S) : \E k \in 1..n : Place(s, S, k) = i
  <1> DEFINE P == Places(s, S)
             n == Cardinality(P)
             Before(i) == {j \in P : j < i}
  <1>1. P \subseteq 1..Len(s) /\ Len(s) \in Nat /\ DOMAIN s = 1..Len(s)
    BY DEF Places
  <1>2. IsFiniteSet(P) /\ n \in Nat /\ n <= Len(s)
    BY <1>1, PlacesFinite, FS_Subset, FS_CardinalityType
  <1> HIDE DEF P
  <1>3. ASSUME NEW i \in P PROVE IsFiniteSet(Before(i)) /\ Cardinality(Before(i)) \in 0..n - 1
    <2>1. Before(i) \subseteq P \ {i}
      BY <1>1
    <2>2. IsFiniteSet(P \ {i}) /\ Cardinality(P \ {i}) = n - 1
      BY <1>2, FS_RemoveElement
    <2> QED
      BY <2>1, <2>2, <1>2, FS_Subset, FS_CardinalityType
  <1>4. ASSUME NEW i \in P, NEW k \in P, i < k
        PROVE  Cardinality(Before(i)) < Cardinality(Before(k))
    <2>0. i \in Int /\ k \in Int /\ \A j \in P : j \in Int
      BY <1>1
    <2>1. Before(i) \cup {i} \subseteq Before(k) /\ i \notin Before(i)
      <3>1. \A j \in P : j < i => j < k
        BY <2>0, <1>4
      <3>2. ~(i < i)
        BY <2>0
      <3> QED
        BY <3>1, <3>2, <1>4
    <2>2. Cardinality(Before(i) \cup {i}) = Cardinality(Before(i)) + 1
      BY <2>1, <1>3, FS_AddElement
    <2>3. Cardinality(Before(i) \cup {i}) <= Cardinality(Before(k))
      BY <2>1, <1>3, FS_Subset
    <2>4. Cardinality(Before(i)) \in 0..n - 1 /\ Cardinality(Before(k)) \in 0..n - 1
      BY <1>3
    <2> HIDE DEF Before
    <2> QED
      BY <1>2, <2>2, <2>3, <2>4
  <1> DEFINE rank == [i \in P |-> Cardinality(Before(i))]
  <1>5. rank \in Surjection(P, 0..n - 1)
    <2>1. rank \in [P -> 0..n - 1]
      BY <1>3
    <2>2. \A i, k \in P : rank[i] = rank[k] => i = k
      <3> SUFFICES ASSUME NEW i \in P, NEW k \in P, i # k PROVE rank[i] # rank[k]
        OBVIOUS
      <3>1. i < k \/ k < i
        BY <1>1
      <3> HIDE DEF Before
      <3>2. rank[i] < rank[k] \/ rank[k] < rank[i]
        BY <3>1, <1>4
      <3>3. rank[i] \in Int /\ rank[k] \in Int
        BY <1>3
      <3> QED
        BY <3>2, <3>3
    <2>3. rank \in Injection(P, 0..n - 1)
      BY <2>1, <2>2 DEF Injection, IsInjective
    <2>4. 0 \in Int /\ n - 1 \in Int
      BY <1>2
    <2>5. IsFiniteSet(0..n - 1) /\ Cardinality(0..n - 1) = IF 0 > n - 1 THEN 0 ELSE n - 1 - 0 + 1
      BY <2>4, FS_Interval
    <2>6. Cardinality(0..n - 1) = n
      BY <1>2, <2>5
    <2> HIDE DEF rank
    <2> QED
      BY <2>3, <2>5, <2>6, FS_Injection
  <1>6. \A k \in 1..n : \E i \in P : Cardinality(Before(i)) = k - 1
    <2> TAKE k \in 1..n
    <2>1. k - 1 \in 0..n - 1
      BY <1>2
    <2>2. \E i \in P : rank[i] = k - 1
      BY <1>5, <2>1 DEF Surjection
    <2> QED
      BY <2>2
  <1>7. \A k \in 1..n : Place(s, S, k) \in P /\ Cardinality(Before(Place(s, S, k))) = k - 1
    BY <1>6 DEF Place, P
  <1>8. \A j, k \in 1..n : j < k => Place(s, S, j) < Place(s, S, k)
    <2> TAKE j, k \in 1..n
    <2> HAVE j < k
    <2> DEFINE a == Place(s, S, j)
               b == Place(s, S, k)
    <2>1. a \in P /\ b \in P /\ Cardinality(Before(a)) = j - 1 /\ Cardinality(Before(b)) = k - 1
      BY <1>7
    <2> HIDE DEF a, b, Before
    <2>2. ~(b < a) /\ a # b
      BY <2>1, <1>2, <1>4
    <2>3. a < b
      BY <1>1, <2>1, <2>2
    <2> QED
      BY <2>3 DEF a, b
  <1>9. \A i \in P : \E k \in 1..n : Place(s, S, k) = i
    <2> TAKE i \in P
    <2> DEFINE k == Cardinality(Before(i)) + 1
    <2>0. Cardinality(Before(i)) \in 0..n - 1
      BY <1>3
    <2> HIDE DEF Before
    <2>1. k \in 1..n /\ k - 1 = Cardinality(Before(i))
      BY <1>2, <2>0
    <2> HIDE DEF k
    <2> DEFINE a == Place(s, S, k)
    <2>2. a \in P /\ Cardinality(Before(a)) = Cardinality(Before(i))
      BY <2>1, <1>7
    <2> HIDE DEF a, Before
    <2>3. ~(a < i) /\ ~(i < a)
      BY <2>1, <2>2, <1>4
    <2>4. a = i
      BY <1>1, <2>2, <2>3
    <2> QED
      BY <2>1, <2>4 DEF a
  <1> QED
    BY <1>2, <1>7, <1>8, <1>9 DEF P

\* What is kept are the elements at these places.
LEMMA KeptElements ==
  ASSUME NEW R, NEW s \in Seq(R), NEW S
  PROVE  /\ Kept(s, S) \in Seq(R)
         /\ Len(Kept(s, S)) = Cardinality(Places(s, S)) /\ Len(Kept(s, S)) <= Len(s)
         /\ \A k \in 1..Len(Kept(s, S)) : /\ Place(s, S, k) \in 1..Len(s)
                                          /\ Kept(s, S)[k] = s[Place(s, S, k)]
                                          /\ Kept(s, S)[k] \in S
         /\ ToSet(Kept(s, S)) = ToSet(s) \cap S
  <1> DEFINE t == Kept(s, S)
             n == Cardinality(Places(s, S))
  <1>1. /\ n \in Nat /\ n <= Len(s)
        /\ \A k \in 1..n : Place(s, S, k) \in Places(s, S)
        /\ \A i \in Places(s, S) : \E k \in 1..n : Place(s, S, k) = i
    BY PlacesInOrder
  <1>2. /\ Places(s, S) \subseteq 1..Len(s) /\ DOMAIN s = 1..Len(s) /\ Len(s) \in Nat
        /\ \A i \in Places(s, S) : s[i] \in S
        /\ \A i \in 1..Len(s) : s[i] \in S => i \in Places(s, S)
    BY DEF Places
  <1>3. t = [k \in 1..n |-> s[Place(s, S, k)]]
    BY DEF Kept
  <1> HIDE DEF n, t
  <1>4. \A k \in 1..n : Place(s, S, k) \in 1..Len(s) /\ s[Place(s, S, k)] \in R
    BY <1>1, <1>2
  <1>5. t \in Seq(R) /\ Len(t) = n /\ DOMAIN t = 1..n
    BY <1>1, <1>3, <1>4
  <1>6. ToSet(t) = ToSet(s) \cap S
    BY <1>1, <1>2, <1>3, <1>5 DEF ToSet
  <1> QED
    BY <1>1, <1>2, <1>3, <1>4, <1>5, <1>6 DEF n, t

\* A filter maps the places of what it keeps into the places of the list, in order, and
\* onto all that hold an element of S.
LEMMA KeptMap ==
  ASSUME NEW R, NEW s \in Seq(R), NEW S
  PROVE  \E f \in [1..Len(Kept(s, S)) -> 1..Len(s)] :
            /\ \A j, k \in 1..Len(Kept(s, S)) : j < k => f[j] < f[k]
            /\ \A k \in 1..Len(Kept(s, S)) : Kept(s, S)[k] = s[f[k]] /\ s[f[k]] \in S
            /\ \A i \in 1..Len(s) : s[i] \in S => \E k \in 1..Len(Kept(s, S)) : f[k] = i
  <1> DEFINE n == Len(Kept(s, S))
             f == [k \in 1..n |-> Place(s, S, k)]
  <1>1. /\ \A k \in 1..n : Place(s, S, k) \in 1..Len(s) /\ Kept(s, S)[k] = s[Place(s, S, k)]
        /\ \A k \in 1..n : Kept(s, S)[k] \in S
        /\ n = Cardinality(Places(s, S))
    BY KeptElements
  <1>2. /\ \A j, k \in 1..n : j < k => Place(s, S, j) < Place(s, S, k)
        /\ \A i \in Places(s, S) : \E k \in 1..n : Place(s, S, k) = i
    BY <1>1, PlacesInOrder
  <1>3. \A i \in 1..Len(s) : s[i] \in S => i \in Places(s, S)
    BY DEF Places
  <1> HIDE DEF n
  <1>4. f \in [1..n -> 1..Len(s)]
    BY <1>1
  <1>5. \A j, k \in 1..n : j < k => f[j] < f[k]
    BY <1>2
  <1>6. \A k \in 1..n : Kept(s, S)[k] = s[f[k]] /\ s[f[k]] \in S
    BY <1>1
  <1>7. \A i \in 1..Len(s) : s[i] \in S => \E k \in 1..n : f[k] = i
    BY <1>2, <1>3
  <1> HIDE DEF f
  <1> QED
    BY <1>4, <1>5, <1>6, <1>7 DEF n

\* What is kept of a list without repetition has none.
LEMMA KeptInjective ==
  ASSUME NEW R, NEW s \in Seq(R), NEW S, IsInjective(s)
  PROVE  IsInjective(Kept(s, S))
  <1> DEFINE t == Kept(s, S)
  <1>1. PICK f \in [1..Len(t) -> 1..Len(s)] :
            /\ \A j, k \in 1..Len(t) : j < k => f[j] < f[k]
            /\ \A k \in 1..Len(t) : t[k] = s[f[k]] /\ s[f[k]] \in S
    BY KeptMap
  <1>2. t \in Seq(R)
    BY KeptElements
  <1> HIDE DEF t
  <1>3. DOMAIN t = 1..Len(t) /\ Len(t) \in Nat /\ DOMAIN s = 1..Len(s) /\ Len(s) \in Nat
    BY <1>2
  <1>4. ASSUME NEW j \in 1..Len(t), NEW k \in 1..Len(t), t[j] = t[k] PROVE j = k
    <2>1. f[j] = f[k]
      BY <1>1, <1>3, <1>4 DEF IsInjective
    <2>2. ~(j < k) /\ ~(k < j)
      BY <1>1, <1>3, <2>1
    <2> QED
      BY <1>3, <2>2
  <1>5. IsInjective(t)
    BY <1>3, <1>4 DEF IsInjective
  <1> QED
    BY <1>5 DEF t

\* The front of a list.
LEMMA Trimmed ==
  ASSUME NEW R, NEW s \in Seq(R), NEW m \in 0..Len(s)
  PROVE  /\ SubSeq(s, 1, m) \in Seq(R) /\ Len(SubSeq(s, 1, m)) = m
         /\ \A i \in 1..m : SubSeq(s, 1, m)[i] = s[i]
  OBVIOUS

\* Numbers that increase from 1 on are no smaller than their places.
LEMMA IncreasingAbove ==
  ASSUME NEW n \in Nat, NEW m \in Nat, NEW f \in [1..n -> 1..m],
         \A j, k \in 1..n : j < k => f[j] < f[k]
  PROVE  n <= m
  <1>1. \A j, k \in 1..n : f[j] = f[k] => j = k
    <2> TAKE j, k \in 1..n
    <2>1. j \in Int /\ k \in Int /\ f[j] \in Int /\ f[k] \in Int
      OBVIOUS
    <2> QED
      BY <2>1
  <1>2. f \in Injection(1..n, 1..m)
    BY <1>1 DEF Injection, IsInjective
  <1>3. 1 \in Int /\ n \in Int /\ m \in Int
    OBVIOUS
  <1>4. /\ IsFiniteSet(1..n) /\ Cardinality(1..n) = IF 1 > n THEN 0 ELSE n - 1 + 1
        /\ IsFiniteSet(1..m) /\ Cardinality(1..m) = IF 1 > m THEN 0 ELSE m - 1 + 1
    BY <1>3, FS_Interval
  <1>5. Cardinality(1..n) <= Cardinality(1..m)
    BY <1>2, <1>4, FS_Injection
  <1> QED
    BY <1>4, <1>5

-----------------------------------------------------------------------------
(* How many elements; lists that are joined, and lists an element is taken out of *)

\* A part of a finite set has no more elements.
LEMMA FewerElements ==
  ASSUME NEW S, NEW T, IsFiniteSet(S), T \subseteq S
  PROVE  /\ IsFiniteSet(T) /\ Cardinality(T) \in Nat /\ Cardinality(S) \in Nat
         /\ Cardinality(T) <= Cardinality(S)
  BY FS_Subset, FS_CardinalityType

\* One element more makes the set larger by one at most.
LEMMA OneElementMore ==
  ASSUME NEW S, NEW T, NEW x, IsFiniteSet(S), T \subseteq S \cup {x}
  PROVE  /\ IsFiniteSet(T) /\ Cardinality(T) \in Nat /\ Cardinality(S) \in Nat
         /\ Cardinality(T) <= Cardinality(S) + 1
  <1>1. /\ IsFiniteSet(S \cup {x}) /\ Cardinality(S) \in Nat
        /\ Cardinality(S \cup {x}) = IF x \in S THEN Cardinality(S) ELSE Cardinality(S) + 1
    BY FS_AddElement, FS_CardinalityType
  <1>2. IsFiniteSet(T) /\ Cardinality(T) \in Nat /\ Cardinality(T) <= Cardinality(S \cup {x})
    BY <1>1, FewerElements
  <1> QED
    BY <1>1, <1>2

LEMMA ElementsFinite ==
  ASSUME NEW R, NEW s \in Seq(R)
  PROVE  /\ ToSet(s) \subseteq R
         /\ IsFiniteSet(ToSet(s))
         /\ Cardinality(ToSet(s)) \in Nat
         /\ Cardinality(ToSet(s)) <= Len(s)
  <1>1. ToSet(s) \subseteq R
    BY DEF ToSet
  <1>2. IsFiniteSet(DOMAIN s) /\ Cardinality(DOMAIN s) = Len(s)
    BY PlacesFinite
  <1>3. s \in Surjection(DOMAIN s, ToSet(s))
    BY DEF Surjection, ToSet
  <1>4. IsFiniteSet(ToSet(s)) /\ Cardinality(ToSet(s)) <= Cardinality(DOMAIN s)
    BY <1>2, <1>3, FS_Surjection
  <1>5. Cardinality(ToSet(s)) \in Nat
    BY <1>4, FS_CardinalityType
  <1> QED
    BY <1>1, <1>2, <1>4, <1>5

LEMMA DistinctCounted ==
  ASSUME NEW R, NEW s \in Seq(R), IsInjective(s)
  PROVE  Cardinality(ToSet(s)) = Len(s)
  <1>1. IsFiniteSet(DOMAIN s) /\ Cardinality(DOMAIN s) = Len(s)
    BY PlacesFinite
  <1>2. s \in Bijection(DOMAIN s, ToSet(s))
    BY DEF Surjection, ToSet, Injection, Bijection, IsInjective
  <1> QED
    BY <1>1, <1>2, FS_Bijection DEF ExistsBijection

LEMMA Joined ==
  ASSUME NEW R, NEW a \in Seq(R), NEW b \in Seq(R)
  PROVE  /\ a \o b \in Seq(R)
         /\ Len(a \o b) = Len(a) + Len(b)
         /\ \A j \in 1..Len(a) : (a \o b)[j] = a[j]
         /\ \A j \in Len(a) + 1..Len(a) + Len(b) : (a \o b)[j] = b[j - Len(a)]
         /\ \A j \in 1..Len(b) : (a \o b)[Len(a) + j] = b[j]
  OBVIOUS

LEMMA JoinedElements ==
  ASSUME NEW R, NEW a \in Seq(R), NEW b \in Seq(R)
  PROVE  /\ Len(a \o b) = Len(a) + Len(b)
         /\ ToSet(a \o b) = ToSet(a) \cup ToSet(b)
  <1>1. /\ Len(a) \in Nat /\ Len(b) \in Nat
        /\ DOMAIN a = 1..Len(a) /\ DOMAIN b = 1..Len(b)
        /\ DOMAIN (a \o b) = 1..Len(a) + Len(b)
    OBVIOUS
  <1>2. /\ \A j \in 1..Len(a) : (a \o b)[j] = a[j]
        /\ \A j \in 1..Len(b) : (a \o b)[Len(a) + j] = b[j]
        /\ \A j \in Len(a) + 1..Len(a) + Len(b) : (a \o b)[j] = b[j - Len(a)]
    BY Joined
  <1> DEFINE c == a \o b
  <1>3. DOMAIN c = 1..Len(a) + Len(b)
    BY <1>1
  <1>4. /\ \A j \in 1..Len(a) : c[j] = a[j]
        /\ \A j \in 1..Len(b) : c[Len(a) + j] = b[j]
        /\ \A j \in Len(a) + 1..Len(a) + Len(b) : c[j] = b[j - Len(a)]
    BY <1>2
  <1> HIDE DEF c
  <1>5. ASSUME NEW r \in ToSet(c)
        PROVE  r \in ToSet(a) \cup ToSet(b)
    <2>1. PICK j \in DOMAIN c : c[j] = r
      BY <1>5 DEF ToSet
    <2>2. CASE j \in 1..Len(a)
      BY <1>1, <1>4, <2>1, <2>2 DEF ToSet
    <2>3. CASE j \in Len(a) + 1..Len(a) + Len(b)
      <3>1. j - Len(a) \in DOMAIN b
        BY <1>1, <2>3
      <3> QED
        BY <1>4, <2>1, <2>3, <3>1 DEF ToSet
    <2> QED
      BY <1>1, <1>3, <2>2, <2>3
  <1>6. ASSUME NEW r \in ToSet(a)
        PROVE  r \in ToSet(c)
    <2>1. PICK j \in DOMAIN a : a[j] = r
      BY <1>6 DEF ToSet
    <2>2. j \in DOMAIN c /\ c[j] = r
      BY <1>1, <1>3, <1>4, <2>1
    <2> QED
      BY <2>2 DEF ToSet
  <1>7. ASSUME NEW r \in ToSet(b)
        PROVE  r \in ToSet(c)
    <2>1. PICK j \in DOMAIN b : b[j] = r
      BY <1>7 DEF ToSet
    <2>2. Len(a) + j \in DOMAIN c
      BY <1>1, <1>3, <2>1
    <2>3. c[Len(a) + j] = r
      BY <1>1, <1>4, <2>1
    <2> QED
      BY <2>2, <2>3 DEF ToSet
  <1>8. Len(a \o b) = Len(a) + Len(b)
    BY Joined
  <1>9. ToSet(c) = ToSet(a) \cup ToSet(b)
    BY <1>5, <1>6, <1>7
  <1> QED
    BY <1>8, <1>9 DEF c

\* a row before the others
LEMMA Preceded ==
  ASSUME NEW R, NEW r \in R, NEW s \in Seq(R)
  PROVE  /\ <<r>> \o s \in Seq(R)
         /\ Len(<<r>> \o s) = Len(s) + 1
         /\ (<<r>> \o s)[1] = r
         /\ \A j \in 2..Len(s) + 1 : (<<r>> \o s)[j] = s[j - 1]
  <1>0. <<r>> \in Seq(R) /\ Len(<<r>>) = 1 /\ <<r>>[1] = r
    OBVIOUS
  <1>1. PICK f \in Seq(R) : f = <<r>> /\ Len(f) = 1 /\ f[1] = r
    BY <1>0, Zenon
  <1>2. Len(s) \in Nat
    OBVIOUS
  <1>3. f \o s \in Seq(R)
    OBVIOUS
  <1>4. Len(f \o s) = Len(f) + Len(s)
    OBVIOUS
  <1>5. (f \o s)[1] = f[1]
    BY <1>1
  <1>6. \A j \in Len(f) + 1..Len(f) + Len(s) : (f \o s)[j] = s[j - Len(f)]
    OBVIOUS
  <1> QED
    BY <1>1, <1>2, <1>3, <1>4, <1>5, <1>6

LEMMA TakenOut ==
  ASSUME NEW R, NEW s \in Seq(R), NEW i \in DOMAIN s
  PROVE  /\ RemoveAt(s, i) \in Seq(R)
         /\ Len(RemoveAt(s, i)) = Len(s) - 1
         /\ \A j \in 1..Len(s) - 1 : RemoveAt(s, i)[j] = IF j < i THEN s[j] ELSE s[j + 1]
  <1> DEFINE a == SubSeq(s, 1, i - 1)
             b == SubSeq(s, i + 1, Len(s))
  <1>1. i \in 1..Len(s) /\ Len(s) \in Nat
    OBVIOUS
  <1>2. /\ a \in Seq(R) /\ Len(a) = i - 1
        /\ \A j \in 1..i - 1 : a[j] = s[j]
    BY <1>1
  <1>3. /\ b \in Seq(R) /\ Len(b) = Len(s) - i
        /\ \A j \in 1..Len(s) - i : b[j] = s[i + j]
    BY <1>1
  <1>4. RemoveAt(s, i) = a \o b
    BY DEF RemoveAt
  <1> HIDE DEF a, b
  <1>5. a \o b \in Seq(R) /\ Len(a \o b) = Len(s) - 1
    BY <1>1, <1>2, <1>3
  <1>6. \A j \in 1..Len(s) - 1 : (a \o b)[j] = IF j <= i - 1 THEN a[j] ELSE b[j - (i - 1)]
    BY SMTT(30), <1>1, <1>2, <1>3
  <1>7. ASSUME NEW j \in 1..Len(s) - 1, ~ (j < i)
        PROVE  b[j - (i - 1)] = s[j + 1]
    <2>1. j - (i - 1) \in 1..Len(s) - i /\ i + (j - (i - 1)) = j + 1
      BY <1>1, <1>7
    <2> QED
      BY <1>3, <2>1
  <1> QED
    BY <1>1, <1>2, <1>4, <1>5, <1>6, <1>7

LEMMA BroughtForward ==
  ASSUME NEW R, NEW s \in Seq(R), NEW i \in DOMAIN s
  PROVE  LET t == <<s[i]>> \o RemoveAt(s, i)
         IN  /\ t \in Seq(R)
             /\ Len(t) = Len(s)
             /\ t[1] = s[i]
             /\ \A j \in 2..Len(s) : t[j] = IF j - 1 < i THEN s[j - 1] ELSE s[j]
  <1> DEFINE u == RemoveAt(s, i)
             t == <<s[i]>> \o u
  <1>1. /\ u \in Seq(R) /\ Len(u) = Len(s) - 1
        /\ \A j \in 1..Len(s) - 1 : u[j] = IF j < i THEN s[j] ELSE s[j + 1]
    BY TakenOut
  <1>2. s[i] \in R /\ Len(s) \in Nat
    OBVIOUS
  <1> HIDE DEF u
  <1>3. t \in Seq(R) /\ Len(t) = Len(u) + 1 /\ t[1] = s[i]
        /\ \A j \in 2..Len(u) + 1 : t[j] = u[j - 1]
    BY <1>1, <1>2, Preceded
  <1> HIDE DEF t
  <1>4. \A j \in 2..Len(s) : t[j] = u[j - 1] /\ j - 1 \in 1..Len(s) - 1
    BY <1>1, <1>2, <1>3
  <1>5. /\ t \in Seq(R) /\ Len(t) = Len(s) /\ t[1] = s[i]
        /\ \A j \in 2..Len(s) : t[j] = IF j - 1 < i THEN s[j - 1] ELSE s[j]
    BY <1>1, <1>2, <1>3, <1>4
  <1> QED
    BY <1>5 DEF t, u
=============================================================================
