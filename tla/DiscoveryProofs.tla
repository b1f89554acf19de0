--------------------------- MODULE DiscoveryProofs ---------------------------
(***************************************************************************)
(* What Discovery computes, for any lists, types and sizes.                *)
(***************************************************************************)
EXTENDS Discovery, DataLemmas

------------------------------------------------------------------------------
(* Filtering and sorting *)

\* R puts K in order: of two different elements exactly one is before the other.
Orders(R, K) ==
    /\ \A i \in K : <<i, i>> \notin R
    /\ \A i, j \in K : i # j => <<i, j>> \in R \/ <<j, i>> \in R
    /\ \A i, j, k \in K : <<i, j>> \in R /\ <<j, k>> \in R => <<i, k>> \in R

Below(K, R, i) == {j \in K : <<j, i>> \in R}

\* In a finite set that is in order there is one element for every number of
\* elements before it.
LEMMA Ranks ==
  ASSUME NEW K, IsFiniteSet(K), NEW R, Orders(R, K)
  PROVE  /\ Cardinality(K) \in Nat
         /\ \A i \in K : Cardinality(Below(K, R, i)) \in 0..(Cardinality(K) - 1)
         /\ \A i, j \in K : <<i, j>> \in R =>
               Cardinality(Below(K, R, i)) < Cardinality(Below(K, R, j))
         /\ \A n \in 1..Cardinality(K) :
               \E i \in K : Cardinality(Below(K, R, i)) = n - 1
<1> DEFINE rank == [i \in K |-> Cardinality(Below(K, R, i))]
           N == Cardinality(K)
           T == 0..(N - 1)
<1>1. N \in Nat
  BY FS_CardinalityType
<1>2. ASSUME NEW i \in K
      PROVE  IsFiniteSet(Below(K, R, i)) /\ Cardinality(Below(K, R, i)) \in T
  <2>1. Below(K, R, i) \in SUBSET K /\ i \in K \ Below(K, R, i)
    BY DEF Below, Orders
  <2>2. /\ IsFiniteSet(Below(K, R, i)) /\ Cardinality(Below(K, R, i)) <= N
        /\ N = Cardinality(Below(K, R, i)) => K = Below(K, R, i)
    BY <2>1, FS_Subset
  <2>3. Cardinality(Below(K, R, i)) \in Nat
    BY <2>2, FS_CardinalityType
  <2> QED  BY <1>1, <2>1, <2>2, <2>3
<1>3. ASSUME NEW i \in K, NEW j \in K, <<i, j>> \in R
      PROVE  Cardinality(Below(K, R, i)) < Cardinality(Below(K, R, j))
  <2>1. Below(K, R, i) \in SUBSET Below(K, R, j) /\ Below(K, R, i) # Below(K, R, j)
    BY <1>3 DEF Below, Orders
  <2>2. /\ Cardinality(Below(K, R, i)) <= Cardinality(Below(K, R, j))
        /\ Cardinality(Below(K, R, i)) # Cardinality(Below(K, R, j))
    BY <1>2, <2>1, FS_Subset
  <2> QED  BY <1>1, <1>2, <2>2
<1>4. rank \in [K -> T]
  BY <1>2
<1>5. \A i, j \in K : rank[i] = rank[j] => i = j
  <2> SUFFICES ASSUME NEW i \in K, NEW j \in K, i # j PROVE rank[i] # rank[j]
    OBVIOUS
  <2>1. <<i, j>> \in R \/ <<j, i>> \in R
    BY DEF Orders
  <2> QED  BY <1>1, <1>2, <1>3, <2>1
<1>6. rank \in Injection(K, T)
  BY <1>4, <1>5 DEF Injection, IsInjective
<1>7. IsFiniteSet(T) /\ Cardinality(T) = N
  <2>1. 0 \in Int /\ N - 1 \in Int
    BY <1>1
  <2>2. IsFiniteSet(T) /\ Cardinality(T) = IF 0 > N - 1 THEN 0 ELSE (N - 1) - 0 + 1
    BY <2>1, FS_Interval
  <2> QED  BY <1>1, <2>2
<1>8. rank \in Surjection(K, T)
  <2> HIDE DEF rank, T, N
  <2> QED  BY <1>6, <1>7, FS_Injection DEF N
<1>9. ASSUME NEW n \in 1..N PROVE \E i \in K : Cardinality(Below(K, R, i)) = n - 1
  <2>1. n - 1 \in T
    BY <1>1
  <2> QED  BY <1>8, <2>1 DEF Surjection
<1> QED  BY <1>1, <1>2, <1>3, <1>9

\* a is made of the elements of s at the places at[1], at[2], ..., which are K.
Takes(a, s, K, at) ==
    /\ at \in [1..Cardinality(K) -> K]
    /\ \A m, n \in 1..Cardinality(K) : at[m] = at[n] => m = n
    /\ \A i \in K : \E n \in 1..Cardinality(K) : at[n] = i
    /\ a = [n \in 1..Cardinality(K) |-> s[at[n]]]

\* Arranged takes the elements at the places K, in the order R.
LEMMA ArrangedPlaces ==
  ASSUME NEW K, IsFiniteSet(K), NEW R, Orders(R, K), NEW s
  PROVE  \E at : /\ Takes(Arranged(s, K, R), s, K, at)
                 /\ \A m, n \in 1..Cardinality(K) : m < n => <<at[m], at[n]>> \in R
<1> DEFINE at == [n \in 1..Cardinality(K) |->
                    CHOOSE i \in K : Cardinality(Below(K, R, i)) = n - 1]
<1>1. Cardinality(K) \in Nat
  BY Ranks
<1>2. ASSUME NEW n \in 1..Cardinality(K)
      PROVE  at[n] \in K /\ Cardinality(Below(K, R, at[n])) = n - 1
  <2>1. \E i \in K : Cardinality(Below(K, R, i)) = n - 1
    BY Ranks
  <2> QED  BY <2>1
<1>3. Arranged(s, K, R) = [n \in 1..Cardinality(K) |-> s[at[n]]]
  <2> DEFINE from(n) == CHOOSE i \in K : Cardinality({j \in K : <<j, i>> \in R}) = n - 1
  <2>1. Arranged(s, K, R) = [n \in 1..Cardinality(K) |-> s[from(n)]]
    BY DEF Arranged
  <2>2. \A n \in 1..Cardinality(K) : at[n] = from(n)
    BY DEF Below
  <2> HIDE DEF from, at
  <2> QED  BY <2>1, <2>2
<1>4. at \in [1..Cardinality(K) -> K]
  BY <1>2
<1> HIDE DEF at
<1>5. \A m, n \in 1..Cardinality(K) : at[m] = at[n] => m = n
  BY <1>1, <1>2
<1>6. ASSUME NEW m \in 1..Cardinality(K), NEW n \in 1..Cardinality(K), m < n
      PROVE  <<at[m], at[n]>> \in R
  <2>1. at[m] # at[n] /\ ~ (<<at[n], at[m]>> \in R)
    BY <1>1, <1>2, <1>5, <1>6, Ranks
  <2> QED  BY <1>2, <2>1 DEF Orders
<1>7. ASSUME NEW i \in K PROVE \E n \in 1..Cardinality(K) : at[n] = i
  <2> DEFINE n == Cardinality(Below(K, R, i)) + 1
  <2>1. n \in 1..Cardinality(K) /\ Cardinality(Below(K, R, i)) = n - 1
    BY <1>1, Ranks
  <2> HIDE DEF n
  <2>2. Cardinality(Below(K, R, at[n])) = Cardinality(Below(K, R, i)) /\ at[n] \in K
    BY <1>2, <2>1
  <2>3. at[n] = i
    <3> SUFFICES ASSUME at[n] # i PROVE FALSE
      OBVIOUS
    <3>1. <<at[n], i>> \in R \/ <<i, at[n]>> \in R
      BY <2>2 DEF Orders
    <3>2. Cardinality(Below(K, R, i)) \in Nat
      BY Ranks, <1>1
    <3> QED  BY <2>2, <3>1, <3>2, Ranks
  <2> QED  BY <2>1, <2>3
<1>8. Takes(Arranged(s, K, R), s, K, at)
  BY <1>3, <1>4, <1>5, <1>7 DEF Takes
<1> QED  BY <1>6, <1>8

\* What is taken from a list is a list, of the elements at the places taken, and
\* repeats nothing that the list does not repeat.
LEMMA TakesProperties ==
  ASSUME NEW S, NEW s \in Seq(S), NEW K \in SUBSET DOMAIN s, Cardinality(K) \in Nat,
         NEW a, NEW at, Takes(a, s, K, at)
  PROVE  /\ a \in Seq(S) /\ Len(a) = Cardinality(K) /\ DOMAIN a = 1..Cardinality(K)
         /\ Range(a) = {s[i] : i \in K}
         /\ NamesOnce(s) => NamesOnce(a)
         /\ (\A i, j \in K : s[i] = s[j] => i = j) => Once(a)
<1> DEFINE N == Cardinality(K)
<1>1. /\ at \in [1..N -> K] /\ N \in Nat
      /\ \A m, n \in 1..N : at[m] = at[n] => m = n
      /\ \A i \in K : \E n \in 1..N : at[n] = i
      /\ a = [n \in 1..N |-> s[at[n]]]
  BY DEF Takes
<1>2. DOMAIN s = 1..Len(s) /\ \A i \in DOMAIN s : s[i] \in S
  BY LenProperties, ElementOfSeq
<1> HIDE DEF N
<1>3. a \in [1..N -> S]
  BY <1>1, <1>2
<1>4. a \in Seq(S) /\ Len(a) = N /\ DOMAIN a = 1..N
  BY <1>1, <1>3
<1>5. Range(a) = {s[i] : i \in K}
  <2>1. \A n \in 1..N : at[n] \in K /\ a[n] = s[at[n]]
    BY <1>1
  <2>2. \A x \in Range(a) : \E i \in K : x = s[i]
    BY <1>4, <2>1 DEF Range
  <2>3. \A i \in K : \E n \in 1..N : a[n] = s[i]
    BY <1>1, <2>1
  <2>4. \A i \in K : s[i] \in Range(a)
    BY <1>4, <2>3 DEF Range
  <2> QED  BY <2>2, <2>4
<1>6. ASSUME NamesOnce(s) PROVE NamesOnce(a)
  BY <1>1, <1>4, <1>6 DEF NamesOnce
<1>7. ASSUME \A i, j \in K : s[i] = s[j] => i = j PROVE Once(a)
  BY <1>1, <1>4, <1>7 DEF Once
<1> QED  BY <1>4, <1>5, <1>6, <1>7 DEF N

\* [x for x in s if ...] has the elements of s at the places kept.
LEMMA KeptProperties ==
  ASSUME NEW S, NEW s \in Seq(S), NEW K \in SUBSET DOMAIN s
  PROVE  /\ Kept(s, K) \in Seq(S) /\ Len(Kept(s, K)) = Cardinality(K)
         /\ Range(Kept(s, K)) = {s[i] : i \in K}
         /\ NamesOnce(s) => NamesOnce(Kept(s, K))
         /\ (\A i, j \in K : s[i] = s[j] => i = j) => Once(Kept(s, K))
<1> DEFINE R == {p \in K \X K : p[1] < p[2]}
<1>1. IsFiniteSet(K) /\ Cardinality(K) \in Nat /\ K \subseteq Nat
  BY Places, LenProperties
<1>2. Orders(R, K)
  BY <1>1 DEF Orders
<1>3. Kept(s, K) = Arranged(s, K, R)
  BY DEF Kept
<1> HIDE DEF R
<1>4. \E at : Takes(Kept(s, K), s, K, at)
  BY <1>1, <1>2, <1>3, ArrangedPlaces
<1> QED  BY <1>1, <1>4, TakesProperties

\* Less has smaller keys: it is the order of the keys of places.
KeyOrder(Less, D) ==
    /\ \A i \in D : <<i, i>> \notin Less
    /\ \A i, j, k \in D : <<i, j>> \in Less /\ <<j, k>> \in Less => <<i, k>> \in Less
    /\ \A i, j, k \in D : <<i, k>> \in Less => <<i, j>> \in Less \/ <<j, k>> \in Less

\* list.sort has the elements of s, and none has a smaller key than one before it.
LEMMA SortedProperties ==
  ASSUME NEW S, NEW s \in Seq(S), NEW Less, KeyOrder(Less, DOMAIN s)
  PROVE  /\ Sorted(s, Less) \in Seq(S) /\ Len(Sorted(s, Less)) = Len(s)
         /\ Range(Sorted(s, Less)) = Range(s)
         /\ NamesOnce(s) => NamesOnce(Sorted(s, Less))
         /\ \E at \in [1..Len(s) -> DOMAIN s] :
               /\ \A n \in 1..Len(s) : Sorted(s, Less)[n] = s[at[n]]
               /\ \A m, n \in 1..Len(s) : m < n => <<at[n], at[m]>> \notin Less
<1> DEFINE D == DOMAIN s
           R == {p \in Pairs(s) : \/ p \in Less
                                  \/ <<p[2], p[1]>> \notin Less /\ p[1] < p[2]}
<1>1. D = 1..Len(s) /\ Len(s) \in Nat
  BY LenProperties
<1>2. IsFiniteSet(D) /\ Cardinality(D) = Len(s)
  BY Places
<1>3. \A i, j \in D : <<i, j>> \in R <=> \/ <<i, j>> \in Less
                                         \/ <<j, i>> \notin Less /\ i < j
  BY DEF Pairs
<1>4. Sorted(s, Less) = Arranged(s, D, R)
  BY DEF Sorted
<1> HIDE DEF R
<1>5. Orders(R, D)
  <2>1. D \subseteq Nat /\ KeyOrder(Less, D)
    BY <1>1
  <2> HIDE DEF D
  <2>2. ASSUME NEW i \in D PROVE <<i, i>> \notin R
    <3>1. ~ (i < i) /\ <<i, i>> \notin Less
      BY <2>1 DEF KeyOrder
    <3> QED  BY <1>3, <3>1
  <2>3. ASSUME NEW i \in D, NEW j \in D, i # j PROVE <<i, j>> \in R \/ <<j, i>> \in R
    <3>1. i < j \/ j < i
      BY <2>1, <2>3
    <3> QED  BY <1>3, <3>1
  <2>4. ASSUME NEW i \in D, NEW j \in D, NEW k \in D, <<i, j>> \in R, <<j, k>> \in R
        PROVE  <<i, k>> \in R
    <3>1. /\ <<i, j>> \in Less \/ (<<j, i>> \notin Less /\ i < j)
          /\ <<j, k>> \in Less \/ (<<k, j>> \notin Less /\ j < k)
      BY <1>3, <2>4
    <3>2. i < j /\ j < k => i < k
      BY <2>1
    <3>3. <<i, k>> \in Less \/ (<<k, i>> \notin Less /\ i < k)
      BY <2>1, <3>1, <3>2 DEF KeyOrder
    <3> QED  BY <1>3, <3>3
  <2> QED  BY <2>2, <2>3, <2>4 DEF Orders
<1>6. PICK at : /\ Takes(Sorted(s, Less), s, D, at)
                /\ \A m, n \in 1..Cardinality(D) : m < n => <<at[m], at[n]>> \in R
  BY <1>2, <1>4, <1>5, ArrangedPlaces
<1>7. /\ Sorted(s, Less) \in Seq(S) /\ Len(Sorted(s, Less)) = Len(s)
      /\ Range(Sorted(s, Less)) = {s[i] : i \in D}
      /\ NamesOnce(s) => NamesOnce(Sorted(s, Less))
  BY <1>1, <1>2, <1>6, TakesProperties
<1>8. Range(s) = {s[i] : i \in D}
  BY DEF Range
<1>9. /\ at \in [1..Len(s) -> D]
      /\ \A n \in 1..Len(s) : Sorted(s, Less)[n] = s[at[n]]
  BY <1>2, <1>6 DEF Takes
<1>10. \A m, n \in 1..Len(s) : m < n => <<at[n], at[m]>> \notin Less
  BY <1>1, <1>2, <1>3, <1>6, <1>9 DEF KeyOrder
<1> QED  BY <1>7, <1>8, <1>9, <1>10

\* At most n elements of a list: those before the rest.
LEMMA FirstOfProperties ==
  ASSUME NEW S, NEW s \in Seq(S), NEW n \in Nat
  PROVE  LET f == FirstOf(s, n) IN
         /\ f \in Seq(S) /\ Len(f) = (IF Len(s) < n THEN Len(s) ELSE n)
         /\ \A i \in 1..Len(f) : f[i] = s[i]
         /\ NamesOnce(s) => NamesOnce(f)
<1> DEFINE m == IF Len(s) < n THEN Len(s) ELSE n
           f == FirstOf(s, n)
<1>1. m \in 0..Len(s) /\ Len(s) \in Nat /\ DOMAIN s = 1..Len(s)
  BY LenProperties
<1>2. f = SubSeq(s, 1, m)
  BY DEF FirstOf
<1> HIDE DEF m, f
<1>3. 1 \in Int /\ m \in Int /\ \A i \in 1..m : s[i] \in S
  BY <1>1, ElementOfSeq
<1>4. /\ SubSeq(s, 1, m) \in Seq(S)
      /\ Len(SubSeq(s, 1, m)) = IF 1 <= m THEN m - 1 + 1 ELSE 0
      /\ \A i \in 1..(m - 1 + 1) : SubSeq(s, 1, m)[i] = s[1 + i - 1]
  BY <1>3, SubSeqProperties
<1>5. f \in Seq(S) /\ Len(f) = m /\ \A i \in 1..m : f[i] = s[i]
  BY <1>1, <1>2, <1>4
<1>6. DOMAIN f = 1..m
  BY <1>5, LenProperties
<1>7. NamesOnce(s) => NamesOnce(f)
  BY <1>1, <1>5, <1>6 DEF NamesOnce
<1> QED  BY <1>5, <1>7 DEF m, f

\* Different names are those of different entries.
LEMMA NamesThenOnce ==
  ASSUME NEW s, NamesOnce(s)
  PROVE  /\ Once(s)
         /\ \A e, f \in Range(s) : e.name = f.name => e = f
BY DEF NamesOnce, Once, Range

------------------------------------------------------------------------------
(* The selection of instruments *)

\* The active ones of a list.
LEMMA ActiveProperties ==
  ASSUME NEW l \in Seq(Entries), NamesOnce(l)
  PROVE  /\ Active(l) \in Seq(Entries) /\ NamesOnce(Active(l))
         /\ Range(Active(l)) = {e \in Range(l) : e.active}
<1> DEFINE K == {i \in DOMAIN l : l[i].active}
<1>1. Active(l) = Kept(l, K) /\ K \in SUBSET DOMAIN l
  BY DEF Active
<1>2. {l[i] : i \in K} = {e \in Range(l) : e.active}
  BY DEF Range
<1> HIDE DEF K
<1>3. /\ Kept(l, K) \in Seq(Entries) /\ NamesOnce(Kept(l, K))
      /\ Range(Kept(l, K)) = {l[i] : i \in K}
  BY <1>1, KeptProperties
<1> QED  BY <1>1, <1>2, <1>3

\* The active options, however they are sorted.
LEMMA ChainProperties ==
  ASSUME NEW l \in Seq(Entries), NamesOnce(l)
  PROVE  /\ Chain(l) \in Seq(Entries) /\ NamesOnce(Chain(l))
         /\ Range(Chain(l)) = {e \in Range(l) : e.active}
<1> DEFINE a == Active(l)
           L == SoonerOption(a)
<1>1. a \in Seq(Entries) /\ NamesOnce(a) /\ Range(a) = {e \in Range(l) : e.active}
  BY ActiveProperties
<1>2. Chain(l) = Sorted(a, L)
  BY DEF Chain
<1> HIDE DEF a
<1>3. ASSUME NEW i \in DOMAIN a PROVE a[i].expiry \in Nat /\ a[i].strike \in Nat
  <2>1. a[i] \in Entries
    BY <1>1, LenProperties, ElementOfSeq
  <2> QED  BY <2>1 DEF Entries
<1>4. \A i, j \in DOMAIN a : <<i, j>> \in L <=>
         \/ a[i].expiry < a[j].expiry
         \/ a[i].expiry = a[j].expiry /\ a[i].strike < a[j].strike
  BY DEF SoonerOption, Pairs
<1> HIDE DEF L
<1>5. KeyOrder(L, DOMAIN a)
  <2> DEFINE D == DOMAIN a
             x(i) == a[i].expiry
             k(i) == a[i].strike
  <2>1. \A i \in D : x(i) \in Nat /\ k(i) \in Nat
    BY <1>3
  <2>2. \A i, j \in D : <<i, j>> \in L <=> \/ x(i) < x(j)
                                           \/ x(i) = x(j) /\ k(i) < k(j)
    BY <1>4
  <2> HIDE DEF D, x, k
  <2>3. ASSUME NEW i \in D PROVE <<i, i>> \notin L
    BY <2>1, <2>2
  <2>4. ASSUME NEW i \in D, NEW j \in D, NEW m \in D, <<i, j>> \in L, <<j, m>> \in L
        PROVE  <<i, m>> \in L
    BY <2>1, <2>2, <2>4
  <2>5. ASSUME NEW i \in D, NEW j \in D, NEW m \in D, <<i, m>> \in L
        PROVE  <<i, j>> \in L \/ <<j, m>> \in L
    BY <2>1, <2>2, <2>5
  <2>6. KeyOrder(L, D)
    BY <2>3, <2>4, <2>5 DEF KeyOrder
  <2> QED  BY <2>6 DEF D
<1>6. /\ Sorted(a, L) \in Seq(Entries) /\ Range(Sorted(a, L)) = Range(a)
      /\ NamesOnce(a) => NamesOnce(Sorted(a, L))
  BY <1>1, <1>5, SortedProperties
<1> QED  BY <1>1, <1>2, <1>6

Perpetuals(l) == {e \in Range(l) : e.perpetual}
DatedIn(l) == {e \in Range(l) : e.active /\ ~e.perpetual}

\* One perpetual, if there is any.
LEMMA PerpetualProperties ==
  ASSUME NEW l \in Seq(Entries), NamesOnce(l)
  PROVE  /\ Perpetual(l) \in Seq(Entries) /\ NamesOnce(Perpetual(l))
         /\ Range(Perpetual(l)) \subseteq Perpetuals(l)
         /\ Perpetuals(l) # {} => \E e : Range(Perpetual(l)) = {e}
<1> DEFINE K == {i \in DOMAIN l : l[i].perpetual}
           k == Kept(l, K)
           p == FirstOf(k, 1)
<1>1. Perpetual(l) = p /\ K \in SUBSET DOMAIN l
  BY DEF Perpetual
<1>2. {l[i] : i \in K} = Perpetuals(l)
  BY DEF Range, Perpetuals
<1> HIDE DEF K
<1>3. k \in Seq(Entries) /\ NamesOnce(k) /\ Range(k) = Perpetuals(l)
  BY <1>1, <1>2, KeptProperties
<1> HIDE DEF k
<1>4. Len(k) \in Nat /\ DOMAIN k = 1..Len(k)
  BY <1>3, LenProperties
<1>5. /\ p \in Seq(Entries) /\ Len(p) = (IF Len(k) < 1 THEN Len(k) ELSE 1)
      /\ \A i \in 1..Len(p) : p[i] = k[i]
      /\ NamesOnce(k) => NamesOnce(p)
  BY <1>3, FirstOfProperties
<1> HIDE DEF p
<1>6. DOMAIN p = 1..Len(p)
  BY <1>5, LenProperties
<1>7. Range(p) \subseteq Range(k)
  BY <1>4, <1>5, <1>6 DEF Range
<1>8. ASSUME Perpetuals(l) # {} PROVE \E e : Range(p) = {e}
  <2>1. Len(k) >= 1
    BY <1>3, <1>4, <1>8 DEF Range
  <2>2. DOMAIN p = {1}
    BY <1>4, <1>5, <1>6, <2>1
  <2>3. Range(p) = {p[1]}
    BY <2>2 DEF Range
  <2> QED  BY <2>3
<1> QED  BY <1>1, <1>3, <1>5, <1>7, <1>8

\* The first of the dated ones when they are sorted: none of the others expires
\* before one of them.
LEMMA NearbyProperties ==
  ASSUME NEW l \in Seq(Entries), NamesOnce(l), NEW count \in Nat
  PROVE  LET n == NearbyFutures(l, count)
             c == Cardinality(DatedIn(l)) IN
         /\ n \in Seq(Entries) /\ NamesOnce(n) /\ Range(n) \subseteq DatedIn(l)
         /\ c \in Nat /\ Cardinality(Range(n)) = (IF c < count THEN c ELSE count)
         /\ \A e \in Range(n), f \in DatedIn(l) \ Range(n) : e.expiry <= f.expiry
<1> DEFINE K == {i \in DOMAIN l : l[i].active /\ ~l[i].perpetual}
           d == Dated(l)
           L == SoonerExpiry(d)
           o == Sorted(d, L)
           n == NearbyFutures(l, count)
           c == Cardinality(DatedIn(l))
<1>1. d = Kept(l, K) /\ K \in SUBSET DOMAIN l
  BY DEF Dated
<1>2. {l[i] : i \in K} = DatedIn(l)
  BY DEF Range, DatedIn
<1>3. n = FirstOf(o, count)
  BY DEF NearbyFutures
<1> HIDE DEF K, d
<1>4. d \in Seq(Entries) /\ NamesOnce(d) /\ Range(d) = DatedIn(l)
  BY <1>1, <1>2, KeptProperties
<1>5. c = Len(d) /\ Len(d) \in Nat
  BY <1>4, NamesThenOnce, RangeOfOnce, LenProperties
<1>6. ASSUME NEW i \in DOMAIN d PROVE d[i].expiry \in Nat
  <2>1. d[i] \in Entries
    BY <1>4, LenProperties, ElementOfSeq
  <2> QED  BY <2>1 DEF Entries
<1>7. \A i, j \in DOMAIN d : <<i, j>> \in L <=> d[i].expiry < d[j].expiry
  BY DEF SoonerExpiry, Pairs
<1> HIDE DEF L
<1>8. KeyOrder(L, DOMAIN d)
  <2> DEFINE D == DOMAIN d
             x(i) == d[i].expiry
  <2>1. \A i \in D : x(i) \in Nat
    BY <1>6
  <2>2. \A i, j \in D : <<i, j>> \in L <=> x(i) < x(j)
    BY <1>7
  <2> HIDE DEF D, x
  <2>3. ASSUME NEW i \in D PROVE <<i, i>> \notin L
    BY <2>1, <2>2
  <2>4. ASSUME NEW i \in D, NEW j \in D, NEW m \in D, <<i, j>> \in L, <<j, m>> \in L
        PROVE  <<i, m>> \in L
    BY <2>1, <2>2, <2>4
  <2>5. ASSUME NEW i \in D, NEW j \in D, NEW m \in D, <<i, m>> \in L
        PROVE  <<i, j>> \in L \/ <<j, m>> \in L
    BY <2>1, <2>2, <2>5
  <2>6. KeyOrder(L, D)
    BY <2>3, <2>4, <2>5 DEF KeyOrder
  <2> QED  BY <2>6 DEF D
<1>9. /\ o \in Seq(Entries) /\ Len(o) = Len(d) /\ Range(o) = Range(d)
      /\ NamesOnce(d) => NamesOnce(o)
      /\ \E at \in [1..Len(d) -> DOMAIN d] :
            /\ \A i \in 1..Len(d) : o[i] = d[at[i]]
            /\ \A i, j \in 1..Len(d) : i < j => <<at[j], at[i]>> \notin L
  BY <1>4, <1>8, SortedProperties
<1> HIDE DEF o
<1>10. /\ n \in Seq(Entries) /\ Len(n) = (IF Len(o) < count THEN Len(o) ELSE count)
       /\ \A i \in 1..Len(n) : n[i] = o[i]
       /\ NamesOnce(o) => NamesOnce(n)
  BY <1>3, <1>9, FirstOfProperties
<1> HIDE DEF n, c
<1>11. DOMAIN n = 1..Len(n) /\ DOMAIN o = 1..Len(o)
  BY <1>9, <1>10, LenProperties
<1>12. Range(n) \subseteq DatedIn(l)
  <2>1. \A i \in 1..Len(n) : i \in 1..Len(o)
    BY <1>5, <1>9, <1>10
  <2>2. Range(n) \subseteq Range(o)
    BY <1>10, <1>11, <2>1 DEF Range
  <2> QED  BY <1>4, <1>9, <2>2
<1>13. Cardinality(Range(n)) = (IF c < count THEN c ELSE count)
  <2>1. Cardinality(Range(n)) = Len(n)
    BY <1>4, <1>9, <1>10, NamesThenOnce, RangeOfOnce
  <2> QED  BY <1>5, <1>9, <1>10, <2>1
<1>14. ASSUME NEW e \in Range(n), NEW f \in DatedIn(l) \ Range(n)
       PROVE  e.expiry <= f.expiry
  <2>1. PICK at \in [1..Len(d) -> DOMAIN d] :
            /\ \A i \in 1..Len(d) : o[i] = d[at[i]]
            /\ \A i, j \in 1..Len(d) : i < j => <<at[j], at[i]>> \notin L
    BY <1>9
  <2>2. PICK i \in 1..Len(n) : e = n[i]
    BY <1>11 DEF Range
  <2>3. PICK j \in 1..Len(o) : f = o[j]
    BY <1>4, <1>9, <1>11 DEF Range
  <2>4. j \notin 1..Len(n)
    <3> SUFFICES ASSUME j \in 1..Len(n) PROVE FALSE
      OBVIOUS
    <3>1. f = n[j] /\ j \in DOMAIN n
      BY <1>10, <1>11, <2>3
    <3> QED  BY <3>1 DEF Range
  <2>5. i \in 1..Len(d) /\ j \in 1..Len(d) /\ i < j
    BY <1>5, <1>9, <1>10, <2>4
  <2>6. e = d[at[i]] /\ f = d[at[j]] /\ at[i] \in DOMAIN d /\ at[j] \in DOMAIN d
    BY <1>10, <2>1, <2>2, <2>3, <2>5
  <2>7. ~ (d[at[j]].expiry < d[at[i]].expiry)
    BY <1>7, <2>1, <2>5, <2>6
  <2> QED  BY <1>6, <2>6, <2>7
<1> QED  BY <1>4, <1>5, <1>9, <1>10, <1>12, <1>13, <1>14 DEF n, c

\* Two lists without a name in common, one after the other.
LEMMA ConcatOnce ==
  ASSUME NEW S, NEW a \in Seq(S), NEW b \in Seq(S), NamesOnce(a), NamesOnce(b), Apart(a, b)
  PROVE  /\ a \o b \in Seq(S) /\ NamesOnce(a \o b)
         /\ Range(a \o b) = Range(a) \cup Range(b)
<1> DEFINE c == a \o b
<1>1. /\ c \in Seq(S) /\ Len(c) = Len(a) + Len(b)
      /\ \A i \in 1..(Len(a) + Len(b)) : c[i] = IF i <= Len(a) THEN a[i] ELSE b[i - Len(a)]
      /\ Range(c) = Range(a) \cup Range(b)
  BY ConcatProperties, RangeConcatenation
<1>2. /\ Len(a) \in Nat /\ DOMAIN a = 1..Len(a) /\ Len(b) \in Nat /\ DOMAIN b = 1..Len(b)
  BY LenProperties
<1> HIDE DEF c
<1>3. DOMAIN c = 1..(Len(a) + Len(b))
  BY <1>1, LenProperties
<1>4. ASSUME NEW i \in DOMAIN c
      PROVE  \/ i <= Len(a) /\ i \in DOMAIN a /\ c[i] = a[i]
             \/ i > Len(a) /\ i - Len(a) \in DOMAIN b /\ c[i] = b[i - Len(a)]
  BY <1>1, <1>2, <1>3
<1>5. ASSUME NEW i \in DOMAIN c, NEW j \in DOMAIN c, c[i].name = c[j].name PROVE i = j
  <2>0. i \in Nat /\ j \in Nat
    BY <1>2, <1>3
  <2>1. CASE i <= Len(a) /\ j <= Len(a)
    BY <1>2, <1>4, <1>5, <2>0, <2>1 DEF NamesOnce
  <2>2. CASE i > Len(a) /\ j > Len(a)
    <3>1. /\ i - Len(a) \in DOMAIN b /\ j - Len(a) \in DOMAIN b
          /\ c[i] = b[i - Len(a)] /\ c[j] = b[j - Len(a)]
      BY <1>2, <1>4, <2>0, <2>2
    <3>2. i - Len(a) = j - Len(a)
      BY <1>5, <3>1 DEF NamesOnce
    <3> QED  BY <1>2, <2>0, <3>2
  <2>3. CASE i <= Len(a) /\ j > Len(a)
    <3>1. c[i] \in Range(a) /\ c[j] \in Range(b)
      BY <1>2, <1>4, <2>0, <2>3 DEF Range
    <3> QED  BY <1>5, <3>1 DEF Apart
  <2>4. CASE i > Len(a) /\ j <= Len(a)
    <3>1. c[i] \in Range(b) /\ c[j] \in Range(a)
      BY <1>2, <1>4, <2>0, <2>4 DEF Range
    <3> QED  BY <1>5, <3>1 DEF Apart
  <2> QED  BY <1>2, <2>0, <2>1, <2>2, <2>3, <2>4
<1> QED  BY <1>1, <1>5 DEF NamesOnce, c

\* What is subscribed: no instrument twice.
LEMMA UniverseProperties ==
  ASSUME NEW l, Listing(l), NEW count \in Nat
  PROVE  LET u == Universe(l, count) IN
         /\ u \in Seq(Entries) /\ NamesOnce(u)
         /\ Range(u) = Range(Perpetual(l.future)) \cup Range(Active(l.spot))
                          \cup Range(NearbyFutures(l.future, count))
                          \cup Range(Chain(l.option))
<1> DEFINE p == Perpetual(l.future)
           s == Active(l.spot)
           n == NearbyFutures(l.future, count)
           c == Chain(l.option)
<1>1. /\ l.future \in Seq(Entries) /\ l.option \in Seq(Entries) /\ l.spot \in Seq(Entries)
      /\ NamesOnce(l.future) /\ NamesOnce(l.option) /\ NamesOnce(l.spot)
  BY DEF Listing
<1>2. p \in Seq(Entries) /\ NamesOnce(p) /\ Range(p) \subseteq Perpetuals(l.future)
  BY <1>1, PerpetualProperties
<1>3. s \in Seq(Entries) /\ NamesOnce(s) /\ Range(s) \subseteq Range(l.spot)
  BY <1>1, ActiveProperties
<1>4. n \in Seq(Entries) /\ NamesOnce(n) /\ Range(n) \subseteq DatedIn(l.future)
  BY <1>1, NearbyProperties
<1>5. c \in Seq(Entries) /\ NamesOnce(c) /\ Range(c) \subseteq Range(l.option)
  BY <1>1, ChainProperties
<1>6. Universe(l, count) = ((p \o s) \o n) \o c
  BY DEF Universe
<1> HIDE DEF p, s, n, c
<1>7. /\ Range(p) \subseteq Range(l.future) /\ Range(n) \subseteq Range(l.future)
      /\ Range(p) \cap Range(n) = {}
  BY <1>2, <1>4 DEF Perpetuals, DatedIn
<1>8. /\ Apart(p, s) /\ Apart(p, c) /\ Apart(s, n) /\ Apart(s, c) /\ Apart(n, c)
  BY <1>3, <1>5, <1>7 DEF Listing, Apart
<1>9. Apart(p, n)
  <2>1. \A e, f \in Range(l.future) : e.name = f.name => e = f
    BY <1>1, NamesThenOnce
  <2> QED  BY <1>7, <2>1 DEF Apart
<1>10. /\ p \o s \in Seq(Entries) /\ NamesOnce(p \o s)
       /\ Range(p \o s) = Range(p) \cup Range(s)
  BY <1>2, <1>3, <1>8, ConcatOnce
<1>11. Apart(p \o s, n) /\ Apart(p \o s, c)
  BY <1>8, <1>9, <1>10 DEF Apart
<1> DEFINE ps == p \o s
           psn == ps \o n
<1>12. /\ psn \in Seq(Entries) /\ NamesOnce(psn)
       /\ Range(psn) = Range(p) \cup Range(s) \cup Range(n)
  <2> HIDE DEF ps
  <2>1. /\ ps \in Seq(Entries) /\ NamesOnce(ps) /\ Range(ps) = Range(p) \cup Range(s)
        /\ Apart(ps, n)
    BY <1>10, <1>11 DEF ps
  <2> QED  BY <1>4, <2>1, ConcatOnce
<1>13. Apart(psn, c)
  <2> HIDE DEF psn
  <2> QED  BY <1>8, <1>12 DEF Apart
<1>14. Universe(l, count) = psn \o c
  BY <1>6
<1> HIDE DEF psn
<1>15. /\ psn \o c \in Seq(Entries) /\ NamesOnce(psn \o c)
       /\ Range(psn \o c) = Range(psn) \cup Range(c)
  BY <1>5, <1>12, <1>13, ConcatOnce
<1> QED  BY <1>12, <1>14, <1>15 DEF p, s, n, c

------------------------------------------------------------------------------
(* Numbers of places *)

\* Division with remainder.
LEMMA Euclid ==
  ASSUME NEW T \in Nat \ {0}, NEW k \in Nat
  PROVE  /\ k \div T \in Nat /\ (k % T) \in 0..(T - 1)
         /\ k = ((k \div T) * T) + (k % T)
OBVIOUS

\* The quotient is less than U if the number is less than U * T,
LEMMA QuotientBound ==
  ASSUME NEW T \in Nat \ {0}, NEW U \in Nat, NEW k \in Nat, k < U * T
  PROVE  (k \div T) \in 0..(U - 1)
<1> DEFINE q == k \div T
<1>1. q \in Nat /\ k >= q * T
  BY Euclid
<1> HIDE DEF q
<1>2. SUFFICES ASSUME q >= U PROVE FALSE
  BY <1>1 DEF q
<1>3. (q - U) * T >= 0
  BY <1>1, <1>2
<1>4. (q - U) * T = q * T - U * T
  BY <1>1
<1> QED  BY <1>1, <1>3, <1>4

\* and every quotient and remainder is that of a number.
LEMMA FromQuotient ==
  ASSUME NEW T \in Nat \ {0}, NEW U \in Nat, NEW q \in 0..(U - 1), NEW r \in 0..(T - 1)
  PROVE  /\ q * T + r \in Nat /\ q * T + r < U * T
         /\ (q * T + r) \div T = q /\ (q * T + r) % T = r
<1>1. q * T + r \in Nat /\ (q * T + r) \div T = q /\ (q * T + r) % T = r
  OBVIOUS
<1>2. (U - 1 - q) * T >= 0
  <2>1. U - 1 - q \in Nat
    OBVIOUS
  <2> QED  BY <2>1
<1>3. (U - 1 - q) * T = U * T - T - q * T
  OBVIOUS
<1> QED  BY <1>1, <1>2, <1>3

------------------------------------------------------------------------------
(* Channels and batches *)

\* Each supported type of each instrument, and none of these twice.
LEMMA MarketProperties ==
  ASSUME NEW u \in Seq(Entries), NamesOnce(u), NEW types \in Seq(STRING), TypesOnce(types)
  PROVE  LET c == MarketChannels(u, types) IN
         /\ c \in Seq(Supported \X STRING) /\ Once(c)
         /\ Range(c) = (Range(types) \cap Supported) \X {e.name : e \in Range(u)}
<1> DEFINE K == {i \in DOMAIN types : types[i] \in Supported}
           ts == Kept(types, K)
           U == Len(u)
           T == Len(ts)
           c == MarketChannels(u, types)
<1>1. {types[i] : i \in K} = Range(types) \cap Supported /\ K \in SUBSET DOMAIN types
  BY DEF Range
<1>2. \A i, j \in K : types[i] = types[j] => i = j
  BY DEF TypesOnce
<1>3. c = [n \in 1..(U * T) |-> <<ts[((n - 1) % T) + 1], u[((n - 1) \div T) + 1].name>>]
  BY DEF MarketChannels
<1> HIDE DEF K
<1>4. ts \in Seq(STRING) /\ Range(ts) = Range(types) \cap Supported /\ Once(ts)
  BY <1>1, <1>2, KeptProperties
<1> HIDE DEF ts, c
<1>5. U \in Nat /\ DOMAIN u = 1..U /\ T \in Nat /\ DOMAIN ts = 1..T
  BY <1>4, LenProperties
<1> HIDE DEF U, T
<1> DEFINE t(n) == ((n - 1) % T) + 1
           e(n) == ((n - 1) \div T) + 1
<1>6. ASSUME NEW n \in 1..(U * T) PROVE t(n) \in 1..T /\ e(n) \in 1..U /\ T \in Nat \ {0}
  <2>1. n - 1 \in Nat /\ n - 1 < U * T /\ T # 0
    BY <1>5
  <2>2. ((n - 1) \div T) \in 0..(U - 1) /\ ((n - 1) % T) \in 0..(T - 1)
    BY <1>5, <2>1, Euclid, QuotientBound
  <2> HIDE DEF t, e
  <2>3. t(n) \in 1..T /\ e(n) \in 1..U
    BY <1>5, <2>2 DEF t, e
  <2> QED  BY <1>5, <2>1, <2>3
<1>7. ASSUME NEW n \in 1..(U * T) PROVE c[n] = <<ts[t(n)], u[e(n)].name>>
  BY <1>3
<1>8. ASSUME NEW m \in 1..(U * T), NEW n \in 1..(U * T), t(m) = t(n), e(m) = e(n)
      PROVE  m = n
  <2>1. T \in Nat \ {0} /\ m - 1 \in Nat /\ n - 1 \in Nat
    BY <1>5, <1>6
  <2>2. /\ m - 1 = (((m - 1) \div T) * T) + ((m - 1) % T)
        /\ n - 1 = (((n - 1) \div T) * T) + ((n - 1) % T)
        /\ ((m - 1) \div T) \in Nat /\ ((m - 1) % T) \in 0..(T - 1)
        /\ ((n - 1) \div T) \in Nat /\ ((n - 1) % T) \in 0..(T - 1)
    BY <2>1, Euclid
  <2>3. ((m - 1) \div T) = ((n - 1) \div T) /\ ((m - 1) % T) = ((n - 1) % T)
    BY <1>8, <2>2
  <2>4. m - 1 = n - 1
    BY <2>2, <2>3
  <2> QED  BY <2>4
<1>9. ASSUME NEW i \in 1..T, NEW j \in 1..U
      PROVE  \E n \in 1..(U * T) : t(n) = i /\ e(n) = j
  <2> DEFINE q == j - 1
             r == i - 1
             n == q * T + r + 1
  <2>1. T \in Nat \ {0} /\ q \in 0..(U - 1) /\ r \in 0..(T - 1)
    BY <1>5
  <2>2. /\ q * T + r \in Nat /\ q * T + r < U * T
        /\ (q * T + r) \div T = q /\ (q * T + r) % T = r
    BY <1>5, <2>1, FromQuotient
  <2>3. n - 1 = q * T + r /\ n \in 1..(U * T)
    BY <1>5, <2>1, <2>2
  <2>4. ((n - 1) \div T) = q /\ ((n - 1) % T) = r
    BY <2>2, <2>3
  <2>5. t(n) = i /\ e(n) = j
    BY <2>4
  <2> HIDE DEF n
  <2> QED  BY <2>3, <2>5
<1> HIDE DEF t, e
<1>10. \A i \in 1..T : ts[i] \in Range(types) \cap Supported
  <2>1. \A i \in DOMAIN ts : ts[i] \in Range(ts)
    BY DEF Range
  <2> QED  BY <1>4, <1>5, <2>1
<1>11. \A j \in 1..U : u[j] \in Entries /\ u[j] \in Range(u) /\ u[j].name \in STRING
  <2>1. \A j \in 1..U : u[j] \in Entries /\ u[j] \in Range(u)
    BY <1>5, ElementOfSeq DEF Range, U
  <2> QED  BY <2>1 DEF Entries
<1>12. c \in Seq(Supported \X STRING) /\ DOMAIN c = 1..(U * T)
  <2>1. U * T \in Nat
    BY <1>5
  <2>2. ASSUME NEW n \in 1..(U * T) PROVE c[n] \in Supported \X STRING
    <3>1. ts[t(n)] \in Supported /\ u[e(n)].name \in STRING
      BY <1>6, <1>10, <1>11
    <3>2. <<ts[t(n)], u[e(n)].name>> \in Supported \X STRING
      BY <3>1
    <3>3. c[n] = <<ts[t(n)], u[e(n)].name>>
      BY <1>7
    <3> QED  BY <3>2, <3>3, Zenon
  <2> DEFINE X == Supported \X STRING
             V == U * T
  <2>3. DOMAIN c = 1..V /\ V \in Nat
    BY <1>3, <2>1
  <2>4. c = [n \in 1..V |-> c[n]]
    BY <1>3
  <2>5. \A n \in 1..V : c[n] \in X
    BY <2>2
  <2> HIDE DEF X, V
  <2>6. c \in [1..V -> X]
    BY <2>3, <2>4, <2>5
  <2>7. c \in Seq(X)
    BY <2>3, <2>6
  <2> QED  BY <2>3, <2>7 DEF X, V
<1>13. Once(c)
  <2> SUFFICES ASSUME NEW m \in 1..(U * T), NEW n \in 1..(U * T), c[m] = c[n] PROVE m = n
    BY <1>12 DEF Once
  <2>1. ts[t(m)] = ts[t(n)] /\ u[e(m)].name = u[e(n)].name
    BY <1>7
  <2>2. t(m) = t(n) /\ e(m) = e(n)
    BY <1>4, <1>5, <1>6, <2>1 DEF Once, NamesOnce
  <2> QED  BY <1>8, <2>2
<1>14. ASSUME NEW x \in Range(c)
       PROVE  x \in (Range(types) \cap Supported) \X {f.name : f \in Range(u)}
  <2>1. PICK n \in 1..(U * T) : x = c[n]
    BY <1>12 DEF Range
  <2>2. ts[t(n)] \in Range(types) \cap Supported /\ u[e(n)] \in Range(u)
    BY <1>6, <1>10, <1>11
  <2>3. x = <<ts[t(n)], u[e(n)].name>>
    BY <1>7, <2>1
  <2> QED  BY <2>2, <2>3
<1>15. ASSUME NEW y \in Range(types) \cap Supported, NEW f \in Range(u)
       PROVE  <<y, f.name>> \in Range(c)
  <2>1. PICK i \in 1..T : y = ts[i]
    BY <1>4, <1>5 DEF Range
  <2>2. PICK j \in 1..U : f = u[j]
    BY <1>5 DEF Range
  <2>3. PICK n \in 1..(U * T) : t(n) = i /\ e(n) = j
    BY <1>9
  <2>4. c[n] = <<y, f.name>>
    BY <1>7, <2>1, <2>2, <2>3
  <2> QED  BY <1>12, <2>4 DEF Range
<1>16. Range(c) = (Range(types) \cap Supported) \X {f.name : f \in Range(u)}
  BY <1>14, <1>15
<1> QED  BY <1>12, <1>13, <1>16 DEF c

\* p has slices of size elements of channels, but for the last: together they are
\* channels.
Slices(p, channels, size, S) ==
    /\ p \in Seq(Seq(S)) /\ Len(p) \in Nat \ {0} /\ DOMAIN p = 1..Len(p)
    /\ \A b \in 1..Len(p) : Len(p[b]) \in 1..size /\ (b < Len(p) => Len(p[b]) = size)
    /\ \A b \in 1..Len(p) : \A i \in 1..Len(p[b]) :
          /\ (b - 1) * size + i \in 1..Len(channels)
          /\ p[b][i] = channels[(b - 1) * size + i]
    /\ \A k \in 1..Len(channels) :
          \E b \in 1..Len(p) : \E i \in 1..Len(p[b]) : k = (b - 1) * size + i

\* The batches of a list are its slices.
LEMMA BatchesProperties ==
  ASSUME NEW S, NEW channels \in Seq(S), channels # << >>, NEW size \in Nat \ {0}
  PROVE  Slices(Batches(channels, size), channels, size, S)
<1> DEFINE p == Batches(channels, size)
           L == Len(channels)
           N == (L + size - 1) \div size
           from(b) == (b - 1) * size
           part(b) == SubSeq(channels, from(b) + 1, L)
           batch(b) == FirstOf(part(b), size)
<1>1. L \in Nat \ {0} /\ DOMAIN channels = 1..L
  BY LenProperties, EmptySeq
<1>2. p = [b \in 1..N |-> batch(b)]
  BY DEF Batches
<1> HIDE DEF p, L
<1>3. N \in Nat \ {0} /\ from(N) < L /\ L <= N * size
  <2> DEFINE k == L + size - 1
             r == k % size
  <2>1. k \in Nat
    BY <1>1
  <2> HIDE DEF k
  <2>2. /\ k \div size \in Nat /\ r \in 0..(size - 1) /\ k = ((k \div size) * size) + r
    BY <2>1, Euclid
  <2>3. N = k \div size
    BY DEF k
  <2> HIDE DEF N, r
  <2>4. N \in Nat /\ k = N * size + r
    BY <2>2, <2>3
  <2>5. N # 0
    <3> SUFFICES ASSUME N = 0 PROVE FALSE
      OBVIOUS
    <3>1. k = r
      BY <2>2, <2>4
    <3> QED  BY <1>1, <2>2, <3>1 DEF k
  <2>6. from(N) = N * size - size
    BY <2>4
  <2>7. N * size \in Nat
    BY <2>4
  <2> QED  BY <1>1, <2>2, <2>4, <2>5, <2>6, <2>7 DEF k
<1> HIDE DEF N
<1>4. ASSUME NEW b \in 1..N
      PROVE  from(b) \in Nat /\ from(b) < L /\ (b < N => from(b) + size < L)
  <2>1. from(b) \in Nat /\ from(b) + size = b * size /\ from(N) = (N - 1) * size
    BY <1>3
  <2>2. (N - b) * size >= 0 /\ (N - b) * size = N * size - b * size
    BY <1>3
  <2>3. b < N => (N - 1 - b) * size >= 0 /\ (N - 1 - b) * size = (N - 1) * size - b * size
    BY <1>3
  <2>4. from(N) = N * size - size /\ N * size \in Nat /\ b * size \in Nat
    BY <1>3
  <2>5. from(b) <= from(N)
    BY <2>1, <2>2, <2>4
  <2>6. b < N => from(b) + size <= from(N)
    BY <2>1, <2>3, <2>4
  <2> HIDE DEF from
  <2> QED  BY <1>1, <1>3, <2>1, <2>4, <2>5, <2>6
<1>5. ASSUME NEW b \in 1..N
      PROVE  /\ batch(b) \in Seq(S)
             /\ Len(batch(b)) = (IF L - from(b) < size THEN L - from(b) ELSE size)
             /\ \A i \in 1..Len(batch(b)) : batch(b)[i] = channels[from(b) + i]
  <2> DEFINE f == from(b)
             q == part(b)
             w == batch(b)
  <2>1. f \in Nat /\ f < L /\ q = SubSeq(channels, f + 1, L) /\ w = FirstOf(q, size)
    BY <1>4
  <2> HIDE DEF f, q, w
  <2>2. f + 1 \in Int /\ L \in Int /\ \A i \in (f + 1)..L : channels[i] \in S
    BY <1>1, <2>1, ElementOfSeq DEF L
  <2>3. /\ SubSeq(channels, f + 1, L) \in Seq(S)
        /\ Len(SubSeq(channels, f + 1, L)) = IF f + 1 <= L THEN L - (f + 1) + 1 ELSE 0
        /\ \A i \in 1..(L - (f + 1) + 1) :
              SubSeq(channels, f + 1, L)[i] = channels[f + 1 + i - 1]
    BY <2>2, SubSeqProperties
  <2>4. q \in Seq(S) /\ Len(q) = L - f
    BY <1>1, <2>1, <2>3
  <2>5. \A i \in 1..(L - f) : q[i] = channels[f + i]
    <3>1. \A i \in 1..(L - f) : i \in 1..(L - (f + 1) + 1) /\ f + 1 + i - 1 = f + i
      BY <1>1, <2>1
    <3> QED  BY <2>1, <2>3, <3>1
  <2>6. /\ w \in Seq(S) /\ Len(w) = (IF Len(q) < size THEN Len(q) ELSE size)
        /\ \A i \in 1..Len(w) : w[i] = q[i]
    BY <2>1, <2>4, FirstOfProperties
  <2>7. \A i \in 1..Len(w) : i \in 1..(L - f)
    BY <1>1, <2>1, <2>4, <2>6
  <2>8. /\ w \in Seq(S) /\ Len(w) = (IF L - f < size THEN L - f ELSE size)
        /\ \A i \in 1..Len(w) : w[i] = channels[f + i]
    BY <2>4, <2>5, <2>6, <2>7
  <2> QED  BY <2>8 DEF f, w
<1> HIDE DEF batch, part
<1>6. /\ p \in Seq(Seq(S)) /\ Len(p) = N /\ DOMAIN p = 1..N
      /\ \A b \in 1..N : p[b] = batch(b)
  <2>1. p \in [1..N -> Seq(S)]
    BY <1>2, <1>5
  <2> QED  BY <1>2, <1>3, <2>1
<1>7. ASSUME NEW b \in 1..N
      PROVE  Len(p[b]) \in 1..size /\ (b < N => Len(p[b]) = size)
  <2>1. Len(p[b]) = (IF L - from(b) < size THEN L - from(b) ELSE size)
    BY <1>5, <1>6
  <2> HIDE DEF from
  <2> QED  BY <1>1, <1>4, <2>1
<1>8. ASSUME NEW b \in 1..N, NEW i \in 1..Len(p[b])
      PROVE  from(b) + i \in 1..L /\ p[b][i] = channels[from(b) + i]
  <2>1. Len(p[b]) = (IF L - from(b) < size THEN L - from(b) ELSE size)
    BY <1>5, <1>6
  <2>2. p[b][i] = channels[from(b) + i]
    BY <1>5, <1>6
  <2> HIDE DEF from
  <2> QED  BY <1>1, <1>4, <2>1, <2>2
<1>9. ASSUME NEW k \in 1..L
      PROVE  \E b \in 1..N : \E i \in 1..Len(p[b]) : k = from(b) + i
  <2> DEFINE q == (k - 1) \div size
             r == (k - 1) % size
             b == q + 1
             i == r + 1
  <2>1. k - 1 \in Nat /\ k - 1 < N * size
    BY <1>1, <1>3
  <2>2. q \in 0..(N - 1) /\ r \in 0..(size - 1) /\ k - 1 = (q * size) + r
    BY <1>3, <2>1, Euclid, QuotientBound
  <2> HIDE DEF q, r
  <2>3. b \in 1..N /\ i \in 1..size /\ from(b) = q * size
    BY <1>3, <2>2
  <2>4. Len(p[b]) = (IF L - from(b) < size THEN L - from(b) ELSE size)
    BY <1>5, <1>6, <2>3
  <2>5. k = from(b) + i /\ from(b) \in Nat
    BY <1>4, <2>2, <2>3
  <2> HIDE DEF from, b, i
  <2>6. i \in 1..Len(p[b])
    BY <1>1, <2>3, <2>4, <2>5
  <2> QED  BY <2>3, <2>5, <2>6
<1>10. Slices(p, channels, size, S)
  BY <1>3, <1>6, <1>7, <1>8, <1>9 DEF Slices, L
<1> QED  BY <1>10 DEF p

Subscribable == {IndexChannel} \cup (Supported \X STRING)

\* The channels of a plan, batch after batch: the index, then those of the market.
LEMMA ChannelsProperties ==
  ASSUME NEW u \in Seq(Entries), NamesOnce(u), NEW types \in Seq(STRING), TypesOnce(types)
  PROVE  LET c == <<IndexChannel>> \o MarketChannels(u, types) IN
         /\ c \in Seq(Subscribable) /\ c # << >> /\ Once(c) /\ c[1] = IndexChannel
         /\ Range(c) = {IndexChannel}
                          \cup ((Range(types) \cap Supported) \X {e.name : e \in Range(u)})
<1> DEFINE m == MarketChannels(u, types)
           i == <<IndexChannel>>
           c == i \o m
           B == (Range(types) \cap Supported) \X {e.name : e \in Range(u)}
<1>1. m \in Seq(Supported \X STRING) /\ Once(m) /\ Range(m) = B
  BY MarketProperties
<1> HIDE DEF m, B, i, c
<1>2. IndexChannel \in Subscribable /\ IndexChannel \notin Supported \X STRING
  <2>1. "deribit_price_index" \notin Supported
    BY DEF Supported
  <2> QED  BY <2>1 DEF IndexChannel, Subscribable
<1>3. (Supported \X STRING) \subseteq Subscribable
  BY DEF Subscribable
<1>4. m \in Seq(Subscribable)
  BY <1>1, <1>3, SeqMonotonic
<1>5. /\ i \in Seq(Subscribable) /\ Len(i) = 1 /\ i[1] = IndexChannel
      /\ Range(i) = {IndexChannel}
  BY <1>2 DEF Range, i
<1>6. /\ c \in Seq(Subscribable) /\ Len(c) = 1 + Len(m)
      /\ \A k \in 1..(1 + Len(m)) : c[k] = IF k <= 1 THEN i[k] ELSE m[k - 1]
      /\ Range(c) = {IndexChannel} \cup B
  <2>1. /\ c \in Seq(Subscribable) /\ Len(c) = Len(i) + Len(m)
        /\ \A k \in 1..(Len(i) + Len(m)) : c[k] = IF k <= Len(i) THEN i[k] ELSE m[k - Len(i)]
    BY <1>4, <1>5, ConcatProperties DEF c
  <2>2. Range(c) = Range(i) \cup Range(m)
    BY <1>4, <1>5, RangeConcatenation DEF c
  <2> QED  BY <1>1, <1>5, <2>1, <2>2
<1>7. Len(m) \in Nat /\ DOMAIN m = 1..Len(m)
  BY <1>4, LenProperties
<1>8. DOMAIN c = 1..(1 + Len(m))
  BY <1>6, LenProperties
<1>9. c[1] = IndexChannel /\ c # << >>
  <2>1. 1 \in 1..(1 + Len(m)) /\ Len(c) # 0
    BY <1>6, <1>7
  <2> QED  BY <1>5, <1>6, <2>1, EmptySeq
<1>10. ASSUME NEW k \in DOMAIN c, k # 1
       PROVE  k - 1 \in DOMAIN m /\ c[k] = m[k - 1] /\ c[k] # c[1]
  <2>1. k - 1 \in DOMAIN m /\ c[k] = m[k - 1]
    BY <1>6, <1>7, <1>8, <1>10
  <2>2. m[k - 1] \in Supported \X STRING
    BY <1>1, <1>7, <2>1, ElementOfSeq
  <2> QED  BY <1>2, <1>9, <2>1, <2>2
<1>11. ASSUME NEW j \in DOMAIN c, NEW k \in DOMAIN c, c[j] = c[k] PROVE j = k
  <2>1. j \in Nat /\ k \in Nat
    BY <1>7, <1>8
  <2>2. CASE j = 1 \/ k = 1
    BY <1>10, <1>11, <2>2
  <2>3. CASE j # 1 /\ k # 1
    <3>1. j - 1 \in DOMAIN m /\ k - 1 \in DOMAIN m /\ m[j - 1] = m[k - 1]
      BY <1>10, <1>11, <2>3
    <3>2. j - 1 = k - 1
      BY <1>1, <3>1 DEF Once
    <3> QED  BY <2>1, <3>2
  <2> QED  BY <2>2, <2>3
<1>12. Once(c)
  BY <1>11 DEF Once
<1> QED  BY <1>6, <1>9, <1>12 DEF c, i, m, B

\* What a plan is: batches of at most size channels that are full but for the last,
\* with the index and each supported type of each chosen instrument, once.
PlanFor(p, l, count, types, size) ==
    /\ p \in Seq(Seq(Subscribable)) /\ p # << >>
    /\ \A b \in DOMAIN p : /\ Len(p[b]) \in 1..size
                           /\ b < Len(p) => Len(p[b]) = size
    /\ p[1][1] = IndexChannel
    /\ \A b, c \in DOMAIN p : \A i \in DOMAIN p[b], j \in DOMAIN p[c] :
          p[b][i] = p[c][j] => b = c /\ i = j
    /\ UNION {Range(p[b]) : b \in DOMAIN p} =
          {IndexChannel} \cup ((Range(types) \cap Supported)
                                  \X {e.name : e \in Range(Universe(l, count))})

\* The plan is one.
LEMMA PlanProperties ==
  ASSUME NEW l, Listing(l), NEW count \in Nat, NEW types \in Seq(STRING), TypesOnce(types),
         NEW size \in Nat \ {0}
  PROVE  PlanFor(Plan(l, count, types, size), l, count, types, size)
<1> DEFINE u == Universe(l, count)
           ch == <<IndexChannel>> \o MarketChannels(u, types)
           p == Batches(ch, size)
           N == Len(p)
           from(b) == (b - 1) * size
<1>1. u \in Seq(Entries) /\ NamesOnce(u)
  BY UniverseProperties
<1> HIDE DEF u
<1>2. /\ ch \in Seq(Subscribable) /\ ch # << >> /\ Once(ch) /\ ch[1] = IndexChannel
      /\ Range(ch) = {IndexChannel}
                        \cup ((Range(types) \cap Supported) \X {e.name : e \in Range(u)})
  BY <1>1, ChannelsProperties
<1>3. Plan(l, count, types, size) = p
  BY DEF Plan, u
<1> HIDE DEF ch
<1>4. DOMAIN ch = 1..Len(ch) /\ Len(ch) \in Nat \ {0}
  BY <1>2, LenProperties, EmptySeq
<1> HIDE DEF p
<1>5. /\ p \in Seq(Seq(Subscribable)) /\ N \in Nat \ {0} /\ DOMAIN p = 1..N
      /\ \A b \in 1..N : Len(p[b]) \in 1..size /\ (b < N => Len(p[b]) = size)
      /\ \A b \in 1..N : \A i \in 1..Len(p[b]) :
            /\ (b - 1) * size + i \in 1..Len(ch)
            /\ p[b][i] = ch[(b - 1) * size + i]
      /\ \A k \in 1..Len(ch) :
            \E b \in 1..N : \E i \in 1..Len(p[b]) : k = (b - 1) * size + i
  <2>1. Slices(Batches(ch, size), ch, size, Subscribable)
    BY <1>2, BatchesProperties
  <2>2. Slices(p, ch, size, Subscribable)
    BY <2>1 DEF p
  <2> QED  BY <2>2 DEF Slices
<1> HIDE DEF N
<1>a. ASSUME NEW b \in 1..N PROVE b \in Nat \ {0} /\ Len(p[b]) \in 1..size
  <2>1. N \in Nat
    BY <1>5
  <2>2. b \in Nat \ {0}
    BY <2>1
  <2> QED  BY <1>5, <2>2
<1>b. \A b \in 1..N : \A i \in 1..Len(p[b]) : from(b) + i \in 1..Len(ch) /\ p[b][i] = ch[from(b) + i]
  BY <1>5
<1>c. DOMAIN p = 1..N
  BY <1>5
<1>6. \A b \in 1..N : p[b] \in Seq(Subscribable) /\ DOMAIN p[b] = 1..Len(p[b])
  BY <1>5, LenProperties, ElementOfSeq DEF N
<1>7. p[1][1] = IndexChannel
  <2>1. 1 \in 1..N
    BY <1>5
  <2>2. 1 \in 1..Len(p[1]) /\ from(1) + 1 = 1
    BY <1>a, <2>1
  <2>3. p[1][1] = ch[from(1) + 1]
    BY <1>b, <2>1, <2>2
  <2> QED  BY <1>2, <2>2, <2>3
<1>8. ASSUME NEW b \in 1..N, NEW c \in 1..N, NEW i \in 1..Len(p[b]), NEW j \in 1..Len(p[c]),
             p[b][i] = p[c][j]
      PROVE  b = c /\ i = j
  <2>1. from(b) + i \in DOMAIN ch /\ from(c) + j \in DOMAIN ch
        /\ ch[from(b) + i] = ch[from(c) + j]
    BY <1>4, <1>8, <1>b
  <2>2. from(b) + i = from(c) + j
    BY <1>2, <2>1 DEF Once
  <2>3. i \in 1..size /\ j \in 1..size /\ b \in Nat \ {0} /\ c \in Nat \ {0}
    <3>1. Len(p[b]) \in 1..size /\ Len(p[c]) \in 1..size /\ b \in Nat \ {0} /\ c \in Nat \ {0}
      BY <1>a
    <3> QED  BY <3>1
  <2>4. b - 1 \in 0..(N - 1) /\ c - 1 \in 0..(N - 1) /\ i - 1 \in 0..(size - 1)
        /\ j - 1 \in 0..(size - 1)
    BY <1>5, <2>3
  <2>5. /\ ((b - 1) * size + (i - 1)) \div size = b - 1
        /\ ((c - 1) * size + (j - 1)) \div size = c - 1
    <3>1. N \in Nat
      BY <1>5
    <3>2. \A q \in 0..(N - 1), r \in 0..(size - 1) : (q * size + r) \div size = q
      BY <3>1, FromQuotient
    <3>3. \A q, r : q \in 0..(N - 1) /\ r \in 0..(size - 1) => (q * size + r) \div size = q
      BY <3>2
    <3> QED  BY <2>4, <3>3, Zenon
  <2>6. (b - 1) * size \in Int /\ (c - 1) * size \in Int
    BY <2>3
  <2>7. (b - 1) * size + (i - 1) = (c - 1) * size + (j - 1)
    BY <2>2, <2>3, <2>6
  <2>8. b - 1 = c - 1
    BY <2>5, <2>7
  <2>9. b = c
    BY <2>3, <2>8
  <2> QED  BY <2>2, <2>3, <2>6, <2>9
<1>9. UNION {Range(p[b]) : b \in DOMAIN p} = Range(ch)
  <2>1. ASSUME NEW b \in 1..N, NEW x \in Range(p[b]) PROVE x \in Range(ch)
    <3>1. PICK i \in 1..Len(p[b]) : x = p[b][i]
      BY <1>6 DEF Range
    <3>2. from(b) + i \in DOMAIN ch /\ x = ch[from(b) + i]
      BY <1>4, <1>5, <3>1
    <3> QED  BY <3>2 DEF Range
  <2>2. ASSUME NEW x \in Range(ch) PROVE \E b \in 1..N : x \in Range(p[b])
    <3>1. PICK k \in 1..Len(ch) : x = ch[k]
      BY <1>4 DEF Range
    <3>2. PICK b \in 1..N : \E i \in 1..Len(p[b]) : k = (b - 1) * size + i
      BY <1>5
    <3>3. PICK i \in 1..Len(p[b]) : k = (b - 1) * size + i
      BY <3>2
    <3>4. x = p[b][i] /\ i \in DOMAIN p[b]
      BY <1>5, <1>6, <3>1, <3>3
    <3> QED  BY <3>4 DEF Range
  <2> QED  BY <1>5, <2>1, <2>2
<1>10. p # << >>
  BY <1>5, EmptySeq DEF N
<1>11. \A b, c \in DOMAIN p : \A i \in DOMAIN p[b], j \in DOMAIN p[c] :
          p[b][i] = p[c][j] => b = c /\ i = j
  <2> SUFFICES ASSUME NEW b \in DOMAIN p, NEW c \in DOMAIN p, NEW i \in DOMAIN p[b],
                      NEW j \in DOMAIN p[c], p[b][i] = p[c][j]
               PROVE  b = c /\ i = j
    OBVIOUS
  <2>1. b \in 1..N /\ c \in 1..N
    BY <1>c
  <2>2. i \in 1..Len(p[b]) /\ j \in 1..Len(p[c])
    BY <1>6, <2>1
  <2> QED  BY <1>8, <2>1, <2>2
<1>12. PlanFor(p, l, count, types, size)
  BY <1>2, <1>5, <1>7, <1>9, <1>10, <1>11 DEF PlanFor, u, N
<1> QED  BY <1>3, <1>12

\* An instrument is chosen if each supported type of it has a channel.
Chosen(C, supported, e) == \A t \in supported : <<t, e.name>> \in C

\* The chosen instruments are one perpetual, the nearest of the dated futures,
\* and all the active options and spot pairs.
LEMMA ChosenProperties ==
  ASSUME NEW l, Listing(l), NEW count \in Nat, NEW supported \in SUBSET Supported,
         supported # {}
  PROVE  LET u == Universe(l, count)
             C == {IndexChannel} \cup (supported \X {e.name : e \in Range(u)})
             dated == DatedIn(l.future)
             near == {e \in dated : Chosen(C, supported, e)}
             perpetual == {e \in Perpetuals(l.future) : Chosen(C, supported, e)}
             c == Cardinality(dated) IN
         /\ Range(u) = near \cup perpetual
                          \cup {e \in Range(l.option) \cup Range(l.spot) : e.active}
         /\ Perpetuals(l.future) # {} => Cardinality(perpetual) = 1
         /\ Cardinality(near) = (IF c < count THEN c ELSE count)
         /\ \A e \in near, f \in dated \ near : e.expiry <= f.expiry
<1> DEFINE u == Universe(l, count)
           names == {e.name : e \in Range(u)}
           C == {IndexChannel} \cup (supported \X names)
           F == l.future
           dated == DatedIn(F)
           near == {e \in dated : Chosen(C, supported, e)}
           perpetual == {e \in Perpetuals(F) : Chosen(C, supported, e)}
           P == Range(Perpetual(F))
           A == Range(Active(l.spot))
           M == Range(NearbyFutures(F, count))
           O == Range(Chain(l.option))
<1>1. /\ F \in Seq(Entries) /\ l.option \in Seq(Entries) /\ l.spot \in Seq(Entries)
      /\ NamesOnce(F) /\ NamesOnce(l.option) /\ NamesOnce(l.spot)
  BY DEF Listing
<1>2. Range(u) = P \cup A \cup M \cup O
  BY UniverseProperties
<1>3. P \subseteq Perpetuals(F) /\ (Perpetuals(F) # {} => \E e : P = {e})
  BY <1>1, PerpetualProperties
<1>4. A = {e \in Range(l.spot) : e.active}
  BY <1>1, ActiveProperties
<1>5. /\ M \subseteq dated
      /\ Cardinality(M) = (IF Cardinality(dated) < count THEN Cardinality(dated) ELSE count)
      /\ \A e \in M, f \in dated \ M : e.expiry <= f.expiry
  BY <1>1, NearbyProperties
<1>6. O = {e \in Range(l.option) : e.active}
  BY <1>1, ChainProperties
<1> HIDE DEF u, P, A, M, O
<1>7. \A e \in Range(F) : e.name \in names <=> e \in P \cup M
  <2>1. \A e, f \in Range(F) : e.name = f.name => e = f
    BY <1>1, NamesThenOnce
  <2>2. \A e \in Range(F), f \in A \cup O : e.name # f.name
    BY <1>4, <1>6 DEF Listing, Apart
  <2>3. P \cup M \subseteq Range(F)
    BY <1>3, <1>5 DEF Perpetuals, DatedIn
  <2> HIDE DEF F
  <2> QED  BY <1>2, <2>1, <2>2, <2>3
<1>8. \A e : Chosen(C, supported, e) <=> e.name \in names
  <2>1. \A t \in supported : t # IndexChannel[1]
    BY DEF Supported, IndexChannel
  <2>2. \A t \in supported : \A x : <<t, x>> # IndexChannel
    BY DEF Supported, IndexChannel
  <2> HIDE DEF names
  <2> QED  BY <2>2 DEF Chosen
<1> HIDE DEF C, names
<1>9. near = M
  BY <1>3, <1>5, <1>7, <1>8 DEF DatedIn, Perpetuals
<1>10. perpetual = P
  BY <1>3, <1>5, <1>7, <1>8 DEF DatedIn, Perpetuals
<1>11. ASSUME Perpetuals(F) # {} PROVE Cardinality(perpetual) = 1
  BY <1>3, <1>10, <1>11, FS_Singleton
<1>12. A \cup O = {e \in Range(l.option) \cup Range(l.spot) : e.active}
  BY <1>4, <1>6
<1> HIDE DEF near, perpetual
<1>13. Range(u) = near \cup perpetual
                    \cup {e \in Range(l.option) \cup Range(l.spot) : e.active}
  BY <1>2, <1>9, <1>10, <1>12
<1>14. /\ Cardinality(near) = (IF Cardinality(dated) < count THEN Cardinality(dated) ELSE count)
       /\ \A e \in near, f \in dated \ near : e.expiry <= f.expiry
  BY <1>5, <1>9
<1> QED  BY <1>11, <1>13, <1>14 DEF near, perpetual, C, names, u
==============================================================================
