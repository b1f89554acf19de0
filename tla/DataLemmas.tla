------------------------------ MODULE DataLemmas ------------------------------
(***************************************************************************)
(* Lemmas about data that proofs of several modules rest on: induction     *)
(* over the numbers of a set, sums over a finite set, and lists that repeat *)
(* nothing.                                                                *)
(*                                                                         *)
(* The induction theorems of the library take an operator as a parameter.  *)
(* Here the induction is over a set of numbers, { n \in Nat : ... }, and   *)
(* follows from the theorem that every non-empty subset of a well-founded  *)
(* set has a minimal element.                                              *)
(***************************************************************************)
EXTENDS Integers, Functions, FiniteSetTheorems, FunctionTheorems, SequenceTheorems,
        WellFoundedInduction, TLAPS

------------------------------------------------------------------------------
(* Induction *)

Smaller == {p \in Nat \X Nat : p[1] < p[2]}

\* The numbers are well-founded.
LEMMA LessIsWellFounded == IsWellFoundedOn(Smaller, Nat)
<1>1. Smaller = OpToRel(<, Nat)
  BY DEF Smaller, OpToRel
<1>2. IsWellFoundedOn(OpToRel(<, Nat), Nat)
  BY NatLessThanWellFounded, Zenon
<1> QED  BY <1>1, <1>2, Zenon

\* A set of numbers that is not empty has a least one.
LEMMA LeastNumber ==
  ASSUME NEW T \in SUBSET Nat, T # {}
  PROVE  \E x \in T : \A y \in T : x <= y
<1>1. PICK x \in T : \A y \in T : ~ (<<y, x>> \in Smaller)
  BY LessIsWellFounded, WFMin, Zenon
<1>2. ASSUME NEW y \in T PROVE x <= y
  <2>1. <<y, x>> \in Nat \X Nat /\ x \in Nat /\ y \in Nat
    OBVIOUS
  <2>2. y < x => <<y, x>> \in Smaller
    BY <2>1 DEF Smaller
  <2> QED  BY <1>1, <2>1, <2>2
<1> QED  BY <1>2

\* A set of numbers that holds 0, and with each number the next, holds them all.
LEMMA NumbersByInduction ==
  ASSUME NEW T \in SUBSET Nat, 0 \in T, \A n \in T : n + 1 \in T
  PROVE  \A n \in Nat : n \in T
<1>1. SUFFICES ASSUME Nat \ T # {} PROVE FALSE
  OBVIOUS
<1>2. PICK x \in Nat \ T : \A y \in Nat \ T : x <= y
  BY <1>1, LeastNumber
<1>3. x # 0 /\ x - 1 \in Nat /\ x - 1 \in T
  BY <1>2
<1>4. x - 1 + 1 = x
  OBVIOUS
<1> QED  BY <1>2, <1>3, <1>4

------------------------------------------------------------------------------
(* SumFunctionOnSet *)

AnyOf(s) == CHOOSE x \in s : TRUE

\* What the sum of f is for a set s, in terms of what it is for smaller sets.
SumStep(g, f, s) == IF s = {} THEN 0 ELSE f[AnyOf(s)] + g[s \ {AnyOf(s)}]

\* The sum is a function defined by recursion over the subsets of S.
IsSum(g, f, S) == g = [s \in SUBSET S |-> SumStep(g, f, s)]

LEMMA SumUnfolded ==
  ASSUME NEW f, NEW S
  PROVE  SumFunctionOnSet(f, S) = (CHOOSE g : IsSum(g, f, S))[S]
BY Zenon DEF SumFunctionOnSet, FoldFunctionOnSet, MapThenFoldSet, IsSum, SumStep, AnyOf

\* A set that is not empty loses an element.
LEMMA OneLess ==
  ASSUME NEW S, IsFiniteSet(S), S # {}
  PROVE  /\ AnyOf(S) \in S
         /\ \A x \in S : /\ IsFiniteSet(S \ {x}) /\ S \ {x} # S
                         /\ Cardinality(S) \in Nat \ {0}
                         /\ Cardinality(S \ {x}) = Cardinality(S) - 1
<1>1. AnyOf(S) \in S
  BY DEF AnyOf
<1>2. Cardinality(S) \in Nat \ {0}
  BY FS_CardinalityType, FS_EmptySet
<1>3. ASSUME NEW x \in S PROVE IsFiniteSet(S \ {x}) /\ Cardinality(S \ {x}) = Cardinality(S) - 1
  BY FS_RemoveElement
<1> QED  BY <1>1, <1>2, <1>3

\* There is such a function.
LEMMA SumExists ==
  ASSUME NEW f, NEW S, IsFiniteSet(S)
  PROVE  \E g : IsSum(g, f, S)
<1> DEFINE Small(n) == {s \in SUBSET S : Cardinality(s) <= n}
           T == {n \in Nat : \E g : g = [s \in Small(n) |-> SumStep(g, f, s)]}
<1>1. \A s \in SUBSET S : IsFiniteSet(s) /\ Cardinality(s) \in Nat
                          /\ Cardinality(s) <= Cardinality(S)
  BY FS_Subset, FS_CardinalityType
<1>2. 0 \in T
  <2> DEFINE g == [s \in Small(0) |-> 0]
  <2>1. \A s \in Small(0) : s = {}
    BY <1>1, FS_EmptySet
  <2>2. g = [s \in Small(0) |-> SumStep(g, f, s)]
    BY <2>1 DEF SumStep
  <2> QED  BY <2>2
<1>3. ASSUME NEW n \in T PROVE n + 1 \in T
  <2>1. PICK g : g = [s \in Small(n) |-> SumStep(g, f, s)]
    OBVIOUS
  <2> DEFINE h == [s \in Small(n + 1) |-> SumStep(g, f, s)]
  <2>2. ASSUME NEW s \in Small(n + 1), s # {}
        PROVE  s \ {AnyOf(s)} \in Small(n)
    <3>1. s \in SUBSET S /\ Cardinality(s) <= n + 1 /\ IsFiniteSet(s)
      BY <1>1
    <3>2. Cardinality(s \ {AnyOf(s)}) = Cardinality(s) - 1 /\ Cardinality(s) \in Nat
      BY <2>2, <3>1, OneLess
    <3> QED  BY <3>1, <3>2
  <2>3. ASSUME NEW s \in Small(n) PROVE s \in Small(n + 1) /\ h[s] = g[s]
    <3>1. s \in Small(n + 1)
      BY <1>1
    <3>2. g[s] = SumStep(g, f, s)
      BY <2>1
    <3> QED  BY <3>1, <3>2
  <2>4. ASSUME NEW s \in Small(n + 1) PROVE SumStep(g, f, s) = SumStep(h, f, s)
    BY <2>2, <2>3 DEF SumStep
  <2>5. h = [s \in Small(n + 1) |-> SumStep(h, f, s)]
    BY <2>4
  <2>6. \E k : k = [s \in Small(n + 1) |-> SumStep(k, f, s)]
    BY <2>5, Zenon
  <2>7. n + 1 \in Nat
    OBVIOUS
  <2> QED  BY <2>6, <2>7, Zenon
<1> HIDE DEF T
<1>4. Cardinality(S) \in T
  BY <1>1, <1>2, <1>3, NumbersByInduction DEF T
<1>5. SUBSET S = Small(Cardinality(S))
  BY <1>1
<1> QED  BY <1>4, <1>5 DEF T, IsSum

\* Two such functions, for sets that may differ, agree where both are defined.
LEMMA SumUnique ==
  ASSUME NEW f, NEW S, NEW R, IsFiniteSet(S), NEW g, NEW h, IsSum(g, f, S), IsSum(h, f, R)
  PROVE  \A s \in (SUBSET S) \cap (SUBSET R) : g[s] = h[s]
<1> DEFINE D == (SUBSET S) \cap (SUBSET R)
           T == {n \in Nat : \A s \in D : Cardinality(s) = n => g[s] = h[s]}
<1>1. ASSUME NEW s \in D
      PROVE  /\ IsFiniteSet(s) /\ Cardinality(s) \in Nat
             /\ g[s] = SumStep(g, f, s) /\ h[s] = SumStep(h, f, s)
  BY FS_Subset, FS_CardinalityType DEF IsSum
<1>2. 0 \in T
  <2>1. ASSUME NEW s \in D, Cardinality(s) = 0 PROVE g[s] = h[s]
    BY <1>1, <2>1, FS_EmptySet DEF SumStep
  <2> QED  BY <2>1
<1>3. ASSUME NEW n \in T PROVE n + 1 \in T
  <2>1. ASSUME NEW s \in D, Cardinality(s) = n + 1 PROVE g[s] = h[s]
    <3> DEFINE r == s \ {AnyOf(s)}
    <3>1. s # {}
      BY <2>1, FS_EmptySet
    <3>2. r \in D /\ Cardinality(r) = n
      BY <1>1, <2>1, <3>1, OneLess
    <3>3. g[r] = h[r]
      BY <3>2
    <3> QED  BY <1>1, <3>1, <3>3 DEF SumStep
  <2> QED  BY <2>1
<1> HIDE DEF T
<1>4. \A n \in Nat : n \in T
  BY <1>2, <1>3, NumbersByInduction DEF T
<1>5. ASSUME NEW s \in D PROVE g[s] = h[s]
  BY <1>1, <1>4 DEF T
<1> QED  BY <1>5

\* The recursion: a sum is 0, or a chosen element and the sum over the others.
LEMMA SumRecursion ==
  ASSUME NEW f, NEW S, IsFiniteSet(S)
  PROVE  /\ S = {} => SumFunctionOnSet(f, S) = 0
         /\ S # {} => SumFunctionOnSet(f, S) =
                        f[AnyOf(S)] + SumFunctionOnSet(f, S \ {AnyOf(S)})
<1> DEFINE R == S \ {AnyOf(S)}
           g == CHOOSE k : IsSum(k, f, S)
           h == CHOOSE k : IsSum(k, f, R)
<1>1. IsFiniteSet(R)
  BY FS_Subset
<1>2. IsSum(g, f, S) /\ IsSum(h, f, R)
  BY <1>1, SumExists, Zenon
<1>3. SumFunctionOnSet(f, S) = g[S] /\ SumFunctionOnSet(f, R) = h[R]
  BY SumUnfolded, Zenon
<1> HIDE DEF g, h
<1>4. g[S] = SumStep(g, f, S) /\ g[R] = h[R]
  <2>1. R \in (SUBSET S) \cap (SUBSET R) /\ S \in SUBSET S
    OBVIOUS
  <2>2. g[S] = SumStep(g, f, S)
    BY <1>2, <2>1 DEF IsSum
  <2>3. g[R] = h[R]
    BY <1>1, <1>2, <2>1, SumUnique
  <2> QED  BY <2>2, <2>3
<1> QED  BY <1>3, <1>4 DEF SumStep

\* The sum of numbers is a number.
LEMMA SumNat ==
  ASSUME NEW f, NEW S, IsFiniteSet(S), \A x \in S : f[x] \in Nat
  PROVE  SumFunctionOnSet(f, S) \in Nat
<1> DEFINE T == {n \in Nat : \A s \in SUBSET S :
                     Cardinality(s) = n => SumFunctionOnSet(f, s) \in Nat}
<1>1. \A s \in SUBSET S : IsFiniteSet(s) /\ Cardinality(s) \in Nat
  BY FS_Subset, FS_CardinalityType
<1>2. 0 \in T
  <2>1. ASSUME NEW s \in SUBSET S, Cardinality(s) = 0 PROVE SumFunctionOnSet(f, s) \in Nat
    BY <1>1, <2>1, FS_EmptySet, SumRecursion
  <2> QED  BY <2>1
<1>3. ASSUME NEW n \in T PROVE n + 1 \in T
  <2>1. ASSUME NEW s \in SUBSET S, Cardinality(s) = n + 1
        PROVE  SumFunctionOnSet(f, s) \in Nat
    <3> DEFINE r == s \ {AnyOf(s)}
    <3>1. s # {} /\ AnyOf(s) \in S
      BY <1>1, <2>1, FS_EmptySet, OneLess
    <3>2. r \in SUBSET S /\ Cardinality(r) = n
      BY <1>1, <2>1, <3>1, OneLess
    <3>3. SumFunctionOnSet(f, r) \in Nat
      BY <3>2
    <3>4. SumFunctionOnSet(f, s) = f[AnyOf(s)] + SumFunctionOnSet(f, r)
      BY <1>1, <3>1, SumRecursion
    <3> QED  BY <3>1, <3>3, <3>4
  <2> QED  BY <2>1
<1> HIDE DEF T
<1>4. Cardinality(S) \in T
  BY <1>1, <1>2, <1>3, NumbersByInduction DEF T
<1> QED  BY <1>4 DEF T

\* Any element can be taken out of a sum.
LEMMA SumElement ==
  ASSUME NEW f, NEW S, IsFiniteSet(S), \A x \in S : f[x] \in Nat, NEW e \in S
  PROVE  SumFunctionOnSet(f, S) = f[e] + SumFunctionOnSet(f, S \ {e})
<1> DEFINE Sum(s) == SumFunctionOnSet(f, s)
           T == {n \in Nat : \A s \in SUBSET S :
                     Cardinality(s) = n => \A x \in s : Sum(s) = f[x] + Sum(s \ {x})}
<1>1. \A s \in SUBSET S : IsFiniteSet(s) /\ Cardinality(s) \in Nat /\ Sum(s) \in Nat
  BY FS_Subset, FS_CardinalityType, SumNat
<1>2. \A s \in SUBSET S : s # {} => AnyOf(s) \in s /\ Sum(s) = f[AnyOf(s)] + Sum(s \ {AnyOf(s)})
  BY <1>1, SumRecursion DEF AnyOf
<1> HIDE DEF Sum
<1>3. 0 \in T
  BY <1>1, FS_EmptySet
<1>4. ASSUME NEW n \in T PROVE n + 1 \in T
  <2>1. ASSUME NEW s \in SUBSET S, Cardinality(s) = n + 1, NEW x \in s
        PROVE  Sum(s) = f[x] + Sum(s \ {x})
    <3> DEFINE c == AnyOf(s)
    <3>1. c \in s /\ Sum(s) = f[c] + Sum(s \ {c}) /\ Cardinality(s \ {c}) = n
          /\ Cardinality(s \ {x}) = n
      BY <1>1, <1>2, <2>1, OneLess
    <3> HIDE DEF c
    <3>2. CASE c = x
      BY <3>1, <3>2
    <3>3. CASE c # x
      <4>1. x \in s \ {c} /\ c \in s \ {x} /\ (s \ {c}) \ {x} = (s \ {x}) \ {c}
        BY <3>1, <3>3
      <4>2. Sum(s \ {c}) = f[x] + Sum((s \ {c}) \ {x})
        BY <3>1, <4>1
      <4>3. Sum(s \ {x}) = f[c] + Sum((s \ {x}) \ {c})
        BY <3>1, <4>1
      <4>4. f[x] \in Nat /\ f[c] \in Nat /\ Sum((s \ {c}) \ {x}) \in Nat
        BY <1>1, <3>1
      <4> QED  BY <3>1, <4>1, <4>2, <4>3, <4>4
    <3> QED  BY <3>2, <3>3
  <2> QED  BY <2>1
<1> HIDE DEF T
<1>5. Cardinality(S) \in T
  BY <1>1, <1>3, <1>4, NumbersByInduction DEF T
<1> QED  BY <1>5 DEF T, Sum

\* A sum over a set is the sum over another that it is mapped to, one to one.
LEMMA SumImage ==
  ASSUME NEW S, IsFiniteSet(S), NEW f, \A x \in S : f[x] \in Nat,
         NEW h, NEW g, \A x \in S : g[h[x]] = f[x],
         \A x, y \in S : h[x] = h[y] => x = y
  PROVE  SumFunctionOnSet(f, S) = SumFunctionOnSet(g, {h[x] : x \in S})
<1> DEFINE Img(s) == {h[x] : x \in s}
           T == {n \in Nat : \A s \in SUBSET S : Cardinality(s) = n =>
                    IsFiniteSet(Img(s)) /\ SumFunctionOnSet(f, s) = SumFunctionOnSet(g, Img(s))}
<1>1. \A s \in SUBSET S : IsFiniteSet(s) /\ Cardinality(s) \in Nat
  BY FS_Subset, FS_CardinalityType
<1>2. 0 \in T
  <2>1. ASSUME NEW s \in SUBSET S, Cardinality(s) = 0
        PROVE  IsFiniteSet(Img(s)) /\ SumFunctionOnSet(f, s) = SumFunctionOnSet(g, Img(s))
    <3>1. s = {} /\ Img(s) = {} /\ IsFiniteSet({})
      BY <1>1, <2>1, FS_EmptySet
    <3> QED  BY <3>1, SumRecursion
  <2> QED  BY <2>1
<1>3. ASSUME NEW n \in T PROVE n + 1 \in T
  <2>1. ASSUME NEW s \in SUBSET S, Cardinality(s) = n + 1
        PROVE  IsFiniteSet(Img(s)) /\ SumFunctionOnSet(f, s) = SumFunctionOnSet(g, Img(s))
    <3> DEFINE e == AnyOf(s)
               r == s \ {e}
    <3>0. IsFiniteSet(s) /\ s # {}
      BY <1>1, <2>1, FS_EmptySet
    <3>1. s # {} /\ e \in s /\ r \in SUBSET S /\ Cardinality(r) = n
      <4>1. Cardinality(r) = Cardinality(s) - 1 /\ e \in s
        BY <3>0, OneLess
      <4> QED  BY <2>1, <3>0, <4>1
    <3> HIDE DEF e
    <3>2. IsFiniteSet(Img(r)) /\ SumFunctionOnSet(f, r) = SumFunctionOnSet(g, Img(r))
      BY <3>1
    <3>3. Img(s) = Img(r) \cup {h[e]} /\ h[e] \in Img(s) /\ Img(r) = Img(s) \ {h[e]}
      BY <3>1
    <3>4. IsFiniteSet(Img(s)) /\ \A y \in Img(s) : g[y] \in Nat
      <4>1. IsFiniteSet(Img(r) \cup {h[e]})
        BY <3>2, FS_AddElement
      <4>2. \A y \in Img(s) : g[y] \in Nat
        OBVIOUS
      <4> HIDE DEF Img
      <4> QED  BY <3>3, <4>1, <4>2
    <3>5. SumFunctionOnSet(g, Img(s)) = g[h[e]] + SumFunctionOnSet(g, Img(s) \ {h[e]})
      BY <3>3, <3>4, SumElement
    <3>6. SumFunctionOnSet(f, s) = f[e] + SumFunctionOnSet(f, r)
      BY <1>1, <3>1, SumElement
    <3> QED  BY <3>1, <3>2, <3>3, <3>4, <3>5, <3>6
  <2> QED  BY <2>1
<1> HIDE DEF T
<1>4. Cardinality(S) \in T
  BY <1>1, <1>2, <1>3, NumbersByInduction DEF T
<1> QED  BY <1>4 DEF T

\* Sums of functions that agree are equal.
LEMMA SumEqual ==
  ASSUME NEW S, IsFiniteSet(S), NEW f, NEW g, \A x \in S : f[x] \in Nat /\ g[x] = f[x]
  PROVE  SumFunctionOnSet(f, S) = SumFunctionOnSet(g, S)
<1> DEFINE h == [x \in S |-> x]
<1>1. {h[x] : x \in S} = S
  OBVIOUS
<1>2. SumFunctionOnSet(f, S) = SumFunctionOnSet(g, {h[x] : x \in S})
  <2>1. \A x \in S : h[x] = x
    OBVIOUS
  <2> HIDE DEF h
  <2> QED  BY <2>1, SumImage
<1> QED  BY <1>1, <1>2

\* What is 0 adds nothing.
LEMMA SumOfZeros ==
  ASSUME NEW S, IsFiniteSet(S), NEW f, \A x \in S : f[x] \in Nat,
         NEW R \in SUBSET S, \A x \in S \ R : f[x] = 0
  PROVE  SumFunctionOnSet(f, S) = SumFunctionOnSet(f, R)
<1> DEFINE T == {n \in Nat : \A s \in SUBSET S : Cardinality(s) = n /\ R \subseteq s =>
                    SumFunctionOnSet(f, s) = SumFunctionOnSet(f, R)}
<1>1. \A s \in SUBSET S : IsFiniteSet(s) /\ Cardinality(s) \in Nat
  BY FS_Subset, FS_CardinalityType
<1>2. 0 \in T
  <2>1. ASSUME NEW s \in SUBSET S, Cardinality(s) = 0, R \subseteq s
        PROVE  s = R
    BY <1>1, <2>1, FS_EmptySet
  <2> QED  BY <2>1
<1>3. ASSUME NEW n \in T PROVE n + 1 \in T
  <2>1. ASSUME NEW s \in SUBSET S, Cardinality(s) = n + 1, R \subseteq s, NEW e \in s \ R
        PROVE  SumFunctionOnSet(f, s) = SumFunctionOnSet(f, R)
    <3>0. IsFiniteSet(s) /\ s # {}
      BY <1>1
    <3>1. s \ {e} \in SUBSET S /\ R \subseteq s \ {e} /\ Cardinality(s \ {e}) = n
      <4>1. Cardinality(s \ {e}) = Cardinality(s) - 1
        BY <3>0, OneLess
      <4> QED  BY <2>1, <4>1
    <3>2. SumFunctionOnSet(f, s \ {e}) = SumFunctionOnSet(f, R)
      BY <3>1
    <3>3. SumFunctionOnSet(f, s) = f[e] + SumFunctionOnSet(f, s \ {e})
      BY <1>1, SumElement
    <3>4. f[e] = 0 /\ SumFunctionOnSet(f, s \ {e}) \in Nat
      BY <1>1, <3>1, SumNat
    <3> QED  BY <3>2, <3>3, <3>4
  <2>2. ASSUME NEW s \in SUBSET S, R \subseteq s, s \ R = {}
        PROVE  SumFunctionOnSet(f, s) = SumFunctionOnSet(f, R)
    <3>1. s = R
      BY <2>2
    <3> QED  BY <3>1
  <2> QED  BY <2>1, <2>2
<1> HIDE DEF T
<1>4. Cardinality(S) \in T
  BY <1>1, <1>2, <1>3, NumbersByInduction DEF T
<1> QED  BY <1>4 DEF T

------------------------------------------------------------------------------
(* Lists that repeat nothing *)

\* The elements at different places are different.
Once(s) == \A i, j \in DOMAIN s : s[i] = s[j] => i = j

\* The places of a list are finitely many.
LEMMA Places ==
  ASSUME NEW S, NEW s \in Seq(S), NEW K \in SUBSET DOMAIN s
  PROVE  /\ IsFiniteSet(K) /\ Cardinality(K) \in Nat /\ Cardinality(K) <= Len(s)
         /\ Cardinality(DOMAIN s) = Len(s)
<1>1. DOMAIN s = 1..Len(s) /\ Len(s) \in Nat
  BY LenProperties
<1>2. IsFiniteSet(1..Len(s)) /\ Cardinality(1..Len(s)) = Len(s)
  <2>1. 1 \in Int /\ Len(s) \in Int
    BY <1>1
  <2>2. /\ IsFiniteSet(1..Len(s))
        /\ Cardinality(1..Len(s)) = IF 1 > Len(s) THEN 0 ELSE Len(s) - 1 + 1
    BY <2>1, FS_Interval
  <2> QED  BY <1>1, <2>2
<1> QED  BY <1>1, <1>2, FS_Subset, FS_CardinalityType

\* A list that repeats nothing has as many elements as places.
LEMMA RangeOfOnce ==
  ASSUME NEW S, NEW s \in Seq(S), Once(s)
  PROVE  IsFiniteSet(Range(s)) /\ Cardinality(Range(s)) = Len(s)
<1>1. DOMAIN s = 1..Len(s) /\ Len(s) \in Nat
  BY LenProperties
<1>2. IsFiniteSet(DOMAIN s) /\ Cardinality(DOMAIN s) = Len(s)
  BY Places
<1>3. s \in [DOMAIN s -> Range(s)]
  BY LenProperties DEF Range
<1>4. s \in Bijection(DOMAIN s, Range(s))
  BY <1>3 DEF Bijection, Injection, Surjection, IsInjective, Once, Range
<1> QED  BY <1>2, <1>4, FS_Bijection DEF ExistsBijection

\* Two lists that repeat nothing and have nothing in common, one after the other.
LEMMA OnceTogether ==
    ASSUME NEW S, NEW a \in Seq(S), NEW b \in Seq(S), Once(a), Once(b),
           Range(a) \cap Range(b) = {}
    PROVE  /\ a \o b \in Seq(S) /\ Once(a \o b)
           /\ Range(a \o b) = Range(a) \cup Range(b)
<1> DEFINE c == a \o b
<1>1. /\ c \in Seq(S) /\ Len(c) = Len(a) + Len(b)
      /\ \A i \in 1..(Len(a) + Len(b)) : c[i] = IF i <= Len(a) THEN a[i] ELSE b[i - Len(a)]
      /\ Range(c) = Range(a) \cup Range(b)
  BY ConcatProperties, RangeConcatenation
<1>2. /\ Len(a) \in Nat /\ DOMAIN a = 1..Len(a) /\ Len(b) \in Nat /\ DOMAIN b = 1..Len(b)
  BY LenProperties
<1> HIDE DEF c
<1>3. DOMAIN c = 1..(Len(a) + Len(b))
  BY <1>1, LenProperties
<1>4. ASSUME NEW i \in DOMAIN c
      PROVE  \/ i \in DOMAIN a /\ c[i] = a[i] /\ c[i] \in Range(a)
             \/ i - Len(a) \in DOMAIN b /\ c[i] = b[i - Len(a)] /\ c[i] \in Range(b)
  BY <1>1, <1>2, <1>3 DEF Range
<1>5. ASSUME NEW i \in DOMAIN c, NEW j \in DOMAIN c, c[i] = c[j] PROVE i = j
  <2>0. i \in Nat /\ j \in Nat
    BY <1>2, <1>3
  <2>1. CASE c[i] \in Range(a)
    <3>1. /\ i \in DOMAIN a /\ c[i] = a[i] /\ j \in DOMAIN a /\ c[j] = a[j]
      BY <1>4, <1>5, <2>1
    <3> QED BY <1>5, <3>1 DEF Once
  <2>2. CASE c[i] \in Range(b)
    <3>1. /\ i - Len(a) \in DOMAIN b /\ c[i] = b[i - Len(a)]
          /\ j - Len(a) \in DOMAIN b /\ c[j] = b[j - Len(a)]
      BY <1>4, <1>5, <2>2
    <3>2. i - Len(a) = j - Len(a)
      BY <1>5, <3>1 DEF Once
    <3> QED BY <1>2, <2>0, <3>2
  <2> QED BY <1>4, <2>1, <2>2
<1>6. Once(c)
  BY <1>5 DEF Once
<1> QED BY <1>1, <1>6 DEF c

\* A list with one more element.
LEMMA OnceAppend ==
    ASSUME NEW S, NEW s \in Seq(S), NEW x \in S
    PROVE  /\ Range(Append(s, x)) = Range(s) \cup {x}
           /\ Once(s) /\ x \notin Range(s) => Once(Append(s, x))
<1> DEFINE c == Append(s, x)
<1>0. PICK L \in Nat : L = Len(s) /\ DOMAIN s = 1..L
  BY LenProperties
<1>1. /\ c \in Seq(S) /\ DOMAIN c = 1..(L + 1) /\ c[L + 1] = x
      /\ \A i \in 1..L : c[i] = s[i]
  BY <1>0, AppendProperties, LenProperties
<1> HIDE DEF c
<1>2. Range(c) = Range(s) \cup {x}
  <2>1. \A y \in Range(c) : y \in Range(s) \cup {x}
    BY <1>0, <1>1 DEF Range
  <2>2. \A i \in DOMAIN s : s[i] \in Range(c)
    BY <1>0, <1>1 DEF Range
  <2>3. x \in Range(c)
    BY <1>0, <1>1 DEF Range
  <2> QED BY <2>1, <2>2, <2>3 DEF Range
<1>3. ASSUME Once(s), x \notin Range(s), NEW i \in DOMAIN c, NEW j \in DOMAIN c, c[i] = c[j]
      PROVE  i = j
  <2>1. \A k \in 1..L : c[k] = s[k] /\ c[k] # x
    BY <1>0, <1>1, <1>3 DEF Range
  <2>2. (i \in 1..L \/ i = L + 1) /\ (j \in 1..L \/ j = L + 1)
    BY <1>1
  <2>3. CASE i \in 1..L
    BY <1>0, <1>1, <1>3, <2>1, <2>2, <2>3 DEF Once
  <2>4. CASE i = L + 1
    BY <1>1, <1>3, <2>1, <2>2, <2>4
  <2> QED BY <2>2, <2>3, <2>4
<1>4. Once(s) /\ x \notin Range(s) => Once(c)
  BY <1>3 DEF Once
<1> QED BY <1>2, <1>4 DEF c

\* A list without its first element.
LEMMA OnceTail ==
    ASSUME NEW S, NEW s \in Seq(S), s # << >>, Once(s)
    PROVE  Tail(s) \in Seq(S) /\ Once(Tail(s)) /\ Range(Tail(s)) \subseteq Range(s)
<1>1. /\ Len(s) \in Nat /\ DOMAIN s = 1..Len(s)
      /\ Tail(s) \in Seq(S) /\ DOMAIN Tail(s) = 1..(Len(s) - 1)
      /\ \A i \in 1..(Len(s) - 1) : Tail(s)[i] = s[i + 1] /\ i + 1 \in 1..Len(s)
  OBVIOUS
<1>2. ASSUME NEW i \in DOMAIN Tail(s), NEW j \in DOMAIN Tail(s), Tail(s)[i] = Tail(s)[j]
      PROVE  i = j
  <2>1. i \in Int /\ j \in Int /\ i + 1 = j + 1
    BY <1>1, <1>2 DEF Once
  <2> QED BY <2>1
<1>3. \A i \in DOMAIN Tail(s) : Tail(s)[i] \in Range(s)
  BY <1>1 DEF Range
<1> QED BY <1>1, <1>2, <1>3 DEF Once, Range
=============================================================================
