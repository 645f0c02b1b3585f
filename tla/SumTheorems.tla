---------------------------- MODULE SumTheorems -----------------------------
(***************************************************************************)
(* What the other proofs need about sums over finite sets and about        *)
(* induction.  The provers cannot instantiate an operator parameter, so    *)
(* induction is used in the form of a smallest counterexample, in a set.   *)
(***************************************************************************)
EXTENDS Integers, FiniteSets, Functions, FiniteSetTheorems, WellFoundedInduction, TLAPS

\* A set of natural numbers that is not empty has a smallest element.
LEMMA SmallestNat ==
    ASSUME NEW T \in SUBSET Nat, T # {}
    PROVE  \E n \in T : \A k \in T : n <= k
<1> DEFINE R == OpToRel(<, Nat)
<1>1. \A x, y \in Nat : <<x, y>> \in R <=> x < y
  BY DEF OpToRel
<1>2. IsWellFoundedOn(R, Nat)
  BY NatLessThanWellFounded
<1> HIDE DEF R
<1>3. PICK x \in T : \A y \in T : ~ (<<y, x>> \in R)
  BY <1>2, WFMin
<1>4. \A y \in T : ~(y < x)
  BY <1>1, <1>3
<1>5. \A y \in T : x <= y
  BY <1>4
<1> QED
  BY <1>5

\* Induction, for the set of the numbers that have a property.
LEMMA NatSetInduction ==
    ASSUME NEW T \in SUBSET Nat, 0 \in T, \A n \in T : n + 1 \in T
    PROVE  T = Nat
<1> SUFFICES ASSUME Nat \ T # {}
             PROVE  FALSE
  OBVIOUS
<1>1. PICK n \in Nat \ T : \A k \in Nat \ T : n <= k
  BY SmallestNat
<1>2. n - 1 \in T
  BY <1>1
<1> QED
  BY <1>1, <1>2

\* The same for finite sets: a collection of them that is not empty has one of
\* which no other is a part.
LEMMA SmallestFinite ==
    ASSUME NEW T, T # {}, \A S \in T : IsFiniteSet(S)
    PROVE  \E S \in T : \A U \in T : Cardinality(S) <= Cardinality(U)
<1> DEFINE N == {Cardinality(S) : S \in T}
<1>1. \A S \in T : Cardinality(S) \in Nat
  BY FS_CardinalityType
<1>2. N \in SUBSET Nat /\ N # {}
  BY <1>1
<1>3. PICK n \in N : \A k \in N : n <= k
  BY <1>2, SmallestNat
<1>4. PICK S \in T : Cardinality(S) = n
  OBVIOUS
<1>5. \A U \in T : Cardinality(U) \in N
  OBVIOUS
<1> QED
  BY <1>3, <1>4, <1>5

-----------------------------------------------------------------------------
(* The sum of a function over a finite set *)

\* The element of a set that the fold takes first.
Pick(s) == CHOOSE x \in s : TRUE

\* Step of the recursion of the fold.
Partial(g, f, s) == IF s = {} THEN 0 ELSE f[Pick(s)] + g[s \ {Pick(s)}]

\* g solves the recursion of the fold over the subsets of S.
IsSum(g, f, S) == g = [s \in SUBSET S |-> Partial(g, f, s)]

\* The sum in the terms of that recursion.
LEMMA SumDef ==
    ASSUME NEW f, NEW S
    PROVE  SumFunctionOnSet(f, S) = (CHOOSE g : IsSum(g, f, S))[S]
BY DEF SumFunctionOnSet, FoldFunctionOnSet, MapThenFoldSet, IsSum, Partial, Pick

\* The element taken is one of the set.
LEMMA PickIn == \A s : s # {} => Pick(s) \in s
BY DEF Pick

\* The recursion has a solution.
LEMMA SumExists ==
    ASSUME NEW f, NEW S, IsFiniteSet(S)
    PROVE  \E g : IsSum(g, f, S)
<1> DEFINE Upto(n, g) == \A s \in SUBSET S : Cardinality(s) <= n => g[s] = Partial(g, f, s)
           Good == {n \in Nat : \E g : DOMAIN g = SUBSET S /\ Upto(n, g)}
<1>0. \A s \in SUBSET S : IsFiniteSet(s) /\ Cardinality(s) \in Nat /\ Cardinality(s) <= Cardinality(S)
  BY FS_Subset, FS_CardinalityType
<1>1. 0 \in Good
  <2> DEFINE g == [s \in SUBSET S |-> 0]
  <2>1. \A s \in SUBSET S : Cardinality(s) <= 0 => s = {}
    BY <1>0, FS_EmptySet
  <2>2. Upto(0, g)
    BY <2>1 DEF Partial
  <2> QED
    BY <2>2
<1>2. ASSUME NEW n \in Good PROVE n + 1 \in Good
  <2>1. PICK g : DOMAIN g = SUBSET S /\ Upto(n, g)
    OBVIOUS
  <2> DEFINE h == [s \in SUBSET S |-> Partial(g, f, s)]
  <2>2. \A s \in SUBSET S : Cardinality(s) <= n => h[s] = g[s]
    BY <2>1
  <2>5. DOMAIN h = SUBSET S /\ \A s \in SUBSET S : h[s] = Partial(g, f, s)
    OBVIOUS
  <2> HIDE DEF h
  <2>3. ASSUME NEW s \in SUBSET S, Cardinality(s) <= n + 1
        PROVE  h[s] = Partial(h, f, s)
    <3>1. CASE s = {}
      BY <3>1, <2>5 DEF Partial
    <3>2. CASE s # {}
      <4> DEFINE r == s \ {Pick(s)}
      <4>1. Pick(s) \in s
        BY <3>2, PickIn
      <4>2. r \in SUBSET S /\ Cardinality(r) <= n
        BY <2>3, <4>1, <1>0, FS_RemoveElement
      <4>3. h[r] = g[r]
        BY <4>2, <2>2
      <4>4. Partial(h, f, s) = Partial(g, f, s)
        BY <3>2, <4>3 DEF Partial
      <4> QED
        BY <4>4, <2>5
    <3> QED
      BY <3>1, <3>2
  <2>4. Upto(n + 1, h) /\ DOMAIN h = SUBSET S /\ n + 1 \in Nat
    BY <2>3, <2>5
  <2> QED
    BY <2>4
<1>3. Good = Nat
  BY <1>1, <1>2, NatSetInduction
<1>4. Cardinality(S) \in Good
  BY <1>3, FS_CardinalityType
<1>5. PICK g : DOMAIN g = SUBSET S /\ Upto(Cardinality(S), g)
  BY <1>4
<1> DEFINE h == [s \in SUBSET S |-> g[s]]
<1>6. \A s \in SUBSET S : h[s] = Partial(h, f, s)
  <2> TAKE s \in SUBSET S
  <2>1. g[s] = Partial(g, f, s)
    BY <1>0, <1>5
  <2>2. s # {} => s \ {Pick(s)} \in SUBSET S
    OBVIOUS
  <2> QED
    BY <2>1, <2>2 DEF Partial
<1>7. h = [s \in SUBSET S |-> Partial(h, f, s)]
  BY <1>6
<1> QED
  BY <1>7 DEF IsSum

\* So what it defines satisfies it.
LEMMA SumFunction1 ==
    ASSUME NEW f, NEW S, IsFiniteSet(S)
    PROVE  LET g == CHOOSE g : IsSum(g, f, S)
           IN  \A s \in SUBSET S : g[s] = Partial(g, f, s)
<1> DEFINE g == CHOOSE g : IsSum(g, f, S)
<1>1. IsSum(g, f, S)
  BY SumExists
<1> HIDE DEF g
<1>2. \A s \in SUBSET S : g[s] = Partial(g, f, s)
  BY <1>1 DEF IsSum
<1> QED
  BY <1>2 DEF g

\* Two solutions agree where both are defined.
LEMMA SumUnique ==
    ASSUME NEW f, NEW S, IsFiniteSet(S), NEW g, NEW h,
           \A s \in SUBSET S : g[s] = Partial(g, f, s),
           \A s \in SUBSET S : h[s] = Partial(h, f, s)
    PROVE  g[S] = h[S]
<1> DEFINE Bad == {s \in SUBSET S : g[s] # h[s]}
<1> SUFFICES ASSUME Bad # {}
             PROVE  FALSE
  OBVIOUS
<1>1. \A s \in SUBSET S : IsFiniteSet(s) /\ Cardinality(s) \in Nat
  BY FS_Subset, FS_CardinalityType
<1>2. PICK s \in Bad : \A u \in Bad : Cardinality(s) <= Cardinality(u)
  BY <1>1, SmallestFinite
<1>3. s # {}
  BY DEF Partial
<1> DEFINE r == s \ {Pick(s)}
<1>4. r \in SUBSET S /\ Cardinality(r) < Cardinality(s)
  BY <1>1, <1>3, PickIn, FS_RemoveElement
<1>5. g[r] = h[r]
  BY <1>1, <1>2, <1>4
<1>6. Partial(g, f, s) = Partial(h, f, s)
  BY <1>3, <1>5 DEF Partial
<1> QED
  BY <1>6

\* The sum over no elements is 0.
LEMMA SumEmpty ==
    ASSUME NEW f
    PROVE  SumFunctionOnSet(f, {}) = 0
BY SumDef, SumFunction1, FS_EmptySet DEF Partial

\* The sum over a set is the value at its first element and the sum over the rest.
LEMMA SumPick ==
    ASSUME NEW f, NEW S, IsFiniteSet(S), S # {}
    PROVE  SumFunctionOnSet(f, S) = f[Pick(S)] + SumFunctionOnSet(f, S \ {Pick(S)})
<1> DEFINE R == S \ {Pick(S)}
           g == CHOOSE g : IsSum(g, f, S)
           h == CHOOSE h : IsSum(h, f, R)
<1>1. IsFiniteSet(R) /\ SUBSET R \subseteq SUBSET S
  BY FS_RemoveElement
<1>2. \A s \in SUBSET S : g[s] = Partial(g, f, s)
  BY SumFunction1
<1>3. \A s \in SUBSET R : h[s] = Partial(h, f, s)
  BY <1>1, SumFunction1
<1>4. SumFunctionOnSet(f, S) = g[S] /\ SumFunctionOnSet(f, R) = h[R]
  BY SumDef
<1> HIDE DEF g, h, R
<1>5. g[R] = h[R]
  <2>1. \A s \in SUBSET R : g[s] = Partial(g, f, s)
    BY <1>1, <1>2
  <2> QED
    BY <1>1, <1>3, <2>1, SumUnique
<1>6. g[S] = f[Pick(S)] + g[R]
  BY <1>2 DEF Partial, R
<1> QED
  BY <1>4, <1>5, <1>6 DEF R

\* Natural numbers have a natural sum.
LEMMA SumNat ==
    ASSUME NEW f, NEW S, IsFiniteSet(S), \A x \in S : f[x] \in Nat
    PROVE  SumFunctionOnSet(f, S) \in Nat
<1> DEFINE Bad == {s \in SUBSET S : SumFunctionOnSet(f, s) \notin Nat}
<1> SUFFICES ASSUME Bad # {}
             PROVE  FALSE
  OBVIOUS
<1>1. \A s \in SUBSET S : IsFiniteSet(s) /\ Cardinality(s) \in Nat
  BY FS_Subset, FS_CardinalityType
<1>2. PICK s \in Bad : \A u \in Bad : Cardinality(s) <= Cardinality(u)
  BY <1>1, SmallestFinite
<1>3. s # {}
  BY SumEmpty
<1> DEFINE r == s \ {Pick(s)}
<1>4. r \in SUBSET S /\ Cardinality(r) < Cardinality(s) /\ Pick(s) \in S
  BY <1>1, <1>3, PickIn, FS_RemoveElement
<1>5. SumFunctionOnSet(f, r) \in Nat
  BY <1>1, <1>2, <1>4
<1>6. SumFunctionOnSet(f, s) = f[Pick(s)] + SumFunctionOnSet(f, r)
  BY <1>1, <1>3, SumPick
<1> QED
  BY <1>4, <1>5, <1>6

\* The element that is taken out need not be the one the fold picks.
LEMMA SumRemove ==
    ASSUME NEW f, NEW S, IsFiniteSet(S), \A x \in S : f[x] \in Nat, NEW y \in S
    PROVE  SumFunctionOnSet(f, S) = f[y] + SumFunctionOnSet(f, S \ {y})
<1> DEFINE Sum(s) == SumFunctionOnSet(f, s)
           Bad == {s \in SUBSET S : \E z \in s : Sum(s) # f[z] + Sum(s \ {z})}
<1> HIDE DEF Sum
<1> SUFFICES ASSUME Bad # {}
             PROVE  FALSE
  BY DEF Sum
<1>1. \A s \in SUBSET S : IsFiniteSet(s) /\ Cardinality(s) \in Nat /\ Sum(s) \in Nat
  BY FS_Subset, FS_CardinalityType, SumNat DEF Sum
<1>2. PICK s \in Bad : \A u \in Bad : Cardinality(s) <= Cardinality(u)
  <2> HIDE DEF Bad
  <2>1. \A u \in Bad : IsFiniteSet(u)
    BY <1>1 DEF Bad
  <2> QED
    BY <2>1, SmallestFinite
<1>3. PICK z \in s : Sum(s) # f[z] + Sum(s \ {z})
  OBVIOUS
<1> DEFINE p == Pick(s)
<1>4. p \in s
  BY PickIn
<1>5. Sum(s) = f[p] + Sum(s \ {p})
  BY <1>1, SumPick DEF Sum
<1>6. z # p
  BY <1>3, <1>5
<1> HIDE DEF p
<1>7. ASSUME NEW x \in s
      PROVE  s \ {x} \in SUBSET S /\ s \ {x} \notin Bad
  <2>1. Cardinality(s \ {x}) < Cardinality(s)
    BY <1>1, FS_RemoveElement
  <2> QED
    BY <1>1, <1>2, <2>1
<1>8. Sum(s \ {p}) = f[z] + Sum((s \ {p}) \ {z})
  BY <1>4, <1>6, <1>7
<1>9. Sum(s \ {z}) = f[p] + Sum((s \ {z}) \ {p})
  BY <1>4, <1>6, <1>7
<1>10. (s \ {z}) \ {p} = (s \ {p}) \ {z} /\ (s \ {p}) \ {z} \in SUBSET S
  OBVIOUS
<1>11. f[p] \in Nat /\ f[z] \in Nat /\ Sum((s \ {p}) \ {z}) \in Nat
  BY <1>1, <1>4, <1>10
<1> HIDE DEF Bad
<1> QED
  BY <1>3, <1>5, <1>8, <1>9, <1>10, <1>11

\* An element more adds its value, wherever the fold would take it.
LEMMA SumAdd ==
    ASSUME NEW f, NEW S, IsFiniteSet(S), NEW y, y \notin S, \A x \in S \cup {y} : f[x] \in Nat
    PROVE  SumFunctionOnSet(f, S \cup {y}) = SumFunctionOnSet(f, S) + f[y]
<1>1. IsFiniteSet(S \cup {y}) /\ (S \cup {y}) \ {y} = S
  BY FS_AddElement
<1>2. SumFunctionOnSet(f, S) \in Nat /\ f[y] \in Nat
  BY SumNat
<1> QED
  BY <1>1, <1>2, SumRemove

\* A sum is the sum over a part and over the rest.
LEMMA SumParts ==
    ASSUME NEW f, NEW S, IsFiniteSet(S), \A x \in S : f[x] \in Nat, NEW T \in SUBSET S
    PROVE  SumFunctionOnSet(f, S) = SumFunctionOnSet(f, T) + SumFunctionOnSet(f, S \ T)
<1> DEFINE Sum(s) == SumFunctionOnSet(f, s)
           Bad == {s \in SUBSET S : Sum(S) # Sum(s) + Sum(S \ s)}
<1> HIDE DEF Sum
<1> SUFFICES ASSUME Bad # {}
             PROVE  FALSE
  BY DEF Sum
<1>1. \A s \in SUBSET S : IsFiniteSet(s) /\ Cardinality(s) \in Nat /\ Sum(s) \in Nat
  BY FS_Subset, FS_CardinalityType, SumNat DEF Sum
<1>2. PICK s \in Bad : \A u \in Bad : Cardinality(s) <= Cardinality(u)
  <2> HIDE DEF Bad
  <2>1. \A u \in Bad : IsFiniteSet(u)
    BY <1>1 DEF Bad
  <2> QED
    BY <2>1, SmallestFinite
<1>3. s # {}
  <2>1. S \ {} = S /\ Sum({}) = 0
    BY SumEmpty DEF Sum
  <2> QED
    BY <1>1, <2>1
<1>4. PICK x \in s : TRUE
  BY <1>3
<1> DEFINE r == s \ {x}
<1>5. r \in SUBSET S /\ Cardinality(r) < Cardinality(s)
  BY <1>1, FS_RemoveElement
<1>6. Sum(S) = Sum(r) + Sum(S \ r)
  <2>1. r \notin Bad
    BY <1>1, <1>2, <1>5
  <2> HIDE DEF r
  <2> QED
    BY <1>5, <2>1
<1>7. Sum(s) = f[x] + Sum(r)
  BY <1>1, SumRemove DEF Sum
<1>8. S \ r = (S \ s) \cup {x} /\ x \notin S \ s /\ S \ s \in SUBSET S
  OBVIOUS
<1>9. Sum(S \ r) = Sum(S \ s) + f[x]
  BY <1>1, <1>8, SumAdd DEF Sum
<1>10. f[x] \in Nat /\ Sum(r) \in Nat /\ Sum(S \ s) \in Nat
  BY <1>1, <1>5, <1>8
<1>11. Sum(S) # Sum(s) + Sum(S \ s)
  BY <1>2
<1> HIDE DEF Bad, r
<1> QED
  BY <1>6, <1>7, <1>9, <1>10, <1>11
=============================================================================
