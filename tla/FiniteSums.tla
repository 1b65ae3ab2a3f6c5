------------------------------ MODULE FiniteSums ------------------------------
(***************************************************************************)
(* What SumFunctionOnSet(f, S), the community modules' sum of f over a      *)
(* finite set S, is: zero on the empty set, f[x] more with x than without,  *)
(* and what follows by induction on S.  The library's induction theorems    *)
(* take an operator as a parameter; here induction is on a set G of good    *)
(* subsets, which follows from its minimum principle WFMin.                 *)
(***************************************************************************)
EXTENDS Integers, Functions, FiniteSetTheorems, TLAPS

-----------------------------------------------------------------------------
(* Induction over the subsets of a finite set, and over the naturals.      *)

\* A property that a subset has when all its strict subsets have it, all have.
LEMMA SubsetInduction ==
  ASSUME NEW S, IsFiniteSet(S), NEW G,
         \A T \in SUBSET S : (\A U \in (SUBSET T) \ {T} : U \in G) => T \in G
  PROVE  \A T \in SUBSET S : T \in G
  <1> DEFINE Bad == (SUBSET S) \ G
             R == StrictSubsetOrdering(S)
  <1>1. IsWellFoundedOn(R, SUBSET S)
    BY FS_StrictSubsetOrderingWellFounded, FS_FiniteSubsetsOfFinite
  <1>2. ASSUME Bad # {}
        PROVE  FALSE
    <2>1. PICK T \in Bad : \A U \in Bad : <<U, T>> \notin R
      <3>1. Bad \subseteq SUBSET S
        OBVIOUS
      <3> HIDE DEF R, Bad
      <3> QED
        BY <1>1, <1>2, <3>1, WFMin
    <2>2. ASSUME NEW U \in (SUBSET T) \ {T}
          PROVE  U \in G
      BY <2>1 DEF StrictSubsetOrdering
    <2> QED
      BY <2>1, <2>2
  <1> QED
    BY <1>2

\* The same of the natural numbers.
LEMMA NumberInduction ==
  ASSUME NEW G, 0 \in G, \A n \in Nat : n \in G => n + 1 \in G
  PROVE  \A n \in Nat : n \in G
  <1> DEFINE Bad == Nat \ G
  <1>1. ASSUME Bad # {}
        PROVE  FALSE
    <2>1. PICK m \in Bad : \A n \in Bad : <<n, m>> \notin OpToRel(<, Nat)
      BY <1>1, NatLessThanWellFounded, WFMin
    <2>2. m \in Nat /\ m # 0 /\ m - 1 \in Nat /\ m - 1 < m /\ (m - 1) + 1 = m
      OBVIOUS
    <2>3. m - 1 \in G
      BY <2>1, <2>2 DEF OpToRel
    <2> QED
      BY <2>2, <2>3
  <1> QED
    BY <1>1

-----------------------------------------------------------------------------
(* The recursion that defines a sum.                                       *)

Sum(f, S) == SumFunctionOnSet(f, S)
Pick(S) == CHOOSE x \in S : TRUE

\* g adds f up over every subset of S.
Adds(g, f, S) ==
  g = [T \in SUBSET S |-> IF T = {} THEN 0 ELSE f[Pick(T)] + g[T \ {Pick(T)}]]

\* The library's sum is such a function,
LEMMA SumIsAdder ==
  ASSUME NEW f, NEW S
  PROVE  Sum(f, S) = (CHOOSE g : Adds(g, f, S))[S]
  BY DEF Sum, SumFunctionOnSet, FoldFunctionOnSet, MapThenFoldSet, Adds, Pick

\* and satisfies its equation.
LEMMA AdderAt ==
  ASSUME NEW f, NEW S, NEW g, Adds(g, f, S), NEW T \in SUBSET S
  PROVE  g[T] = IF T = {} THEN 0 ELSE f[Pick(T)] + g[T \ {Pick(T)}]
  <1> DEFINE h == [U \in SUBSET S |-> IF U = {} THEN 0 ELSE f[Pick(U)] + g[U \ {Pick(U)}]]
  <1>1. g = h
    BY DEF Adds
  <1>2. h[T] = IF T = {} THEN 0 ELSE f[Pick(T)] + g[T \ {Pick(T)}]
    OBVIOUS
  <1> QED
    BY <1>1, <1>2

\* The element taken out is one of the set.
LEMMA PickInSet == ASSUME NEW S, S # {} PROVE Pick(S) \in S
  BY DEF Pick

\* Two of them agree where both are defined.
LEMMA AddersAgree ==
  ASSUME NEW f, NEW S, IsFiniteSet(S), NEW g, Adds(g, f, S),
         NEW T \in SUBSET S, NEW h, Adds(h, f, T)
  PROVE  \A U \in SUBSET T : g[U] = h[U]
  <1> DEFINE G == {U \in SUBSET T : g[U] = h[U]}
  <1>1. IsFiniteSet(T)
    BY FS_Subset
  <1>2. ASSUME NEW U \in SUBSET T, \A V \in (SUBSET U) \ {U} : V \in G
        PROVE  U \in G
    <2>1. CASE U = {}
      BY <2>1, AdderAt
    <2>2. CASE U # {}
      <3>1. Pick(U) \in U
        BY <2>2, PickInSet
      <3>2. U \ {Pick(U)} \in G
        BY <1>2, <3>1
      <3>3. g[U] = f[Pick(U)] + g[U \ {Pick(U)}]
        <4>1. U \in SUBSET S
          OBVIOUS
        <4> QED
          BY <2>2, <4>1, AdderAt
      <3>4. h[U] = f[Pick(U)] + h[U \ {Pick(U)}]
        BY <2>2, AdderAt
      <3> QED
        BY <3>2, <3>3, <3>4
    <2> QED
      BY <2>1, <2>2
  <1>3. \A U \in SUBSET T : U \in G
    <2> HIDE DEF G
    <2> QED
      BY <1>1, <1>2, SubsetInduction
  <1> QED
    BY <1>3

\* There is one.
LEMMA AdderExists ==
  ASSUME NEW f, NEW S, IsFiniteSet(S)
  PROVE  \E g : Adds(g, f, S)
  <1> DEFINE G == {T \in SUBSET S : \E g : Adds(g, f, T)}
             A(T) == CHOOSE g : Adds(g, f, T)
  <1>1. ASSUME NEW T \in SUBSET S, \A U \in (SUBSET T) \ {T} : U \in G
        PROVE  T \in G
    <2>1. \A U \in (SUBSET T) \ {T} : Adds(A(U), f, U)
      BY <1>1
    <2> HIDE DEF A
    <2> DEFINE g == [U \in SUBSET T |-> IF U = {} THEN 0
                                        ELSE f[Pick(U)] + A(U \ {Pick(U)})[U \ {Pick(U)}]]
    <2>2. ASSUME NEW U \in SUBSET T, U # {}
          PROVE  g[U \ {Pick(U)}] = A(U \ {Pick(U)})[U \ {Pick(U)}]
      <3> DEFINE V == U \ {Pick(U)}
      <3>1. V \in SUBSET T /\ V # T
        BY <2>2, PickInSet
      <3>2. Adds(A(V), f, V) /\ IsFiniteSet(V)
        BY <2>1, <3>1, FS_Subset
      <3>3. A(V)[V] = IF V = {} THEN 0 ELSE f[Pick(V)] + A(V)[V \ {Pick(V)}]
        <4> DEFINE a == A(V)
        <4>1. Adds(a, f, V) /\ V \in SUBSET V
          BY <3>2
        <4> HIDE DEF a, V
        <4>2. a[V] = IF V = {} THEN 0 ELSE f[Pick(V)] + a[V \ {Pick(V)}]
          BY <4>1, AdderAt
        <4> QED
          BY <4>2 DEF a
      <3>4. g[V] = IF V = {} THEN 0 ELSE f[Pick(V)] + A(V \ {Pick(V)})[V \ {Pick(V)}]
        BY <3>1
      <3> HIDE DEF V
      <3>5. CASE V # {}
        <4> DEFINE W == V \ {Pick(V)}
        <4>1. W \in SUBSET V /\ W \in SUBSET T /\ W # T
          BY <3>1, <3>5, PickInSet
        <4>2. Adds(A(W), f, W)
          BY <2>1, <4>1
        <4> HIDE DEF W
        <4>3. A(V)[W] = A(W)[W]
          BY <3>2, <4>1, <4>2, AddersAgree
        <4> QED
          BY <3>3, <3>4, <3>5, <4>3 DEF V, W
      <3> QED
        BY <3>3, <3>4, <3>5 DEF V
    <2>3. g = [U \in SUBSET T |-> IF U = {} THEN 0 ELSE f[Pick(U)] + g[U \ {Pick(U)}]]
      <3> DEFINE h == [U \in SUBSET T |-> IF U = {} THEN 0 ELSE f[Pick(U)] + g[U \ {Pick(U)}]]
      <3>1. \A U \in SUBSET T : g[U] = h[U]
        BY <2>2
      <3>2. DOMAIN g = DOMAIN h
        OBVIOUS
      <3> QED
        BY <3>1, <3>2
    <2> HIDE DEF g
    <2> QED
      BY <2>3 DEF Adds
  <1>2. \A T \in SUBSET S : T \in G
    <2> HIDE DEF G
    <2> QED
      BY <1>1, SubsetInduction
  <1> QED
    BY <1>2

-----------------------------------------------------------------------------
(* Sums.                                                                   *)

\* Nothing adds up to zero.
LEMMA SumOfNothing ==
  ASSUME NEW f
  PROVE  Sum(f, {}) = 0
  <1>1. \E g : Adds(g, f, {})
    BY AdderExists, FS_EmptySet
  <1>2. Adds(CHOOSE g : Adds(g, f, {}), f, {})
    BY <1>1
  <1> QED
    BY <1>2, AdderAt, SumIsAdder

\* The equation the library defines it by.
LEMMA SumPicked ==
  ASSUME NEW f, NEW S, IsFiniteSet(S), S # {}
  PROVE  Sum(f, S) = f[Pick(S)] + Sum(f, S \ {Pick(S)})
  <1> DEFINE T == S \ {Pick(S)}
             g == CHOOSE g : Adds(g, f, S)
             h == CHOOSE h : Adds(h, f, T)
  <1>1. T \in SUBSET S /\ IsFiniteSet(T)
    BY FS_Subset
  <1>2. (\E a : Adds(a, f, S)) /\ (\E a : Adds(a, f, T))
    <2> HIDE DEF T
    <2> QED
      BY <1>1, AdderExists
  <1>3. Adds(g, f, S) /\ Adds(h, f, T)
    BY <1>2
  <1>4. Sum(f, S) = g[S] /\ Sum(f, T) = h[T]
    BY SumIsAdder
  <1> HIDE DEF g, h
  <1>5. g[S] = f[Pick(S)] + g[T]
    BY <1>3, AdderAt
  <1>6. g[T] = h[T]
    <2> HIDE DEF T
    <2>1. ASSUME NEW a, Adds(a, f, S), NEW b, Adds(b, f, T)
          PROVE  \A U \in SUBSET T : a[U] = b[U]
      BY <1>1, <2>1, AddersAgree
    <2>2. \A U \in SUBSET T : g[U] = h[U]
      BY <1>3, <2>1
    <2> QED
      BY <2>2
  <1> QED
    BY <1>4, <1>5, <1>6

\* The sum of integers is an integer,
LEMMA SumOfIntegers ==
  ASSUME NEW f, NEW S, IsFiniteSet(S), \A x \in S : f[x] \in Int
  PROVE  Sum(f, S) \in Int
  <1> DEFINE G == {T \in SUBSET S : Sum(f, T) \in Int}
  <1>1. ASSUME NEW T \in SUBSET S, \A U \in (SUBSET T) \ {T} : U \in G
        PROVE  T \in G
    <2>1. CASE T = {}
      BY <2>1, SumOfNothing
    <2>2. CASE T # {}
      <3>1. Pick(T) \in T /\ IsFiniteSet(T)
        BY <2>2, PickInSet, FS_Subset
      <3>2. Sum(f, T \ {Pick(T)}) \in Int /\ f[Pick(T)] \in Int
        BY <1>1, <3>1
      <3> QED
        BY <2>2, <3>1, <3>2, SumPicked
    <2> QED
      BY <2>1, <2>2
  <1>2. \A T \in SUBSET S : T \in G
    <2> HIDE DEF G
    <2> QED
      BY <1>1, SubsetInduction
  <1> QED
    BY <1>2

\* Any element may be taken out first.
LEMMA SumWithout ==
  ASSUME NEW f, NEW S, IsFiniteSet(S), \A x \in S : f[x] \in Int, NEW x \in S
  PROVE  Sum(f, S) = f[x] + Sum(f, S \ {x})
  <1> DEFINE G == {T \in SUBSET S : \A y \in T : Sum(f, T) = f[y] + Sum(f, T \ {y})}
  <1>1. ASSUME NEW T \in SUBSET S, \A U \in (SUBSET T) \ {T} : U \in G
        PROVE  T \in G
    <2> SUFFICES ASSUME NEW y \in T
                 PROVE  Sum(f, T) = f[y] + Sum(f, T \ {y})
      OBVIOUS
    <2> DEFINE p == Pick(T)
    <2>1. p \in T /\ IsFiniteSet(T)
      BY PickInSet, FS_Subset
    <2>2. Sum(f, T) = f[p] + Sum(f, T \ {p})
      BY <2>1, SumPicked
    <2> HIDE DEF p
    <2>3. CASE y # p
      <3>1. T \ {p} \in G /\ y \in T \ {p} /\ T \ {y} \in G /\ p \in T \ {y}
        BY <1>1, <2>1, <2>3
      <3>2. /\ Sum(f, T \ {p}) = f[y] + Sum(f, (T \ {p}) \ {y})
            /\ Sum(f, T \ {y}) = f[p] + Sum(f, (T \ {y}) \ {p})
        BY <3>1
      <3>3. (T \ {p}) \ {y} = (T \ {y}) \ {p}
        OBVIOUS
      <3>4. Sum(f, (T \ {p}) \ {y}) \in Int
        <4>1. IsFiniteSet((T \ {p}) \ {y})
          BY <2>1, FS_Subset
        <4> QED
          BY <4>1, SumOfIntegers
      <3>5. f[p] \in Int /\ f[y] \in Int
        BY <2>1
      <3> DEFINE rest == Sum(f, (T \ {p}) \ {y})
      <3>6. Sum(f, T) = f[p] + (f[y] + rest) /\ Sum(f, T \ {y}) = f[p] + rest
        BY <2>2, <3>2, <3>3
      <3>7. rest \in Int
        BY <3>4
      <3> HIDE DEF rest
      <3> QED
        BY <3>5, <3>6, <3>7
    <2> QED
      BY <2>2, <2>3
  <1>2. \A T \in SUBSET S : T \in G
    <2> HIDE DEF G
    <2> QED
      BY <1>1, SubsetInduction
  <1> QED
    BY <1>2

\* A single element is its own sum.
LEMMA SumOfOne ==
  ASSUME NEW f, NEW x, f[x] \in Int
  PROVE  Sum(f, {x}) = f[x]
  <1>1. Sum(f, {x}) = f[x] + Sum(f, {x} \ {x})
    <2>1. IsFiniteSet({x}) /\ x \in {x} /\ \A y \in {x} : f[y] \in Int
      BY FS_Singleton
    <2> QED
      BY <2>1, SumWithout
  <1>2. {x} \ {x} = {}
    OBVIOUS
  <1> QED
    BY <1>1, <1>2, SumOfNothing

\* Two functions, added pointwise; the same relates a sum to a smaller one.
LEMMA SumOfSums ==
  ASSUME NEW f, NEW g, NEW h, NEW S, IsFiniteSet(S),
         \A x \in S : f[x] \in Int /\ g[x] \in Int /\ h[x] = f[x] + g[x]
  PROVE  Sum(h, S) = Sum(f, S) + Sum(g, S)
  <1> DEFINE G == {T \in SUBSET S : Sum(h, T) = Sum(f, T) + Sum(g, T)}
  <1>1. ASSUME NEW T \in SUBSET S, \A U \in (SUBSET T) \ {T} : U \in G
        PROVE  T \in G
    <2>1. CASE T = {}
      BY <2>1, SumOfNothing
    <2>2. CASE T # {}
      <3> DEFINE p == Pick(T)
                 U == T \ {p}
      <3>1. p \in T /\ IsFiniteSet(T) /\ U \in SUBSET T /\ U # T
        BY <2>2, PickInSet, FS_Subset
      <3>2. /\ Sum(f, T) = f[p] + Sum(f, U)
            /\ Sum(g, T) = g[p] + Sum(g, U)
            /\ Sum(h, T) = h[p] + Sum(h, U)
        BY <2>2, <3>1, SumPicked
      <3> HIDE DEF U, p
      <3>3. Sum(h, U) = Sum(f, U) + Sum(g, U)
        BY <1>1, <3>1
      <3>4. IsFiniteSet(U)
        BY <3>1, FS_Subset
      <3>5. Sum(f, U) \in Int /\ Sum(g, U) \in Int
        BY <3>1, <3>4, SumOfIntegers
      <3>6. f[p] \in Int /\ g[p] \in Int /\ h[p] = f[p] + g[p]
        BY <3>1
      <3>7. Sum(h, T) = Sum(f, T) + Sum(g, T)
        BY <3>2, <3>3, <3>5, <3>6
      <3> QED
        BY <3>7
    <2> QED
      BY <2>1, <2>2
  <1>2. \A T \in SUBSET S : T \in G
    <2> HIDE DEF G
    <2> QED
      BY <1>1, SubsetInduction
  <1> QED
    BY <1>2

\* Equal functions have equal sums.
LEMMA SumOfEquals ==
  ASSUME NEW f, NEW g, NEW S, IsFiniteSet(S), \A x \in S : f[x] = g[x]
  PROVE  Sum(f, S) = Sum(g, S)
  <1> DEFINE G == {T \in SUBSET S : Sum(f, T) = Sum(g, T)}
  <1>1. ASSUME NEW T \in SUBSET S, \A U \in (SUBSET T) \ {T} : U \in G
        PROVE  T \in G
    <2>1. CASE T = {}
      BY <2>1, SumOfNothing
    <2>2. CASE T # {}
      <3>1. Pick(T) \in T /\ IsFiniteSet(T) /\ T \ {Pick(T)} \in G
        BY <1>1, <2>2, PickInSet, FS_Subset
      <3>2. /\ Sum(f, T) = f[Pick(T)] + Sum(f, T \ {Pick(T)})
            /\ Sum(g, T) = g[Pick(T)] + Sum(g, T \ {Pick(T)})
        BY <2>2, <3>1, SumPicked
      <3> QED
        BY <3>1, <3>2
    <2> QED
      BY <2>1, <2>2
  <1>2. \A T \in SUBSET S : T \in G
    <2> HIDE DEF G
    <2> QED
      BY <1>1, SubsetInduction
  <1> QED
    BY <1>2

\* and of naturals a natural.
LEMMA SumOfNaturals ==
  ASSUME NEW f, NEW S, IsFiniteSet(S), \A x \in S : f[x] \in Nat
  PROVE  Sum(f, S) \in Nat
  <1> DEFINE G == {T \in SUBSET S : Sum(f, T) \in Nat}
  <1>1. ASSUME NEW T \in SUBSET S, \A U \in (SUBSET T) \ {T} : U \in G
        PROVE  T \in G
    <2>1. CASE T = {}
      BY <2>1, SumOfNothing
    <2>2. CASE T # {}
      <3>1. Pick(T) \in T /\ IsFiniteSet(T)
        BY <2>2, PickInSet, FS_Subset
      <3>2. Sum(f, T \ {Pick(T)}) \in Nat /\ f[Pick(T)] \in Nat
        BY <1>1, <3>1
      <3> QED
        BY <2>2, <3>1, <3>2, SumPicked
    <2> QED
      BY <2>1, <2>2
  <1>2. \A T \in SUBSET S : T \in G
    <2> HIDE DEF G
    <2> QED
      BY <1>1, SubsetInduction
  <1> QED
    BY <1>2

LEMMA OnlyZeroDoubles == ASSUME NEW n \in Int, n = n + n PROVE n = 0
OBVIOUS

\* Zeros add up to zero.
LEMMA SumOfZeros ==
  ASSUME NEW f, NEW S, IsFiniteSet(S), \A x \in S : f[x] = 0
  PROVE  Sum(f, S) = 0
  <1>1. Sum(f, S) = Sum(f, S) + Sum(f, S)
    BY SumOfSums
  <1>2. Sum(f, S) \in Int
    BY SumOfIntegers
  <1> QED
    BY <1>1, <1>2, OnlyZeroDoubles

\* Less at every element, less in all.
LEMMA SumAtMost ==
  ASSUME NEW f, NEW g, NEW S, IsFiniteSet(S),
         \A x \in S : f[x] \in Int /\ g[x] \in Int /\ f[x] <= g[x]
  PROVE  Sum(f, S) <= Sum(g, S)
  <1> DEFINE d == [x \in S |-> g[x] - f[x]]
  <1>1. \A x \in S : d[x] \in Nat /\ g[x] = f[x] + d[x]
    OBVIOUS
  <1> HIDE DEF d
  <1>2. Sum(g, S) = Sum(f, S) + Sum(d, S)
    BY <1>1, SumOfSums
  <1>3. Sum(d, S) \in Nat /\ Sum(f, S) \in Int
    BY <1>1, SumOfNaturals, SumOfIntegers
  <1> QED
    BY <1>2, <1>3

\* Of naturals, no element is more than the sum.
LEMMA SumOverElement ==
  ASSUME NEW f, NEW S, IsFiniteSet(S), \A x \in S : f[x] \in Nat, NEW x \in S
  PROVE  f[x] <= Sum(f, S)
  <1>1. IsFiniteSet(S \ {x})
    BY FS_Subset
  <1>2. Sum(f, S) = f[x] + Sum(f, S \ {x}) /\ Sum(f, S \ {x}) \in Nat
    BY <1>1, SumWithout, SumOfNaturals
  <1> QED
    BY <1>2

\* One element changes.
LEMMA SumChanged ==
  ASSUME NEW f, NEW g, NEW S, IsFiniteSet(S), NEW x \in S,
         \A y \in S : f[y] \in Int /\ g[y] \in Int,
         \A y \in S \ {x} : g[y] = f[y]
  PROVE  Sum(g, S) = Sum(f, S) + (g[x] - f[x])
  <1>1. IsFiniteSet(S \ {x})
    BY FS_Subset
  <1>2. /\ Sum(f, S) = f[x] + Sum(f, S \ {x})
        /\ Sum(g, S) = g[x] + Sum(g, S \ {x})
    BY SumWithout
  <1>3. Sum(f, S \ {x}) = Sum(g, S \ {x})
    BY <1>1, SumOfEquals
  <1>4. Sum(f, S \ {x}) \in Int
    BY <1>1, SumOfIntegers
  <1> QED
    BY <1>2, <1>3, <1>4

\* Zeros do not count.
LEMMA SumOnSupport ==
  ASSUME NEW f, NEW S, IsFiniteSet(S), NEW T \in SUBSET S,
         \A x \in T : f[x] \in Int, \A x \in S \ T : f[x] = 0
  PROVE  Sum(f, S) = Sum(f, T)
  <1> DEFINE G == {U \in SUBSET S : T \subseteq U => Sum(f, U) = Sum(f, T)}
  <1>1. ASSUME NEW U \in SUBSET S, \A V \in (SUBSET U) \ {U} : V \in G
        PROVE  U \in G
    <2> SUFFICES ASSUME T \subseteq U, U # T
                 PROVE  Sum(f, U) = Sum(f, T)
      OBVIOUS
    <2>1. PICK x \in U : x \notin T
      OBVIOUS
    <2>2. U \ {x} \in (SUBSET U) \ {U} /\ T \subseteq U \ {x} /\ IsFiniteSet(U)
      BY <2>1, FS_Subset
    <2>3. Sum(f, U \ {x}) = Sum(f, T)
      BY <1>1, <2>2
    <2>4. Sum(f, U) = f[x] + Sum(f, U \ {x}) /\ f[x] = 0
      BY <2>1, <2>2, SumWithout
    <2>5. Sum(f, T) \in Int
      BY <2>2, FS_Subset, SumOfIntegers
    <2> QED
      BY <2>3, <2>4, <2>5
  <1>2. \A U \in SUBSET S : U \in G
    <2> HIDE DEF G
    <2> QED
      BY <1>1, SubsetInduction
  <1> QED
    BY <1>2

\* The same at every element, times their number.
LEMMA SumOfConstants ==
  ASSUME NEW f, NEW S, IsFiniteSet(S), NEW k \in Int, \A x \in S : f[x] = k
  PROVE  Sum(f, S) = Cardinality(S) * k
  <1> DEFINE G == {T \in SUBSET S : Sum(f, T) = Cardinality(T) * k}
  <1>1. ASSUME NEW T \in SUBSET S, \A U \in (SUBSET T) \ {T} : U \in G
        PROVE  T \in G
    <2>1. CASE T = {}
      BY <2>1, SumOfNothing, FS_EmptySet
    <2>2. ASSUME NEW x \in T
          PROVE  T \in G
      <3> DEFINE U == T \ {x}
      <3>1. IsFiniteSet(T) /\ IsFiniteSet(U)
        BY FS_Subset
      <3>2. Sum(f, U) = Cardinality(U) * k
        BY <1>1
      <3>3. Sum(f, T) = k + Sum(f, U)
        BY <3>1, SumWithout
      <3>4. Cardinality(U) = Cardinality(T) - 1 /\ Cardinality(T) \in Nat
        BY <3>1, FS_RemoveElement, FS_CardinalityType
      <3>5. k + (Cardinality(T) - 1) * k = Cardinality(T) * k
        BY <3>4
      <3> QED
        BY <3>2, <3>3, <3>4, <3>5
    <2> QED
      BY <2>1, <2>2
  <1> HIDE DEF G
  <1>2. S \in G
    BY <1>1, SubsetInduction
  <1> QED
    BY <1>2 DEF G

\* A set is as large as the parts a function divides it into.
LEMMA FibersAddUp ==
  ASSUME NEW S, IsFiniteSet(S), NEW C, IsFiniteSet(C), NEW f \in [C -> S]
  PROVE  Sum([s \in S |-> Cardinality({c \in C : f[c] = s})], S) = Cardinality(C)
  <1> DEFINE Part(T, s) == {c \in T : f[c] = s}
             size(T) == [s \in S |-> Cardinality(Part(T, s))]
             G == {T \in SUBSET C : Sum(size(T), S) = Cardinality(T)}
  <1>0. \A T \in SUBSET C : \A s \in S :
          IsFiniteSet(Part(T, s)) /\ size(T)[s] \in Nat
    BY FS_Subset, FS_CardinalityType
  <1>1. ASSUME NEW T \in SUBSET C, \A U \in (SUBSET T) \ {T} : U \in G
        PROVE  T \in G
    <2>1. CASE T = {}
      <3>1. \A s \in S : size(T)[s] = 0
        BY <2>1, FS_EmptySet
      <3> HIDE DEF size
      <3>2. Sum(size(T), S) = 0
        BY <3>1, SumOfZeros
      <3> QED
        BY <2>1, <3>2, FS_EmptySet
    <2>2. ASSUME NEW x \in T
          PROVE  T \in G
      <3> DEFINE U == T \ {x}
      <3>1. IsFiniteSet(T)
        BY FS_Subset
      <3>2. f[x] \in S /\ U \in SUBSET C
        OBVIOUS
      <3>3. Sum(size(U), S) = Cardinality(U)
        BY <1>1
      <3>4. \A s \in S \ {f[x]} : size(T)[s] = size(U)[s]
        <4>1. \A s \in S \ {f[x]} : Part(T, s) = Part(U, s)
          OBVIOUS
        <4> QED
          BY <4>1
      <3>5. size(T)[f[x]] = size(U)[f[x]] + 1
        <4>1. Part(T, f[x]) = Part(U, f[x]) \cup {x} /\ x \notin Part(U, f[x])
          OBVIOUS
        <4>2. IsFiniteSet(Part(U, f[x]))
          BY <1>0, <3>2
        <4> HIDE DEF Part
        <4>3. Cardinality(Part(T, f[x])) = Cardinality(Part(U, f[x])) + 1
          BY <4>1, <4>2, FS_AddElement
        <4> QED
          BY <3>2, <4>3
      <3>6. \A s \in S : size(T)[s] \in Nat /\ size(U)[s] \in Nat
        BY <1>0, <3>2
      <3> HIDE DEF size
      <3>7. Sum(size(T), S) = Sum(size(U), S) + (size(T)[f[x]] - size(U)[f[x]])
        BY <3>2, <3>4, <3>6, SumChanged
      <3>8. Cardinality(U) = Cardinality(T) - 1 /\ Cardinality(T) \in Nat
        BY <3>1, FS_RemoveElement, FS_CardinalityType
      <3>9. size(T)[f[x]] \in Nat /\ size(U)[f[x]] \in Nat
        BY <3>2, <3>6
      <3>10. Sum(size(T), S) = Cardinality(T)
        BY <3>3, <3>5, <3>7, <3>8, <3>9
      <3> QED
        BY <3>10
    <2> QED
      BY <2>1, <2>2
  <1> HIDE DEF G
  <1>2. C \in G
    BY <1>1, SubsetInduction
  <1> QED
    BY <1>2 DEF G
===============================================================================
