---------------------------- MODULE SumTheorems ----------------------------
(* What SumFunctionOnSet, a fold of the community modules, adds up to: the    *)
(* lemmas that the proofs about balances and quotas cite.  The library's      *)
(* induction theorems take predicates, which the provers cannot instantiate;  *)
(* here induction is the minimal element of the set of counterexamples.       *)
EXTENDS Integers, Functions, FiniteSetTheorems, TLAPS

Chosen(s) == CHOOSE x \in s : TRUE

\* g is the function by which the fold adds f up over the subsets of S.
Folds(g, f, S) ==
  g = [s \in SUBSET S |-> IF s = {} THEN 0 ELSE f[Chosen(s)] + g[s \ {Chosen(s)}]]

-----------------------------------------------------------------------------
(* Induction. *)

\* Among sets of a finite set there is a least one.
LEMMA LeastSubset ==
  ASSUME NEW S, IsFiniteSet(S), NEW Bad \in SUBSET SUBSET S, Bad # {}
  PROVE  \E T \in Bad : \A V \in SUBSET T : V # T => V \notin Bad
<1>1. Bad \subseteq FiniteSubsetsOf(S)
  BY FS_FiniteSubsetsOfFinite
<1>2. PICK T \in Bad : \A V \in Bad : <<V, T>> \notin StrictSubsetOrdering(S)
  BY <1>1, FS_StrictSubsetOrderingWellFounded, WFMin
<1> QED
  BY <1>1, <1>2 DEF StrictSubsetOrdering, FiniteSubsetsOf

\* Among numbers there is a least one.
LEMMA LeastNatural ==
  ASSUME NEW Bad \in SUBSET Nat, Bad # {}
  PROVE  \E n \in Bad : \A m \in Bad : n <= m
<1>1. PICK k \in Bad : TRUE
  OBVIOUS
<1> DEFINE Below == {0 .. n : n \in {m \in Bad : m <= k}}
<1>2. IsFiniteSet(0 .. k) /\ k \in Nat
  BY <1>1, FS_Interval
<1>3. Below \in SUBSET SUBSET (0 .. k)
  <2>1. \A n \in {m \in Bad : m <= k} : 0 .. n \in SUBSET (0 .. k)
    BY <1>2
  <2> QED
    BY <2>1
<1>4. Below # {}
  BY <1>1, <1>2
<1>5. PICK T \in Below : \A V \in SUBSET T : V # T => V \notin Below
  <2> HIDE DEF Below
  <2> DEFINE all == 0 .. k
  <2>1. IsFiniteSet(all) /\ Below \in SUBSET SUBSET all
    BY <1>2, <1>3
  <2> HIDE DEF all
  <2> QED
    BY <2>1, <1>4, LeastSubset
<1>6. PICK n \in Bad : n <= k /\ T = 0 .. n
  BY <1>5
<1>7. ASSUME NEW m \in Bad, m < n
      PROVE  FALSE
  <2>1. 0 .. m \in Below
    BY <1>6, <1>7
  <2>2. 0 .. m \in SUBSET T /\ n \in T /\ n \notin 0 .. m
    BY <1>6, <1>7
  <2> QED
    BY <1>5, <2>1, <2>2
<1> QED
  BY <1>6, <1>7

-----------------------------------------------------------------------------
(* The fold. *)

\* The sum is the value at the whole set of a function that satisfies the fold's equation.
LEMMA SumUnfolded ==
  ASSUME NEW f, NEW S, \E g : Folds(g, f, S)
  PROVE  \E g : Folds(g, f, S) /\ SumFunctionOnSet(f, S) = g[S]
<1>1. \E g : /\ SumFunctionOnSet(f, S) = g[S]
             /\ g = CHOOSE h : h = [s \in SUBSET S |->
                      IF s = {} THEN 0 ELSE f[Chosen(s)] + h[s \ {Chosen(s)}]]
  BY DEF SumFunctionOnSet, FoldFunctionOnSet, MapThenFoldSet, Chosen
<1> QED
  BY <1>1 DEF Folds

\* There is such a function: one for the subsets of up to n elements is one for those of up
\* to n + 1 after one more step.
LEMMA FoldExists ==
  ASSUME NEW f, NEW S, IsFiniteSet(S)
  PROVE  \E g : Folds(g, f, S)
<1> DEFINE Up(n) == {s \in SUBSET S : Cardinality(s) <= n}
           Step(g, s) == IF s = {} THEN 0 ELSE f[Chosen(s)] + g[s \ {Chosen(s)}]
           Good(g, n) == \A s \in Up(n) : g[s] = Step(g, s)
           Bad == {n \in Nat : \A g : ~Good(g, n)}
<1>1. \A s \in SUBSET S : IsFiniteSet(s) /\ Cardinality(s) \in Nat
                          /\ Cardinality(s) <= Cardinality(S)
  BY FS_Subset, FS_CardinalityType
<1>2. Bad = {}
  <2> SUFFICES ASSUME Bad # {} PROVE FALSE
    OBVIOUS
  <2>1. PICK n \in Bad : \A m \in Bad : n <= m
    <3>1. Bad \in SUBSET Nat
      OBVIOUS
    <3> HIDE DEF Bad
    <3> QED
      BY <3>1, LeastNatural
  <2>2. CASE n = 0
    <3> DEFINE g == [s \in SUBSET S |-> 0]
    <3>1. \A s \in Up(0) : s = {}
      BY <1>1, FS_EmptySet
    <3>2. Good(g, 0)
      BY <3>1
    <3> QED
      BY <2>1, <2>2, <3>2
  <2>3. CASE n # 0
    <3>1. n - 1 \in Nat /\ n - 1 \notin Bad
      <4>1. n \in Nat /\ n - 1 \in Nat /\ ~(n <= n - 1)
        BY <2>1, <2>3
      <4> HIDE DEF Bad
      <4> QED
        BY <2>1, <4>1
    <3>2. PICK g : Good(g, n - 1)
      BY <3>1
    <3> DEFINE h == [s \in SUBSET S |-> Step(g, s)]
    <3>3. \A s \in Up(n - 1) : h[s] = g[s]
      BY <3>2
    <3>4. ASSUME NEW s \in Up(n), s # {}
          PROVE  s \ {Chosen(s)} \in Up(n - 1)
      <4>1. Chosen(s) \in s
        BY <3>4 DEF Chosen
      <4>2. Cardinality(s \ {Chosen(s)}) = Cardinality(s) - 1
        BY <1>1, <4>1, FS_RemoveElement
      <4> QED
        BY <1>1, <2>1, <4>2
    <3>5. Good(h, n)
      <4> SUFFICES ASSUME NEW s \in Up(n) PROVE h[s] = Step(h, s)
        OBVIOUS
      <4>1. h[s] = Step(g, s)
        OBVIOUS
      <4> QED
        BY <3>3, <3>4, <4>1
    <3> QED
      BY <2>1, <3>5
  <2> QED
    BY <2>2, <2>3
<1>3. PICK g : Good(g, Cardinality(S))
  BY <1>1, <1>2
<1> DEFINE h == [s \in SUBSET S |-> g[s]]
<1>4. Folds(h, f, S)
  <2>1. Up(Cardinality(S)) = SUBSET S
    BY <1>1
  <2>2. \A s \in SUBSET S : h[s] = Step(h, s)
    BY <1>3, <2>1
  <2> QED
    BY <2>2 DEF Folds
<1> QED
  BY <1>4

\* Such a function is 0 at the empty set and takes off one element after another.
LEMMA FoldValue ==
  ASSUME NEW f, NEW S, NEW g, Folds(g, f, S)
  PROVE  /\ g[{}] = 0
         /\ \A T \in SUBSET S : T # {} => Chosen(T) \in T /\ g[T] = f[Chosen(T)] + g[T \ {Chosen(T)}]
<1>1. \A T \in SUBSET S : g[T] = IF T = {} THEN 0 ELSE f[Chosen(T)] + g[T \ {Chosen(T)}]
  BY DEF Folds
<1>2. \A T : T # {} => Chosen(T) \in T
  BY DEF Chosen
<1> QED
  BY <1>1, <1>2

\* It adds integers up to an integer.
LEMMA FoldType ==
  ASSUME NEW f, NEW S, IsFiniteSet(S), NEW g, Folds(g, f, S), \A x \in S : f[x] \in Int
  PROVE  \A T \in SUBSET S : g[T] \in Int
<1> DEFINE Bad == {T \in SUBSET S : g[T] \notin Int}
<1> SUFFICES ASSUME Bad # {} PROVE FALSE
  OBVIOUS
<1>1. PICK T \in Bad : \A V \in SUBSET T : V # T => V \notin Bad
  <2>1. Bad \in SUBSET SUBSET S
    OBVIOUS
  <2> HIDE DEF Bad
  <2> QED
    BY <2>1, LeastSubset
<1>2. T # {}
  <2>1. g[{}] = 0 /\ 0 \in Int
    BY FoldValue
  <2>2. g[T] \notin Int
    BY <1>1
  <2> QED
    BY <2>1, <2>2
<1>3. Chosen(T) \in T /\ g[T] = f[Chosen(T)] + g[T \ {Chosen(T)}]
  BY <1>1, <1>2, FoldValue
<1>4. T \ {Chosen(T)} \in SUBSET T /\ T \ {Chosen(T)} # T /\ T \ {Chosen(T)} \in SUBSET S
  BY <1>3
<1>5. g[T \ {Chosen(T)}] \in Int
  BY <1>1, <1>4
<1> QED
  BY <1>1, <1>3, <1>5

\* Any element may be the first to be added.
LEMMA FoldAnyOrder ==
  ASSUME NEW f, NEW S, IsFiniteSet(S), NEW g, Folds(g, f, S), \A x \in S : f[x] \in Int
  PROVE  \A T \in SUBSET S : \A x \in T : g[T] = f[x] + g[T \ {x}]
<1> DEFINE Bad == {T \in SUBSET S : \E x \in T : g[T] # f[x] + g[T \ {x}]}
<1> SUFFICES ASSUME Bad # {} PROVE FALSE
  OBVIOUS
<1>1. PICK T \in Bad : \A V \in SUBSET T : V # T => V \notin Bad
  <2>1. Bad \in SUBSET SUBSET S
    OBVIOUS
  <2> HIDE DEF Bad
  <2> QED
    BY <2>1, LeastSubset
<1>2. PICK x \in T : g[T] # f[x] + g[T \ {x}]
  BY <1>1
<1> DEFINE y == Chosen(T)
<1>3. y \in T /\ g[T] = f[y] + g[T \ {y}] /\ y # x
  <2>1. y \in T /\ g[T] = f[y] + g[T \ {y}]
    BY <1>1, <1>2, FoldValue
  <2> QED
    BY <1>2, <2>1
<1> HIDE DEF y
<1>4. g[T \ {y}] = f[x] + g[(T \ {y}) \ {x}]
  BY <1>1, <1>2, <1>3
<1>5. g[T \ {x}] = f[y] + g[(T \ {x}) \ {y}]
  BY <1>1, <1>2, <1>3
<1>6. (T \ {y}) \ {x} = (T \ {x}) \ {y} /\ (T \ {x}) \ {y} \in SUBSET S
  OBVIOUS
<1>7. g[(T \ {x}) \ {y}] \in Int /\ f[x] \in Int /\ f[y] \in Int
  BY <1>2, <1>3, <1>6, FoldType
<1>8. f[y] + (f[x] + g[(T \ {x}) \ {y}]) = f[x] + (f[y] + g[(T \ {x}) \ {y}])
  BY <1>7
<1> QED
  BY <1>2, <1>3, <1>4, <1>5, <1>6, <1>8, Zenon

\* The sum over a set does not depend on the set in which it is taken.
LEMMA FoldsAgree ==
  ASSUME NEW f, NEW S, IsFiniteSet(S), NEW g, Folds(g, f, S),
         NEW S2, NEW h, Folds(h, f, S2), S \subseteq S2
  PROVE  g[S] = h[S]
<1> DEFINE Bad == {T \in SUBSET S : g[T] # h[T]}
<1>1. Bad = {}
  <2> SUFFICES ASSUME Bad # {} PROVE FALSE
    OBVIOUS
  <2>1. PICK T \in Bad : \A V \in SUBSET T : V # T => V \notin Bad
    <3>1. Bad \in SUBSET SUBSET S
      OBVIOUS
    <3> HIDE DEF Bad
    <3> QED
      BY <3>1, LeastSubset
  <2>2. T # {}
    BY <2>1, FoldValue
  <2>3. /\ Chosen(T) \in T /\ g[T] = f[Chosen(T)] + g[T \ {Chosen(T)}]
        /\ h[T] = f[Chosen(T)] + h[T \ {Chosen(T)}]
    BY <2>1, <2>2, FoldValue
  <2>4. T \ {Chosen(T)} \in SUBSET T /\ T \ {Chosen(T)} # T /\ T \ {Chosen(T)} \in SUBSET S
    BY <2>3
  <2> QED
    BY <2>1, <2>3, <2>4
<1> QED
  BY <1>1

-----------------------------------------------------------------------------
(* Sums. *)

\* A sum of integers is an integer.
LEMMA SumType ==
  ASSUME NEW S, IsFiniteSet(S), NEW f, \A x \in S : f[x] \in Int
  PROVE  SumFunctionOnSet(f, S) \in Int
<1>1. PICK g : Folds(g, f, S) /\ SumFunctionOnSet(f, S) = g[S]
  BY FoldExists, SumUnfolded
<1> QED
  BY <1>1, FoldType

\* The sum over nothing is 0.
LEMMA SumEmpty ==
  ASSUME NEW f
  PROVE  SumFunctionOnSet(f, {}) = 0
<1>1. PICK g : Folds(g, f, {}) /\ SumFunctionOnSet(f, {}) = g[{}]
  BY FoldExists, SumUnfolded, FS_EmptySet
<1> QED
  BY <1>1, FoldValue

\* Whichever element is taken off first, the sum is the same.
LEMMA SumRemove ==
  ASSUME NEW S, IsFiniteSet(S), NEW f, \A y \in S : f[y] \in Int, NEW x \in S
  PROVE  SumFunctionOnSet(f, S) = f[x] + SumFunctionOnSet(f, S \ {x})
<1>1. PICK g : Folds(g, f, S) /\ SumFunctionOnSet(f, S) = g[S]
  BY FoldExists, SumUnfolded
<1>2. IsFiniteSet(S \ {x})
  BY FS_RemoveElement
<1>3. PICK h : Folds(h, f, S \ {x}) /\ SumFunctionOnSet(f, S \ {x}) = h[S \ {x}]
  BY <1>2, FoldExists, SumUnfolded
<1>4. h[S \ {x}] = g[S \ {x}]
  BY <1>1, <1>2, <1>3, FoldsAgree
<1>5. g[S] = f[x] + g[S \ {x}]
  BY <1>1, FoldAnyOrder
<1> QED
  BY <1>1, <1>3, <1>4, <1>5

\* A new element adds its value.
LEMMA SumAdd ==
  ASSUME NEW S, IsFiniteSet(S), NEW f, NEW x, x \notin S, \A y \in S \cup {x} : f[y] \in Int
  PROVE  SumFunctionOnSet(f, S \cup {x}) = f[x] + SumFunctionOnSet(f, S)
<1>1. IsFiniteSet(S \cup {x}) /\ (S \cup {x}) \ {x} = S
  BY FS_AddElement
<1> QED
  BY <1>1, SumRemove

\* Sums of functions that agree on the set are equal.
LEMMA SumSame ==
  ASSUME NEW S, IsFiniteSet(S), NEW f, NEW g, \A x \in S : f[x] = g[x] /\ f[x] \in Int
  PROVE  SumFunctionOnSet(f, S) = SumFunctionOnSet(g, S)
<1> DEFINE Bad == {T \in SUBSET S : SumFunctionOnSet(f, T) # SumFunctionOnSet(g, T)}
<1>1. Bad = {}
  <2> SUFFICES ASSUME Bad # {} PROVE FALSE
    OBVIOUS
  <2>1. PICK T \in Bad : \A V \in SUBSET T : V # T => V \notin Bad
    <3>1. Bad \in SUBSET SUBSET S
      OBVIOUS
    <3> HIDE DEF Bad
    <3> QED
      BY <3>1, LeastSubset
  <2>2. T # {} /\ IsFiniteSet(T)
    <3>1. SumFunctionOnSet(f, {}) = 0 /\ SumFunctionOnSet(g, {}) = 0
      BY SumEmpty
    <3>2. IsFiniteSet(T)
      BY <2>1, FS_Subset
    <3> QED
      BY <2>1, <3>1, <3>2
  <2>3. PICK x \in T : TRUE
    BY <2>2
  <2>4. /\ SumFunctionOnSet(f, T) = f[x] + SumFunctionOnSet(f, T \ {x})
        /\ SumFunctionOnSet(g, T) = g[x] + SumFunctionOnSet(g, T \ {x})
    <3>1. \A y \in T : f[y] \in Int /\ g[y] \in Int
      OBVIOUS
    <3> QED
      BY <2>2, <3>1, SumRemove
  <2>5. T \ {x} \in SUBSET T /\ T \ {x} # T /\ T \ {x} \in SUBSET S
    BY <2>3
  <2>6. SumFunctionOnSet(f, T \ {x}) = SumFunctionOnSet(g, T \ {x})
    BY <2>1, <2>5
  <2> QED
    BY <2>1, <2>4, <2>6
<1> QED
  BY <1>1

\* A sum of natural numbers is one.
LEMMA SumNat ==
  ASSUME NEW S, IsFiniteSet(S), NEW f, \A x \in S : f[x] \in Nat
  PROVE  SumFunctionOnSet(f, S) \in Nat
<1> DEFINE Bad == {T \in SUBSET S : SumFunctionOnSet(f, T) \notin Nat}
<1>1. Bad = {}
  <2> SUFFICES ASSUME Bad # {} PROVE FALSE
    OBVIOUS
  <2>1. PICK T \in Bad : \A V \in SUBSET T : V # T => V \notin Bad
    <3>1. Bad \in SUBSET SUBSET S
      OBVIOUS
    <3> HIDE DEF Bad
    <3> QED
      BY <3>1, LeastSubset
  <2>2. T # {} /\ IsFiniteSet(T)
    <3>1. SumFunctionOnSet(f, {}) = 0 /\ 0 \in Nat
      BY SumEmpty
    <3>2. IsFiniteSet(T)
      BY <2>1, FS_Subset
    <3>3. SumFunctionOnSet(f, T) \notin Nat
      BY <2>1
    <3> QED
      BY <3>1, <3>2, <3>3
  <2>3. PICK x \in T : TRUE
    BY <2>2
  <2>4. SumFunctionOnSet(f, T) = f[x] + SumFunctionOnSet(f, T \ {x})
    <3>1. \A y \in T : f[y] \in Int
      OBVIOUS
    <3> QED
      BY <2>2, <3>1, SumRemove
  <2>5. T \ {x} \in SUBSET T /\ T \ {x} # T /\ T \ {x} \in SUBSET S
    BY <2>3
  <2>6. SumFunctionOnSet(f, T \ {x}) \in Nat /\ f[x] \in Nat
    BY <2>1, <2>5
  <2> QED
    BY <2>1, <2>4, <2>6
<1> QED
  BY <1>1

\* What changes at one element of the set changes the sum by as much.
LEMMA SumChange ==
  ASSUME NEW S, IsFiniteSet(S), NEW f, NEW g, NEW x \in S, \A y \in S : f[y] \in Int,
         g[x] \in Int, \A y \in S \ {x} : g[y] = f[y]
  PROVE  SumFunctionOnSet(g, S) = SumFunctionOnSet(f, S) + g[x] - f[x]
<1>1. IsFiniteSet(S \ {x}) /\ \A y \in S : g[y] \in Int
  BY FS_RemoveElement
<1>2. SumFunctionOnSet(f, S) = f[x] + SumFunctionOnSet(f, S \ {x})
  BY SumRemove
<1>3. SumFunctionOnSet(g, S) = g[x] + SumFunctionOnSet(g, S \ {x})
  BY <1>1, SumRemove
<1>4. SumFunctionOnSet(f, S \ {x}) = SumFunctionOnSet(g, S \ {x})
  BY <1>1, SumSame
<1>5. SumFunctionOnSet(f, S \ {x}) \in Int
  BY <1>1, SumType
<1> QED
  BY <1>2, <1>3, <1>4, <1>5
=============================================================================
