-------------------------- MODULE MinimalAsyncEPProofs --------------------------
(***************************************************************************)
(* Proofs about MinimalAsyncEP for every number of ranks, experts, layers, *)
(* tokens and choices of the router: the metadata that each rank derives   *)
(* on its own from the counts agrees (no two rows have the same place, and *)
(* what goes out comes back to its slot), and the two receive buffers are  *)
(* enough: RowsInPlace.                                                    *)
(*                                                                         *)
(* The metadata are sums over finite sets.  What a sum is for every set is *)
(* shown on the set of counterexamples: if it has a member it has a        *)
(* smallest one, and the sum of that is known from the one before.         *)
(***************************************************************************)
EXTENDS MinimalAsyncEP, FiniteSetTheorems, WellFoundedInduction, TLAPS

-------------------------------------------------------------------------------
(* Induction.                                                              *)

(* A set of naturals that is not empty has a least element: induction over *)
(* data is this lemma applied to the set of counterexamples.               *)
LEMMA LeastNatural ==
  ASSUME NEW T \in SUBSET Nat, T # {}
  PROVE  \E n \in T : \A m \in T : n <= m
<1>1. IsWellFoundedOn(OpToRel(<, Nat), Nat)
  BY NatLessThanWellFounded
<1>2. \E x \in T : \A y \in T : ~(<<y, x>> \in OpToRel(<, Nat))
  BY <1>1, WFMin
<1>3. \A x, y \in T : ~(<<y, x>> \in OpToRel(<, Nat)) => x <= y
  BY DEF OpToRel
<1> QED
  BY <1>2, <1>3

(* A family of finite sets that is not empty has a smallest member.        *)
LEMMA SmallestSet ==
  ASSUME NEW F, F # {}, \A S \in F : IsFiniteSet(S)
  PROVE  \E S \in F : \A T \in F : Cardinality(S) <= Cardinality(T)
<1> DEFINE sizes == {n \in Nat : \E S \in F : Cardinality(S) = n}
<1>1. \A S \in F : Cardinality(S) \in sizes
  BY FS_CardinalityType
<1>2. sizes \in SUBSET Nat /\ sizes # {}
  BY <1>1
<1>3. PICK n \in sizes : \A m \in sizes : n <= m
  <2> HIDE DEF sizes
  <2> QED BY <1>2, LeastNatural
<1> QED
  BY <1>1, <1>3

-------------------------------------------------------------------------------
(* Sums.                                                                   *)

Pick(S) == CHOOSE x \in S : TRUE

(* A function that gives the sum of f over each set of a family.           *)
Summing(f, g, F) ==
  /\ DOMAIN g = F
  /\ \A T \in F : g[T] = IF T = {} THEN 0 ELSE f[Pick(T)] + g[T \ {Pick(T)}]

(* The element that a fold takes is one of the set.                        *)
LEMMA PickFrom ==
  ASSUME NEW S, S # {}
  PROVE  Pick(S) \in S
BY DEF Pick

(* Removing an element from a finite set leaves one less.                  *)
LEMMA OneLess ==
  ASSUME NEW S, IsFiniteSet(S), NEW x \in S
  PROVE  /\ IsFiniteSet(S \ {x})
         /\ Cardinality(S) \in Nat /\ Cardinality(S \ {x}) \in Nat
         /\ Cardinality(S \ {x}) = Cardinality(S) - 1
BY FS_RemoveElement, FS_CardinalityType

Small(S, n) == {T \in SUBSET S : Cardinality(T) <= n}

(* The recursion that defines a sum has a solution.                        *)
LEMMA SummingExtends ==
  ASSUME NEW S, IsFiniteSet(S), NEW f, NEW n \in Nat, NEW g, Summing(f, g, Small(S, n))
  PROVE  \E h : Summing(f, h, Small(S, n + 1))
<1> DEFINE h == [T \in Small(S, n + 1) |->
                  IF T = {} THEN 0 ELSE f[Pick(T)] + g[T \ {Pick(T)}]]
<1>1. ASSUME NEW T \in SUBSET S PROVE IsFiniteSet(T) /\ Cardinality(T) \in Nat
  BY FS_Subset, FS_CardinalityType
<1>2. ASSUME NEW T \in Small(S, n + 1), T # {}
      PROVE  T \ {Pick(T)} \in Small(S, n)
  <2>1. T \in SUBSET S /\ Cardinality(T) <= n + 1 /\ IsFiniteSet(T)
    BY <1>1, <1>2 DEF Small
  <2>2. Pick(T) \in T
    BY <1>2, PickFrom
  <2>3. Cardinality(T \ {Pick(T)}) = Cardinality(T) - 1 /\ Cardinality(T) \in Nat
    BY <2>1, <2>2, OneLess
  <2> QED
    BY <2>1, <2>3 DEF Small
<1>3. \A T \in Small(S, n) : h[T] = g[T] /\ T \in Small(S, n + 1)
  <2> SUFFICES ASSUME NEW T \in Small(S, n) PROVE h[T] = g[T] /\ T \in Small(S, n + 1)
    OBVIOUS
  <2>1. T \in Small(S, n + 1)
    BY <1>1 DEF Small
  <2> QED
    BY <2>1 DEF Summing
<1>4. ASSUME NEW T \in Small(S, n + 1)
      PROVE  h[T] = IF T = {} THEN 0 ELSE f[Pick(T)] + h[T \ {Pick(T)}]
  BY <1>2, <1>3, <1>4
<1>5. Summing(f, h, Small(S, n + 1))
  <2> DOMAIN h = Small(S, n + 1)
    OBVIOUS
  <2> HIDE DEF h
  <2> QED BY <1>4 DEF Summing
<1> QED
  BY <1>5

(* So there is one for all subsets of a finite set.                        *)
LEMMA SummingExists ==
  ASSUME NEW S, IsFiniteSet(S), NEW f
  PROVE  \E g : Summing(f, g, SUBSET S)
<1> DEFINE Bad == {n \in Nat : ~\E g : Summing(f, g, Small(S, n))}
<1>1. Bad = {}
  <2> SUFFICES ASSUME Bad # {} PROVE FALSE
    OBVIOUS
  <2>1. PICK n \in Bad : \A m \in Bad : n <= m
    <3>1. Bad \in SUBSET Nat
      OBVIOUS
    <3> HIDE DEF Bad
    <3> QED BY <3>1, LeastNatural
  <2>2. CASE n = 0
    <3> DEFINE g == [T \in Small(S, 0) |-> 0]
    <3>1. \A T \in Small(S, 0) : T = {}
      <4> SUFFICES ASSUME NEW T \in Small(S, 0) PROVE T = {}
        OBVIOUS
      <4>1. IsFiniteSet(T) /\ Cardinality(T) <= 0
        BY FS_Subset DEF Small
      <4>2. Cardinality(T) \in Nat
        BY <4>1, FS_CardinalityType
      <4>3. Cardinality(T) = 0
        BY <4>1, <4>2
      <4> QED
        BY <4>1, <4>3, FS_EmptySet
    <3>2. Summing(f, g, Small(S, 0))
      BY <3>1 DEF Summing
    <3> QED
      BY <2>2, <3>2
  <2>3. CASE n # 0
    <3>1. n - 1 \in Nat /\ n - 1 \notin Bad
      BY <2>1, <2>3
    <3>2. PICK g : Summing(f, g, Small(S, n - 1))
      BY <3>1
    <3>3. \E h : Summing(f, h, Small(S, n - 1 + 1))
      BY <3>1, <3>2, SummingExtends
    <3>4. n - 1 + 1 = n
      OBVIOUS
    <3> QED
      BY <3>3, <3>4
  <2> QED
    BY <2>2, <2>3
<1>2. Cardinality(S) \in Nat
  BY FS_CardinalityType
<1>3. Small(S, Cardinality(S)) = SUBSET S
  <2>1. \A T \in SUBSET S : Cardinality(T) <= Cardinality(S)
    BY FS_Subset
  <2> QED
    BY <2>1 DEF Small
<1>4. \E g : Summing(f, g, Small(S, Cardinality(S)))
  BY <1>1, <1>2
<1> QED
  BY <1>3, <1>4

(* The definition of the sum, and that it is a solution.                   *)
LEMMA SumSolves ==
  ASSUME NEW S, IsFiniteSet(S), NEW f
  PROVE  \E g : Summing(f, g, SUBSET S) /\ SumFunctionOnSet(f, S) = g[S]
<1> DEFINE Iter(g) == g = [T \in SUBSET S |->
      IF T = {} THEN 0 ELSE f[CHOOSE x \in T : TRUE] + g[T \ {CHOOSE x \in T : TRUE}]]
           sum == CHOOSE g : Iter(g)
<1>1. SumFunctionOnSet(f, S) = sum[S]
  BY DEF SumFunctionOnSet, FoldFunctionOnSet, MapThenFoldSet
<1>2. PICK g : Summing(f, g, SUBSET S)
  BY SummingExists
<1>3. Iter([T \in SUBSET S |-> g[T]])
  <2> DEFINE h == [T \in SUBSET S |-> g[T]]
  <2>1. ASSUME NEW T \in SUBSET S
        PROVE  h[T] = IF T = {} THEN 0 ELSE f[Pick(T)] + h[T \ {Pick(T)}]
    BY <1>2 DEF Summing
  <2>2. h = [T \in SUBSET S |-> IF T = {} THEN 0 ELSE f[Pick(T)] + h[T \ {Pick(T)}]]
    BY <2>1
  <2> QED
    BY <2>2 DEF Pick
<1>4. Iter(sum)
  <2>1. \E h : Iter(h)
    BY <1>3
  <2> HIDE DEF Iter
  <2> QED BY <2>1
<1>5. Summing(f, sum, SUBSET S)
  <2> HIDE DEF sum
  <2>1. sum = [T \in SUBSET S |-> IF T = {} THEN 0 ELSE f[Pick(T)] + sum[T \ {Pick(T)}]]
    BY <1>4 DEF Pick
  <2>2. DOMAIN sum = SUBSET S
    BY <2>1
  <2>3. ASSUME NEW T \in SUBSET S
        PROVE  sum[T] = IF T = {} THEN 0 ELSE f[Pick(T)] + sum[T \ {Pick(T)}]
    BY <2>1
  <2> QED
    BY <2>2, <2>3 DEF Summing
<1> HIDE DEF sum
<1> QED
  BY <1>1, <1>5

(* Solutions agree wherever both are defined.                              *)
LEMMA SummingUnique ==
  ASSUME NEW S, IsFiniteSet(S), NEW R, IsFiniteSet(R), NEW f, NEW g, NEW h,
         Summing(f, g, SUBSET S), Summing(f, h, SUBSET R), R \subseteq S
  PROVE  \A T \in SUBSET R : g[T] = h[T]
<1> DEFINE Bad == {T \in SUBSET R : g[T] # h[T]}
<1> SUFFICES ASSUME Bad # {} PROVE FALSE
  OBVIOUS
<1>1. \A T \in Bad : IsFiniteSet(T)
  BY FS_Subset
<1>2. PICK T \in Bad : \A U \in Bad : Cardinality(T) <= Cardinality(U)
  <2> HIDE DEF Bad
  <2> QED BY <1>1, SmallestSet
<1>3. T \in SUBSET R /\ T \in SUBSET S /\ g[T] # h[T]
  OBVIOUS
<1>4. T # {}
  BY <1>3 DEF Summing
<1>5. Pick(T) \in T
  BY <1>4, PickFrom
<1>6. T \ {Pick(T)} \notin Bad
  <2> HIDE DEF Bad
  <2>1. Cardinality(T \ {Pick(T)}) = Cardinality(T) - 1 /\ Cardinality(T) \in Nat
    BY <1>1, <1>5, OneLess
  <2> QED
    BY <1>2, <2>1
<1>7. g[T \ {Pick(T)}] = h[T \ {Pick(T)}]
  BY <1>3, <1>6
<1> QED
  BY <1>3, <1>4, <1>7 DEF Summing

(* The sum over no element is zero.                                        *)
LEMMA SumOfNone ==
  ASSUME NEW f
  PROVE  SumFunctionOnSet(f, {}) = 0
<1>1. PICK g : Summing(f, g, SUBSET {}) /\ SumFunctionOnSet(f, {}) = g[{}]
  BY SumSolves, FS_EmptySet
<1> QED
  BY <1>1 DEF Summing

(* A sum is the element a fold takes first and the sum over the rest.      *)
LEMMA SumWithoutPick ==
  ASSUME NEW S, IsFiniteSet(S), S # {}, NEW f
  PROVE  SumFunctionOnSet(f, S) = f[Pick(S)] + SumFunctionOnSet(f, S \ {Pick(S)})
<1>1. PICK g : Summing(f, g, SUBSET S) /\ SumFunctionOnSet(f, S) = g[S]
  BY SumSolves
<1> DEFINE R == S \ {Pick(S)}
<1>2. IsFiniteSet(R) /\ R \subseteq S
  BY PickFrom, OneLess
<1>3. PICK h : Summing(f, h, SUBSET R) /\ SumFunctionOnSet(f, R) = h[R]
  BY <1>2, SumSolves
<1>4. g[R] = h[R]
  <2> HIDE DEF R
  <2>1. Summing(f, g, SUBSET S) /\ Summing(f, h, SUBSET R)
    BY <1>1, <1>3
  <2>2. \A T \in SUBSET R : g[T] = h[T]
    BY <1>2, <2>1, SummingUnique
  <2> QED BY <2>2
<1> QED
  BY <1>1, <1>3, <1>4 DEF Summing

(* A sum of naturals is a natural.                                         *)
LEMMA SumType ==
  ASSUME NEW S, IsFiniteSet(S), NEW f, \A x \in S : f[x] \in Nat
  PROVE  SumFunctionOnSet(f, S) \in Nat
<1> DEFINE Bad == {T \in SUBSET S : SumFunctionOnSet(f, T) \notin Nat}
<1> SUFFICES ASSUME Bad # {} PROVE FALSE
  OBVIOUS
<1>1. \A T \in Bad : IsFiniteSet(T)
  BY FS_Subset
<1>2. PICK T \in Bad : \A U \in Bad : Cardinality(T) <= Cardinality(U)
  <2> HIDE DEF Bad
  <2> QED BY <1>1, SmallestSet
<1>3. T \in SUBSET S /\ SumFunctionOnSet(f, T) \notin Nat
  OBVIOUS
<1>4. T # {}
  BY <1>3, SumOfNone
<1>5. Pick(T) \in T
  BY <1>4, PickFrom
<1>6. T \ {Pick(T)} \notin Bad
  <2> HIDE DEF Bad
  <2>1. Cardinality(T \ {Pick(T)}) = Cardinality(T) - 1 /\ Cardinality(T) \in Nat
    BY <1>1, <1>5, OneLess
  <2> QED
    BY <1>2, <2>1
<1>7. SumFunctionOnSet(f, T \ {Pick(T)}) \in Nat
  BY <1>3, <1>6
<1>8. SumFunctionOnSet(f, T) = f[Pick(T)] + SumFunctionOnSet(f, T \ {Pick(T)})
  BY <1>1, <1>4, SumWithoutPick
<1> QED
  BY <1>3, <1>5, <1>7, <1>8

(* Any element may be taken out first.                                     *)
LEMMA SumWithout ==
  ASSUME NEW S, IsFiniteSet(S), NEW f, \A x \in S : f[x] \in Nat, NEW x \in S
  PROVE  SumFunctionOnSet(f, S) = f[x] + SumFunctionOnSet(f, S \ {x})
<1> DEFINE Sum(T) == SumFunctionOnSet(f, T)
           Bad == {T \in SUBSET S : \E y \in T : Sum(T) # f[y] + Sum(T \ {y})}
<1> SUFFICES ASSUME Bad # {} PROVE FALSE
  OBVIOUS
<1>1. \A T \in SUBSET S : IsFiniteSet(T) /\ Sum(T) \in Nat
  <2> SUFFICES ASSUME NEW T \in SUBSET S PROVE IsFiniteSet(T) /\ Sum(T) \in Nat
    OBVIOUS
  <2>1. IsFiniteSet(T)
    BY FS_Subset
  <2> QED
    BY <2>1, SumType
<1>2. PICK T \in Bad : \A U \in Bad : Cardinality(T) <= Cardinality(U)
  <2> HIDE DEF Bad, Sum
  <2>1. \A U \in Bad : IsFiniteSet(U)
    BY <1>1 DEF Bad
  <2> QED BY <2>1, SmallestSet
<1>3. PICK y \in T : Sum(T) # f[y] + Sum(T \ {y})
  OBVIOUS
<1> DEFINE p == Pick(T)
<1>4. T \in SUBSET S /\ IsFiniteSet(T) /\ p \in T
  BY <1>1, <1>3, PickFrom
<1>5. Sum(T) = f[p] + Sum(T \ {p})
  BY <1>3, <1>4, SumWithoutPick
<1>6. p # y
  BY <1>3, <1>5
<1>7. \A z \in T : T \ {z} \notin Bad /\ T \ {z} \in SUBSET S
  <2> SUFFICES ASSUME NEW z \in T PROVE T \ {z} \notin Bad /\ T \ {z} \in SUBSET S
    OBVIOUS
  <2>1. Cardinality(T \ {z}) = Cardinality(T) - 1 /\ Cardinality(T) \in Nat
    BY <1>4, OneLess
  <2>2. T \ {z} \notin Bad
    <3> HIDE DEF Bad
    <3> QED BY <1>2, <2>1
  <2> QED
    BY <1>4, <2>2
<1>8. Sum(T \ {p}) = f[y] + Sum((T \ {p}) \ {y})
  <2>1. y \in T \ {p}
    BY <1>3, <1>6
  <2> HIDE DEF Sum
  <2> QED BY <1>4, <1>7, <2>1
<1>9. Sum(T \ {y}) = f[p] + Sum((T \ {y}) \ {p})
  <2>1. p \in T \ {y}
    BY <1>4, <1>6
  <2> HIDE DEF Sum, p
  <2> QED BY <1>3, <1>7, <2>1
<1>10. (T \ {p}) \ {y} = (T \ {y}) \ {p} /\ (T \ {p}) \ {y} \in SUBSET S
  BY <1>4
<1>11. f[y] \in Nat /\ f[p] \in Nat /\ Sum((T \ {p}) \ {y}) \in Nat
  <2> HIDE DEF Sum
  <2> QED BY <1>1, <1>3, <1>4, <1>10
<1> HIDE DEF Sum, p, Bad
<1> QED
  BY <1>3, <1>5, <1>8, <1>9, <1>10, <1>11

(* Only what is summed matters.                                            *)
LEMMA SumCongruence ==
  ASSUME NEW S, IsFiniteSet(S), NEW f, NEW g, \A x \in S : f[x] = g[x]
  PROVE  SumFunctionOnSet(f, S) = SumFunctionOnSet(g, S)
<1> DEFINE Bad == {T \in SUBSET S : SumFunctionOnSet(f, T) # SumFunctionOnSet(g, T)}
<1> SUFFICES ASSUME Bad # {} PROVE FALSE
  OBVIOUS
<1>1. \A T \in Bad : IsFiniteSet(T)
  BY FS_Subset
<1>2. PICK T \in Bad : \A U \in Bad : Cardinality(T) <= Cardinality(U)
  <2> HIDE DEF Bad
  <2> QED BY <1>1, SmallestSet
<1>3. T \in SUBSET S /\ SumFunctionOnSet(f, T) # SumFunctionOnSet(g, T)
  OBVIOUS
<1>4. T # {}
  BY <1>3, SumOfNone
<1>5. Pick(T) \in T
  BY <1>4, PickFrom
<1>6. T \ {Pick(T)} \notin Bad
  <2> HIDE DEF Bad
  <2>1. Cardinality(T \ {Pick(T)}) = Cardinality(T) - 1 /\ Cardinality(T) \in Nat
    BY <1>1, <1>5, OneLess
  <2> QED
    BY <1>2, <2>1
<1>7. SumFunctionOnSet(f, T \ {Pick(T)}) = SumFunctionOnSet(g, T \ {Pick(T)})
  BY <1>3, <1>6
<1>8. /\ SumFunctionOnSet(f, T) = f[Pick(T)] + SumFunctionOnSet(f, T \ {Pick(T)})
      /\ SumFunctionOnSet(g, T) = g[Pick(T)] + SumFunctionOnSet(g, T \ {Pick(T)})
  BY <1>1, <1>4, SumWithoutPick
<1> QED
  BY <1>3, <1>5, <1>7, <1>8

(* The sum over two disjoint sets.                                         *)
LEMMA SumUnion ==
  ASSUME NEW S, IsFiniteSet(S), NEW R, IsFiniteSet(R), S \cap R = {},
         NEW f, \A x \in S \cup R : f[x] \in Nat
  PROVE  SumFunctionOnSet(f, S \cup R) = SumFunctionOnSet(f, S) + SumFunctionOnSet(f, R)
<1> DEFINE Sum(T) == SumFunctionOnSet(f, T)
           Bad == {T \in SUBSET R : Sum(S \cup T) # Sum(S) + Sum(T)}
<1> SUFFICES ASSUME Bad # {} PROVE FALSE
  OBVIOUS
<1>1. \A T \in SUBSET R : IsFiniteSet(T) /\ IsFiniteSet(S \cup T) /\ Sum(T) \in Nat
  <2> SUFFICES ASSUME NEW T \in SUBSET R
               PROVE  IsFiniteSet(T) /\ IsFiniteSet(S \cup T) /\ Sum(T) \in Nat
    OBVIOUS
  <2>1. IsFiniteSet(T)
    BY FS_Subset
  <2> QED
    BY <2>1, FS_Union, SumType
<1>2. PICK T \in Bad : \A U \in Bad : Cardinality(T) <= Cardinality(U)
  <2> HIDE DEF Bad, Sum
  <2>1. \A U \in Bad : IsFiniteSet(U)
    BY <1>1 DEF Bad
  <2> QED BY <2>1, SmallestSet
<1>3. T \in SUBSET R /\ Sum(S \cup T) # Sum(S) + Sum(T)
  OBVIOUS
<1>4. Sum(S) \in Nat
  BY SumType
<1>5. T # {}
  <2>1. CASE T = {}
    <3>1. Sum(T) = 0 /\ S \cup T = S
      BY <2>1, SumOfNone
    <3> HIDE DEF Sum, Bad
    <3> QED BY <1>3, <1>4, <2>1, <3>1
  <2> QED
    BY <2>1
<1> DEFINE p == Pick(T)
<1>6. p \in T
  BY <1>5, PickFrom
<1>7. T \ {p} \notin Bad /\ T \ {p} \in SUBSET R
  <2>1. Cardinality(T \ {p}) = Cardinality(T) - 1 /\ Cardinality(T) \in Nat
    BY <1>1, <1>3, <1>6, OneLess
  <2>2. T \ {p} \notin Bad
    <3> HIDE DEF Bad
    <3> QED BY <1>2, <2>1
  <2> QED
    BY <1>3, <2>2
<1>8. Sum(S \cup (T \ {p})) = Sum(S) + Sum(T \ {p})
  <2> HIDE DEF Sum
  <2> QED BY <1>7
<1>9. Sum(T) = f[p] + Sum(T \ {p})
  BY <1>1, <1>3, <1>5, SumWithoutPick
<1>10. Sum(S \cup T) = f[p] + Sum((S \cup T) \ {p})
  <2>1. p \in S \cup T /\ IsFiniteSet(S \cup T) /\ \A x \in S \cup T : f[x] \in Nat
    BY <1>1, <1>3, <1>6
  <2> HIDE DEF p
  <2> QED BY <2>1, SumWithout
<1>11. Sum((S \cup T) \ {p}) = Sum(S \cup (T \ {p}))
  <2>1. (S \cup T) \ {p} = S \cup (T \ {p})
    BY <1>3, <1>6
  <2> HIDE DEF Sum, p
  <2> QED BY <2>1
<1>12. f[p] \in Nat /\ Sum(T \ {p}) \in Nat
  <2> HIDE DEF Sum
  <2> QED BY <1>1, <1>3, <1>6, <1>7
<1> HIDE DEF Sum, p, Bad
<1> QED
  BY <1>3, <1>4, <1>8, <1>9, <1>10, <1>11, <1>12

(* A part is summed to no more than the whole.                             *)
LEMMA SumOfPart ==
  ASSUME NEW S, IsFiniteSet(S), NEW R \in SUBSET S, NEW f, \A x \in S : f[x] \in Nat
  PROVE  SumFunctionOnSet(f, R) <= SumFunctionOnSet(f, S)
<1>1. IsFiniteSet(R) /\ IsFiniteSet(S \ R)
  BY FS_Subset, FS_Difference
<1>2. S = R \cup (S \ R) /\ R \cap (S \ R) = {}
  OBVIOUS
<1>3. SumFunctionOnSet(f, S) = SumFunctionOnSet(f, R) + SumFunctionOnSet(f, S \ R)
  BY <1>1, <1>2, SumUnion
<1>4. SumFunctionOnSet(f, R) \in Nat /\ SumFunctionOnSet(f, S \ R) \in Nat
  BY <1>1, SumType
<1> QED
  BY <1>3, <1>4

(* Counting the elements of a set by what h gives them.                    *)
LEMMA CountBy ==
  ASSUME NEW D, IsFiniteSet(D), NEW h, NEW S, IsFiniteSet(S), NEW f,
         \A x \in S : f[x] = Cardinality({d \in D : h[d] = x})
  PROVE  Cardinality({d \in D : h[d] \in S}) = SumFunctionOnSet(f, S)
<1> DEFINE Of(T) == {d \in D : h[d] \in T}
           Bad == {T \in SUBSET S : Cardinality(Of(T)) # SumFunctionOnSet(f, T)}
<1> SUFFICES ASSUME Bad # {} PROVE FALSE
  OBVIOUS
<1>1. \A T \in Bad : IsFiniteSet(T)
  BY FS_Subset
<1>2. PICK T \in Bad : \A U \in Bad : Cardinality(T) <= Cardinality(U)
  <2> HIDE DEF Bad
  <2> QED BY <1>1, SmallestSet
<1>3. T \in SUBSET S /\ Cardinality(Of(T)) # SumFunctionOnSet(f, T)
  OBVIOUS
<1>4. T # {}
  <2>1. CASE T = {}
    <3>1. Of(T) = {}
      BY <2>1
    <3> QED
      BY <1>3, <2>1, <3>1, SumOfNone, FS_EmptySet
  <2> QED
    BY <2>1
<1> DEFINE p == Pick(T)
<1>5. p \in T /\ p \in S
  BY <1>3, <1>4, PickFrom
<1>6. T \ {p} \notin Bad
  <2> HIDE DEF Bad
  <2>1. Cardinality(T \ {p}) = Cardinality(T) - 1 /\ Cardinality(T) \in Nat
    BY <1>1, <1>5, OneLess
  <2> QED
    BY <1>2, <2>1
<1>7. Cardinality(Of(T \ {p})) = SumFunctionOnSet(f, T \ {p})
  BY <1>3, <1>6
<1>8. SumFunctionOnSet(f, T) = f[p] + SumFunctionOnSet(f, T \ {p})
  BY <1>1, <1>4, SumWithoutPick
<1> DEFINE here == {d \in D : h[d] = p}
<1>9. IsFiniteSet(here) /\ IsFiniteSet(Of(T \ {p}))
  BY FS_Subset
<1>10. Of(T) = here \cup Of(T \ {p}) /\ here \cap Of(T \ {p}) = {}
  BY <1>5
<1>11. Cardinality(Of(T)) = Cardinality(here) + Cardinality(Of(T \ {p})) - Cardinality({})
  <2> HIDE DEF here, Of
  <2>1. Cardinality(here \cup Of(T \ {p}))
          = Cardinality(here) + Cardinality(Of(T \ {p})) - Cardinality(here \cap Of(T \ {p}))
    BY <1>9, FS_Union
  <2> QED BY <1>10, <2>1
<1>12. Cardinality(here) \in Nat /\ Cardinality(Of(T \ {p})) \in Nat
  BY <1>9, FS_CardinalityType
<1>13. f[p] = Cardinality(here)
  BY <1>5
<1> HIDE DEF here, Of, p
<1> QED
  BY <1>3, <1>7, <1>8, <1>11, <1>12, <1>13, FS_EmptySet

Experts == 0..NumExperts - 1

(* What the constants say about the setup.                                 *)
LEMMA SetupFacts ==
  ASSUME setup \in Setups
  PROVE  /\ setup.numLocalExperts \in Nat \ {0}
         /\ EpSize \in Nat \ {0} /\ IsFiniteSet(Ranks) /\ Ranks = 0..EpSize - 1
         /\ NumExperts \in Nat /\ NumExperts = EpSize * setup.numLocalExperts
         /\ IsFiniteSet(Experts)
<1> DEFINE ranks == DOMAIN setup.topkExpertIds[1]
<1>1. setup.numLocalExperts \in Nat \ {0} /\ Counted(ranks) /\ ranks # {}
  BY SetupsAssumption
<1>2. Ranks = ranks /\ EpSize = Cardinality(ranks)
  BY DEF Ranks, EpSize
<1>3. IsFiniteSet(Ranks) /\ Ranks = 0..EpSize - 1 /\ Ranks # {}
  BY <1>1, <1>2 DEF Counted
<1>4. EpSize \in Nat
  BY <1>3, FS_CardinalityType DEF EpSize
<1>5. EpSize # 0
  BY <1>3, <1>4
<1>6. NumExperts = EpSize * setup.numLocalExperts
  BY DEF NumExperts
<1>7. NumExperts \in Nat
  BY <1>1, <1>4, <1>6
<1>8. IsFiniteSet(Experts)
  BY <1>7, FS_Interval DEF Experts
<1> QED
  BY <1>1, <1>3, <1>4, <1>5, <1>6, <1>7, <1>8

(* A rank's slots count from 0 and each has an expert.                     *)
LEMMA SlotFacts ==
  ASSUME setup \in Setups, NEW layer \in 1..NumLayers, NEW r \in Ranks
  PROVE  /\ IsFiniteSet(Slots(r, layer)) /\ Cardinality(Slots(r, layer)) \in Nat
         /\ Slots(r, layer) = 0..Cardinality(Slots(r, layer)) - 1
         /\ TopkIds(r, layer) \in [Slots(r, layer) -> Experts]
<1> DEFINE ids == setup.topkExpertIds[layer][r]
<1>1. /\ Counted(DOMAIN ids)
      /\ ids \in [DOMAIN ids ->
                   0..Cardinality(DOMAIN setup.topkExpertIds[1]) * setup.numLocalExperts - 1]
  BY SetupsAssumption DEF Ranks
<1>2. TopkIds(r, layer) = ids /\ Slots(r, layer) = DOMAIN ids
  BY DEF TopkIds, Slots
<1>3. Experts = 0..Cardinality(DOMAIN setup.topkExpertIds[1]) * setup.numLocalExperts - 1
  BY DEF Experts, NumExperts, EpSize, Ranks
<1> HIDE DEF ids
<1> QED
  BY <1>1, <1>2, <1>3, FS_CardinalityType DEF Counted

(* Every expert belongs to a rank.                                         *)
LEMMA DstRankInRanks ==
  ASSUME setup \in Setups, NEW x \in Experts
  PROVE  DstRank(x) \in Ranks /\ x \in LocalExperts(DstRank(x))
<1> DEFINE m == setup.numLocalExperts
           n == EpSize
           d == x \div m
<1>1. m \in Nat \ {0} /\ n \in Nat \ {0} /\ Ranks = 0..n - 1 /\ x \in 0..n * m - 1
  BY SetupFacts DEF Experts
<1>2. d \in Int /\ m * d <= x /\ x < m * (d + 1)
  <2>1. m \in Nat /\ m > 0 /\ x \in Int
    BY <1>1
  <2> HIDE DEF m
  <2> QED BY <2>1, Z3
<1>3. d >= 0
  <2>1. CASE d < 0
    <3>1. d + 1 <= 0
      BY <1>2, <2>1
    <3>2. m * (d + 1) <= 0
      <4> HIDE DEF m, d
      <4> QED BY <1>1, <1>2, <3>1, Z3
    <3> QED
      BY <1>1, <1>2, <3>2
  <2> QED
    BY <1>2, <2>1
<1>4. d < n
  <2>1. CASE d >= n
    <3>1. m * d >= n * m
      <4> HIDE DEF m, d, n
      <4> QED BY <1>1, <1>2, <2>1, Z3
    <3> QED
      BY <1>1, <1>2, <3>1
  <2> QED
    BY <1>1, <1>2, <2>1
<1> QED
  BY <1>1, <1>2, <1>3, <1>4 DEF DstRank, LocalExperts, Experts

-------------------------------------------------------------------------------
(* Counts and the starts of segments.                                      *)

IsCounts(c) ==
  \A r \in Ranks : \A x \in Experts : c[r][x] \in Nat

(* The slots of a rank that chose an expert.                               *)
Choosing(r, layer, x) == {s \in Slots(r, layer) : TopkIds(r, layer)[s] = x}

(* What every rank has to know of a layer's routing.                       *)
AllCounts(layer) == [r \in Ranks |-> LocalCounts(r, layer)]

(* The counts are the numbers of slots that chose each expert.             *)
LEMMA CountsOfLayer ==
  ASSUME setup \in Setups, NEW layer \in 1..NumLayers
  PROVE  /\ IsCounts(AllCounts(layer))
         /\ \A r \in Ranks : \A x \in Experts :
              /\ IsFiniteSet(Choosing(r, layer, x))
              /\ AllCounts(layer)[r][x] = Cardinality(Choosing(r, layer, x))
<1> SUFFICES ASSUME NEW r \in Ranks, NEW x \in Experts
             PROVE  /\ IsFiniteSet(Choosing(r, layer, x))
                    /\ AllCounts(layer)[r][x] = Cardinality(Choosing(r, layer, x))
                    /\ AllCounts(layer)[r][x] \in Nat
  BY DEF IsCounts
<1>1. IsFiniteSet(Choosing(r, layer, x))
  BY SlotFacts, FS_Subset DEF Choosing
<1>2. AllCounts(layer)[r][x] = Cardinality(Choosing(r, layer, x))
  BY DEF AllCounts, LocalCounts, Choosing, Experts
<1> QED
  BY <1>1, <1>2, FS_CardinalityType

Column(c, x) == [s \in Ranks |-> c[s][x]]
Totals(c) == [x \in Experts |-> Total(c, x)]

(* The rows that some of the ranks send to an expert.                      *)
LEMMA FromSourcesIsSum ==
  ASSUME setup \in Setups, NEW c, NEW x, NEW sources \in SUBSET Ranks
  PROVE  FromSources(c, sources, x) = SumFunctionOnSet(Column(c, x), sources)
<1> DEFINE f == [s \in sources |-> c[s][x]]
<1>1. IsFiniteSet(sources)
  BY SetupFacts, FS_Subset
<1>2. \A s \in sources : f[s] = Column(c, x)[s]
  BY DEF Column
<1>3. FromSources(c, sources, x) = SumFunctionOnSet(f, sources)
  BY DEF FromSources, SumFunction
<1> HIDE DEF f
<1> QED
  BY <1>1, <1>2, <1>3, SumCongruence

EarlierSources(r) == {s \in Ranks : s < r}
EarlierExperts(x) == {y \in LocalExperts(DstRank(x)) : y < x}

(* Sums of counts are natural numbers.                                     *)
LEMMA FromSourcesType ==
  ASSUME setup \in Setups, NEW c, IsCounts(c), NEW x \in Experts, NEW sources \in SUBSET Ranks
  PROVE  FromSources(c, sources, x) \in Nat
<1>1. IsFiniteSet(sources) /\ \A s \in sources : Column(c, x)[s] \in Nat
  BY SetupFacts, FS_Subset DEF Column, IsCounts
<1> QED
  BY <1>1, FromSourcesIsSum, SumType

(* The segments of an expert's sources follow each other within its group. *)
LEMMA SourcesInOrder ==
  ASSUME setup \in Setups, NEW c, IsCounts(c), NEW x \in Experts,
         NEW p \in Ranks, NEW sources \in SUBSET Ranks,
         p \notin EarlierSources(p), EarlierSources(p) \cup {p} \subseteq sources
  PROVE  FromSources(c, EarlierSources(p), x) + c[p][x] <= FromSources(c, sources, x)
<1> DEFINE f == Column(c, x)
           upTo == EarlierSources(p) \cup {p}
<1>1. IsFiniteSet(sources) /\ IsFiniteSet(upTo) /\ IsFiniteSet(EarlierSources(p))
  BY SetupFacts, FS_Subset DEF EarlierSources
<1>2. \A s \in Ranks : f[s] \in Nat
  BY DEF Column, IsCounts
<1>3. \A s \in sources : f[s] \in Nat
  BY <1>2
<1>4. upTo \in SUBSET sources /\ upTo \subseteq Ranks /\ p \in upTo
      /\ upTo \ {p} = EarlierSources(p) /\ EarlierSources(p) \in SUBSET Ranks
  BY DEF EarlierSources
<1>5. \A s \in upTo : f[s] \in Nat
  BY <1>2, <1>4
<1> HIDE DEF upTo, f
<1>6. SumFunctionOnSet(f, upTo) <= SumFunctionOnSet(f, sources)
  BY <1>1, <1>3, <1>4, SumOfPart
<1>7. SumFunctionOnSet(f, upTo) = f[p] + SumFunctionOnSet(f, upTo \ {p})
  BY <1>1, <1>4, <1>5, SumWithout
<1>8. /\ FromSources(c, EarlierSources(p), x) = SumFunctionOnSet(f, EarlierSources(p))
      /\ FromSources(c, sources, x) = SumFunctionOnSet(f, sources)
  BY <1>4, FromSourcesIsSum DEF f
<1>9. /\ FromSources(c, EarlierSources(p), x) \in Nat
      /\ FromSources(c, sources, x) \in Nat
      /\ f[p] = c[p][x] /\ f[p] \in Nat
  BY <1>2, <1>4, FromSourcesType DEF f, Column
<1> QED
  BY <1>4, <1>6, <1>7, <1>8, <1>9

(* A group starts after the groups of the earlier experts of its rank.     *)
LEMMA ExpertStartIsSum ==
  ASSUME setup \in Setups, NEW c, NEW x \in Experts
  PROVE  /\ ExpertStart(c, x) = SumFunctionOnSet(Totals(c), EarlierExperts(x))
         /\ IsFiniteSet(EarlierExperts(x)) /\ EarlierExperts(x) \subseteq Experts
<1> DEFINE f == [y \in EarlierExperts(x) |-> Total(c, y)]
<1>1. EarlierExperts(x) \subseteq Experts
  BY DEF EarlierExperts, LocalExperts, Experts
<1>2. IsFiniteSet(EarlierExperts(x))
  BY <1>1, SetupFacts, FS_Subset
<1>3. \A y \in EarlierExperts(x) : f[y] = Totals(c)[y]
  BY <1>1 DEF Totals
<1>4. ExpertStart(c, x) = SumFunctionOnSet(f, EarlierExperts(x))
  BY DEF ExpertStart, SumFunction, EarlierExperts
<1> HIDE DEF f
<1> QED
  BY <1>1, <1>2, <1>3, <1>4, SumCongruence

(* The size of a group is a natural number.                                *)
LEMMA TotalType ==
  ASSUME setup \in Setups, NEW c, IsCounts(c)
  PROVE  \A x \in Experts : Total(c, x) \in Nat /\ Totals(c)[x] = Total(c, x)
BY FromSourcesType DEF Total, Totals

(* The start of a group is a natural number.                               *)
LEMMA ExpertStartType ==
  ASSUME setup \in Setups, NEW c, IsCounts(c), NEW x \in Experts
  PROVE  ExpertStart(c, x) \in Nat
BY ExpertStartIsSum, TotalType, SumType

(* The groups of a rank's experts follow each other.                       *)
LEMMA ExpertsInOrder ==
  ASSUME setup \in Setups, NEW c, IsCounts(c), NEW x \in Experts, NEW y \in Experts,
         DstRank(x) = DstRank(y), x < y
  PROVE  ExpertStart(c, x) + Total(c, x) <= ExpertStart(c, y)
<1> DEFINE f == Totals(c)
           upTo == EarlierExperts(x) \cup {x}
<1>1. /\ IsFiniteSet(EarlierExperts(x)) /\ EarlierExperts(x) \subseteq Experts
      /\ IsFiniteSet(EarlierExperts(y)) /\ EarlierExperts(y) \subseteq Experts
  BY ExpertStartIsSum
<1>2. x \in Int /\ y \in Int
  BY SetupFacts DEF Experts
<1>3. upTo \in SUBSET EarlierExperts(y)
  BY <1>2, DstRankInRanks DEF EarlierExperts, LocalExperts
<1>4. x \in upTo /\ upTo \ {x} = EarlierExperts(x)
  BY <1>2 DEF EarlierExperts
<1>5. IsFiniteSet(upTo)
  BY <1>1, <1>3, FS_Subset
<1>6. /\ \A e \in upTo : f[e] \in Nat
      /\ \A e \in EarlierExperts(y) : f[e] \in Nat
      /\ f[x] = Total(c, x) /\ f[x] \in Nat
  BY <1>1, <1>3, TotalType
<1>7. /\ ExpertStart(c, x) = SumFunctionOnSet(f, EarlierExperts(x))
      /\ ExpertStart(c, y) = SumFunctionOnSet(f, EarlierExperts(y))
      /\ ExpertStart(c, x) \in Nat /\ ExpertStart(c, y) \in Nat
  BY ExpertStartIsSum, ExpertStartType
<1> HIDE DEF upTo, f
<1>8. SumFunctionOnSet(f, upTo) <= SumFunctionOnSet(f, EarlierExperts(y))
  BY <1>1, <1>3, <1>6, SumOfPart
<1>9. SumFunctionOnSet(f, upTo) = f[x] + SumFunctionOnSet(f, upTo \ {x})
  BY <1>4, <1>5, <1>6, SumWithout
<1> QED
  BY <1>4, <1>6, <1>7, <1>8, <1>9

(* Where a segment lies within the group of its expert.                    *)
LEMMA SegmentWithinGroup ==
  ASSUME setup \in Setups, NEW c, IsCounts(c), NEW x \in Experts, NEW p \in Ranks
  PROVE  /\ SegmentStart(c, p, x) \in Nat /\ ExpertStart(c, x) \in Nat
         /\ Total(c, x) \in Nat /\ c[p][x] \in Nat
         /\ ExpertStart(c, x) <= SegmentStart(c, p, x)
         /\ SegmentStart(c, p, x) + c[p][x] <= ExpertStart(c, x) + Total(c, x)
<1>1. p \in Int /\ p \notin EarlierSources(p) /\ EarlierSources(p) \in SUBSET Ranks
      /\ EarlierSources(p) \cup {p} \subseteq Ranks
  BY SetupFacts DEF EarlierSources
<1>2. FromSources(c, EarlierSources(p), x) + c[p][x] <= FromSources(c, Ranks, x)
  BY <1>1, SourcesInOrder
<1>3. FromSources(c, EarlierSources(p), x) \in Nat /\ FromSources(c, Ranks, x) \in Nat
  BY <1>1, FromSourcesType
<1>4. ExpertStart(c, x) \in Nat /\ c[p][x] \in Nat
  BY ExpertStartType DEF IsCounts
<1>5. SegmentStart(c, p, x) = ExpertStart(c, x) + FromSources(c, EarlierSources(p), x)
      /\ Total(c, x) = FromSources(c, Ranks, x)
  BY DEF SegmentStart, EarlierSources, Total
<1> QED
  BY <1>2, <1>3, <1>4, <1>5

(* Segments of one rank do not overlap.                                    *)
LEMMA SegmentsDisjoint ==
  ASSUME setup \in Setups, NEW c, IsCounts(c), NEW x \in Experts, NEW y \in Experts,
         NEW p \in Ranks, NEW q \in Ranks, DstRank(x) = DstRank(y),
         NEW i \in Nat, NEW j \in Nat, i < c[p][x], j < c[q][y],
         SegmentStart(c, p, x) + i = SegmentStart(c, q, y) + j
  PROVE  x = y /\ p = q /\ i = j
<1>1. /\ SegmentStart(c, p, x) \in Nat /\ SegmentStart(c, q, y) \in Nat
      /\ ExpertStart(c, x) \in Nat /\ ExpertStart(c, y) \in Nat
      /\ Total(c, x) \in Nat /\ Total(c, y) \in Nat /\ c[p][x] \in Nat /\ c[q][y] \in Nat
      /\ ExpertStart(c, x) <= SegmentStart(c, p, x)
      /\ SegmentStart(c, p, x) + c[p][x] <= ExpertStart(c, x) + Total(c, x)
      /\ ExpertStart(c, y) <= SegmentStart(c, q, y)
      /\ SegmentStart(c, q, y) + c[q][y] <= ExpertStart(c, y) + Total(c, y)
  BY SegmentWithinGroup
<1>2. x \in Int /\ y \in Int /\ p \in Int /\ q \in Int
  BY SetupFacts DEF Experts
<1>3. ~(x < y)
  <2> SUFFICES ASSUME x < y PROVE FALSE
    OBVIOUS
  <2>1. ExpertStart(c, x) + Total(c, x) <= ExpertStart(c, y)
    BY ExpertsInOrder
  <2> QED
    BY <1>1, <2>1
<1>4. ~(y < x)
  <2> SUFFICES ASSUME y < x PROVE FALSE
    OBVIOUS
  <2>1. ExpertStart(c, y) + Total(c, y) <= ExpertStart(c, x)
    BY ExpertsInOrder
  <2> QED
    BY <1>1, <2>1
<1>5. x = y
  BY <1>2, <1>3, <1>4
<1>6. ASSUME NEW u \in Ranks, NEW v \in Ranks, u < v
      PROVE  SegmentStart(c, u, x) + c[u][x] <= SegmentStart(c, v, x)
  <2>1. u \in Int /\ v \in Int
    BY SetupFacts
  <2>2. /\ u \notin EarlierSources(u) /\ EarlierSources(u) \cup {u} \subseteq EarlierSources(v)
        /\ EarlierSources(v) \in SUBSET Ranks /\ EarlierSources(u) \in SUBSET Ranks
    BY <1>6, <2>1, SetupFacts DEF EarlierSources
  <2>3. FromSources(c, EarlierSources(u), x) + c[u][x] <= FromSources(c, EarlierSources(v), x)
    BY <2>2, SourcesInOrder
  <2>4. /\ FromSources(c, EarlierSources(u), x) \in Nat
        /\ FromSources(c, EarlierSources(v), x) \in Nat /\ c[u][x] \in Nat
    BY <2>2, FromSourcesType DEF IsCounts
  <2> QED
    BY <1>1, <2>3, <2>4 DEF SegmentStart, EarlierSources
<1>7. ~(p < q) /\ ~(q < p)
  <2>1. ASSUME p < q PROVE FALSE
    BY <1>1, <1>5, <1>6, <2>1
  <2>2. ASSUME q < p PROVE FALSE
    BY <1>1, <1>5, <1>6, <2>2
  <2> QED
    BY <2>1, <2>2
<1>8. p = q
  BY <1>2, <1>7
<1> QED
  BY <1>1, <1>5, <1>8

-------------------------------------------------------------------------------
(* The stable sort by expert.                                              *)

(* The slots before this one that chose the same expert.                   *)
Earlier(r, layer, s) ==
  {o \in Slots(r, layer) : TopkIds(r, layer)[o] = TopkIds(r, layer)[s] /\ o < s}

Within(r, layer, s) == Cardinality(Earlier(r, layer, s))

(* The slots that a sort puts before this one.                             *)
Before(r, layer, s) ==
  {o \in Slots(r, layer) : \/ TopkIds(r, layer)[o] < TopkIds(r, layer)[s]
                           \/ TopkIds(r, layer)[o] = TopkIds(r, layer)[s] /\ o < s}

(* A larger set has more elements.                                         *)
LEMMA StrictSubset ==
  ASSUME NEW S, IsFiniteSet(S), NEW R \in SUBSET S, NEW x \in S, x \notin R
  PROVE  /\ Cardinality(R) \in Nat /\ Cardinality(S) \in Nat
         /\ Cardinality(R) < Cardinality(S)
<1>1. IsFiniteSet(R) /\ Cardinality(R) <= Cardinality(S) /\ (Cardinality(S) = Cardinality(R) => S = R)
  BY FS_Subset
<1>2. Cardinality(R) \in Nat /\ Cardinality(S) \in Nat
  BY <1>1, FS_CardinalityType
<1> QED
  BY <1>1, <1>2

(* Counting an injective function's values.                                *)
LEMMA InjectiveOnto ==
  ASSUME NEW S, IsFiniteSet(S), NEW T, IsFiniteSet(T), Cardinality(S) = Cardinality(T),
         NEW f \in [S -> T], \A x, y \in S : f[x] = f[y] => x = y
  PROVE  \A t \in T : \E x \in S : f[x] = t
<1>1. f \in Injection(S, T)
  BY DEF Injection, IsInjective
<1>2. f \in Surjection(S, T)
  BY <1>1, FS_Injection
<1> QED
  BY <1>2 DEF Surjection

(* The numbers below n.                                                    *)
LEMMA CountBelow ==
  ASSUME NEW n \in Nat
  PROVE  IsFiniteSet(0..n - 1) /\ Cardinality(0..n - 1) = n
<1>1. 0 \in Int /\ n - 1 \in Int /\ (n - 1) - 0 + 1 = n /\ (0 > n - 1 <=> n = 0)
  OBVIOUS
<1>2. IsFiniteSet(0..n - 1)
      /\ Cardinality(0..n - 1) = IF 0 > n - 1 THEN 0 ELSE (n - 1) - 0 + 1
  BY <1>1, FS_Interval
<1> QED
  BY <1>1, <1>2

(* The slots of an expert are numbered without gaps.                       *)
LEMMA WithinNumbers ==
  ASSUME setup \in Setups, NEW layer \in 1..NumLayers, NEW r \in Ranks, NEW x \in Experts
  PROVE  /\ \A s \in Choosing(r, layer, x) :
              Within(r, layer, s) \in 0..Cardinality(Choosing(r, layer, x)) - 1
         /\ \A s, o \in Choosing(r, layer, x) :
              Within(r, layer, s) = Within(r, layer, o) => s = o
         /\ \A n \in 0..Cardinality(Choosing(r, layer, x)) - 1 :
              \E s \in Choosing(r, layer, x) : Within(r, layer, s) = n
<1> DEFINE chosen == Choosing(r, layer, x)
           k == Cardinality(chosen)
           f == [s \in chosen |-> Within(r, layer, s)]
<1>1. IsFiniteSet(chosen) /\ k \in Nat
  BY CountsOfLayer, FS_CardinalityType
<1>2. \A s \in chosen : s \in Int
  BY SlotFacts DEF Choosing
<1>3. \A s \in chosen : Earlier(r, layer, s) = {o \in chosen : o < s}
  BY DEF Earlier, Choosing
<1>4. ASSUME NEW s \in chosen PROVE Within(r, layer, s) \in 0..k - 1
  <2>1. Earlier(r, layer, s) \in SUBSET chosen /\ s \notin Earlier(r, layer, s)
    BY <1>2, <1>3
  <2> HIDE DEF chosen
  <2>2. Cardinality(Earlier(r, layer, s)) \in Nat /\ Cardinality(Earlier(r, layer, s)) < k
    BY <1>1, <2>1, StrictSubset
  <2> QED
    BY <1>1, <2>2 DEF Within
<1>5. ASSUME NEW s \in chosen, NEW o \in chosen, s < o
      PROVE  Within(r, layer, s) < Within(r, layer, o)
  <2>1. /\ Earlier(r, layer, s) \in SUBSET Earlier(r, layer, o)
        /\ s \in Earlier(r, layer, o) /\ s \notin Earlier(r, layer, s)
    BY <1>2, <1>3, <1>5
  <2>2. IsFiniteSet(Earlier(r, layer, o))
    BY <1>1, <1>3, FS_Subset
  <2> QED
    BY <2>1, <2>2, StrictSubset DEF Within
<1>6. ASSUME NEW s \in chosen, NEW o \in chosen, Within(r, layer, s) = Within(r, layer, o)
      PROVE  s = o
  <2>1. Within(r, layer, s) \in Int
    BY <1>1, <1>4
  <2>2. ~(s < o) /\ ~(o < s)
    BY <1>5, <1>6, <2>1
  <2> QED
    BY <1>2, <2>2
<1>7. IsFiniteSet(0..k - 1) /\ Cardinality(0..k - 1) = k
  <2> HIDE DEF k
  <2> QED BY <1>1, CountBelow
<1>8. f \in [chosen -> 0..k - 1] /\ \A s, o \in chosen : f[s] = f[o] => s = o
  BY <1>4, <1>6
<1>9. \A n \in 0..k - 1 : \E s \in chosen : f[s] = n
  <2> DEFINE T == 0..k - 1
  <2>1. IsFiniteSet(chosen) /\ IsFiniteSet(T) /\ Cardinality(chosen) = Cardinality(T)
    BY <1>1, <1>7
  <2>2. f \in [chosen -> T] /\ \A s, o \in chosen : f[s] = f[o] => s = o
    BY <1>8
  <2> HIDE DEF f, chosen, T
  <2>3. \A n \in T : \E s \in chosen : f[s] = n
    BY <2>1, <2>2, InjectiveOnto
  <2> QED
    BY <2>3 DEF T
<1> QED
  BY <1>4, <1>6, <1>9

(* A slot comes after those of smaller experts and the earlier ones of its *)
(* own.                                                                    *)
LEMMA RowOfSlot ==
  ASSUME setup \in Setups, NEW layer \in 1..NumLayers, NEW r \in Ranks,
         NEW s \in Slots(r, layer)
  PROVE  LET x == TopkIds(r, layer)[s]
         IN /\ x \in Experts /\ s \in Choosing(r, layer, x)
            /\ SourceStart(AllCounts(layer), r, x) \in Nat
            /\ TRowToERow(r, layer)[s]
                 = SourceStart(AllCounts(layer), r, x) + Within(r, layer, s)
<1> DEFINE ids == TopkIds(r, layer)
           x == ids[s]
           D == Slots(r, layer)
           smaller == {y \in Experts : y < x}
           f == [y \in smaller |-> AllCounts(layer)[r][y]]
           low == {o \in D : ids[o] \in smaller}
<1>1. x \in Experts /\ s \in Choosing(r, layer, x) /\ IsFiniteSet(D)
  BY SlotFacts DEF Choosing
<1>2. IsFiniteSet(smaller)
  BY SetupFacts, FS_Subset
<1>3. \A y \in smaller : f[y] = Cardinality({o \in D : ids[o] = y}) /\ f[y] \in Nat
  BY CountsOfLayer DEF Choosing, IsCounts
<1>4. SourceStart(AllCounts(layer), r, x) = SumFunctionOnSet(f, smaller)
  BY DEF SourceStart, SumFunction, Experts
<1>5. Cardinality(low) = SumFunctionOnSet(f, smaller)
  <2> HIDE DEF smaller, f, D, ids
  <2> QED BY <1>1, <1>2, <1>3, CountBy
<1>6. SumFunctionOnSet(f, smaller) \in Nat
  <2> HIDE DEF smaller, f
  <2> QED BY <1>2, <1>3, SumType
<1>7. Before(r, layer, s) = low \cup Earlier(r, layer, s)
      /\ low \cap Earlier(r, layer, s) = {}
  <2>1. \A o \in D : ids[o] \in Experts /\ ids[o] \in Int
    BY SlotFacts, SetupFacts DEF Experts
  <2> QED
    BY <1>1, <2>1 DEF Before, Earlier
<1>8. IsFiniteSet(low) /\ IsFiniteSet(Earlier(r, layer, s))
  BY <1>1, FS_Subset DEF Earlier
<1>9. Cardinality(Before(r, layer, s)) = Cardinality(low) + Cardinality(Earlier(r, layer, s))
  <2> HIDE DEF low
  <2>1. Cardinality(low \cup Earlier(r, layer, s))
          = Cardinality(low) + Cardinality(Earlier(r, layer, s))
              - Cardinality(low \cap Earlier(r, layer, s))
    BY <1>8, FS_Union
  <2>2. Cardinality(low) \in Nat /\ Cardinality(Earlier(r, layer, s)) \in Nat
    BY <1>8, FS_CardinalityType
  <2> QED
    <3>1. Cardinality(low \cap Earlier(r, layer, s)) = 0
      BY <1>7, FS_EmptySet
    <3> QED
      BY <1>7, <2>1, <2>2, <3>1
<1>10. TRowToERow(r, layer)[s] = Cardinality(Before(r, layer, s))
  BY DEF TRowToERow, Before
<1> HIDE DEF low, smaller, f
<1> QED
  BY <1>1, <1>4, <1>5, <1>6, <1>9, <1>10 DEF Within

(* The sort is a permutation of the slots, and E_row_to_T_row undoes it.   *)
LEMMA SortPermutes ==
  ASSUME setup \in Setups, NEW layer \in 1..NumLayers, NEW r \in Ranks
  PROVE  /\ TRowToERow(r, layer) \in [Slots(r, layer) -> Slots(r, layer)]
         /\ \A n \in Slots(r, layer) :
              /\ ERowToTRow(r, layer)[n] \in Slots(r, layer)
              /\ TRowToERow(r, layer)[ERowToTRow(r, layer)[n]] = n
         /\ \A s \in Slots(r, layer) : ERowToTRow(r, layer)[TRowToERow(r, layer)[s]] = s
<1> DEFINE D == Slots(r, layer)
           ids == TopkIds(r, layer)
           f == TRowToERow(r, layer)
<1>1. IsFiniteSet(D) /\ Cardinality(D) \in Nat /\ D = 0..Cardinality(D) - 1
  BY SlotFacts
<1>2. \A s \in D : s \in Int /\ ids[s] \in Int
  BY SlotFacts, SetupFacts DEF Experts
<1>3. DOMAIN f = D /\ \A s \in D : f[s] = Cardinality(Before(r, layer, s))
  BY DEF TRowToERow, Before
<1>4. ASSUME NEW s \in D PROVE f[s] \in D
  <2>1. Before(r, layer, s) \in SUBSET D /\ s \notin Before(r, layer, s)
    BY <1>2 DEF Before
  <2> HIDE DEF D
  <2>2. Cardinality(Before(r, layer, s)) \in Nat
        /\ Cardinality(Before(r, layer, s)) < Cardinality(D)
    BY <1>1, <2>1, StrictSubset
  <2>3. f[s] \in 0..Cardinality(D) - 1
    BY <1>1, <1>3, <2>2
  <2> QED
    BY <1>1, <2>3
<1>5. ASSUME NEW s \in D, NEW o \in D, o \in Before(r, layer, s) PROVE f[o] < f[s]
  <2>1. /\ Before(r, layer, o) \in SUBSET Before(r, layer, s)
        /\ o \notin Before(r, layer, o)
    BY <1>2, <1>5 DEF Before
  <2>2. IsFiniteSet(Before(r, layer, s))
    BY <1>1, FS_Subset DEF Before
  <2>3. Cardinality(Before(r, layer, o)) < Cardinality(Before(r, layer, s))
    BY <1>5, <2>1, <2>2, StrictSubset
  <2> QED
    BY <1>3, <2>3
<1>6. ASSUME NEW s \in D, NEW o \in D, s # o
      PROVE  o \in Before(r, layer, s) \/ s \in Before(r, layer, o)
  BY <1>2, <1>6 DEF Before
<1>7. \A s, o \in D : f[s] = f[o] => s = o
  <2> SUFFICES ASSUME NEW s \in D, NEW o \in D, f[s] = f[o], s # o PROVE FALSE
    OBVIOUS
  <2>1. f[s] \in Int
    BY <1>2, <1>4
  <2>2. f[o] < f[s] \/ f[s] < f[o]
    BY <1>5, <1>6
  <2> QED
    BY <2>1, <2>2
<1>8. f \in [D -> D]
  <2>1. f = [s \in D |-> Cardinality(Before(r, layer, s))]
    BY DEF TRowToERow, Before
  <2>2. \A s \in D : Cardinality(Before(r, layer, s)) \in D
    BY <1>3, <1>4
  <2> HIDE DEF f, D
  <2> QED BY <2>1, <2>2
<1>9. \A n \in D : \E s \in D : f[s] = n
  <2> HIDE DEF f, D
  <2> QED BY <1>1, <1>7, <1>8, InjectiveOnto
<1>10. \A n \in D : ERowToTRow(r, layer)[n] = CHOOSE s \in D : f[s] = n
  BY DEF ERowToTRow
<1>11. ASSUME NEW n \in D
       PROVE  ERowToTRow(r, layer)[n] \in D /\ f[ERowToTRow(r, layer)[n]] = n
  <2> HIDE DEF f, D
  <2> QED BY <1>9, <1>10
<1> HIDE DEF f
<1>12. ASSUME NEW s \in D PROVE ERowToTRow(r, layer)[f[s]] = s
  BY <1>4, <1>7, <1>11
<1> QED
  BY <1>8, <1>11, <1>12 DEF f

-------------------------------------------------------------------------------
(* Where a slot's row goes: the metadata that each rank derives agrees.    *)

Place(r, layer, s) ==
  LET x == TopkIds(r, layer)[s]
  IN [rank |-> DstRank(x),
      row |-> SegmentStart(AllCounts(layer), r, x) + Within(r, layer, s)]

(* A slot's row is in the segment of its expert and rank.                  *)
LEMMA PlaceInSegment ==
  ASSUME setup \in Setups, NEW layer \in 1..NumLayers, NEW p \in Ranks,
         NEW s \in Slots(p, layer)
  PROVE  LET x == TopkIds(p, layer)[s]
             c == AllCounts(layer)
         IN /\ x \in Experts /\ IsCounts(c) /\ DstRank(x) \in Ranks
            /\ SegmentStart(c, p, x) \in Nat /\ c[p][x] \in Nat
            /\ Within(p, layer, s) \in Nat /\ Within(p, layer, s) < c[p][x]
            /\ Place(p, layer, s).rank = DstRank(x)
            /\ Place(p, layer, s).row = SegmentStart(c, p, x) + Within(p, layer, s)
<1> DEFINE x == TopkIds(p, layer)[s]
           c == AllCounts(layer)
<1>1. x \in Experts /\ s \in Choosing(p, layer, x)
  BY RowOfSlot
<1>2. /\ IsCounts(c) /\ c[p][x] = Cardinality(Choosing(p, layer, x)) /\ c[p][x] \in Nat
  BY <1>1, CountsOfLayer DEF IsCounts
<1>3. Within(p, layer, s) \in 0..Cardinality(Choosing(p, layer, x)) - 1
  BY <1>1, WithinNumbers
<1>4. SegmentStart(c, p, x) \in Nat
  BY <1>1, <1>2, SegmentWithinGroup
<1>5. DstRank(x) \in Ranks
  BY <1>1, DstRankInRanks
<1> QED
  BY <1>1, <1>2, <1>3, <1>4, <1>5 DEF Place

(* No two slots send their rows to the same place.                         *)
LEMMA PlacesDiffer ==
  ASSUME setup \in Setups, NEW layer \in 1..NumLayers,
         NEW p \in Ranks, NEW s \in Slots(p, layer),
         NEW q \in Ranks, NEW o \in Slots(q, layer),
         Place(p, layer, s).rank = Place(q, layer, o).rank,
         Place(p, layer, s).row = Place(q, layer, o).row
  PROVE  p = q /\ s = o
<1> DEFINE x == TopkIds(p, layer)[s]
           y == TopkIds(q, layer)[o]
           c == AllCounts(layer)
           i == Within(p, layer, s)
           j == Within(q, layer, o)
<1>1. /\ x \in Experts /\ IsCounts(c) /\ i \in Nat /\ i < c[p][x]
      /\ Place(p, layer, s).rank = DstRank(x)
      /\ Place(p, layer, s).row = SegmentStart(c, p, x) + i
  BY PlaceInSegment
<1>2. /\ y \in Experts /\ j \in Nat /\ j < c[q][y]
      /\ Place(q, layer, o).rank = DstRank(y)
      /\ Place(q, layer, o).row = SegmentStart(c, q, y) + j
  BY PlaceInSegment
<1>3. DstRank(x) = DstRank(y) /\ SegmentStart(c, p, x) + i = SegmentStart(c, q, y) + j
  BY <1>1, <1>2
<1>4. x = y /\ p = q /\ i = j
  <2> HIDE DEF x, y, c, i, j
  <2> QED BY <1>1, <1>2, <1>3, SegmentsDisjoint
<1>5. s \in Choosing(p, layer, x) /\ o \in Choosing(p, layer, x)
  BY <1>4, RowOfSlot
<1> QED
  BY <1>1, <1>4, <1>5, WithinNumbers

(* A rank sends its expert-ordered rows to their places.                   *)
LEMMA DispatchGoesToPlace ==
  ASSUME setup \in Setups, NEW layer \in 1..NumLayers, NEW r \in Ranks,
         known[r] = AllCounts(layer), NEW s \in Slots(r, layer)
  PROVE  DispatchDst(r, layer, TRowToERow(r, layer)[s]) = Place(r, layer, s)
<1> DEFINE x == TopkIds(r, layer)[s]
           c == AllCounts(layer)
           n == TRowToERow(r, layer)[s]
<1>1. /\ x \in Experts /\ SourceStart(c, r, x) \in Nat
      /\ n = SourceStart(c, r, x) + Within(r, layer, s)
  BY RowOfSlot
<1>2. SegmentStart(c, r, x) \in Nat /\ Within(r, layer, s) \in Nat
  BY PlaceInSegment
<1>3. ERowToTRow(r, layer)[n] = s
  BY SortPermutes
<1>4. DispatchDst(r, layer, n) =
        [rank |-> DstRank(x), row |-> SegmentStart(c, r, x) + n - SourceStart(c, r, x)]
  BY <1>3 DEF DispatchDst
<1> HIDE DEF n, c, x
<1>5. SegmentStart(c, r, x) + n - SourceStart(c, r, x) = SegmentStart(c, r, x) + Within(r, layer, s)
  BY <1>1, <1>2
<1> QED
  BY <1>4, <1>5 DEF Place, n, c, x

(* Every row of a segment is the place of one slot.                        *)
LEMMA RowsArePlaces ==
  ASSUME setup \in Setups, NEW layer \in 1..NumLayers, NEW r \in Ranks,
         known[r] = AllCounts(layer), NEW g \in Segments(r), NEW n \in RowsOf(r, g)
  PROVE  \E s \in Slots(g[2], layer) :
           /\ TopkIds(g[2], layer)[s] = g[1]
           /\ Place(g[2], layer, s).rank = r /\ Place(g[2], layer, s).row = n
<1> DEFINE x == g[1]
           p == g[2]
           c == AllCounts(layer)
<1>1. x \in Experts /\ DstRank(x) = r /\ p \in Ranks
  BY DEF Segments, LocalExperts, Experts
<1>2. IsCounts(c) /\ c[p][x] = Cardinality(Choosing(p, layer, x)) /\ c[p][x] \in Nat
  BY <1>1, CountsOfLayer DEF IsCounts
<1>3. SegmentStart(c, p, x) \in Nat
  BY <1>1, <1>2, SegmentWithinGroup
<1>4. n \in SegmentStart(c, p, x)..SegmentStart(c, p, x) + c[p][x] - 1
  BY DEF RowsOf
<1> DEFINE i == n - SegmentStart(c, p, x)
<1>5. i \in 0..c[p][x] - 1 /\ n = SegmentStart(c, p, x) + i
  <2> HIDE DEF x, p, c
  <2> QED BY <1>2, <1>3, <1>4
<1>6. PICK s \in Choosing(p, layer, x) : Within(p, layer, s) = i
  <2> HIDE DEF x, p, c, i
  <2> QED BY <1>1, <1>2, <1>5, WithinNumbers
<1>7. s \in Slots(p, layer) /\ TopkIds(p, layer)[s] = x
  BY DEF Choosing
<1> HIDE DEF i, c
<1> QED
  BY <1>1, <1>5, <1>6, <1>7 DEF Place, c

(* A slot's place is in its segment, which no other has a row of.          *)
LEMMA PlaceIsRow ==
  ASSUME setup \in Setups, NEW layer \in 1..NumLayers, NEW r \in Ranks,
         known[r] = AllCounts(layer), NEW p \in Ranks, NEW s \in Slots(p, layer),
         Place(p, layer, s).rank = r
  PROVE  LET x == TopkIds(p, layer)[s]
             n == Place(p, layer, s).row
         IN /\ x \in LocalExperts(r) /\ <<x, p>> \in Segments(r)
            /\ n \in RowsOf(r, <<x, p>>) /\ n \in ActiveRows(r)
            /\ \A g \in Segments(r) : n \in RowsOf(r, g) => g = <<x, p>>
<1> DEFINE x == TopkIds(p, layer)[s]
           c == AllCounts(layer)
           n == Place(p, layer, s).row
<1>1. /\ x \in Experts /\ IsCounts(c) /\ DstRank(x) = r
      /\ SegmentStart(c, p, x) \in Nat /\ c[p][x] \in Nat
      /\ Within(p, layer, s) \in Nat /\ Within(p, layer, s) < c[p][x]
      /\ n = SegmentStart(c, p, x) + Within(p, layer, s)
  BY PlaceInSegment
<1>2. x \in LocalExperts(r) /\ <<x, p>> \in Segments(r)
  BY <1>1 DEF LocalExperts, Experts, Segments
<1>3. n \in RowsOf(r, <<x, p>>)
  <2>1. RowsOf(r, <<x, p>>) = SegmentStart(c, p, x)..SegmentStart(c, p, x) + c[p][x] - 1
    BY DEF RowsOf
  <2> HIDE DEF x, c, n
  <2> QED BY <1>1, <2>1
<1>4. n \in ActiveRows(r)
  BY <1>2, <1>3 DEF ActiveRows
<1>5. ASSUME NEW g \in Segments(r), n \in RowsOf(r, g) PROVE g = <<x, p>>
  <2>1. PICK o \in Slots(g[2], layer) :
          /\ TopkIds(g[2], layer)[o] = g[1]
          /\ Place(g[2], layer, o).rank = r /\ Place(g[2], layer, o).row = n
    BY <1>5, RowsArePlaces
  <2>2. g[2] \in Ranks /\ g = <<g[1], g[2]>>
    BY DEF Segments
  <2>3. g[2] = p /\ o = s
    BY <2>1, <2>2, PlacesDiffer
  <2> QED
    BY <2>1, <2>2, <2>3
<1> QED
  BY <1>2, <1>3, <1>4, <1>5

(* An active row goes back to the row of its slot.                         *)
LEMMA CombineGoesBack ==
  ASSUME setup \in Setups, NEW layer \in 1..NumLayers, NEW r \in Ranks,
         known[r] = AllCounts(layer), NEW p \in Ranks, NEW s \in Slots(p, layer),
         Place(p, layer, s).rank = r
  PROVE  CombineDst(r, Place(p, layer, s).row)
           = [rank |-> p, row |-> TRowToERow(p, layer)[s]]
<1> DEFINE x == TopkIds(p, layer)[s]
           c == AllCounts(layer)
           n == Place(p, layer, s).row
<1>1. /\ <<x, p>> \in Segments(r) /\ n \in RowsOf(r, <<x, p>>)
      /\ \A g \in Segments(r) : n \in RowsOf(r, g) => g = <<x, p>>
  BY PlaceIsRow
<1>2. (CHOOSE g \in Segments(r) : n \in RowsOf(r, g)) = <<x, p>>
  <2> HIDE DEF n, x
  <2> QED BY <1>1
<1>3. CombineDst(r, n) =
        [rank |-> p, row |-> SourceStart(c, p, x) + n - SegmentStart(c, p, x)]
  <2> DEFINE g == CHOOSE g \in Segments(r) : n \in RowsOf(r, g)
  <2>1. CombineDst(r, n) =
          [rank |-> g[2],
           row |-> SourceStart(known[r], g[2], g[1]) + n - SegmentStart(known[r], g[2], g[1])]
    BY DEF CombineDst
  <2>2. g = <<x, p>>
    BY <1>2
  <2> HIDE DEF g, n, x, c
  <2> QED BY <2>1, <2>2 DEF c
<1>4. /\ SegmentStart(c, p, x) \in Nat /\ Within(p, layer, s) \in Nat
      /\ n = SegmentStart(c, p, x) + Within(p, layer, s)
  BY PlaceInSegment
<1>5. /\ SourceStart(c, p, x) \in Nat
      /\ TRowToERow(p, layer)[s] = SourceStart(c, p, x) + Within(p, layer, s)
  BY RowOfSlot
<1> HIDE DEF x, c, n
<1>6. SourceStart(c, p, x) + n - SegmentStart(c, p, x) = TRowToERow(p, layer)[s]
  BY <1>4, <1>5
<1> QED
  BY <1>3, <1>6 DEF n

(* The rows that an operation is to bring to an expert.                    *)
Wanted(x, layer, op) ==
  UNION {{[op |-> op, src |-> q, slot |-> s] : s \in Choosing(q, layer, x)} : q \in Ranks}

(* Its elements, one for each slot that chose the expert.                  *)
LEMMA WantedRows ==
  ASSUME NEW x, NEW layer, NEW op
  PROVE  /\ \A w \in Wanted(x, layer, op) :
              /\ w.src \in Ranks /\ w.slot \in Choosing(w.src, layer, x)
              /\ w = [op |-> op, src |-> w.src, slot |-> w.slot]
         /\ \A q \in Ranks : \A s \in Choosing(q, layer, x) :
              [op |-> op, src |-> q, slot |-> s] \in Wanted(x, layer, op)
BY DEF Wanted

(* They are as many as the metadata says.                                  *)
LEMMA WantedTotal ==
  ASSUME setup \in Setups, NEW layer \in 1..NumLayers, NEW x \in Experts, NEW op
  PROVE  /\ IsFiniteSet(Wanted(x, layer, op))
         /\ Cardinality(Wanted(x, layer, op)) = Total(AllCounts(layer), x)
<1> DEFINE D == Wanted(x, layer, op)
           h == [w \in D |-> w.src]
           c == AllCounts(layer)
           f == Column(c, x)
           Of(q) == {[op |-> op, src |-> q, slot |-> s] : s \in Choosing(q, layer, x)}
           bij(q) == [s \in Choosing(q, layer, x) |-> [op |-> op, src |-> q, slot |-> s]]
<1>1. ASSUME NEW q \in Ranks
      PROVE  IsFiniteSet(Of(q)) /\ Cardinality(Of(q)) = Cardinality(Choosing(q, layer, x))
  <2>1. IsFiniteSet(Choosing(q, layer, x))
    BY CountsOfLayer
  <2>2. bij(q) \in Bijection(Choosing(q, layer, x), Of(q))
    BY DEF Bijection, Injection, Surjection, IsInjective
  <2>3. ExistsBijection(Choosing(q, layer, x), Of(q))
    BY <2>2 DEF ExistsBijection
  <2> HIDE DEF Of
  <2> QED BY <2>1, <2>3, FS_Bijection
<1>2. IsFiniteSet(D)
  <2> DEFINE F == {Of(q) : q \in Ranks}
  <2>1. D = UNION F
    BY DEF Wanted
  <2>2. \A T \in F : IsFiniteSet(T)
    BY <1>1
  <2>3. IsFiniteSet(F)
    <3> DEFINE image == [q \in Ranks |-> Of(q)]
    <3>1. image \in Surjection(Ranks, F)
      BY DEF Surjection
    <3>2. IsFiniteSet(Ranks)
      BY SetupFacts
    <3> HIDE DEF image, F
    <3> QED BY <3>1, <3>2, FS_Surjection
  <2> HIDE DEF F
  <2> QED BY <2>1, <2>2, <2>3, FS_UNION
<1>3. ASSUME NEW q \in Ranks PROVE f[q] = Cardinality({d \in D : h[d] = q})
  <2>1. {d \in D : h[d] = q} = Of(q)
    BY WantedRows
  <2>2. f[q] = Cardinality(Choosing(q, layer, x))
    BY CountsOfLayer DEF Column
  <2> QED
    BY <1>1, <2>1, <2>2
<1>4. {d \in D : h[d] \in Ranks} = D
  BY WantedRows
<1>5. IsFiniteSet(Ranks)
  BY SetupFacts
<1>6. Cardinality({d \in D : h[d] \in Ranks}) = SumFunctionOnSet(f, Ranks)
  <2>1. \A q \in Ranks : f[q] = Cardinality({d \in D : h[d] = q})
    BY <1>3
  <2> DEFINE S == Ranks
  <2>2. IsFiniteSet(S) /\ \A q \in S : f[q] = Cardinality({d \in D : h[d] = q})
    BY <1>5, <2>1
  <2> HIDE DEF D, h, f, S
  <2>3. Cardinality({d \in D : h[d] \in S}) = SumFunctionOnSet(f, S)
    BY <1>2, <2>2, CountBy
  <2> QED
    BY <2>3 DEF S
<1>7. Total(c, x) = SumFunctionOnSet(f, Ranks)
  BY FromSourcesIsSum DEF Total
<1> QED
  BY <1>2, <1>4, <1>6, <1>7

(* The group of an expert is the places of the slots that chose it, one    *)
(* row each.                                                               *)
LEMMA GroupIsPlaces ==
  ASSUME setup \in Setups, NEW layer \in 1..NumLayers, NEW r \in Ranks,
         known[r] = AllCounts(layer), NEW x \in LocalExperts(r), NEW op
  PROVE  /\ Cardinality(ExpertRows(r, x)) = Cardinality(Wanted(x, layer, op))
         /\ \A q \in Ranks : \A s \in Choosing(q, layer, x) :
              Place(q, layer, s).rank = r /\ Place(q, layer, s).row \in ExpertRows(r, x)
         /\ \A n \in ExpertRows(r, x) : \E q \in Ranks : \E s \in Choosing(q, layer, x) :
              Place(q, layer, s).rank = r /\ Place(q, layer, s).row = n
<1> DEFINE c == AllCounts(layer)
           D == Wanted(x, layer, op)
           T == ExpertRows(r, x)
           first == ExpertStart(c, x)
           f == [w \in D |-> Place(w.src, layer, w.slot).row]
<1>1. x \in Experts /\ DstRank(x) = r /\ IsCounts(c)
  BY CountsOfLayer DEF LocalExperts, Experts
<1>2. first \in Nat /\ Total(c, x) \in Nat /\ T = first..first + Total(c, x) - 1
  BY <1>1, ExpertStartType, TotalType DEF ExpertRows
<1>3. IsFiniteSet(T) /\ Cardinality(T) = Total(c, x)
  <2> HIDE DEF first, T, c
  <2>1. /\ first \in Int /\ first + Total(c, x) - 1 \in Int
        /\ (first > first + Total(c, x) - 1 <=> Total(c, x) = 0)
        /\ (first + Total(c, x) - 1) - first + 1 = Total(c, x)
    BY <1>2
  <2>2. /\ IsFiniteSet(first..first + Total(c, x) - 1)
        /\ Cardinality(first..first + Total(c, x) - 1)
             = IF first > first + Total(c, x) - 1 THEN 0
               ELSE (first + Total(c, x) - 1) - first + 1
    BY <2>1, FS_Interval
  <2> QED
    BY <1>2, <2>1, <2>2
<1>4. ASSUME NEW q \in Ranks, NEW s \in Choosing(q, layer, x)
      PROVE  /\ s \in Slots(q, layer) /\ Place(q, layer, s).rank = r
             /\ Place(q, layer, s).row \in T
  <2>1. s \in Slots(q, layer) /\ TopkIds(q, layer)[s] = x
    BY DEF Choosing
  <2>2. /\ SegmentStart(c, q, x) \in Nat /\ c[q][x] \in Nat
        /\ Within(q, layer, s) \in Nat /\ Within(q, layer, s) < c[q][x]
        /\ Place(q, layer, s).rank = DstRank(x)
        /\ Place(q, layer, s).row = SegmentStart(c, q, x) + Within(q, layer, s)
    BY <2>1, PlaceInSegment
  <2>3. /\ first <= SegmentStart(c, q, x)
        /\ SegmentStart(c, q, x) + c[q][x] <= first + Total(c, x)
    BY <1>1, SegmentWithinGroup
  <2> HIDE DEF c, T, first
  <2> QED BY <1>1, <1>2, <2>1, <2>2, <2>3
<1>5. f \in [D -> T]
  BY <1>4, WantedRows
<1>6. \A w, v \in D : f[w] = f[v] => w = v
  <2> SUFFICES ASSUME NEW w \in D, NEW v \in D, f[w] = f[v] PROVE w = v
    OBVIOUS
  <2>1. /\ w.src \in Ranks /\ w.slot \in Choosing(w.src, layer, x)
        /\ w = [op |-> op, src |-> w.src, slot |-> w.slot]
        /\ v.src \in Ranks /\ v.slot \in Choosing(v.src, layer, x)
        /\ v = [op |-> op, src |-> v.src, slot |-> v.slot]
    BY WantedRows
  <2>2. /\ w.slot \in Slots(w.src, layer) /\ Place(w.src, layer, w.slot).rank = r
        /\ v.slot \in Slots(v.src, layer) /\ Place(v.src, layer, v.slot).rank = r
        /\ Place(w.src, layer, w.slot).row = Place(v.src, layer, v.slot).row
    BY <1>4, <2>1
  <2>3. w.src = v.src /\ w.slot = v.slot
    BY <2>1, <2>2, PlacesDiffer
  <2> QED
    BY <2>1, <2>3
<1>7. IsFiniteSet(D) /\ Cardinality(D) = Total(c, x)
  BY <1>1, WantedTotal
<1>8. \A n \in T : \E w \in D : f[w] = n
  <2> HIDE DEF D, T, f
  <2> QED BY <1>3, <1>5, <1>6, <1>7, InjectiveOnto
<1>9. ASSUME NEW n \in T
      PROVE  \E q \in Ranks : \E s \in Choosing(q, layer, x) :
               Place(q, layer, s).rank = r /\ Place(q, layer, s).row = n
  <2>1. PICK w \in D : f[w] = n
    BY <1>8
  <2>2. w.src \in Ranks /\ w.slot \in Choosing(w.src, layer, x)
    BY WantedRows
  <2> QED
    BY <1>4, <2>1, <2>2
<1> QED
  BY <1>3, <1>4, <1>7, <1>9

-------------------------------------------------------------------------------
(* The schedule.                                                           *)

Kinds == {"dispatch", "combine", "combine_backward", "dispatch_backward"}
End(op) == Len(StagesOf(KindOf(op)))

(* Which stage each operation has where; all end with the exchange.        *)
LEMMA StagesFacts ==
  ASSUME NEW op \in 1..NumOps + 1
  PROVE  /\ KindOf(op) \in Kinds
         /\ End(op) = IF KindOf(op) = "dispatch" THEN 6
                      ELSE IF KindOf(op) = "combine_backward" THEN 4 ELSE 3
         /\ \A i \in 1..End(op) :
              LET stage == StagesOf(KindOf(op))[i]
              IN /\ (stage = "send_counts") <=> (KindOf(op) = "dispatch" /\ i = 1)
                 /\ (stage = "counts_ready") <=> (KindOf(op) = "dispatch" /\ i = 2)
                 /\ (stage = "read_counts") <=> (KindOf(op) = "dispatch" /\ i = 3)
                 /\ (stage = "read_saved") <=> (KindOf(op) = "combine_backward" /\ i = 1)
                 /\ (stage = "send_rows") <=> (i = End(op) - 2)
                 /\ (stage = "hidden_ready") <=> (i = End(op) - 1)
                 /\ (stage = "read") <=> (i = End(op))
<1>1. NumOps \in Nat /\ NumForwardOps \in Nat
  BY NumLayersAssumption DEF NumOps, NumForwardOps
<1>2. KindOf(op) \in Kinds
  <2>1. CASE op <= NumForwardOps
    <3>1. ((op - 1) % 2) + 1 \in {1, 2}
      BY <1>1
    <3> QED
      BY <2>1, <3>1 DEF KindOf, ForwardOps, Kinds
  <2>2. CASE ~(op <= NumForwardOps)
    <3>1. ((op - NumForwardOps - 1) % 4) + 1 \in {1, 2, 3, 4}
      BY <1>1
    <3> QED
      BY <2>2, <3>1 DEF KindOf, BackwardOps, Kinds
  <2> QED
    BY <2>1, <2>2
<1> DEFINE k == KindOf(op)
<1> HIDE DEF k
<1>3. CASE k = "dispatch"
  <2> DEFINE t == StagesOf(k)
  <2>1. t = DispatchStages
    BY <1>3 DEF StagesOf
  <2>2. /\ Len(t) = 6
        /\ t[1] = "send_counts" /\ t[2] = "counts_ready" /\ t[3] = "read_counts"
        /\ t[4] = "send_rows" /\ t[5] = "hidden_ready" /\ t[6] = "read"
    BY <2>1 DEF DispatchStages
  <2> HIDE DEF t
  <2>3. 1..Len(t) = {1, 2, 3, 4, 5, 6}
    BY <2>2
  <2>4. End(op) = Len(t) /\ StagesOf(KindOf(op)) = t
    BY DEF End, t, k
  <2> QED
    BY <1>2, <1>3, <2>2, <2>3, <2>4 DEF k
<1>4. CASE k = "combine" \/ k = "dispatch_backward"
  <2> DEFINE t == StagesOf(k)
  <2>1. t = Exchange
    BY <1>4 DEF StagesOf, CombineStages, DispatchBackwardStages
  <2>2. /\ Len(t) = 3
        /\ t[1] = "send_rows" /\ t[2] = "hidden_ready" /\ t[3] = "read"
    BY <2>1 DEF Exchange
  <2> HIDE DEF t
  <2>3. 1..Len(t) = {1, 2, 3}
    BY <2>2
  <2>4. End(op) = Len(t) /\ StagesOf(KindOf(op)) = t
    BY DEF End, t, k
  <2> QED
    BY <1>2, <1>4, <2>2, <2>3, <2>4 DEF k
<1>5. CASE k = "combine_backward"
  <2> DEFINE t == StagesOf(k)
  <2>1. t = CombineBackwardStages
    BY <1>5 DEF StagesOf
  <2>2. /\ Len(t) = 4
        /\ t[1] = "read_saved" /\ t[2] = "send_rows" /\ t[3] = "hidden_ready" /\ t[4] = "read"
    BY <2>1 DEF CombineBackwardStages
  <2> HIDE DEF t
  <2>3. 1..Len(t) = {1, 2, 3, 4}
    BY <2>2
  <2>4. End(op) = Len(t) /\ StagesOf(KindOf(op)) = t
    BY DEF End, t, k
  <2> QED
    BY <1>2, <1>5, <2>2, <2>3, <2>4 DEF k
<1> QED
  BY <1>2, <1>3, <1>4, <1>5 DEF Kinds, k

(* Which operation follows which.                                          *)
LEMMA ScheduleFacts ==
  /\ NumOps \in Nat /\ KindOf(1) = "dispatch"
  /\ \A op \in 1..NumOps :
       /\ LayerOf(op) \in 1..NumLayers
       /\ KindOf(op) # "dispatch" =>
            op - 1 \in 1..NumOps /\ LayerOf(op - 1) = LayerOf(op)
       /\ KindOf(op) = "combine" => KindOf(op - 1) = "dispatch"
       /\ KindOf(op) = "combine_backward" => KindOf(op - 1) = "combine"
       /\ KindOf(op) = "dispatch_backward" => KindOf(op - 1) = "combine_backward"
<1>1. NumLayers \in Nat \ {0} /\ NumOps = NumForwardOps + NumLayers * 4
      /\ NumForwardOps = NumLayers * 2 /\ NumOps \in Nat /\ NumForwardOps \in Nat
      /\ NumForwardOps >= 2
  BY NumLayersAssumption DEF NumOps, NumForwardOps
<1>2. KindOf(1) = "dispatch"
  BY <1>1 DEF KindOf, ForwardOps
<1>3. ASSUME NEW op \in 1..NumOps, op <= NumForwardOps
      PROVE  /\ LayerOf(op) \in 1..NumLayers
             /\ KindOf(op) = IF op % 2 = 1 THEN "dispatch" ELSE "combine"
             /\ op % 2 = 0 => op - 1 \in 1..NumOps /\ LayerOf(op - 1) = LayerOf(op)
                              /\ KindOf(op - 1) = "dispatch"
  <2>1. /\ ((op - 1) \div 2) + 1 \in 1..NumLayers
        /\ ((op - 1) % 2) + 1 = IF op % 2 = 1 THEN 1 ELSE 2
        /\ op % 2 = 0 => /\ op - 1 \in 1..NumOps /\ op - 1 <= NumForwardOps
                         /\ (op - 1 - 1) \div 2 = (op - 1) \div 2
                         /\ ((op - 1 - 1) % 2) + 1 = 1
    BY <1>1, <1>3
  <2> QED
    BY <1>3, <2>1 DEF LayerOf, KindOf, ForwardOps
<1>4. ASSUME NEW op \in 1..NumOps, ~(op <= NumForwardOps)
      PROVE  LET n == op - NumForwardOps - 1
             IN /\ LayerOf(op) \in 1..NumLayers
                /\ KindOf(op) = BackwardOps[(n % 4) + 1]
                /\ n % 4 # 0 => /\ op - 1 \in 1..NumOps /\ LayerOf(op - 1) = LayerOf(op)
                                /\ KindOf(op - 1) = BackwardOps[n % 4]
  <2> DEFINE n == op - NumForwardOps - 1
  <2>1. /\ n \in Nat /\ n \div 4 \in 0..NumLayers - 1
        /\ n % 4 # 0 => /\ op - 1 \in 1..NumOps /\ ~(op - 1 <= NumForwardOps)
                        /\ (n - 1) \div 4 = n \div 4 /\ ((n - 1) % 4) + 1 = n % 4
                        /\ op - 1 - NumForwardOps - 1 = n - 1
    BY <1>1, <1>4
  <2>2. LayerOf(op) = NumLayers - (n \div 4) /\ KindOf(op) = BackwardOps[(n % 4) + 1]
    BY <1>4 DEF LayerOf, KindOf
  <2>3. n % 4 # 0 => /\ LayerOf(op - 1) = NumLayers - ((n - 1) \div 4)
                     /\ KindOf(op - 1) = BackwardOps[((n - 1) % 4) + 1]
    BY <2>1 DEF LayerOf, KindOf
  <2> HIDE DEF n
  <2>4. LayerOf(op) \in 1..NumLayers
    BY <1>1, <2>1, <2>2
  <2> QED
    BY <2>1, <2>2, <2>3, <2>4 DEF n
<1>5. ASSUME NEW op \in 1..NumOps, ~(op <= NumForwardOps)
      PROVE  /\ LayerOf(op) \in 1..NumLayers
             /\ KindOf(op) # "dispatch" =>
                  op - 1 \in 1..NumOps /\ LayerOf(op - 1) = LayerOf(op)
             /\ KindOf(op) = "combine" => KindOf(op - 1) = "dispatch"
             /\ KindOf(op) = "combine_backward" => KindOf(op - 1) = "combine"
             /\ KindOf(op) = "dispatch_backward" => KindOf(op - 1) = "combine_backward"
  <2> DEFINE m == (op - NumForwardOps - 1) % 4
  <2>1. m \in {0, 1, 2, 3}
    BY <1>1
  <2>2. /\ LayerOf(op) \in 1..NumLayers
        /\ KindOf(op) = BackwardOps[m + 1]
        /\ m # 0 => /\ op - 1 \in 1..NumOps /\ LayerOf(op - 1) = LayerOf(op)
                    /\ KindOf(op - 1) = BackwardOps[m]
    BY <1>4, <1>5
  <2> HIDE DEF m
  <2> QED
    BY <2>1, <2>2 DEF BackwardOps
<1>6. ASSUME NEW op \in 1..NumOps PROVE op % 2 \in {0, 1}
  BY <1>1
<1> QED
  BY <1>1, <1>2, <1>3, <1>5, <1>6

-------------------------------------------------------------------------------
(* The invariant.                                                          *)

(* A rank is at this stage of the operation or further.                    *)
AtLeast(r, op, stage) ==
  \/ pos[r].op > op
  \/ pos[r].op = op /\ pos[r].stage >= stage

(* The copies of the operation's rows to a peer are done.                  *)
Delivered(q, r, op) ==
  \/ AtLeast(q, op, End(op) - 1)
  \/ pos[q].op = op /\ pos[q].stage = End(op) - 2 /\ r \in sent[q]

(* The rows that a rank has for a peer in an operation.                    *)
FromSlots(kind) == kind \in {"dispatch", "combine_backward"}

Sending(q, r, op) ==
  LET layer == LayerOf(op)
  IN IF FromSlots(KindOf(op))
     THEN {[row |-> Place(q, layer, s).row, value |-> [op |-> op, src |-> q, slot |-> s]] :
             s \in {s \in Slots(q, layer) : Place(q, layer, s).rank = r}}
     ELSE {[row |-> TRowToERow(r, layer)[s],
            value |-> [op |-> op - 1, src |-> r, slot |-> s,
                       expert |-> TopkIds(r, layer)[s]]] :
             s \in {s \in Slots(r, layer) : Place(r, layer, s).rank = q}}

Holds(buffer, m) == m.row \in DOMAIN buffer /\ buffer[m.row] = m.value

TypeOK ==
  /\ setup \in Setups
  /\ DOMAIN pos = Ranks
  /\ \A r \in Ranks :
       /\ pos[r] \in [op : 1..NumOps + 1, stage : Nat \ {0}]
       /\ pos[r].stage <= End(pos[r].op)
       /\ pos[r].op = NumOps + 1 => pos[r].stage = 1
  /\ sent \in [Ranks -> SUBSET Ranks]
  /\ counts \in [Ranks -> [Ranks -> [Experts -> Nat]]]
  /\ known \in [Ranks -> [Ranks -> [Experts -> Nat]]]
  /\ DOMAIN hidden = Ranks
  /\ \A r \in Ranks : DOMAIN hidden[r] = 0..HiddenRecvBufferCount - 1
  /\ DOMAIN output = Ranks

(* A rank is past a barrier only if all have reached it.                   *)
Barriers ==
  \A r, q \in Ranks : \A op \in 1..NumOps :
    /\ AtLeast(r, op, End(op)) => AtLeast(q, op, End(op) - 1)
    /\ KindOf(op) = "dispatch" /\ AtLeast(r, op, 3) => AtLeast(q, op, 2)

(* Only a copy kernel has been somewhere.                                  *)
SentInKernel ==
  \A r \in Ranks : sent[r] # {} => Stands(r, "send_counts") \/ Stands(r, "send_rows")

CountsSent ==
  \A q, p \in Ranks :
    pos[q].op <= NumOps /\ KindOf(pos[q].op) = "dispatch" /\ (pos[q].stage >= 2 \/ p \in sent[q])
      => counts[p][q] = LocalCounts(q, LayerOf(pos[q].op))

(* From its dispatch to its last exchange a layer is known by all its      *)
(* counts.                                                                 *)
CountsKnown ==
  \A r \in Ranks :
    pos[r].op <= NumOps /\ (KindOf(pos[r].op) # "dispatch" \/ pos[r].stage >= 4)
      => known[r] = AllCounts(LayerOf(pos[r].op))

(* What the local experts made of the rows of the operation before.        *)
OutputsReady ==
  \A r, q \in Ranks :
    LET op == pos[r].op
        layer == LayerOf(op)
    IN op <= NumOps /\ ~FromSlots(KindOf(op)) =>
         \A s \in Slots(q, layer) : Place(q, layer, s).rank = r =>
           output[r][Place(q, layer, s).row]
             = [op |-> op - 1, src |-> q, slot |-> s, expert |-> TopkIds(q, layer)[s]]

(* What was delivered is there until the rank reaches the next barrier.    *)
RowsHeld ==
  \A r, q \in Ranks : \A op \in 1..NumOps :
    Delivered(q, r, op) /\ ~AtLeast(r, op + 1, End(op + 1) - 1) =>
      \A m \in Sending(q, r, op) : Holds(hidden[r][BufferOf(op)], m)

ExchangeInv ==
  /\ TypeOK /\ Barriers /\ SentInKernel
  /\ CountsSent /\ CountsKnown /\ OutputsReady /\ RowsHeld

(* A step leaves the setup as it is, and so all that is derived from it.   *)
LEMMA SetupFrame ==
  ASSUME setup' = setup
  PROVE  /\ Ranks' = Ranks /\ EpSize' = EpSize /\ NumExperts' = NumExperts /\ Experts' = Experts
         /\ \A r, layer : TopkIds(r, layer)' = TopkIds(r, layer)
         /\ \A r, layer : Slots(r, layer)' = Slots(r, layer)
         /\ \A r, layer : LocalCounts(r, layer)' = LocalCounts(r, layer)
         /\ \A r, layer : TRowToERow(r, layer)' = TRowToERow(r, layer)
         /\ \A layer : AllCounts(layer)' = AllCounts(layer)
<1>1. Ranks' = Ranks
  BY DEF Ranks
<1>2. EpSize' = EpSize
  BY <1>1 DEF EpSize
<1>3. NumExperts' = NumExperts
  BY <1>2 DEF NumExperts
<1>4. \A r, layer : TopkIds(r, layer)' = TopkIds(r, layer)
  BY DEF TopkIds
<1>5. \A r, layer : Slots(r, layer)' = Slots(r, layer)
  BY <1>4 DEF Slots
<1>6. \A r, layer : LocalCounts(r, layer)' = LocalCounts(r, layer)
  BY <1>3, <1>4, <1>5 DEF LocalCounts
<1>7. \A r, layer : TRowToERow(r, layer)' = TRowToERow(r, layer)
  BY <1>4, <1>5 DEF TRowToERow
<1>8. \A layer : AllCounts(layer)' = AllCounts(layer)
  BY <1>1, <1>6 DEF AllCounts
<1> QED
  BY <1>1, <1>2, <1>3, <1>4, <1>5, <1>6, <1>7, <1>8 DEF Experts

(* Nor do the places of rows change.                                       *)
LEMMA PlaceFrame ==
  ASSUME setup' = setup, NEW r, NEW layer, NEW s
  PROVE  Place(r, layer, s)' = Place(r, layer, s)
<1>1. \A x : DstRank(x)' = DstRank(x)
  BY DEF DstRank
<1>2. \A q : LocalExperts(q)' = LocalExperts(q)
  BY <1>1, SetupFrame DEF LocalExperts
<1>3. \A c, sources, x : FromSources(c, sources, x)' = FromSources(c, sources, x)
  BY DEF FromSources
<1>4. \A c, x : Total(c, x)' = Total(c, x)
  BY <1>3, SetupFrame DEF Total
<1>5. \A c, x : ExpertStart(c, x)' = ExpertStart(c, x)
  BY <1>1, <1>2, <1>4 DEF ExpertStart
<1>6. \A c, q, x : SegmentStart(c, q, x)' = SegmentStart(c, q, x)
  BY <1>3, <1>5, SetupFrame DEF SegmentStart
<1>7. Within(r, layer, s)' = Within(r, layer, s)
  BY SetupFrame DEF Within, Earlier
<1> QED
  BY <1>1, <1>6, <1>7, SetupFrame DEF Place

(* Nor does what an operation sends.                                       *)
LEMMA SendingFrame ==
  ASSUME setup' = setup, NEW q, NEW r, NEW op
  PROVE  Sending(q, r, op)' = Sending(q, r, op)
BY SetupFrame, PlaceFrame DEF Sending

-------------------------------------------------------------------------------
(* How a rank moves along the schedule.                                    *)

(* Where a running rank stands.                                            *)
LEMMA Standing ==
  ASSUME TypeOK, NEW r \in Ranks, NEW op, op = pos[r].op, NEW i, i = pos[r].stage
  PROVE  /\ op \in 1..NumOps + 1 /\ i \in 1..End(op)
         /\ NumOps \in Nat /\ End(op) \in {3, 4, 6}
         /\ Running(r) <=> op \in 1..NumOps
         /\ op \notin 1..NumOps => i = 1
         /\ At(r).op = op /\ At(r).kind = KindOf(op) /\ At(r).layer = LayerOf(op)
         /\ Stands(r, "send_counts") <=> op \in 1..NumOps /\ KindOf(op) = "dispatch" /\ i = 1
         /\ Stands(r, "counts_ready") <=> op \in 1..NumOps /\ KindOf(op) = "dispatch" /\ i = 2
         /\ Stands(r, "read_counts") <=> op \in 1..NumOps /\ KindOf(op) = "dispatch" /\ i = 3
         /\ Stands(r, "read_saved") <=>
              op \in 1..NumOps /\ KindOf(op) = "combine_backward" /\ i = 1
         /\ Stands(r, "send_rows") <=> op \in 1..NumOps /\ i = End(op) - 2
         /\ Stands(r, "hidden_ready") <=> op \in 1..NumOps /\ i = End(op) - 1
         /\ Stands(r, "read") <=> op \in 1..NumOps /\ i = End(op)
<1>1. op \in 1..NumOps + 1 /\ i \in Nat \ {0} /\ i <= End(op)
      /\ (op = NumOps + 1 => i = 1) /\ NumOps \in Nat
  BY ScheduleFacts DEF TypeOK
<1>2. End(op) \in {3, 4, 6}
  BY <1>1, StagesFacts
<1>3. i \in 1..End(op)
  BY <1>1, <1>2
<1>4. Running(r) <=> op \in 1..NumOps
  BY <1>1 DEF Running
<1>5. At(r).op = op /\ At(r).kind = KindOf(op) /\ At(r).layer = LayerOf(op)
      /\ At(r).stage = StagesOf(KindOf(op))[i]
  BY DEF At
<1>6. \A name : Stands(r, name) <=> op \in 1..NumOps /\ StagesOf(KindOf(op))[i] = name
  BY <1>4, <1>5 DEF Stands
<1> QED
  BY <1>1, <1>2, <1>3, <1>4, <1>5, <1>6, StagesFacts

(* A step of a rank's stream: to the next stage, or to the next operation. *)
LEMMA Advancing ==
  ASSUME TypeOK, NEW r \in Ranks, Running(r), Advance(r),
         NEW op, op = pos[r].op, NEW i, i = pos[r].stage
  PROVE  /\ DOMAIN pos' = Ranks
         /\ \A q \in Ranks : q # r => pos'[q] = pos[q]
         /\ pos'[r] = IF i < End(op) THEN [op |-> op, stage |-> i + 1]
                      ELSE [op |-> op + 1, stage |-> 1]
<1>1. DOMAIN pos = Ranks /\ pos[r] \in [op : 1..NumOps + 1, stage : Nat \ {0}]
  BY DEF TypeOK
<1>2. pos[r] = [op |-> op, stage |-> i]
  BY <1>1
<1>3. Len(StagesOf(At(r).kind)) = End(op)
  BY DEF At, End
<1>4. pos' = [pos EXCEPT ![r] =
                IF @.stage < End(op) THEN [op |-> @.op, stage |-> @.stage + 1]
                ELSE [op |-> @.op + 1, stage |-> 1]]
  BY <1>3 DEF Advance
<1>5. pos'[r] = IF pos[r].stage < End(op) THEN [op |-> pos[r].op, stage |-> pos[r].stage + 1]
                ELSE [op |-> pos[r].op + 1, stage |-> 1]
  <2> DEFINE moved == IF pos[r].stage < End(op) THEN [op |-> pos[r].op, stage |-> pos[r].stage + 1]
                      ELSE [op |-> pos[r].op + 1, stage |-> 1]
  <2>1. pos' = [pos EXCEPT ![r] = moved]
    BY <1>4
  <2> HIDE DEF moved
  <2>2. pos'[r] = moved
    BY <1>1, <2>1
  <2> QED
    BY <2>2 DEF moved
<1>6. [op |-> pos[r].op, stage |-> pos[r].stage + 1] = [op |-> op, stage |-> i + 1]
  BY <1>2
<1>7. DOMAIN pos' = Ranks /\ \A q \in Ranks : q # r => pos'[q] = pos[q]
  BY <1>1, <1>4
<1> QED
  BY <1>5, <1>6, <1>7

(* Every rank stays within the schedule.                                   *)
PosOK ==
  /\ DOMAIN pos = Ranks
  /\ \A r \in Ranks :
       /\ pos[r] \in [op : 1..NumOps + 1, stage : Nat \ {0}]
       /\ pos[r].stage <= End(pos[r].op)
       /\ pos[r].op = NumOps + 1 => pos[r].stage = 1

(* A rank that goes on stays within the schedule.                          *)
LEMMA AdvanceStaysInSchedule ==
  ASSUME TypeOK, setup' = setup, NEW r \in Ranks, Running(r), Advance(r)
  PROVE  PosOK'
<1>1. PICK op, i : op = pos[r].op /\ i = pos[r].stage
  OBVIOUS
<1>2. /\ op \in 1..NumOps /\ i \in 1..End(op) /\ NumOps \in Nat /\ End(op) \in {3, 4, 6}
      /\ op + 1 \in 1..NumOps + 1
  BY <1>1, Standing
<1>3. End(op + 1) \in {3, 4, 6}
  BY <1>2, StagesFacts
<1>4. /\ DOMAIN pos' = Ranks /\ \A q \in Ranks : q # r => pos'[q] = pos[q]
      /\ pos'[r] = IF i < End(op) THEN [op |-> op, stage |-> i + 1]
                   ELSE [op |-> op + 1, stage |-> 1]
  BY <1>1, Advancing
<1>5. /\ pos'[r] \in [op : 1..NumOps + 1, stage : Nat \ {0}]
      /\ pos'[r].stage <= End(pos'[r].op)
      /\ pos'[r].op = NumOps + 1 => pos'[r].stage = 1
  BY <1>2, <1>3, <1>4
<1>6. ASSUME NEW q \in Ranks
      PROVE  /\ pos'[q] \in [op : 1..NumOps + 1, stage : Nat \ {0}]
             /\ pos'[q].stage <= End(pos'[q].op)
             /\ pos'[q].op = NumOps + 1 => pos'[q].stage = 1
  BY <1>4, <1>5 DEF TypeOK
<1>7. Ranks' = Ranks
  BY SetupFrame
<1>8. \A n : End(n)' = End(n)
  BY DEF End
<1> QED
  BY <1>4, <1>6, <1>7, <1>8 DEF PosOK

(* What a rank has reached in one step.                                    *)
LEMMA AdvanceReaches ==
  ASSUME TypeOK, NEW r \in Ranks, Running(r), Advance(r),
         NEW o, o = pos[r].op, NEW i, i = pos[r].stage,
         NEW q \in Ranks, NEW op \in 1..NumOps + 1, NEW stage \in 1..End(op)
  PROVE  AtLeast(q, op, stage)' <=>
           \/ AtLeast(q, op, stage)
           \/ q = r /\ i < End(o) /\ op = o /\ stage = i + 1
           \/ q = r /\ i = End(o) /\ op = o + 1 /\ stage = 1
<1>1. /\ o \in 1..NumOps /\ i \in 1..End(o) /\ End(o) \in {3, 4, 6} /\ NumOps \in Nat
  BY Standing
<1>2. End(op) \in {3, 4, 6}
  BY StagesFacts
<1>3. CASE q # r
  BY <1>3, Advancing DEF AtLeast
<1>4. CASE q = r /\ i < End(o)
  <2>1. pos'[r] = [op |-> o, stage |-> i + 1]
    BY <1>4, Advancing
  <2>2. AtLeast(r, op, stage)' <=> o > op \/ (o = op /\ i + 1 >= stage)
    BY <2>1 DEF AtLeast
  <2>3. AtLeast(r, op, stage) <=> o > op \/ (o = op /\ i >= stage)
    BY DEF AtLeast
  <2> QED
    BY <1>1, <1>2, <1>4, <2>2, <2>3
<1>5. CASE q = r /\ ~(i < End(o))
  <2>1. pos'[r] = [op |-> o + 1, stage |-> 1]
    BY <1>5, Advancing
  <2>2. AtLeast(r, op, stage)' <=> o + 1 > op \/ (o + 1 = op /\ 1 >= stage)
    BY <2>1 DEF AtLeast
  <2>3. AtLeast(r, op, stage) <=> o > op \/ (o = op /\ i >= stage)
    BY DEF AtLeast
  <2>4. i = End(o)
    BY <1>1, <1>5
  <2> QED
    BY <1>1, <1>2, <1>5, <2>2, <2>3, <2>4
<1> QED
  BY <1>3, <1>4, <1>5

(* A barrier is passed only when it opens.                                 *)
LEMMA BarriersKept ==
  ASSUME TypeOK, Barriers, setup' = setup, NEW r \in Ranks, Running(r), Advance(r),
         Stands(r, "counts_ready") \/ Stands(r, "hidden_ready") =>
           \A q \in Ranks : Reached(q, r)
  PROVE  Barriers'
<1>1. PICK o, i : o = pos[r].op /\ i = pos[r].stage
  OBVIOUS
<1>2. /\ o \in 1..NumOps /\ i \in 1..End(o) /\ NumOps \in Nat
      /\ Stands(r, "counts_ready") <=> KindOf(o) = "dispatch" /\ i = 2
      /\ Stands(r, "hidden_ready") <=> i = End(o) - 1
  BY <1>1, Standing
<1>3. Ranks' = Ranks
  BY SetupFrame
<1> SUFFICES ASSUME NEW p \in Ranks, NEW q \in Ranks, NEW op \in 1..NumOps
             PROVE  /\ AtLeast(p, op, End(op))' => AtLeast(q, op, End(op) - 1)'
                    /\ KindOf(op) = "dispatch" /\ AtLeast(p, op, 3)' => AtLeast(q, op, 2)'
  BY <1>3 DEF Barriers, End
<1>4. op \in 1..NumOps + 1 /\ End(op) \in {3, 4, 6} /\ (KindOf(op) = "dispatch" => End(op) = 6)
  BY <1>2, StagesFacts
<1>5. ASSUME NEW u \in Ranks, NEW stage \in 1..End(op)
      PROVE  AtLeast(u, op, stage)' <=>
               \/ AtLeast(u, op, stage)
               \/ u = r /\ i < End(o) /\ op = o /\ stage = i + 1
               \/ u = r /\ i = End(o) /\ op = o + 1 /\ stage = 1
  BY <1>1, <1>4, AdvanceReaches
<1>6. ASSUME Stands(r, "counts_ready") \/ Stands(r, "hidden_ready")
      PROVE  AtLeast(q, o, i)
  BY <1>1, <1>6 DEF Reached, AtLeast
<1>7. AtLeast(p, op, End(op))' => AtLeast(q, op, End(op) - 1)'
  <2> SUFFICES ASSUME AtLeast(p, op, End(op))' PROVE AtLeast(q, op, End(op) - 1)
    BY <1>4, <1>5
  <2>1. CASE AtLeast(p, op, End(op))
    BY <2>1 DEF Barriers
  <2>2. CASE op = o /\ End(op) = i + 1
    BY <1>2, <1>4, <1>6, <2>2
  <2> QED
    BY <1>4, <1>5, <2>1, <2>2
<1>8. KindOf(op) = "dispatch" /\ AtLeast(p, op, 3)' => AtLeast(q, op, 2)'
  <2> SUFFICES ASSUME KindOf(op) = "dispatch", AtLeast(p, op, 3)' PROVE AtLeast(q, op, 2)
    BY <1>4, <1>5
  <2>1. CASE AtLeast(p, op, 3)
    BY <2>1 DEF Barriers
  <2>2. CASE op = o /\ 3 = i + 1
    BY <1>2, <1>4, <1>6, <2>2
  <2> QED
    BY <1>4, <1>5, <2>1, <2>2
<1> QED
  BY <1>7, <1>8

-------------------------------------------------------------------------------
(* What the steps have in common.                                          *)

(* A rank makes a step: it goes on, or its copy kernel does.               *)
Moves(r) ==
  /\ setup' = setup /\ Running(r)
  /\ \A q \in Ranks \ {r} : sent'[q] = sent[q]
  /\ \/ Advance(r) /\ sent'[r] = {}
     \/ UNCHANGED pos /\ (Stands(r, "send_counts") \/ Stands(r, "send_rows"))

(* The stages that follow each other.                                      *)
LEMMA MovesTo ==
  ASSUME TypeOK, NEW r \in Ranks, Moves(r),
         NEW o, o = pos[r].op, NEW i, i = pos[r].stage
  PROVE  /\ Ranks' = Ranks
         /\ \A q \in Ranks : q # r => pos'[q] = pos[q] /\ sent'[q] = sent[q]
         /\ \/ /\ Advance(r) /\ sent'[r] = {}
               /\ pos'[r] = IF i < End(o) THEN [op |-> o, stage |-> i + 1]
                            ELSE [op |-> o + 1, stage |-> 1]
            \/ pos' = pos /\ (Stands(r, "send_counts") \/ Stands(r, "send_rows"))
<1>1. Ranks' = Ranks
  BY SetupFrame DEF Moves
<1>2. CASE Advance(r) /\ sent'[r] = {}
  BY <1>1, <1>2, Advancing DEF Moves
<1>3. CASE UNCHANGED pos /\ (Stands(r, "send_counts") \/ Stands(r, "send_rows"))
  BY <1>1, <1>3 DEF Moves
<1> QED
  BY <1>2, <1>3 DEF Moves

(* Every step keeps to the schedule.                                       *)
LEMMA PosKept ==
  ASSUME TypeOK, NEW r \in Ranks, Moves(r)
  PROVE  PosOK'
<1>1. CASE Advance(r)
  BY <1>1, AdvanceStaysInSchedule DEF Moves
<1>2. CASE UNCHANGED pos
  <2>1. PosOK
    BY DEF TypeOK, PosOK
  <2>2. Ranks' = Ranks
    BY SetupFrame DEF Moves
  <2> QED
    BY <1>2, <2>1, <2>2 DEF PosOK, End
<1> QED
  BY <1>1, <1>2 DEF Moves

(* A kernel that ends leaves no peer marked.                               *)
LEMMA SentKept ==
  ASSUME TypeOK, SentInKernel, NEW r \in Ranks, Moves(r)
  PROVE  SentInKernel'
<1>1. PICK o, i : o = pos[r].op /\ i = pos[r].stage
  OBVIOUS
<1>2. /\ Ranks' = Ranks
      /\ \A q \in Ranks : q # r => pos'[q] = pos[q] /\ sent'[q] = sent[q]
      /\ \/ sent'[r] = {}
         \/ pos' = pos /\ (Stands(r, "send_counts") \/ Stands(r, "send_rows"))
  BY <1>1, MovesTo
<1>3. ASSUME NEW q \in Ranks, pos'[q] = pos[q]
      PROVE  \A name : Stands(q, name)' <=> Stands(q, name)
  BY <1>3 DEF Stands, Running, At
<1>4. ASSUME NEW q \in Ranks, sent'[q] # {}
      PROVE  Stands(q, "send_counts")' \/ Stands(q, "send_rows")'
  BY <1>2, <1>3, <1>4 DEF SentInKernel
<1> QED
  BY <1>2, <1>4 DEF SentInKernel

(* Only the copy of counts changes what has been sent.                     *)
LEMMA CountsSentKept ==
  ASSUME TypeOK, CountsSent, NEW r \in Ranks, Moves(r),
         ~Stands(r, "send_counts"), counts' = counts
  PROVE  CountsSent'
<1>1. PICK o, i : o = pos[r].op /\ i = pos[r].stage
  OBVIOUS
<1>2. /\ o \in 1..NumOps /\ i \in 1..End(o) /\ NumOps \in Nat
      /\ Stands(r, "send_counts") <=> KindOf(o) = "dispatch" /\ i = 1
  BY <1>1, Standing DEF Moves
<1>3. /\ Ranks' = Ranks
      /\ \A q \in Ranks : q # r => pos'[q] = pos[q] /\ sent'[q] = sent[q]
      /\ \/ /\ sent'[r] = {}
            /\ pos'[r] = IF i < End(o) THEN [op |-> o, stage |-> i + 1]
                         ELSE [op |-> o + 1, stage |-> 1]
         \/ pos' = pos
  BY <1>1, MovesTo
<1>4. \A q, layer : LocalCounts(q, layer)' = LocalCounts(q, layer)
  BY SetupFrame DEF Moves
<1> SUFFICES ASSUME NEW q \in Ranks, NEW p \in Ranks, pos'[q].op <= NumOps,
                    KindOf(pos'[q].op) = "dispatch", pos'[q].stage >= 2 \/ p \in sent'[q]
             PROVE  counts[p][q] = LocalCounts(q, LayerOf(pos'[q].op))
  BY <1>3, <1>4 DEF CountsSent
<1>5. CASE q # r
  BY <1>3, <1>5 DEF CountsSent
<1>6. CASE q = r /\ pos' = pos
  <2>1. i >= 2
    BY <1>1, <1>2, <1>6
  <2> QED
    BY <1>1, <1>6, <2>1 DEF CountsSent
<1>7. CASE q = r /\ pos' # pos
  <2>1. i < End(o) /\ pos'[r] = [op |-> o, stage |-> i + 1]
    BY <1>2, <1>3, <1>7
  <2>2. i >= 2 /\ KindOf(o) = "dispatch" /\ pos'[r].op = o
    BY <1>2, <1>7, <2>1
  <2> QED
    BY <1>1, <1>2, <1>7, <2>2 DEF CountsSent
<1> QED
  BY <1>5, <1>6, <1>7

(* Only reading the counts changes what is known.                          *)
LEMMA CountsKnownKept ==
  ASSUME TypeOK, CountsKnown, NEW r \in Ranks, Moves(r),
         ~Stands(r, "read_counts"), known' = known
  PROVE  CountsKnown'
<1>1. PICK o, i : o = pos[r].op /\ i = pos[r].stage
  OBVIOUS
<1>2. /\ o \in 1..NumOps /\ i \in 1..End(o) /\ NumOps \in Nat
      /\ Stands(r, "read_counts") <=> KindOf(o) = "dispatch" /\ i = 3
  BY <1>1, Standing DEF Moves
<1>3. /\ Ranks' = Ranks
      /\ \A q \in Ranks : q # r => pos'[q] = pos[q]
      /\ \/ pos'[r] = IF i < End(o) THEN [op |-> o, stage |-> i + 1]
                      ELSE [op |-> o + 1, stage |-> 1]
         \/ pos' = pos
  BY <1>1, MovesTo
<1>4. \A layer : AllCounts(layer)' = AllCounts(layer)
  BY SetupFrame DEF Moves
<1>5. KindOf(o) = "dispatch" => End(o) = 6
  BY <1>2, StagesFacts
<1> SUFFICES ASSUME NEW q \in Ranks, pos'[q].op <= NumOps,
                    KindOf(pos'[q].op) # "dispatch" \/ pos'[q].stage >= 4
             PROVE  known[q] = AllCounts(LayerOf(pos'[q].op))
  BY <1>3, <1>4 DEF CountsKnown
<1>6. CASE q # r \/ pos' = pos
  BY <1>3, <1>6 DEF CountsKnown
<1>7. CASE q = r /\ pos' # pos /\ i < End(o)
  <2>1. pos'[r] = [op |-> o, stage |-> i + 1]
    BY <1>3, <1>7
  <2>2. (KindOf(o) # "dispatch" \/ i >= 4) /\ pos'[r].op = o
    BY <1>2, <1>7, <2>1
  <2> QED
    BY <1>1, <1>2, <1>7, <2>2 DEF CountsKnown
<1>8. CASE q = r /\ pos' # pos /\ ~(i < End(o))
  <2>1. pos'[r] = [op |-> o + 1, stage |-> 1]
    BY <1>3, <1>8
  <2>2. o + 1 \in 1..NumOps /\ KindOf(o + 1) # "dispatch" /\ pos'[r].op = o + 1
    BY <1>2, <1>8, <2>1
  <2>3. LayerOf(o + 1) = LayerOf(o)
    <3>1. (o + 1) - 1 = o
      BY <1>2
    <3> QED
      BY <2>2, <3>1, ScheduleFacts
  <2>4. KindOf(o) # "dispatch" \/ i >= 4
    <3>1. End(o) \in {3, 4, 6}
      BY <1>2, StagesFacts
    <3> QED
      BY <1>2, <1>5, <1>8, <3>1
  <2> QED
    BY <1>1, <1>2, <1>8, <2>2, <2>3, <2>4 DEF CountsKnown
<1> QED
  BY <1>6, <1>7, <1>8

(* The operation that follows one of the slots' rows is one of the         *)
(* experts' rows, and conversely.                                          *)
LEMMA KindsAlternate ==
  ASSUME NEW op \in 1..NumOps, op + 1 \in 1..NumOps, ~FromSlots(KindOf(op + 1))
  PROVE  FromSlots(KindOf(op)) /\ LayerOf(op + 1) = LayerOf(op)
<1>1. NumOps \in Nat /\ (op + 1) - 1 = op
  BY ScheduleFacts
<1>2. KindOf(op + 1) \in Kinds
  BY <1>1, StagesFacts
<1>3. KindOf(op + 1) = "combine" \/ KindOf(op + 1) = "dispatch_backward"
  BY <1>2 DEF Kinds, FromSlots
<1> QED
  BY <1>1, <1>3, ScheduleFacts DEF FromSlots

(* Only the experts change their output, and only they end an operation    *)
(* that the experts' rows follow.                                          *)
LEMMA OutputsKept ==
  ASSUME TypeOK, OutputsReady, NEW r \in Ranks, Moves(r),
         ~(Stands(r, "read") /\ FromSlots(At(r).kind)), output' = output
  PROVE  OutputsReady'
<1>1. PICK o, i : o = pos[r].op /\ i = pos[r].stage
  OBVIOUS
<1>2. /\ o \in 1..NumOps /\ i \in 1..End(o) /\ NumOps \in Nat /\ End(o) \in {3, 4, 6}
      /\ Stands(r, "read") <=> i = End(o)
      /\ At(r).kind = KindOf(o)
  BY <1>1, Standing DEF Moves
<1>3. /\ Ranks' = Ranks
      /\ \A q \in Ranks : q # r => pos'[q] = pos[q]
      /\ \/ pos'[r] = IF i < End(o) THEN [op |-> o, stage |-> i + 1]
                      ELSE [op |-> o + 1, stage |-> 1]
         \/ pos' = pos
  BY <1>1, MovesTo
<1>4. setup' = setup
  BY DEF Moves
<1>5. ASSUME NEW p \in Ranks, pos'[p].op <= NumOps, ~FromSlots(KindOf(pos'[p].op))
      PROVE  pos'[p].op = pos[p].op
  <2>1. CASE p # r \/ pos' = pos
    BY <1>3, <2>1
  <2>2. CASE p = r /\ pos' # pos /\ i < End(o)
    BY <1>1, <1>3, <2>2
  <2>3. CASE p = r /\ pos' # pos /\ ~(i < End(o))
    <3>1. pos'[r].op = o + 1
      BY <1>3, <2>3
    <3>2. o + 1 \in 1..NumOps
      BY <1>2, <1>5, <2>3, <3>1
    <3>3. FromSlots(KindOf(o))
      BY <1>2, <1>5, <2>3, <3>1, <3>2, KindsAlternate
    <3>4. i = End(o)
      BY <1>2, <2>3
    <3> QED
      BY <1>2, <3>3, <3>4
  <2> QED
    BY <2>1, <2>2, <2>3
<1> SUFFICES ASSUME NEW p \in Ranks, NEW q \in Ranks,
                    pos'[p].op <= NumOps, ~FromSlots(KindOf(pos'[p].op)),
                    NEW s \in Slots(q, LayerOf(pos'[p].op)),
                    Place(q, LayerOf(pos'[p].op), s).rank = p
             PROVE  output[p][Place(q, LayerOf(pos'[p].op), s).row]
                      = [op |-> pos'[p].op - 1, src |-> q, slot |-> s,
                         expert |-> TopkIds(q, LayerOf(pos'[p].op))[s]]
  BY <1>3, <1>4, SetupFrame, PlaceFrame DEF OutputsReady, FromSlots
<1>6. pos'[p].op = pos[p].op
  BY <1>5
<1> QED
  BY <1>6 DEF OutputsReady

(* What has been delivered stays delivered, and no more is if no rows are  *)
(* copied.                                                                 *)
LEMMA RowsKept ==
  ASSUME TypeOK, RowsHeld, NEW r \in Ranks, Moves(r),
         ~Stands(r, "send_rows"), hidden' = hidden
  PROVE  RowsHeld'
<1>1. PICK o, i : o = pos[r].op /\ i = pos[r].stage
  OBVIOUS
<1>2. /\ o \in 1..NumOps /\ i \in 1..End(o) /\ NumOps \in Nat /\ End(o) \in {3, 4, 6}
      /\ i # End(o) - 2
  BY <1>1, Standing DEF Moves
<1>3. /\ Ranks' = Ranks
      /\ \A q \in Ranks : q # r => pos'[q] = pos[q] /\ sent'[q] = sent[q]
      /\ \/ /\ Advance(r) /\ sent'[r] = {}
            /\ pos'[r] = IF i < End(o) THEN [op |-> o, stage |-> i + 1]
                         ELSE [op |-> o + 1, stage |-> 1]
         \/ pos' = pos
  BY <1>1, MovesTo
<1>4. setup' = setup /\ Running(r)
  BY DEF Moves
<1>5. ASSUME NEW q \in Ranks, NEW p \in Ranks, NEW op \in 1..NumOps, Delivered(q, p, op)'
      PROVE  Delivered(q, p, op)
  <2>1. End(op) \in {3, 4, 6} /\ op \in 1..NumOps + 1
    BY <1>2, StagesFacts
  <2>2. CASE q # r
    BY <1>3, <1>5, <2>2 DEF Delivered, AtLeast, End
  <2>3. CASE q = r /\ pos' = pos
    <3>1. ~(pos[r].op = op /\ pos[r].stage = End(op) - 2)
      BY <1>1, <1>2
    <3>2. AtLeast(r, op, End(op) - 1)
      BY <1>5, <2>3, <3>1 DEF Delivered, AtLeast, End
    <3> QED
      BY <2>3, <3>2 DEF Delivered
  <2>4. CASE q = r /\ pos' # pos
    <3>1. Advance(r) /\ sent'[r] = {}
      BY <1>3, <2>4
    <3>2. AtLeast(r, op, End(op) - 1)'
      BY <1>5, <2>4, <3>1 DEF Delivered, End
    <3>3. End(op) - 1 \in 1..End(op) /\ End(op) - 1 # 1
      BY <2>1
    <3>4. AtLeast(r, op, End(op) - 1)' <=>
            \/ AtLeast(r, op, End(op) - 1)
            \/ i < End(o) /\ op = o /\ End(op) - 1 = i + 1
            \/ i = End(o) /\ op = o + 1 /\ End(op) - 1 = 1
      <4>1. PICK stage : stage = End(op) - 1
        OBVIOUS
      <4>2. AtLeast(r, op, stage)' <=>
              \/ AtLeast(r, op, stage)
              \/ r = r /\ i < End(o) /\ op = o /\ stage = i + 1
              \/ r = r /\ i = End(o) /\ op = o + 1 /\ stage = 1
        BY <1>1, <1>4, <2>1, <3>1, <3>3, <4>1, AdvanceReaches
      <4>3. AtLeast(r, op, stage)' <=> AtLeast(r, op, End(op) - 1)'
        BY <4>1 DEF AtLeast, End
      <4> QED
        BY <4>1, <4>2, <4>3
    <3>5. AtLeast(r, op, End(op) - 1)
      BY <1>2, <2>1, <3>2, <3>3, <3>4
    <3> QED
      BY <2>4, <3>5 DEF Delivered
  <2> QED
    BY <2>2, <2>3, <2>4
<1>6. ASSUME NEW p \in Ranks, NEW op \in 1..NumOps, AtLeast(p, op + 1, End(op + 1) - 1)
      PROVE  AtLeast(p, op + 1, End(op + 1) - 1)'
  <2>1. op + 1 \in 1..NumOps + 1 /\ op + 1 \in Nat
    BY <1>2
  <2>2. End(op + 1) \in {3, 4, 6}
    BY <2>1, StagesFacts
  <2>3. CASE p # r \/ pos' = pos
    BY <1>3, <1>6, <2>3 DEF AtLeast, End
  <2>4. CASE p = r /\ pos' # pos
    <3>1. \/ pos'[r] = [op |-> o, stage |-> i + 1]
          \/ pos'[r] = [op |-> o + 1, stage |-> 1]
      BY <1>3, <2>4
    <3>2. o > op + 1 \/ (o = op + 1 /\ i >= End(op + 1) - 1)
      BY <1>1, <1>6, <2>4 DEF AtLeast
    <3>3. \/ pos'[r].op > op + 1
          \/ pos'[r].op = op + 1 /\ pos'[r].stage >= End(op + 1) - 1
      BY <1>2, <2>1, <2>2, <3>1, <3>2
    <3> QED
      BY <2>4, <3>3 DEF AtLeast, End
  <2> QED
    BY <2>3, <2>4
<1> SUFFICES ASSUME NEW p \in Ranks, NEW q \in Ranks, NEW op \in 1..NumOps,
                    Delivered(q, p, op)', ~AtLeast(p, op + 1, End(op + 1) - 1)',
                    NEW m \in Sending(q, p, op)
             PROVE  Holds(hidden[p][BufferOf(op)], m)
  BY <1>3, <1>4, SendingFrame DEF RowsHeld, Holds, BufferOf, HiddenRecvBufferCount
<1> QED
  BY <1>5, <1>6 DEF RowsHeld

-------------------------------------------------------------------------------
(* The copy kernel.                                                        *)

(* Two rows that come to a rank in an operation come to different places.  *)
LEMMA SendingRowsDiffer ==
  ASSUME setup \in Setups, NEW op \in 1..NumOps, NEW r \in Ranks, NEW q \in Ranks,
         NEW p \in Ranks, NEW m \in Sending(q, r, op), NEW n \in Sending(p, r, op),
         m.row = n.row
  PROVE  q = p /\ m = n
<1> DEFINE layer == LayerOf(op)
<1>1. layer \in 1..NumLayers
  BY ScheduleFacts
<1>2. CASE FromSlots(KindOf(op))
  <2>1. PICK s \in Slots(q, layer) :
          /\ Place(q, layer, s).rank = r
          /\ m = [row |-> Place(q, layer, s).row, value |-> [op |-> op, src |-> q, slot |-> s]]
    BY <1>2 DEF Sending
  <2>2. PICK t \in Slots(p, layer) :
          /\ Place(p, layer, t).rank = r
          /\ n = [row |-> Place(p, layer, t).row, value |-> [op |-> op, src |-> p, slot |-> t]]
    BY <1>2 DEF Sending
  <2>3. Place(q, layer, s).row = Place(p, layer, t).row
    BY <2>1, <2>2
  <2> HIDE DEF layer
  <2>4. q = p /\ s = t
    BY <1>1, <2>1, <2>2, <2>3, PlacesDiffer
  <2> QED
    BY <2>1, <2>2, <2>4
<1>3. CASE ~FromSlots(KindOf(op))
  <2>1. PICK s \in Slots(r, layer) :
          /\ Place(r, layer, s).rank = q
          /\ m = [row |-> TRowToERow(r, layer)[s],
                  value |-> [op |-> op - 1, src |-> r, slot |-> s,
                             expert |-> TopkIds(r, layer)[s]]]
    BY <1>3 DEF Sending
  <2>2. PICK t \in Slots(r, layer) :
          /\ Place(r, layer, t).rank = p
          /\ n = [row |-> TRowToERow(r, layer)[t],
                  value |-> [op |-> op - 1, src |-> r, slot |-> t,
                             expert |-> TopkIds(r, layer)[t]]]
    BY <1>3 DEF Sending
  <2>3. TRowToERow(r, layer)[s] = TRowToERow(r, layer)[t]
    BY <2>1, <2>2
  <2> HIDE DEF layer
  <2>4. s = t
    BY <1>1, <2>3, SortPermutes
  <2> QED
    BY <2>1, <2>2, <2>4
<1> QED
  BY <1>2, <1>3

(* What a rank computes from its metadata to send is what it has to send.  *)
LEMMA SendsAreSending ==
  ASSUME TypeOK, CountsKnown, OutputsReady, NEW r \in Ranks, Stands(r, "send_rows"),
         NEW op, op = pos[r].op, NEW p \in Ranks
  PROVE  /\ \A m \in Sends(r) : m.to.rank = p =>
              [row |-> m.to.row, value |-> m.value] \in Sending(r, p, op)
         /\ \A n \in Sending(r, p, op) : \E m \in Sends(r) :
              m.to.rank = p /\ m.to.row = n.row /\ m.value = n.value
<1> DEFINE layer == LayerOf(op)
<1>1. PICK i : i = pos[r].stage
  OBVIOUS
<1>2. /\ op \in 1..NumOps /\ i = End(op) - 2 /\ NumOps \in Nat
      /\ At(r).op = op /\ At(r).kind = KindOf(op) /\ At(r).layer = layer
  BY <1>1, Standing
<1>3. KindOf(op) = "dispatch" => i = 4
  BY <1>2, StagesFacts
<1>4. layer \in 1..NumLayers /\ setup \in Setups
  BY <1>2, ScheduleFacts DEF TypeOK
<1>5. known[r] = AllCounts(layer)
  <2>1. op <= NumOps /\ (KindOf(op) # "dispatch" \/ i >= 4)
    BY <1>2, <1>3
  <2> HIDE DEF layer
  <2>2. pos[r].op <= NumOps /\ (KindOf(pos[r].op) # "dispatch" \/ pos[r].stage >= 4)
    BY <1>1, <2>1
  <2>3. known[r] = AllCounts(LayerOf(pos[r].op))
    BY <2>2 DEF CountsKnown
  <2> QED
    BY <2>3 DEF layer
<1>6. FromSlots(KindOf(op)) <=> At(r).kind \in {"dispatch", "combine_backward"}
  BY <1>2 DEF FromSlots
<1>7. CASE FromSlots(KindOf(op))
  <2> DEFINE f == TRowToERow(r, layer)
  <2>1. Sends(r) = {[to |-> DispatchDst(r, layer, n),
                     value |-> [op |-> op, src |-> r, slot |-> ERowToTRow(r, layer)[n]]] :
                       n \in Slots(r, layer)}
    BY <1>2, <1>6, <1>7 DEF Sends, ToExperts
  <2>2. /\ \A s \in Slots(r, layer) : f[s] \in Slots(r, layer) /\ ERowToTRow(r, layer)[f[s]] = s
        /\ \A n \in Slots(r, layer) :
             ERowToTRow(r, layer)[n] \in Slots(r, layer) /\ f[ERowToTRow(r, layer)[n]] = n
    BY <1>4, SortPermutes
  <2>3. \A s \in Slots(r, layer) : DispatchDst(r, layer, f[s]) = Place(r, layer, s)
    BY <1>4, <1>5, DispatchGoesToPlace
  <2>4. Sending(r, p, op) =
          {[row |-> Place(r, layer, s).row, value |-> [op |-> op, src |-> r, slot |-> s]] :
             s \in {s \in Slots(r, layer) : Place(r, layer, s).rank = p}}
    BY <1>7 DEF Sending
  <2> HIDE DEF f, layer
  <2>5. ASSUME NEW m \in Sends(r), m.to.rank = p
        PROVE  [row |-> m.to.row, value |-> m.value] \in Sending(r, p, op)
    <3>1. PICK n \in Slots(r, layer) :
            m = [to |-> DispatchDst(r, layer, n),
                 value |-> [op |-> op, src |-> r, slot |-> ERowToTRow(r, layer)[n]]]
      BY <2>1
    <3>2. PICK s \in Slots(r, layer) : s = ERowToTRow(r, layer)[n] /\ n = f[s]
      BY <2>2
    <3>3. m.to = Place(r, layer, s) /\ m.value = [op |-> op, src |-> r, slot |-> s]
      BY <2>3, <3>1, <3>2
    <3> QED
      BY <2>4, <2>5, <3>3
  <2>6. ASSUME NEW n \in Sending(r, p, op)
        PROVE  \E m \in Sends(r) : m.to.rank = p /\ m.to.row = n.row /\ m.value = n.value
    <3>1. PICK s \in Slots(r, layer) :
            /\ Place(r, layer, s).rank = p
            /\ n = [row |-> Place(r, layer, s).row, value |-> [op |-> op, src |-> r, slot |-> s]]
      BY <2>4
    <3> DEFINE m == [to |-> DispatchDst(r, layer, f[s]),
                     value |-> [op |-> op, src |-> r, slot |-> ERowToTRow(r, layer)[f[s]]]]
    <3>2. m \in Sends(r)
      BY <2>1, <2>2
    <3>3. m.to = Place(r, layer, s) /\ m.value = [op |-> op, src |-> r, slot |-> s]
      BY <2>2, <2>3
    <3> QED
      BY <3>1, <3>2, <3>3
  <2> QED
    BY <2>5, <2>6
<1>8. CASE ~FromSlots(KindOf(op))
  <2>1. Sends(r) = {[to |-> CombineDst(r, n), value |-> output[r][n]] : n \in ActiveRows(r)}
    BY <1>6, <1>8 DEF Sends, ToOrigins
  <2>2. Sending(r, p, op) =
          {[row |-> TRowToERow(p, layer)[s],
            value |-> [op |-> op - 1, src |-> p, slot |-> s, expert |-> TopkIds(p, layer)[s]]] :
             s \in {s \in Slots(p, layer) : Place(p, layer, s).rank = r}}
    BY <1>8 DEF Sending
  <2>3. \A q \in Ranks : \A s \in Slots(q, layer) : Place(q, layer, s).rank = r =>
          output[r][Place(q, layer, s).row]
            = [op |-> op - 1, src |-> q, slot |-> s, expert |-> TopkIds(q, layer)[s]]
    BY <1>2, <1>8 DEF OutputsReady
  <2>4. \A q \in Ranks : \A s \in Slots(q, layer) : Place(q, layer, s).rank = r =>
          /\ Place(q, layer, s).row \in ActiveRows(r)
          /\ CombineDst(r, Place(q, layer, s).row) = [rank |-> q, row |-> TRowToERow(q, layer)[s]]
    <3> SUFFICES ASSUME NEW q \in Ranks, NEW s \in Slots(q, layer), Place(q, layer, s).rank = r
                 PROVE  /\ Place(q, layer, s).row \in ActiveRows(r)
                        /\ CombineDst(r, Place(q, layer, s).row)
                             = [rank |-> q, row |-> TRowToERow(q, layer)[s]]
      OBVIOUS
    <3> HIDE DEF layer
    <3>1. Place(q, layer, s).row \in ActiveRows(r)
      BY <1>4, <1>5, PlaceIsRow
    <3>2. CombineDst(r, Place(q, layer, s).row) = [rank |-> q, row |-> TRowToERow(q, layer)[s]]
      BY <1>4, <1>5, CombineGoesBack
    <3> QED
      BY <3>1, <3>2
  <2>5. \A n \in ActiveRows(r) : \E q \in Ranks : \E s \in Slots(q, layer) :
          Place(q, layer, s).rank = r /\ Place(q, layer, s).row = n
    <3> SUFFICES ASSUME NEW n \in ActiveRows(r)
                 PROVE  \E q \in Ranks : \E s \in Slots(q, layer) :
                          Place(q, layer, s).rank = r /\ Place(q, layer, s).row = n
      OBVIOUS
    <3>1. PICK g \in Segments(r) : n \in RowsOf(r, g)
      BY DEF ActiveRows
    <3>2. g[2] \in Ranks
      BY DEF Segments
    <3> HIDE DEF layer
    <3> QED
      BY <1>4, <1>5, <3>1, <3>2, RowsArePlaces
  <2> HIDE DEF layer
  <2>6. ASSUME NEW m \in Sends(r), m.to.rank = p
        PROVE  [row |-> m.to.row, value |-> m.value] \in Sending(r, p, op)
    <3>1. PICK n \in ActiveRows(r) : m = [to |-> CombineDst(r, n), value |-> output[r][n]]
      BY <2>1
    <3>2. PICK q \in Ranks : \E s \in Slots(q, layer) :
            Place(q, layer, s).rank = r /\ Place(q, layer, s).row = n
      BY <2>5
    <3>3. PICK s \in Slots(q, layer) :
            Place(q, layer, s).rank = r /\ Place(q, layer, s).row = n
      BY <3>2
    <3>4. m.to = [rank |-> q, row |-> TRowToERow(q, layer)[s]]
      BY <2>4, <3>1, <3>3
    <3>5. m.value = [op |-> op - 1, src |-> q, slot |-> s, expert |-> TopkIds(q, layer)[s]]
      BY <2>3, <3>1, <3>3
    <3>6. q = p /\ m.to.row = TRowToERow(q, layer)[s]
      BY <2>6, <3>4
    <3> QED
      BY <2>2, <3>3, <3>5, <3>6
  <2>7. ASSUME NEW n \in Sending(r, p, op)
        PROVE  \E m \in Sends(r) : m.to.rank = p /\ m.to.row = n.row /\ m.value = n.value
    <3>1. PICK s \in Slots(p, layer) :
            /\ Place(p, layer, s).rank = r
            /\ n = [row |-> TRowToERow(p, layer)[s],
                    value |-> [op |-> op - 1, src |-> p, slot |-> s,
                               expert |-> TopkIds(p, layer)[s]]]
      BY <2>2
    <3> DEFINE k == Place(p, layer, s).row
               m == [to |-> CombineDst(r, k), value |-> output[r][k]]
    <3>2. m \in Sends(r)
      BY <2>1, <2>4, <3>1
    <3>3. m.to = [rank |-> p, row |-> TRowToERow(p, layer)[s]] /\ m.value = n.value
      BY <2>3, <2>4, <3>1
    <3> QED
      BY <3>1, <3>2, <3>3
  <2> QED
    BY <2>6, <2>7
<1> QED
  BY <1>7, <1>8

(* The kernel stores the rows meant for a peer and leaves the others.      *)
LEMMA StoresRows ==
  ASSUME NEW buffer, NEW sends, NEW p, NEW rows,
         \A m \in sends : m.to.rank = p => [row |-> m.to.row, value |-> m.value] \in rows,
         \A n \in rows : \E m \in sends : m.to.rank = p /\ m.to.row = n.row /\ m.value = n.value,
         \A n, k \in rows : n.row = k.row => n = k
  PROVE  /\ \A n \in rows : Holds(Stored(buffer, sends, p), n)
         /\ \A n : Holds(buffer, n) /\ (\A k \in rows : k.row # n.row) =>
              Holds(Stored(buffer, sends, p), n)
<1> DEFINE mine == {m \in sends : m.to.rank = p}
           places == {m.to.row : m \in mine}
           after == Stored(buffer, sends, p)
<1>1. after = [row \in DOMAIN buffer \cup places |->
                 IF row \in places THEN (CHOOSE m \in mine : m.to.row = row).value
                 ELSE buffer[row]]
  BY DEF Stored
<1>2. ASSUME NEW n \in rows PROVE Holds(after, n)
  <2>1. PICK m \in mine : m.to.row = n.row /\ m.value = n.value
    OBVIOUS
  <2> DEFINE c == CHOOSE m1 \in mine : m1.to.row = n.row
  <2>2. c \in mine /\ c.to.row = n.row
    BY <2>1
  <2> HIDE DEF c
  <2>3. [row |-> c.to.row, value |-> c.value] \in rows
    BY <2>2
  <2>4. [row |-> c.to.row, value |-> c.value] = n
    BY <2>2, <2>3
  <2>5. c.value = n.value
    BY <2>4
  <2>6. n.row \in places
    BY <2>1
  <2>7. n.row \in DOMAIN after /\ after[n.row] = c.value
    <3> HIDE DEF after, places, mine
    <3> QED BY <1>1, <2>6 DEF c
  <2> HIDE DEF after
  <2> QED BY <2>5, <2>7 DEF Holds
<1>3. ASSUME NEW n, Holds(buffer, n), \A k \in rows : k.row # n.row
      PROVE  Holds(after, n)
  <2>1. n.row \notin places
    <3> SUFFICES ASSUME NEW m \in mine, m.to.row = n.row PROVE FALSE
      OBVIOUS
    <3> DEFINE k == [row |-> m.to.row, value |-> m.value]
    <3>1. k \in rows /\ k.row = n.row
      OBVIOUS
    <3> QED
      BY <1>3, <3>1
  <2> HIDE DEF after, places
  <2> QED BY <1>1, <1>3, <2>1 DEF Holds
<1> QED
  BY <1>2, <1>3

(* A copy kernel goes to one more peer, and after the last one the rank    *)
(* goes on.                                                                *)
LEMMA KernelMoves ==
  ASSUME TypeOK, setup' = setup, NEW r \in Ranks, NEW peer \in Ranks,
         Stands(r, "send_counts") \/ Stands(r, "send_rows"), Reach(r, peer)
  PROVE  /\ Moves(r) /\ sent' \in [Ranks -> SUBSET Ranks]
         /\ \/ Advance(r) /\ sent[r] \cup {peer} = Ranks /\ sent'[r] = {}
            \/ pos' = pos /\ sent'[r] = sent[r] \cup {peer}
<1>1. sent \in [Ranks -> SUBSET Ranks]
  BY DEF TypeOK
<1>2. Running(r)
  BY DEF Stands
<1>3. CASE sent[r] \cup {peer} = Ranks
  <2>1. sent' = [sent EXCEPT ![r] = {}] /\ Advance(r)
    BY <1>3 DEF Reach
  <2>2. sent'[r] = {} /\ sent' \in [Ranks -> SUBSET Ranks]
        /\ \A q \in Ranks \ {r} : sent'[q] = sent[q]
    BY <1>1, <2>1
  <2> QED
    BY <1>2, <1>3, <2>1, <2>2 DEF Moves
<1>4. CASE sent[r] \cup {peer} # Ranks
  <2>1. sent' = [sent EXCEPT ![r] = sent[r] \cup {peer}] /\ UNCHANGED pos
    BY <1>4 DEF Reach
  <2>2. sent'[r] = sent[r] \cup {peer} /\ sent' \in [Ranks -> SUBSET Ranks]
        /\ \A q \in Ranks \ {r} : sent'[q] = sent[q]
    BY <1>1, <2>1
  <2> QED
    BY <1>2, <2>1, <2>2 DEF Moves
<1> QED
  BY <1>3, <1>4

(* What a rank delivers with a copy, and what has been delivered before.   *)
LEMMA CopyDelivers ==
  ASSUME TypeOK, setup' = setup, NEW r \in Ranks, NEW peer \in Ranks,
         Stands(r, "send_rows"), Reach(r, peer),
         NEW q \in Ranks, NEW p \in Ranks, NEW op \in 1..NumOps, Delivered(q, p, op)'
  PROVE  Delivered(q, p, op) \/ (q = r /\ p = peer /\ op = pos[r].op)
<1>1. PICK o, i : o = pos[r].op /\ i = pos[r].stage
  OBVIOUS
<1>2. /\ o \in 1..NumOps /\ i = End(o) - 2 /\ NumOps \in Nat /\ End(o) \in {3, 4, 6}
      /\ Running(r)
  BY <1>1, Standing
<1>3. Moves(r)
      /\ \/ Advance(r) /\ sent[r] \cup {peer} = Ranks /\ sent'[r] = {}
         \/ pos' = pos /\ sent'[r] = sent[r] \cup {peer}
  BY KernelMoves
<1>4. \A u \in Ranks : u # r => pos'[u] = pos[u] /\ sent'[u] = sent[u]
  BY <1>1, <1>3, MovesTo
<1>5. End(op) \in {3, 4, 6} /\ op \in 1..NumOps + 1
  BY <1>2, StagesFacts
<1>6. CASE q # r
  BY <1>4, <1>6 DEF Delivered, AtLeast, End
<1>7. CASE q = r /\ pos' = pos /\ sent'[r] = sent[r] \cup {peer}
  BY <1>1, <1>7 DEF Delivered, AtLeast, End
<1>8. CASE q = r /\ Advance(r) /\ sent[r] \cup {peer} = Ranks /\ sent'[r] = {}
  <2>1. PICK stage : stage = End(op) - 1
    OBVIOUS
  <2>2. stage \in 1..End(op) /\ stage # 1
    BY <1>5, <2>1
  <2>3. AtLeast(r, op, stage)'
    BY <1>8, <2>1 DEF Delivered, AtLeast, End
  <2>4. \/ AtLeast(r, op, stage)
        \/ op = o /\ stage = i + 1
    <3>1. AtLeast(r, op, stage)' <=>
            \/ AtLeast(r, op, stage)
            \/ r = r /\ i < End(o) /\ op = o /\ stage = i + 1
            \/ r = r /\ i = End(o) /\ op = o + 1 /\ stage = 1
      <4>1. Advance(r) /\ Running(r)
        BY <1>2, <1>8
      <4>2. op \in 1..NumOps + 1 /\ stage \in 1..End(op)
        BY <1>5, <2>2
      <4> QED
        BY <1>1, <4>1, <4>2, AdvanceReaches
    <3> QED
      BY <2>2, <2>3, <3>1
  <2>5. CASE AtLeast(r, op, stage)
    BY <1>8, <2>1, <2>5 DEF Delivered
  <2>6. CASE op = o /\ p # peer
    BY <1>1, <1>2, <1>8, <2>6 DEF Delivered
  <2> QED
    BY <1>1, <1>8, <2>4, <2>5, <2>6
<1> QED
  BY <1>3, <1>6, <1>7, <1>8

(* Two operations that share a buffer are at least two apart.              *)
LEMMA SameBuffer ==
  ASSUME NEW op \in Int, NEW o \in Int, BufferOf(op) = BufferOf(o)
  PROVE  op = o \/ op + 2 <= o \/ o + 2 <= op
BY DEF BufferOf, HiddenRecvBufferCount

(* While rows are copied for an operation, no rank still needs what an     *)
(* earlier one brought to the same buffer, and none is at a later one.     *)
LEMMA BufferIsFree ==
  ASSUME TypeOK, Barriers, NEW r \in Ranks, Stands(r, "send_rows"), NEW o, o = pos[r].op,
         NEW q \in Ranks, NEW p \in Ranks, NEW op \in 1..NumOps,
         BufferOf(op) = BufferOf(o), Delivered(q, p, op),
         ~AtLeast(p, op + 1, End(op + 1) - 1)
  PROVE  op = o
<1>1. PICK i : i = pos[r].stage
  OBVIOUS
<1>2. o \in 1..NumOps /\ i = End(o) - 2 /\ NumOps \in Nat /\ End(o) \in {3, 4, 6}
  BY <1>1, Standing
<1>3. op \in Int /\ o \in Int
  BY <1>2
<1>4. ~(op + 2 <= o)
  <2> SUFFICES ASSUME op + 2 <= o PROVE FALSE
    OBVIOUS
  <2>1. op + 1 \in 1..NumOps
    BY <1>2
  <2>2. AtLeast(r, op + 1, End(op + 1))
    BY <1>2, <2>1 DEF AtLeast
  <2>3. AtLeast(p, op + 1, End(op + 1) - 1)
    BY <2>1, <2>2 DEF Barriers
  <2> QED
    BY <2>3
<1>5. ~(o + 2 <= op)
  <2> SUFFICES ASSUME o + 2 <= op PROVE FALSE
    OBVIOUS
  <2>1. pos[q].op >= op
    <3>1. pos[q].op \in Int
      BY <1>2 DEF TypeOK
    <3> QED
      BY <3>1 DEF Delivered, AtLeast
  <2>2. pos[q].op \in Int
    BY <1>2 DEF TypeOK
  <2>3. AtLeast(q, o, End(o))
    BY <1>2, <2>1, <2>2 DEF AtLeast
  <2>4. AtLeast(r, o, End(o) - 1)
    BY <1>2, <2>3 DEF Barriers
  <2>5. o > o \/ i >= End(o) - 1
    BY <1>1, <2>4 DEF AtLeast
  <2> QED
    BY <1>2, <2>5
<1> QED
  BY <1>3, <1>4, <1>5, SameBuffer

(* A copy brings its rows and leaves all others that a rank still needs.   *)
LEMMA CopyKeepsRows ==
  ASSUME ExchangeInv, NEW r \in Ranks, NEW peer \in Ranks, SendRows(r, peer)
  PROVE  RowsHeld'
<1>a. TypeOK /\ Barriers /\ CountsKnown /\ OutputsReady /\ RowsHeld
  BY DEF ExchangeInv
<1>1. PICK o, i : o = pos[r].op /\ i = pos[r].stage
  OBVIOUS
<1> DEFINE b == BufferOf(o)
           old == hidden[peer][b]
<1>2. /\ setup' = setup /\ Stands(r, "send_rows") /\ Reach(r, peer) /\ setup \in Setups
      /\ hidden' = [hidden EXCEPT ![peer][BufferOf(At(r).op)] = Stored(@, Sends(r), peer)]
  BY <1>a DEF SendRows, TypeOK
<1>3. o \in 1..NumOps /\ NumOps \in Nat /\ At(r).op = o
  BY <1>a, <1>1, <1>2, Standing
<1>4. Ranks' = Ranks
  BY <1>2, SetupFrame
<1>5. DOMAIN hidden = Ranks /\ DOMAIN hidden[peer] = 0..HiddenRecvBufferCount - 1
      /\ b \in 0..HiddenRecvBufferCount - 1
  <2>1. DOMAIN hidden = Ranks /\ DOMAIN hidden[peer] = 0..HiddenRecvBufferCount - 1
    BY <1>a DEF TypeOK
  <2>2. b \in 0..HiddenRecvBufferCount - 1
    BY <1>3 DEF BufferOf, HiddenRecvBufferCount
  <2> QED
    BY <2>1, <2>2
<1>6. /\ hidden'[peer][b] = Stored(old, Sends(r), peer)
      /\ \A p \in Ranks : p # peer => hidden'[p] = hidden[p]
      /\ \A k \in 0..HiddenRecvBufferCount - 1 : k # b => hidden'[peer][k] = hidden[peer][k]
  <2>1. hidden' = [hidden EXCEPT ![peer] =
                     [hidden[peer] EXCEPT ![b] = Stored(hidden[peer][b], Sends(r), peer)]]
    BY <1>2, <1>3
  <2> HIDE DEF b
  <2>2. hidden'[peer] = [hidden[peer] EXCEPT ![b] = Stored(hidden[peer][b], Sends(r), peer)]
    BY <1>5, <2>1
  <2>3. \A p \in Ranks : p # peer => hidden'[p] = hidden[p]
    BY <1>5, <2>1
  <2> QED
    BY <1>5, <2>2, <2>3
<1>7. /\ \A n \in Sending(r, peer, o) : Holds(Stored(old, Sends(r), peer), n)
      /\ \A n : Holds(old, n) /\ (\A k \in Sending(r, peer, o) : k.row # n.row) =>
           Holds(Stored(old, Sends(r), peer), n)
  <2>1. /\ \A m \in Sends(r) : m.to.rank = peer =>
             [row |-> m.to.row, value |-> m.value] \in Sending(r, peer, o)
        /\ \A n \in Sending(r, peer, o) : \E m \in Sends(r) :
             m.to.rank = peer /\ m.to.row = n.row /\ m.value = n.value
    BY <1>a, <1>1, <1>2, SendsAreSending
  <2>2. \A n, k \in Sending(r, peer, o) : n.row = k.row => n = k
    BY <1>2, <1>3, SendingRowsDiffer
  <2> HIDE DEF old
  <2> QED
    BY <2>1, <2>2, StoresRows
<1>8. ASSUME NEW p \in Ranks, NEW op \in 1..NumOps, AtLeast(p, op + 1, End(op + 1) - 1)
      PROVE  AtLeast(p, op + 1, End(op + 1) - 1)'
  <2>1. op + 1 \in 1..NumOps + 1
    BY <1>3
  <2>2. End(op + 1) \in {3, 4, 6}
    BY <2>1, StagesFacts
  <2>3. PICK stage : stage = End(op + 1) - 1
    OBVIOUS
  <2>4. stage \in 1..End(op + 1)
    BY <2>2, <2>3
  <2>5. AtLeast(p, op + 1, stage)
    BY <1>8, <2>3
  <2>6. AtLeast(p, op + 1, stage)'
    <3>1. CASE pos' = pos
      BY <2>5, <3>1 DEF AtLeast
    <3>2. CASE Advance(r)
      BY <1>a, <1>1, <1>2, <2>1, <2>4, <2>5, <3>2, AdvanceReaches DEF Stands
    <3> QED
      BY <1>a, <1>2, <3>1, <3>2, KernelMoves
  <2> QED
    BY <2>3, <2>6 DEF AtLeast, End
<1> SUFFICES ASSUME NEW p \in Ranks, NEW q \in Ranks, NEW op \in 1..NumOps,
                    Delivered(q, p, op)', ~AtLeast(p, op + 1, End(op + 1) - 1)',
                    NEW m \in Sending(q, p, op)
             PROVE  Holds(hidden'[p][BufferOf(op)], m)
  BY <1>2, <1>4, SendingFrame DEF RowsHeld, Holds, BufferOf, HiddenRecvBufferCount
<1>9. ~AtLeast(p, op + 1, End(op + 1) - 1)
  BY <1>8
<1>10. Delivered(q, p, op) \/ (q = r /\ p = peer /\ op = o)
  BY <1>a, <1>1, <1>2, CopyDelivers
<1>11. BufferOf(op) \in 0..HiddenRecvBufferCount - 1
  BY <1>3 DEF BufferOf, HiddenRecvBufferCount
<1>12. CASE q = r /\ p = peer /\ op = o
  BY <1>6, <1>7, <1>12
<1>13. CASE Delivered(q, p, op) /\ (p # peer \/ BufferOf(op) # b)
  <2>1. Holds(hidden[p][BufferOf(op)], m)
    BY <1>a, <1>9, <1>13 DEF RowsHeld
  <2>2. hidden'[p][BufferOf(op)] = hidden[p][BufferOf(op)]
    BY <1>6, <1>11, <1>13
  <2> QED
    BY <2>1, <2>2
<1>14. CASE Delivered(q, p, op) /\ p = peer /\ BufferOf(op) = b /\ q # r
  <2>1. op = o
    BY <1>1, <1>2, <1>9, <1>14, <1>a, BufferIsFree
  <2>2. Holds(old, m)
    BY <1>a, <1>9, <1>14, <2>1 DEF RowsHeld
  <2>3. \A k \in Sending(r, peer, o) : k.row # m.row
    BY <1>2, <1>3, <1>14, <2>1, SendingRowsDiffer
  <2> QED
    BY <1>6, <1>7, <1>14, <2>1, <2>2, <2>3
<1>15. CASE Delivered(q, p, op) /\ p = peer /\ BufferOf(op) = b /\ q = r
  <2>1. op = o
    BY <1>1, <1>2, <1>9, <1>15, <1>a, BufferIsFree
  <2> QED
    BY <1>12, <1>15, <2>1
<1> QED
  BY <1>10, <1>12, <1>13, <1>14, <1>15

(* The counts are copied like the rows, one peer after the other.          *)
LEMMA CountsArrive ==
  ASSUME TypeOK, CountsSent, NEW r \in Ranks, NEW peer \in Ranks, SendCounts(r, peer)
  PROVE  CountsSent' /\ counts' \in [Ranks -> [Ranks -> [Experts -> Nat]]]
<1>1. PICK o, i : o = pos[r].op /\ i = pos[r].stage
  OBVIOUS
<1>2. /\ setup' = setup /\ Stands(r, "send_counts") /\ Reach(r, peer)
      /\ counts' = [counts EXCEPT ![peer][r] = LocalCounts(r, At(r).layer)]
  BY DEF SendCounts
<1>3. /\ o \in 1..NumOps /\ NumOps \in Nat /\ KindOf(o) = "dispatch" /\ i = 1
      /\ At(r).layer = LayerOf(o) /\ End(o) = 6
  BY <1>1, <1>2, Standing, StagesFacts
<1>4. /\ Moves(r)
      /\ \/ Advance(r) /\ sent[r] \cup {peer} = Ranks /\ sent'[r] = {}
         \/ pos' = pos /\ sent'[r] = sent[r] \cup {peer}
  BY <1>2, KernelMoves
<1>5. /\ Ranks' = Ranks
      /\ \A q \in Ranks : q # r => pos'[q] = pos[q] /\ sent'[q] = sent[q]
      /\ pos'[r].op = o
      /\ \A p \in Ranks : (pos'[r].stage >= 2 \/ p \in sent'[r]) => p = peer \/ p \in sent[r]
  <2>1. /\ Ranks' = Ranks
        /\ \A q \in Ranks : q # r => pos'[q] = pos[q] /\ sent'[q] = sent[q]
    BY <1>1, <1>4, MovesTo
  <2>2. CASE Advance(r) /\ sent[r] \cup {peer} = Ranks /\ sent'[r] = {}
    <3>1. pos'[r] = [op |-> o, stage |-> 2]
      <4>1. Running(r) /\ Advance(r)
        BY <1>2, <2>2 DEF Stands
      <4>2. pos'[r] = IF i < End(o) THEN [op |-> o, stage |-> i + 1]
                      ELSE [op |-> o + 1, stage |-> 1]
        BY <1>1, <4>1, Advancing
      <4> QED
        BY <1>3, <4>2
    <3> QED
      BY <2>1, <2>2, <3>1
  <2>3. CASE pos' = pos /\ sent'[r] = sent[r] \cup {peer}
    <3>1. pos'[r].op = o /\ ~(pos'[r].stage >= 2)
      <4>1. pos'[r].op = o /\ pos'[r].stage = i
        BY <1>1, <2>3
      <4>2. ~(i >= 2)
        BY <1>3
      <4> QED
        BY <4>1, <4>2
    <3> QED
      BY <2>1, <2>3, <3>1
  <2> QED
    BY <1>4, <2>2, <2>3
<1>6. counts \in [Ranks -> [Ranks -> [Experts -> Nat]]] /\ setup \in Setups
  BY DEF TypeOK
<1> DEFINE new == LocalCounts(r, LayerOf(o))
<1>7. new \in [Experts -> Nat]
  <2>1. LayerOf(o) \in 1..NumLayers
    BY <1>3, ScheduleFacts
  <2>2. AllCounts(LayerOf(o))[r] = new
    BY DEF AllCounts
  <2>3. new = [x \in Experts |-> new[x]]
    BY DEF LocalCounts, Experts
  <2>4. \A x \in Experts : new[x] \in Nat
    BY <1>6, <2>1, <2>2, CountsOfLayer DEF IsCounts
  <2> HIDE DEF new
  <2> QED
    BY <2>3, <2>4
<1>8. /\ counts' \in [Ranks -> [Ranks -> [Experts -> Nat]]]
      /\ counts'[peer][r] = new
      /\ \A p, q \in Ranks : p # peer \/ q # r => counts'[p][q] = counts[p][q]
  <2>1. counts' = [counts EXCEPT ![peer] = [counts[peer] EXCEPT ![r] = new]]
    BY <1>2, <1>3
  <2> HIDE DEF new
  <2>2. [counts[peer] EXCEPT ![r] = new] \in [Ranks -> [Experts -> Nat]]
    BY <1>6, <1>7
  <2>3. counts' \in [Ranks -> [Ranks -> [Experts -> Nat]]]
    BY <1>6, <2>1, <2>2
  <2>4. counts'[peer] = [counts[peer] EXCEPT ![r] = new]
    BY <1>6, <2>1
  <2>5. \A p \in Ranks : p # peer => counts'[p] = counts[p]
    BY <1>6, <2>1
  <2>6. counts[peer] \in [Ranks -> [Experts -> Nat]]
    BY <1>6
  <2>7. counts'[peer][r] = new /\ \A q \in Ranks : q # r => counts'[peer][q] = counts[peer][q]
    BY <2>4, <2>6
  <2> QED
    BY <2>3, <2>5, <2>7
<1>9. CountsSent'
  <2>1. \A q, layer : LocalCounts(q, layer)' = LocalCounts(q, layer)
    BY <1>2, SetupFrame
  <2> SUFFICES ASSUME NEW q \in Ranks, NEW p \in Ranks, pos'[q].op <= NumOps,
                      KindOf(pos'[q].op) = "dispatch", pos'[q].stage >= 2 \/ p \in sent'[q]
               PROVE  counts'[p][q] = LocalCounts(q, LayerOf(pos'[q].op))
    BY <1>5, <2>1 DEF CountsSent
  <2>2. CASE q # r
    <3>1. counts[p][q] = LocalCounts(q, LayerOf(pos[q].op))
      BY <1>5, <2>2 DEF CountsSent
    <3> QED
      BY <1>5, <1>8, <2>2, <3>1
  <2>3. CASE q = r /\ p = peer
    BY <1>5, <1>8, <2>3
  <2>4. CASE q = r /\ p # peer
    <3>1. p \in sent[r]
      BY <1>5, <2>4
    <3>2. counts[p][r] = LocalCounts(r, LayerOf(pos[r].op))
      <4>1. pos[r].op <= NumOps /\ KindOf(pos[r].op) = "dispatch"
        BY <1>1, <1>3
      <4> QED
        BY <3>1, <4>1 DEF CountsSent
    <3> QED
      BY <1>1, <1>5, <1>8, <2>4, <3>2
  <2> QED
    BY <2>2, <2>3, <2>4
<1> QED
  BY <1>8, <1>9

(* A rank that reads its counts finds those that all ranks have sent.      *)
LEMMA CountsComplete ==
  ASSUME TypeOK, Barriers, CountsSent, NEW r \in Ranks, Stands(r, "read_counts"),
         NEW o, o = pos[r].op
  PROVE  counts[r] = AllCounts(LayerOf(o))
<1>1. PICK i : i = pos[r].stage
  OBVIOUS
<1>2. o \in 1..NumOps /\ NumOps \in Nat /\ KindOf(o) = "dispatch" /\ i = 3
  BY <1>1, Standing
<1>3. End(o) = 6
  BY <1>2, StagesFacts
<1>4. ASSUME NEW q \in Ranks PROVE counts[r][q] = LocalCounts(q, LayerOf(o))
  <2>1. PICK oq, iq : oq = pos[q].op /\ iq = pos[q].stage
    OBVIOUS
  <2>2. oq \in 1..NumOps + 1 /\ iq \in Nat
    BY <1>2, <2>1, Standing
  <2>3. AtLeast(r, o, 3)
    BY <1>1, <1>2 DEF AtLeast
  <2>4. AtLeast(q, o, 2)
    BY <1>2, <2>3 DEF Barriers
  <2>5. oq = o /\ iq >= 2
    <3>1. oq > o \/ (oq = o /\ iq >= 2)
      BY <2>1, <2>4 DEF AtLeast
    <3>2. ~(oq > o)
      <4> SUFFICES ASSUME oq > o PROVE FALSE
        OBVIOUS
      <4>1. AtLeast(q, o, End(o))
        BY <2>1 DEF AtLeast
      <4>2. AtLeast(r, o, End(o) - 1)
        BY <1>2, <4>1 DEF Barriers
      <4>3. o > o \/ i >= 5
        BY <1>1, <1>3, <4>2 DEF AtLeast
      <4> QED
        BY <1>2, <4>3
    <3> QED
      BY <3>1, <3>2
  <2>6. pos[q].op <= NumOps /\ KindOf(pos[q].op) = "dispatch" /\ pos[q].stage >= 2
    BY <1>2, <2>1, <2>5
  <2>7. counts[r][q] = LocalCounts(q, LayerOf(pos[q].op))
    BY <2>6 DEF CountsSent
  <2> QED
    BY <2>1, <2>5, <2>7
<1>5. counts[r] = [q \in Ranks |-> counts[r][q]]
  BY DEF TypeOK
<1> QED
  BY <1>4, <1>5 DEF AllCounts

(* What a rank then knows of the layer is all its counts.                  *)
LEMMA CountsRead ==
  ASSUME TypeOK, Barriers, CountsSent, CountsKnown, NEW r \in Ranks, ReadCounts(r), Moves(r)
  PROVE  CountsKnown' /\ known' \in [Ranks -> [Ranks -> [Experts -> Nat]]]
<1>1. PICK o, i : o = pos[r].op /\ i = pos[r].stage
  OBVIOUS
<1>2. /\ setup' = setup /\ Stands(r, "read_counts") /\ Advance(r)
      /\ known' = [known EXCEPT ![r] = counts[r]]
  BY DEF ReadCounts
<1>3. /\ o \in 1..NumOps /\ NumOps \in Nat /\ KindOf(o) = "dispatch" /\ i = 3 /\ End(o) = 6
  BY <1>1, <1>2, Standing, StagesFacts
<1>4. /\ Ranks' = Ranks
      /\ \A q \in Ranks : q # r => pos'[q] = pos[q]
      /\ pos'[r] = [op |-> o, stage |-> 4]
  <2>1. Running(r)
    BY <1>2 DEF Stands
  <2>2. pos'[r] = [op |-> o, stage |-> 4]
    <3>1. pos'[r] = IF i < End(o) THEN [op |-> o, stage |-> i + 1]
                    ELSE [op |-> o + 1, stage |-> 1]
      BY <1>1, <1>2, <2>1, Advancing
    <3> QED
      BY <1>3, <3>1
  <2> QED
    BY <1>1, <2>2, MovesTo
<1>5. /\ known' \in [Ranks -> [Ranks -> [Experts -> Nat]]]
      /\ known'[r] = counts[r] /\ \A q \in Ranks : q # r => known'[q] = known[q]
  BY <1>2 DEF TypeOK
<1>6. \A layer : AllCounts(layer)' = AllCounts(layer)
  BY <1>2, SetupFrame
<1>7. ASSUME NEW q \in Ranks, pos'[q].op <= NumOps,
             KindOf(pos'[q].op) # "dispatch" \/ pos'[q].stage >= 4
      PROVE  known'[q] = AllCounts(LayerOf(pos'[q].op))
  <2>1. CASE q = r
    BY <1>1, <1>2, <1>4, <1>5, <2>1, CountsComplete
  <2>2. CASE q # r
    BY <1>4, <1>5, <1>7, <2>2 DEF CountsKnown
  <2> QED
    BY <2>1, <2>2
<1>8. CountsKnown'
  BY <1>4, <1>6, <1>7 DEF CountsKnown
<1> QED
  BY <1>5, <1>8

(* A rank that reads what an operation brought finds what every rank had   *)
(* for it.                                                                 *)
LEMMA RowsArrived ==
  ASSUME TypeOK, Barriers, RowsHeld, NEW r \in Ranks, NEW op \in 1..NumOps,
         AtLeast(r, op, End(op)), ~AtLeast(r, op + 1, End(op + 1) - 1), NEW q \in Ranks
  PROVE  \A m \in Sending(q, r, op) : Holds(hidden[r][BufferOf(op)], m)
<1>1. AtLeast(q, op, End(op) - 1)
  BY DEF Barriers
<1>2. Delivered(q, r, op)
  BY <1>1 DEF Delivered
<1> QED
  BY <1>2 DEF RowsHeld

(* The rows that the experts of a rank find are those routed to them.      *)
LEMMA ExpertsFind ==
  ASSUME ExchangeInv, NEW r \in Ranks, NEW op \in 1..NumOps, FromSlots(KindOf(op)),
         pos[r].op = op, AtLeast(r, op, End(op))
  PROVE  /\ known[r] = AllCounts(LayerOf(op)) /\ LayerOf(op) \in 1..NumLayers
         /\ \A q \in Ranks : \A s \in Slots(q, LayerOf(op)) : Place(q, LayerOf(op), s).rank = r =>
              LET n == Place(q, LayerOf(op), s).row
                  buffer == hidden[r][BufferOf(op)]
              IN n \in DOMAIN buffer /\ buffer[n] = [op |-> op, src |-> q, slot |-> s]
<1>1. TypeOK /\ Barriers /\ CountsKnown /\ RowsHeld
  BY DEF ExchangeInv
<1>2. NumOps \in Nat /\ LayerOf(op) \in 1..NumLayers
  BY ScheduleFacts
<1>3. PICK i : i = pos[r].stage
  OBVIOUS
<1>4. i \in Nat /\ i >= End(op) /\ End(op) \in {3, 4, 6} /\ (KindOf(op) = "dispatch" => End(op) = 6)
  <2>1. op \in 1..NumOps + 1
    BY <1>2
  <2>2. End(op) \in {3, 4, 6} /\ (KindOf(op) = "dispatch" => End(op) = 6)
    BY <2>1, StagesFacts
  <2>3. i \in 1..End(op)
    BY <1>1, <1>3, Standing
  <2>4. op > op \/ i >= End(op)
    BY <1>3 DEF AtLeast
  <2> QED
    BY <2>1, <2>2, <2>3, <2>4
<1>5. known[r] = AllCounts(LayerOf(op))
  <2>1. pos[r].op <= NumOps /\ (KindOf(pos[r].op) # "dispatch" \/ pos[r].stage >= 4)
    BY <1>2, <1>3, <1>4
  <2> QED
    BY <1>1, <2>1 DEF CountsKnown
<1>6. ~AtLeast(r, op + 1, End(op + 1) - 1)
  <2>1. ~(op > op + 1) /\ ~(op = op + 1)
    BY <1>2
  <2> QED
    BY <2>1 DEF AtLeast
<1>7. ASSUME NEW q \in Ranks, NEW s \in Slots(q, LayerOf(op)),
             Place(q, LayerOf(op), s).rank = r
      PROVE  Holds(hidden[r][BufferOf(op)],
                   [row |-> Place(q, LayerOf(op), s).row,
                    value |-> [op |-> op, src |-> q, slot |-> s]])
  <2>1. [row |-> Place(q, LayerOf(op), s).row, value |-> [op |-> op, src |-> q, slot |-> s]]
          \in Sending(q, r, op)
    BY <1>7 DEF Sending
  <2> QED
    BY <1>1, <1>6, <2>1, RowsArrived
<1> QED
  BY <1>2, <1>5, <1>7 DEF Holds

(* The expert to whose group a slot's place belongs is the one it chose.   *)
LEMMA ExpertOfPlace ==
  ASSUME setup \in Setups, NEW layer \in 1..NumLayers, NEW r \in Ranks,
         known[r] = AllCounts(layer), NEW q \in Ranks, NEW s \in Slots(q, layer),
         Place(q, layer, s).rank = r
  PROVE  (CHOOSE x \in LocalExperts(r) : Place(q, layer, s).row \in ExpertRows(r, x))
           = TopkIds(q, layer)[s]
<1> DEFINE n == Place(q, layer, s).row
           e == TopkIds(q, layer)[s]
<1>1. e \in LocalExperts(r) /\ s \in Choosing(q, layer, e)
  BY PlaceIsRow DEF Choosing
<1>2. n \in ExpertRows(r, e)
  <2> HIDE DEF e
  <2> QED BY <1>1, GroupIsPlaces
<1>3. ASSUME NEW x \in LocalExperts(r), n \in ExpertRows(r, x) PROVE x = e
  <2>1. PICK p \in Ranks : \E o \in Choosing(p, layer, x) :
          Place(p, layer, o).rank = r /\ Place(p, layer, o).row = n
    BY <1>3, GroupIsPlaces
  <2>2. PICK o \in Choosing(p, layer, x) :
          Place(p, layer, o).rank = r /\ Place(p, layer, o).row = n
    BY <2>1
  <2>3. o \in Slots(p, layer) /\ TopkIds(p, layer)[o] = x
    BY DEF Choosing
  <2>4. p = q /\ o = s
    BY <2>2, <2>3, PlacesDiffer
  <2> QED
    BY <2>3, <2>4
<1> HIDE DEF n, e
<1>4. (CHOOSE x \in LocalExperts(r) : n \in ExpertRows(r, x)) = e
  BY <1>1, <1>2, <1>3
<1> QED
  BY <1>4 DEF n, e

(* What the experts make of them is ready for the operation that follows.  *)
LEMMA ExpertsMakeOutput ==
  ASSUME ExchangeInv, NEW r \in Ranks, RunExperts(r), Moves(r)
  PROVE  OutputsReady'
<1>1. PICK o, i : o = pos[r].op /\ i = pos[r].stage
  OBVIOUS
<1>2. /\ setup' = setup /\ Stands(r, "read") /\ Advance(r) /\ Running(r)
      /\ At(r).kind \in {"dispatch", "combine_backward"}
      /\ output' = [output EXCEPT ![r] = ExpertOutput(r)]
      /\ TypeOK /\ OutputsReady /\ DOMAIN output = Ranks /\ setup \in Setups
  BY DEF RunExperts, ExchangeInv, TypeOK, Stands
<1>3. /\ o \in 1..NumOps /\ NumOps \in Nat /\ i = End(o) /\ End(o) \in {3, 4, 6}
      /\ FromSlots(KindOf(o)) /\ At(r).op = o
  BY <1>1, <1>2, Standing DEF FromSlots
<1>4. /\ Ranks' = Ranks
      /\ \A q \in Ranks : q # r => pos'[q] = pos[q]
      /\ pos'[r].op = o + 1
  <2>1. pos'[r] = IF i < End(o) THEN [op |-> o, stage |-> i + 1]
                  ELSE [op |-> o + 1, stage |-> 1]
    BY <1>1, <1>2, Advancing
  <2>2. pos'[r].op = o + 1
    <3>1. ~(i < End(o))
      BY <1>3
    <3> QED
      BY <2>1, <3>1
  <2>3. Ranks' = Ranks /\ \A q \in Ranks : q # r => pos'[q] = pos[q]
    BY <1>1, <1>2, MovesTo
  <2> QED
    BY <2>2, <2>3
<1>5. output'[r] = ExpertOutput(r) /\ \A q \in Ranks : q # r => output'[q] = output[q]
  BY <1>2
<1> DEFINE layer == LayerOf(o)
<1>6. /\ known[r] = AllCounts(layer) /\ layer \in 1..NumLayers
      /\ \A q \in Ranks : \A s \in Slots(q, layer) : Place(q, layer, s).rank = r =>
           LET n == Place(q, layer, s).row
               buffer == hidden[r][BufferOf(o)]
           IN n \in DOMAIN buffer /\ buffer[n] = [op |-> o, src |-> q, slot |-> s]
  <2>1. AtLeast(r, o, End(o))
    BY <1>1, <1>3 DEF AtLeast
  <2> QED
    BY <1>1, <1>3, <2>1, ExpertsFind
<1>7. ASSUME NEW q \in Ranks, NEW s \in Slots(q, layer), Place(q, layer, s).rank = r
      PROVE  output'[r][Place(q, layer, s).row]
               = [op |-> o, src |-> q, slot |-> s, expert |-> TopkIds(q, layer)[s]]
  <2> DEFINE n == Place(q, layer, s).row
             buffer == hidden[r][BufferOf(o)]
             e == TopkIds(q, layer)[s]
             chosen(row) == CHOOSE x \in LocalExperts(r) : row \in ExpertRows(r, x)
  <2>1. buffer[n] = [op |-> o, src |-> q, slot |-> s]
    BY <1>6, <1>7
  <2>2. chosen(n) = e /\ n \in ActiveRows(r)
    <3> HIDE DEF layer
    <3>1. n \in ActiveRows(r)
      BY <1>2, <1>6, <1>7, PlaceIsRow
    <3>2. chosen(n) = e
      BY <1>2, <1>6, <1>7, ExpertOfPlace
    <3> QED
      BY <3>1, <3>2
  <2>3. ExpertOutput(r) = [row \in ActiveRows(r) |->
          [op |-> buffer[row].op, src |-> buffer[row].src, slot |-> buffer[row].slot,
           expert |-> chosen(row)]]
    BY <1>3 DEF ExpertOutput
  <2> HIDE DEF n, buffer, chosen, e
  <2>4. ExpertOutput(r)[n] = [op |-> buffer[n].op, src |-> buffer[n].src,
                              slot |-> buffer[n].slot, expert |-> chosen(n)]
    BY <2>2, <2>3
  <2> QED
    BY <1>5, <2>1, <2>2, <2>4 DEF n, e
<1> SUFFICES ASSUME NEW p \in Ranks, NEW q \in Ranks,
                    pos'[p].op <= NumOps, ~FromSlots(KindOf(pos'[p].op)),
                    NEW s \in Slots(q, LayerOf(pos'[p].op)),
                    Place(q, LayerOf(pos'[p].op), s).rank = p
             PROVE  output'[p][Place(q, LayerOf(pos'[p].op), s).row]
                      = [op |-> pos'[p].op - 1, src |-> q, slot |-> s,
                         expert |-> TopkIds(q, LayerOf(pos'[p].op))[s]]
  BY <1>2, <1>4, SetupFrame, PlaceFrame DEF OutputsReady, FromSlots
<1>8. CASE p # r
  BY <1>2, <1>4, <1>5, <1>8 DEF OutputsReady
<1>9. CASE p = r
  <2>1. o + 1 \in 1..NumOps /\ (o + 1) - 1 = o
    BY <1>3, <1>4, <1>9
  <2>2. LayerOf(o + 1) = layer
    BY <1>3, <1>4, <1>9, <2>1, KindsAlternate
  <2>3. pos'[p].op = o + 1 /\ LayerOf(pos'[p].op) = layer /\ pos'[p].op - 1 = o
    BY <1>4, <1>9, <2>1, <2>2
  <2> HIDE DEF layer
  <2> QED
    BY <1>7, <1>9, <2>3
<1> QED
  BY <1>8, <1>9

-------------------------------------------------------------------------------
(* The invariant holds.                                                    *)

(* Nothing has been sent when the stream starts.                           *)
LEMMA ExchangeInvStarts ==
  ASSUME Init
  PROVE  ExchangeInv
<1>1. /\ setup \in Setups
      /\ pos = [r \in Ranks |-> [op |-> 1, stage |-> 1]]
      /\ sent = [r \in Ranks |-> {}]
      /\ counts = [r \in Ranks |-> [s \in Ranks |-> [x \in Experts |-> 0]]]
      /\ known = counts
      /\ hidden = [r \in Ranks |-> [k \in 0..HiddenRecvBufferCount - 1 |-> <<>>]]
      /\ output = [r \in Ranks |-> <<>>]
  BY DEF Init, Experts
<1>2. NumOps \in Nat /\ KindOf(1) = "dispatch" /\ 1 \in 1..NumOps + 1
  BY ScheduleFacts
<1>3. \A op \in 1..NumOps + 1 : End(op) \in {3, 4, 6}
  BY StagesFacts
<1>4. End(1) = 6
  BY <1>2, StagesFacts
<1>5. \A r \in Ranks : pos[r] = [op |-> 1, stage |-> 1] /\ sent[r] = {}
  BY <1>1
<1>6. \A r \in Ranks : \A op \in 1..NumOps : \A stage \in {2, 3, 4, 5, 6} : ~AtLeast(r, op, stage)
  BY <1>2, <1>5 DEF AtLeast
<1>7. \A op \in 1..NumOps : End(op) \in {2, 3, 4, 5, 6} /\ End(op) - 1 \in {2, 3, 4, 5, 6}
  BY <1>2, <1>3
<1>8. TypeOK
  <2>1. \A r \in Ranks : /\ pos[r] \in [op : 1..NumOps + 1, stage : Nat \ {0}]
                         /\ pos[r].stage <= End(pos[r].op)
                         /\ pos[r].op = NumOps + 1 => pos[r].stage = 1
    BY <1>2, <1>4, <1>5
  <2>2. counts \in [Ranks -> [Ranks -> [Experts -> Nat]]]
    BY <1>1
  <2> QED
    BY <1>1, <2>1, <2>2 DEF TypeOK
<1>9. Barriers
  BY <1>6, <1>7 DEF Barriers
<1>10. SentInKernel
  BY <1>5 DEF SentInKernel
<1>11. CountsSent
  BY <1>5 DEF CountsSent
<1>12. CountsKnown
  BY <1>2, <1>5 DEF CountsKnown
<1>13. OutputsReady
  BY <1>2, <1>5 DEF OutputsReady, FromSlots
<1>14. RowsHeld
  BY <1>5, <1>6, <1>7 DEF RowsHeld, Delivered
<1> QED
  BY <1>8, <1>9, <1>10, <1>11, <1>12, <1>13, <1>14 DEF ExchangeInv

(* What is left to show of a step.                                         *)
LEMMA StepKeeps ==
  ASSUME ExchangeInv, NEW r \in Ranks, Moves(r),
         sent' \in [Ranks -> SUBSET Ranks],
         counts' \in [Ranks -> [Ranks -> [Experts -> Nat]]],
         known' \in [Ranks -> [Ranks -> [Experts -> Nat]]],
         DOMAIN hidden' = Ranks,
         \A q \in Ranks : DOMAIN hidden'[q] = 0..HiddenRecvBufferCount - 1,
         DOMAIN output' = Ranks,
         Stands(r, "counts_ready") \/ Stands(r, "hidden_ready") => \A q \in Ranks : Reached(q, r),
         CountsSent', CountsKnown', OutputsReady', RowsHeld'
  PROVE  ExchangeInv'
<1>1. TypeOK /\ Barriers /\ SentInKernel /\ setup \in Setups
  BY DEF ExchangeInv, TypeOK
<1>2. setup' = setup /\ Ranks' = Ranks /\ Experts' = Experts
  BY SetupFrame DEF Moves
<1>3. TypeOK'
  <2>1. PosOK'
    BY <1>1, PosKept
  <2>2. /\ DOMAIN pos' = Ranks
        /\ \A q \in Ranks :
             /\ pos'[q] \in [op : 1..NumOps + 1, stage : Nat \ {0}]
             /\ pos'[q].stage <= End(pos'[q].op)
             /\ pos'[q].op = NumOps + 1 => pos'[q].stage = 1
    BY <1>2, <2>1 DEF PosOK, End
  <2> QED
    BY <1>1, <1>2, <2>2 DEF TypeOK, End, HiddenRecvBufferCount
<1>4. Barriers'
  <2>1. CASE Advance(r)
    BY <1>1, <2>1, BarriersKept DEF Moves
  <2>2. CASE UNCHANGED pos
    BY <1>1, <1>2, <2>2 DEF Barriers, AtLeast, End
  <2> QED
    BY <2>1, <2>2 DEF Moves
<1>5. SentInKernel'
  BY <1>1, SentKept
<1> QED
  BY <1>3, <1>4, <1>5 DEF ExchangeInv

(* A step of the stream outside the copy kernels.                          *)
LEMMA StreamMoves ==
  ASSUME ExchangeInv, NEW r \in Ranks, setup' = setup, sent' = sent, Advance(r),
         NEW stage, Stands(r, stage), stage # "send_counts", stage # "send_rows"
  PROVE  Moves(r) /\ sent' \in [Ranks -> SUBSET Ranks]
<1>1. TypeOK /\ SentInKernel
  BY DEF ExchangeInv
<1>2. Running(r) /\ ~Stands(r, "send_counts") /\ ~Stands(r, "send_rows")
  BY DEF Stands
<1>3. sent[r] = {}
  BY <1>1, <1>2 DEF SentInKernel
<1> QED
  BY <1>1, <1>2, <1>3 DEF Moves, TypeOK

(* Every step keeps the invariant.                                         *)
LEMMA ExchangeInvKept ==
  ASSUME ExchangeInv, [Next]_vars
  PROVE  ExchangeInv'
<1>1. /\ TypeOK /\ Barriers /\ SentInKernel /\ CountsSent /\ CountsKnown
      /\ OutputsReady /\ RowsHeld
  BY DEF ExchangeInv
<1>2. /\ counts \in [Ranks -> [Ranks -> [Experts -> Nat]]]
      /\ known \in [Ranks -> [Ranks -> [Experts -> Nat]]]
      /\ DOMAIN hidden = Ranks
      /\ \A q \in Ranks : DOMAIN hidden[q] = 0..HiddenRecvBufferCount - 1
      /\ DOMAIN output = Ranks
  BY <1>1 DEF TypeOK
<1>3. ASSUME NEW r \in Ranks, NEW peer \in Ranks, SendCounts(r, peer)
      PROVE  ExchangeInv'
  <2>1. /\ Stands(r, "send_counts") /\ Reach(r, peer)
        /\ UNCHANGED <<setup, known, hidden, output>>
    BY <1>3 DEF SendCounts
  <2>2. /\ ~Stands(r, "counts_ready") /\ ~Stands(r, "hidden_ready")
        /\ ~Stands(r, "read_counts") /\ ~Stands(r, "read") /\ ~Stands(r, "send_rows")
    BY <2>1 DEF Stands
  <2>3. Moves(r) /\ sent' \in [Ranks -> SUBSET Ranks]
    BY <1>1, <2>1, KernelMoves
  <2>4. CountsSent' /\ counts' \in [Ranks -> [Ranks -> [Experts -> Nat]]]
    BY <1>1, <1>3, CountsArrive
  <2>5. CountsKnown'
    BY <1>1, <2>1, <2>2, <2>3, CountsKnownKept
  <2>6. OutputsReady'
    BY <1>1, <2>1, <2>2, <2>3, OutputsKept
  <2>7. RowsHeld'
    BY <1>1, <2>1, <2>2, <2>3, RowsKept
  <2> QED
    BY <1>2, <2>1, <2>2, <2>3, <2>4, <2>5, <2>6, <2>7, StepKeeps
<1>4. ASSUME NEW r \in Ranks, NEW peer \in Ranks, SendRows(r, peer)
      PROVE  ExchangeInv'
  <2>1. /\ Stands(r, "send_rows") /\ Reach(r, peer)
        /\ hidden' = [hidden EXCEPT ![peer][BufferOf(At(r).op)] = Stored(@, Sends(r), peer)]
        /\ UNCHANGED <<setup, counts, known, output>>
    BY <1>4 DEF SendRows
  <2>2. /\ ~Stands(r, "counts_ready") /\ ~Stands(r, "hidden_ready")
        /\ ~Stands(r, "read_counts") /\ ~Stands(r, "read") /\ ~Stands(r, "send_counts")
    BY <2>1 DEF Stands
  <2>3. Moves(r) /\ sent' \in [Ranks -> SUBSET Ranks]
    BY <1>1, <2>1, KernelMoves
  <2>4. /\ DOMAIN hidden' = Ranks
        /\ \A q \in Ranks : DOMAIN hidden'[q] = 0..HiddenRecvBufferCount - 1
    BY <1>2, <2>1
  <2>5. CountsSent'
    BY <1>1, <2>1, <2>2, <2>3, CountsSentKept
  <2>6. CountsKnown'
    BY <1>1, <2>1, <2>2, <2>3, CountsKnownKept
  <2>7. OutputsReady'
    BY <1>1, <2>1, <2>2, <2>3, OutputsKept
  <2>8. RowsHeld'
    BY <1>4, CopyKeepsRows
  <2> QED
    BY <1>2, <2>1, <2>2, <2>3, <2>4, <2>5, <2>6, <2>7, <2>8, StepKeeps
<1>5. ASSUME NEW r \in Ranks, WaitReady(r)
      PROVE  ExchangeInv'
  <2>1. /\ Stands(r, "counts_ready") \/ Stands(r, "hidden_ready")
        /\ Advance(r) /\ \A q \in Ranks : Reached(q, r)
        /\ UNCHANGED <<setup, sent, counts, known, hidden, output>>
    BY <1>5 DEF WaitReady
  <2>2. /\ ~Stands(r, "send_counts") /\ ~Stands(r, "send_rows")
        /\ ~Stands(r, "read_counts") /\ ~Stands(r, "read")
    BY <2>1 DEF Stands
  <2>3. Moves(r) /\ sent' \in [Ranks -> SUBSET Ranks]
    BY <2>1, StreamMoves
  <2>4. CountsSent'
    BY <1>1, <2>1, <2>2, <2>3, CountsSentKept
  <2>5. CountsKnown'
    BY <1>1, <2>1, <2>2, <2>3, CountsKnownKept
  <2>6. OutputsReady'
    BY <1>1, <2>1, <2>2, <2>3, OutputsKept
  <2>7. RowsHeld'
    BY <1>1, <2>1, <2>2, <2>3, RowsKept
  <2> QED
    BY <1>2, <2>1, <2>2, <2>3, <2>4, <2>5, <2>6, <2>7, StepKeeps
<1>6. ASSUME NEW r \in Ranks, ReadCounts(r)
      PROVE  ExchangeInv'
  <2>1. /\ Stands(r, "read_counts") /\ Advance(r)
        /\ UNCHANGED <<setup, sent, counts, hidden, output>>
    BY <1>6 DEF ReadCounts
  <2>2. /\ ~Stands(r, "send_counts") /\ ~Stands(r, "send_rows") /\ ~Stands(r, "read")
        /\ ~Stands(r, "counts_ready") /\ ~Stands(r, "hidden_ready")
    BY <2>1 DEF Stands
  <2>3. Moves(r) /\ sent' \in [Ranks -> SUBSET Ranks]
    BY <2>1, StreamMoves
  <2>4. CountsSent'
    BY <1>1, <2>1, <2>2, <2>3, CountsSentKept
  <2>5. CountsKnown' /\ known' \in [Ranks -> [Ranks -> [Experts -> Nat]]]
    BY <1>1, <1>6, <2>3, CountsRead
  <2>6. OutputsReady'
    BY <1>1, <2>1, <2>2, <2>3, OutputsKept
  <2>7. RowsHeld'
    BY <1>1, <2>1, <2>2, <2>3, RowsKept
  <2> QED
    BY <1>2, <2>1, <2>2, <2>3, <2>4, <2>5, <2>6, <2>7, StepKeeps
<1>7. ASSUME NEW r \in Ranks, RunExperts(r)
      PROVE  ExchangeInv'
  <2>1. /\ Stands(r, "read") /\ Advance(r) /\ output' = [output EXCEPT ![r] = ExpertOutput(r)]
        /\ UNCHANGED <<setup, sent, counts, known, hidden>>
    BY <1>7 DEF RunExperts
  <2>2. /\ ~Stands(r, "send_counts") /\ ~Stands(r, "send_rows") /\ ~Stands(r, "read_counts")
        /\ ~Stands(r, "counts_ready") /\ ~Stands(r, "hidden_ready")
    BY <2>1 DEF Stands
  <2>3. Moves(r) /\ sent' \in [Ranks -> SUBSET Ranks]
    BY <2>1, StreamMoves
  <2>4. CountsSent'
    BY <1>1, <2>1, <2>2, <2>3, CountsSentKept
  <2>5. CountsKnown'
    BY <1>1, <2>1, <2>2, <2>3, CountsKnownKept
  <2>6. OutputsReady'
    BY <1>7, <2>3, ExpertsMakeOutput
  <2>7. RowsHeld'
    BY <1>1, <2>1, <2>2, <2>3, RowsKept
  <2>8. DOMAIN output' = Ranks
    BY <1>2, <2>1
  <2> QED
    BY <1>2, <2>1, <2>2, <2>3, <2>4, <2>5, <2>6, <2>7, <2>8, StepKeeps
<1>8. ASSUME NEW r \in Ranks, ReduceSlots(r) \/ ScoreGradients(r)
      PROVE  ExchangeInv'
  <2>1. /\ \/ Stands(r, "read") /\ At(r).kind \in {"combine", "dispatch_backward"}
           \/ Stands(r, "read_saved")
        /\ Advance(r)
        /\ UNCHANGED <<setup, sent, counts, known, hidden, output>>
    BY <1>8 DEF ReduceSlots, ScoreGradients
  <2>2. /\ ~Stands(r, "send_counts") /\ ~Stands(r, "send_rows") /\ ~Stands(r, "read_counts")
        /\ ~Stands(r, "counts_ready") /\ ~Stands(r, "hidden_ready")
        /\ ~(Stands(r, "read") /\ FromSlots(At(r).kind))
    BY <2>1 DEF Stands, FromSlots
  <2>3. Moves(r) /\ sent' \in [Ranks -> SUBSET Ranks]
    BY <2>1, StreamMoves
  <2>4. CountsSent'
    BY <1>1, <2>1, <2>2, <2>3, CountsSentKept
  <2>5. CountsKnown'
    BY <1>1, <2>1, <2>2, <2>3, CountsKnownKept
  <2>6. OutputsReady'
    BY <1>1, <2>1, <2>2, <2>3, OutputsKept
  <2>7. RowsHeld'
    BY <1>1, <2>1, <2>2, <2>3, RowsKept
  <2> QED
    BY <1>2, <2>1, <2>2, <2>3, <2>4, <2>5, <2>6, <2>7, StepKeeps
<1>9. CASE UNCHANGED vars
  <2>1. setup' = setup /\ Ranks' = Ranks /\ Experts' = Experts
    BY <1>9, SetupFrame DEF vars
  <2>2. \A r, stage : Stands(r, stage)' <=> Stands(r, stage)
    BY <1>9 DEF Stands, Running, At, vars
  <2>3. \A r, op, stage : AtLeast(r, op, stage)' <=> AtLeast(r, op, stage)
    BY <1>9 DEF AtLeast, vars
  <2>4. TypeOK' /\ Barriers' /\ SentInKernel'
    BY <1>1, <1>9, <2>1, <2>2, <2>3
    DEF TypeOK, Barriers, SentInKernel, End, HiddenRecvBufferCount, vars
  <2>5. CountsSent' /\ CountsKnown'
    BY <1>1, <1>9, <2>1, SetupFrame DEF CountsSent, CountsKnown, vars
  <2>6. OutputsReady'
    BY <1>1, <1>9, <2>1, SetupFrame, PlaceFrame DEF OutputsReady, FromSlots, vars
  <2>7. RowsHeld'
    <3>1. \A q, r, op : Delivered(q, r, op)' <=> Delivered(q, r, op)
      BY <1>9 DEF Delivered, AtLeast, End, vars
    <3>2. \A q, r, op : Sending(q, r, op)' = Sending(q, r, op)
      BY <2>1, SendingFrame
    <3> QED
      BY <1>1, <1>9, <2>1, <2>3, <3>1, <3>2
      DEF RowsHeld, Holds, BufferOf, HiddenRecvBufferCount, End, vars
  <2> QED
    BY <2>4, <2>5, <2>6, <2>7 DEF ExchangeInv
<1> QED
  BY <1>3, <1>4, <1>5, <1>6, <1>7, <1>8, <1>9 DEF Next, StepDone

(* All of the exchange's state, the buffers' contents included, follows    *)
(* from where the ranks stand.                                             *)
THEOREM ExchangeInvariant == Spec => []ExchangeInv
BY ExchangeInvStarts, ExchangeInvKept, PTL DEF Spec

(* The experts find the rows of the slots that chose them.                 *)
LEMMA ExpertsRowsFound ==
  ASSUME ExchangeInv, NEW r \in Ranks, NEW op \in 1..NumOps, FromSlots(KindOf(op)),
         pos[r].op = op, AtLeast(r, op, End(op))
  PROVE  ExpertsRowsIn(r, LayerOf(op), op)
<1> DEFINE layer == LayerOf(op)
           buffer == hidden[r][BufferOf(op)]
<1>1. setup \in Setups
  BY DEF ExchangeInv, TypeOK
<1>2. /\ known[r] = AllCounts(layer) /\ layer \in 1..NumLayers
      /\ \A q \in Ranks : \A s \in Slots(q, layer) : Place(q, layer, s).rank = r =>
           LET n == Place(q, layer, s).row
           IN n \in DOMAIN buffer /\ buffer[n] = [op |-> op, src |-> q, slot |-> s]
  BY ExpertsFind
<1> HIDE DEF layer, buffer
<1>3. ASSUME NEW x \in LocalExperts(r)
      PROVE  /\ Cardinality(ExpertRows(r, x)) = Cardinality(Wanted(x, layer, op))
             /\ ExpertRows(r, x) \subseteq DOMAIN buffer
             /\ {buffer[row] : row \in ExpertRows(r, x)} = Wanted(x, layer, op)
  <2>1. /\ Cardinality(ExpertRows(r, x)) = Cardinality(Wanted(x, layer, op))
        /\ \A q \in Ranks : \A s \in Choosing(q, layer, x) :
             Place(q, layer, s).rank = r /\ Place(q, layer, s).row \in ExpertRows(r, x)
        /\ \A n \in ExpertRows(r, x) : \E q \in Ranks : \E s \in Choosing(q, layer, x) :
             Place(q, layer, s).rank = r /\ Place(q, layer, s).row = n
    BY <1>1, <1>2, GroupIsPlaces
  <2>2. \A q \in Ranks : \A s \in Choosing(q, layer, x) : s \in Slots(q, layer)
    BY DEF Choosing
  <2>3. ASSUME NEW n \in ExpertRows(r, x)
        PROVE  n \in DOMAIN buffer /\ buffer[n] \in Wanted(x, layer, op)
    <3>1. PICK q \in Ranks : \E s \in Choosing(q, layer, x) :
            Place(q, layer, s).rank = r /\ Place(q, layer, s).row = n
      BY <2>1
    <3>2. PICK s \in Choosing(q, layer, x) :
            Place(q, layer, s).rank = r /\ Place(q, layer, s).row = n
      BY <3>1
    <3>3. n \in DOMAIN buffer /\ buffer[n] = [op |-> op, src |-> q, slot |-> s]
      BY <1>2, <2>2, <3>2
    <3> QED
      BY <3>3, WantedRows
  <2>4. ASSUME NEW w \in Wanted(x, layer, op)
        PROVE  \E n \in ExpertRows(r, x) : buffer[n] = w
    <3>1. /\ w.src \in Ranks /\ w.slot \in Choosing(w.src, layer, x)
          /\ w = [op |-> op, src |-> w.src, slot |-> w.slot]
      BY WantedRows
    <3>2. buffer[Place(w.src, layer, w.slot).row] = [op |-> op, src |-> w.src, slot |-> w.slot]
      BY <1>2, <2>1, <2>2, <3>1
    <3> QED
      BY <2>1, <3>1, <3>2
  <2> QED
    BY <2>1, <2>3, <2>4
<1> QED
  BY <1>3 DEF ExpertsRowsIn, Wanted, Choosing, layer, buffer

(* Each slot finds its own row.                                            *)
LEMMA SlotsRowsFound ==
  ASSUME ExchangeInv, NEW r \in Ranks, NEW op \in 1..NumOps, ~FromSlots(KindOf(op)),
         AtLeast(r, op, End(op)), ~AtLeast(r, op + 1, End(op + 1) - 1)
  PROVE  SlotsRowsIn(r, LayerOf(op), op)
<1> DEFINE layer == LayerOf(op)
           buffer == hidden[r][BufferOf(op)]
<1>1. setup \in Setups /\ TypeOK /\ Barriers /\ RowsHeld
  BY DEF ExchangeInv, TypeOK
<1>2. layer \in 1..NumLayers
  BY ScheduleFacts
<1> SUFFICES ASSUME NEW s \in Slots(r, layer)
             PROVE  LET row == TRowToERow(r, layer)[s]
                    IN /\ row \in DOMAIN buffer
                       /\ buffer[row] = [op |-> op - 1, src |-> r, slot |-> s,
                                         expert |-> TopkIds(r, layer)[s]]
  BY DEF SlotsRowsIn
<1>3. PICK q \in Ranks : Place(r, layer, s).rank = q
  BY <1>1, <1>2, PlaceInSegment
<1>4. [row |-> TRowToERow(r, layer)[s],
       value |-> [op |-> op - 1, src |-> r, slot |-> s, expert |-> TopkIds(r, layer)[s]]]
        \in Sending(q, r, op)
  BY <1>3 DEF Sending
<1> QED
  BY <1>1, <1>4, RowsArrived DEF Holds

(* In float32 a rank reads in place only what its last operation brought   *)
(* and, before it sends the gradients back, what combine saved.            *)
LEMMA ExchangeInvMeansRowsInPlace ==
  ASSUME Precision = "float32", ExchangeInv
  PROVE  RowsInPlace
<1> SUFFICES ASSUME NEW r \in Ranks, Running(r)
             PROVE  LET here == At(r)
                    IN /\ here.stage = "read_counts" =>
                            counts[r] = [q \in Ranks |-> LocalCounts(q, here.layer)]
                       /\ here.stage = "read_saved" => SlotsRowsIn(r, here.layer, here.op - 1)
                       /\ here.stage = "read" =>
                            CASE here.kind = "dispatch" -> ExpertsRowsIn(r, here.layer, here.op)
                              [] here.kind = "combine_backward" ->
                                   /\ ExpertsRowsIn(r, here.layer, here.op)
                                   /\ SavedInputIn(r, here.layer, here.op - 2)
                              [] OTHER -> SlotsRowsIn(r, here.layer, here.op)
  BY DEF RowsInPlace
<1>1. TypeOK /\ Barriers /\ CountsSent
  BY DEF ExchangeInv
<1>2. PICK o, i : o = pos[r].op /\ i = pos[r].stage
  OBVIOUS
<1>3. /\ o \in 1..NumOps /\ i \in 1..End(o) /\ NumOps \in Nat /\ End(o) \in {3, 4, 6}
      /\ At(r).op = o /\ At(r).kind = KindOf(o) /\ At(r).layer = LayerOf(o)
      /\ Stands(r, "read_saved") <=> KindOf(o) = "combine_backward" /\ i = 1
      /\ Stands(r, "read") <=> i = End(o)
  BY <1>1, <1>2, Standing
<1>4. \A stage : Stands(r, stage) <=> At(r).stage = stage
  BY DEF Stands
<1>5. ASSUME At(r).stage = "read_counts"
      PROVE  counts[r] = [q \in Ranks |-> LocalCounts(q, At(r).layer)]
  BY <1>1, <1>2, <1>3, <1>4, <1>5, CountsComplete DEF AllCounts
<1>6. ASSUME At(r).stage = "read_saved"
      PROVE  SlotsRowsIn(r, At(r).layer, At(r).op - 1)
  <2>1. KindOf(o) = "combine_backward" /\ i = 1
    BY <1>3, <1>4, <1>6
  <2>2. /\ o - 1 \in 1..NumOps /\ LayerOf(o - 1) = LayerOf(o) /\ KindOf(o - 1) = "combine"
        /\ End(o) = 4
    BY <1>3, <2>1, ScheduleFacts, StagesFacts
  <2>3. PICK n : n = o - 1
    OBVIOUS
  <2>4. n + 1 = o /\ n \in 1..NumOps /\ ~FromSlots(KindOf(n))
    BY <1>3, <2>2, <2>3 DEF FromSlots
  <2>5. AtLeast(r, n, End(n))
    BY <1>2, <1>3, <2>3 DEF AtLeast
  <2>6. ~AtLeast(r, n + 1, End(n + 1) - 1)
    <3>1. ~(o > n + 1) /\ ~(1 >= End(n + 1) - 1)
      BY <1>3, <2>2, <2>4
    <3> QED
      BY <1>2, <2>1, <3>1 DEF AtLeast
  <2>7. SlotsRowsIn(r, LayerOf(n), n)
    BY <2>4, <2>5, <2>6, SlotsRowsFound
  <2> QED
    BY <1>3, <2>2, <2>3, <2>7
<1>7. ASSUME At(r).stage = "read", FromSlots(At(r).kind)
      PROVE  ExpertsRowsIn(r, At(r).layer, At(r).op)
  <2>1. AtLeast(r, o, End(o))
    BY <1>2, <1>3, <1>4, <1>7 DEF AtLeast
  <2> QED
    BY <1>2, <1>3, <1>7, <2>1, ExpertsRowsFound
<1>8. ASSUME At(r).stage = "read", ~FromSlots(At(r).kind)
      PROVE  SlotsRowsIn(r, At(r).layer, At(r).op)
  <2>1. AtLeast(r, o, End(o))
    BY <1>2, <1>3, <1>4, <1>8 DEF AtLeast
  <2>2. ~AtLeast(r, o + 1, End(o + 1) - 1)
    BY <1>2, <1>3 DEF AtLeast
  <2> QED
    BY <1>3, <1>8, <2>1, <2>2, SlotsRowsFound
<1>9. SavedInputIn(r, At(r).layer, At(r).op - 2)
  BY DEF SavedInputIn
<1> QED
  BY <1>5, <1>6, <1>7, <1>8, <1>9 DEF FromSlots

(* In float32, whatever the ranks, experts, layers and routing: as long as *)
(* a rank reads what an operation brought it, its receive buffer holds     *)
(* exactly that operation's rows.                                          *)
THEOREM ReadsRowsInPlace == Precision = "float32" => (Spec => []RowsInPlace)
<1> SUFFICES ASSUME Precision = "float32" PROVE Spec => []RowsInPlace
  OBVIOUS
<1>1. ExchangeInv => RowsInPlace
  BY ExchangeInvMeansRowsInPlace
<1> QED
  BY <1>1, ExchangeInvariant, PTL
===============================================================================
