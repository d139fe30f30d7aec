---------------------------- MODULE OrderLemmas ----------------------------
(***************************************************************************)
(* Facts the proofs of several components need: finite sets of natural     *)
(* numbers and their order, for heaps and worklists, and sums over finite  *)
(* sets, for counters that several goroutines share.                       *)
(***************************************************************************)
EXTENDS Integers, FiniteSetTheorems, FunctionTheorems, WellFoundedInduction, TLAPS

(* What a heap pops exists: a finite set of numbers has a least one, since *)
(* one of the sets of smaller elements is least under inclusion.           *)
LEMMA LeastElement ==
  ASSUME NEW S \in SUBSET Nat, IsFiniteSet(S), S # {}
  PROVE  \E x \in S : \A y \in S : x <= y
<1> DEFINE Below(x) == {y \in S : y < x}
           F == {Below(x) : x \in S}
<1>1. IsWellFoundedOn(StrictSubsetOrdering(S), SUBSET S)
  BY FS_StrictSubsetOrderingWellFounded, FS_FiniteSubsetsOfFinite
<1>2. F \subseteq SUBSET S /\ F # {}
  OBVIOUS
<1>3. PICK L \in F : \A T \in F : ~(<<T, L>> \in StrictSubsetOrdering(S))
  BY <1>1, <1>2, WFMin
<1>4. PICK x \in S : L = Below(x)
  BY <1>3
<1>5. ASSUME NEW y \in S, y < x PROVE FALSE
  <2>1. x \in Nat /\ y \in Nat /\ \A z \in S : z \in Nat
    OBVIOUS
  <2>2. /\ \A z \in S : z < y => z < x
        /\ ~(y < y)
    BY <2>1, <1>5
  <2>3. Below(y) \subseteq Below(x) /\ y \in Below(x) /\ y \notin Below(y)
    BY <2>2, <1>5
  <2>4. <<Below(y), Below(x)>> \in StrictSubsetOrdering(S)
    BY <2>3 DEF StrictSubsetOrdering
  <2> QED
    BY <1>3, <1>4, <2>4
<1> QED
  BY <1>5

(* A set of numbers up to n has a least one: induction up to n.            *)
LEMMA LeastUpTo ==
  ASSUME NEW n \in Nat, NEW S \in SUBSET (0..n), S # {}
  PROVE  \E x \in S : \A y \in S : x <= y
<1>1. IsFiniteSet(0..n)
  BY FS_Interval
<1>2. IsFiniteSet(S)
  BY <1>1, FS_Subset
<1>3. S \in SUBSET Nat
  OBVIOUS
<1> QED
  BY <1>2, <1>3, LeastElement

\* The place of e in S, whose elements are ordered by the key k, from 1.
Place(k, S, e) == Cardinality({d \in S : k[d] <= k[e]})

(* Every place from 1 to the size of S is the place of exactly one of its  *)
(* elements: listing a set by place lists each element once.               *)
LEMMA PlaceIsBijection ==
  ASSUME NEW S, IsFiniteSet(S), NEW k, \A e \in S : k[e] \in Nat,
         \A d, e \in S : k[d] = k[e] => d = e
  PROVE  /\ Cardinality(S) \in Nat
         /\ \A e \in S : Place(k, S, e) \in 1..Cardinality(S)
         /\ \A d, e \in S : Place(k, S, d) = Place(k, S, e) => d = e
         /\ \A i \in 1..Cardinality(S) : \E e \in S : Place(k, S, e) = i
<1> DEFINE Upto(e) == {d \in S : k[d] <= k[e]}
           n == Cardinality(S)
<1>1. n \in Nat
  BY FS_CardinalityType
<1>2. ASSUME NEW e \in S
      PROVE  /\ IsFiniteSet(Upto(e)) /\ Upto(e) # {}
             /\ Cardinality(Upto(e)) \in 1..n
  <2>1. Upto(e) \in SUBSET S /\ e \in Upto(e)
    OBVIOUS
  <2>2. IsFiniteSet(Upto(e)) /\ Cardinality(Upto(e)) <= n
    BY <2>1, FS_Subset
  <2>3. Cardinality(Upto(e)) \in Nat /\ Cardinality(Upto(e)) # 0
    BY <2>1, <2>2, FS_CardinalityType, FS_EmptySet
  <2> QED
    BY <1>1, <2>1, <2>2, <2>3
<1>3. ASSUME NEW d \in S, NEW e \in S, k[d] < k[e]
      PROVE  Cardinality(Upto(d)) # Cardinality(Upto(e))
  <2>1. k[d] \in Nat /\ k[e] \in Nat /\ \A x \in S : k[x] \in Nat
    OBVIOUS
  <2>2. k[e] <= k[e] /\ ~(k[e] <= k[d]) /\ \A x \in S : k[x] <= k[d] => k[x] <= k[e]
    BY <1>3, <2>1
  <2>3. Upto(d) \in SUBSET Upto(e) /\ e \in Upto(e) /\ e \notin Upto(d)
    BY <2>2
  <2> QED
    BY <1>2, <2>3, FS_Subset
<1>4. \A d, e \in S : Place(k, S, d) = Place(k, S, e) => d = e
  <2> SUFFICES ASSUME NEW d \in S, NEW e \in S, Place(k, S, d) = Place(k, S, e), d # e
               PROVE  FALSE
    OBVIOUS
  <2>1. k[d] < k[e] \/ k[e] < k[d]
    OBVIOUS
  <2> QED
    BY <1>3, <2>1 DEF Place
<1>5. \A i \in 1..n : \E e \in S : Place(k, S, e) = i
  <2> DEFINE r == [e \in S |-> Place(k, S, e)]
  <2>1. r \in Injection(S, 1..n)
    BY <1>2, <1>4 DEF Injection, IsInjective, Place
  <2>2. IsFiniteSet(1..n) /\ Cardinality(1..n) = n
    BY <1>1, FS_Interval
  <2>3. r \in Surjection(S, 1..n)
    BY <2>1, <2>2, FS_Injection
  <2> QED
    BY <2>3 DEF Surjection
<1> QED
  BY <1>1, <1>2, <1>4, <1>5 DEF Place

\* Likewise for numbers, in their own order.
Rank(S, e) == Cardinality({d \in S : d <= e})

LEMMA RankIsBijection ==
  ASSUME NEW S \in SUBSET Nat, IsFiniteSet(S)
  PROVE  /\ Cardinality(S) \in Nat
         /\ \A e \in S : Rank(S, e) \in 1..Cardinality(S)
         /\ \A d, e \in S : Rank(S, d) = Rank(S, e) => d = e
         /\ \A i \in 1..Cardinality(S) : \E e \in S : Rank(S, e) = i
<1>1. PICK k : \A e \in S : k[e] = e
  <2>1. \A e \in S : [x \in S |-> x][e] = e
    OBVIOUS
  <2> QED
    BY <2>1
<1>2. ASSUME NEW e \in S PROVE Place(k, S, e) = Rank(S, e)
  BY <1>1 DEF Place, Rank
<1>3. \A d, e \in S : k[d] = k[e] => d = e
  BY <1>1
<1>4. /\ Cardinality(S) \in Nat
      /\ \A e \in S : Place(k, S, e) \in 1..Cardinality(S)
      /\ \A d, e \in S : Place(k, S, d) = Place(k, S, e) => d = e
  <2>1. \A e \in S : k[e] \in Nat
    BY <1>1
  <2>2. Cardinality(S) \in Nat
    BY <1>3, <2>1, PlaceIsBijection
  <2>3. \A e \in S : Place(k, S, e) \in 1..Cardinality(S)
    BY <1>3, <2>1, PlaceIsBijection
  <2>4. \A d, e \in S : Place(k, S, d) = Place(k, S, e) => d = e
    BY <1>3, <2>1, PlaceIsBijection
  <2> QED
    BY <2>2, <2>3, <2>4
<1>5. \A e \in S : Place(k, S, e) = Rank(S, e)
  BY <1>2
<1>6. \A e \in S : Rank(S, e) \in 1..Cardinality(S)
  BY <1>4, <1>5, Zenon
<1>7. \A d, e \in S : Rank(S, d) = Rank(S, e) => d = e
  BY <1>4, <1>5, Zenon
<1>8. \A i \in 1..Cardinality(S) : \E e \in S : Rank(S, e) = i
  <2> DEFINE r == [e \in S |-> Rank(S, e)]
  <2>1. r \in Injection(S, 1..Cardinality(S))
    BY <1>6, <1>7 DEF Injection, IsInjective
  <2>2. r \in Surjection(S, 1..Cardinality(S))
    BY <1>4, <2>1, FS_Interval, FS_Injection
  <2> QED
    BY <2>2 DEF Surjection
<1> QED
  BY <1>4, <1>6, <1>7, <1>8
-----------------------------------------------------------------------------
(* Induction on finite sets: a family of subsets of a finite set that is   *)
(* not empty has a member none of whose parts is in the family.            *)
LEMMA LeastSubset ==
  ASSUME NEW S, IsFiniteSet(S), NEW B \in SUBSET SUBSET S, B # {}
  PROVE  \E T \in B : \A U \in SUBSET T : U # T => U \notin B
<1>1. IsWellFoundedOn(StrictSubsetOrdering(S), SUBSET S)
  BY FS_StrictSubsetOrderingWellFounded, FS_FiniteSubsetsOfFinite
<1>2. PICK T \in B : \A U \in B : ~(<<U, T>> \in StrictSubsetOrdering(S))
  BY <1>1, WFMin
<1>3. ASSUME NEW U \in SUBSET T, U # T, U \in B PROVE FALSE
  <2>1. <<U, T>> \in StrictSubsetOrdering(S)
    BY <1>3 DEF StrictSubsetOrdering
  <2> QED
    BY <1>2, <1>3, <2>1
<1> QED
  BY <1>3

(* SumFunctionOnSet takes the value at its set of a function chosen to     *)
(* solve the equation of a sum.  That the equation has one solution, hence *)
(* that a sum unfolds, is shown on minimal counterexamples.                *)

\* The element a sum takes first, and the equation.
First(s) == CHOOSE x \in s : TRUE
Solves(it, f, S) ==
  it = [s \in SUBSET S |-> IF s = {} THEN 0 ELSE f[First(s)] + it[s \ {First(s)}]]

LEMMA SumIsSolution ==
  ASSUME NEW f, NEW S
  PROVE  SumFunctionOnSet(f, S) = (CHOOSE it : Solves(it, f, S))[S]
BY DEF SumFunctionOnSet, FoldFunctionOnSet, MapThenFoldSet, Solves, First

LEMMA SolutionAt ==
  ASSUME NEW it, NEW f, NEW S, Solves(it, f, S), NEW s \in SUBSET S
  PROVE  it[s] = IF s = {} THEN 0 ELSE f[First(s)] + it[s \ {First(s)}]
<1>1. it = [u \in SUBSET S |-> IF u = {} THEN 0 ELSE f[First(u)] + it[u \ {First(u)}]]
  BY DEF Solves
<1> QED
  BY <1>1

LEMMA FirstIsIn ==
  ASSUME NEW s, s # {}
  PROVE  First(s) \in s
BY DEF First

\* Two solutions agree where both are defined.
LEMMA SolutionsAgree ==
  ASSUME NEW f, NEW S, NEW T, NEW a, NEW b, Solves(a, f, S), Solves(b, f, T),
         NEW U, IsFiniteSet(U), U \subseteq S, U \subseteq T
  PROVE  a[U] = b[U]
<1> DEFINE B == {s \in SUBSET U : a[s] # b[s]}
<1>1. SUFFICES ASSUME B # {} PROVE FALSE
  BY DEF B
<1>2. PICK s \in B : \A u \in SUBSET s : u # s => u \notin B
  <2>1. B \in SUBSET SUBSET U
    OBVIOUS
  <2> HIDE DEF B
  <2> QED
    BY <1>1, <2>1, LeastSubset
<1>3. s \in SUBSET S /\ s \in SUBSET T
  OBVIOUS
<1>4. CASE s = {}
  BY <1>3, <1>4, SolutionAt
<1>5. CASE s # {}
  <2>1. First(s) \in s
    BY <1>5, FirstIsIn
  <2>2. s \ {First(s)} \in SUBSET s /\ s \ {First(s)} # s
    BY <2>1
  <2>3. a[s \ {First(s)}] = b[s \ {First(s)}]
    BY <1>2, <2>2
  <2>4. a[s] = f[First(s)] + a[s \ {First(s)}] /\ b[s] = f[First(s)] + b[s \ {First(s)}]
    BY <1>3, <1>5, SolutionAt
  <2> QED
    BY <2>3, <2>4
<1> QED
  BY <1>4, <1>5

\* There is a solution.
LEMMA SolutionExists ==
  ASSUME NEW f, NEW S, IsFiniteSet(S)
  PROVE  \E it : Solves(it, f, S)
<1> DEFINE B == {T \in SUBSET S : ~ \E it : Solves(it, f, T)}
           Sum(U) == SumFunctionOnSet(f, U)
<1>1. SUFFICES ASSUME B # {} PROVE FALSE
  BY DEF B
<1>2. PICK T \in B : \A U \in SUBSET T : U # T => U \notin B
  <2>1. B \in SUBSET SUBSET S
    OBVIOUS
  <2> HIDE DEF B
  <2> QED
    BY <1>1, <2>1, LeastSubset
<1>3. \A U \in SUBSET T : U # T => \E it : Solves(it, f, U)
  BY <1>2
<1>4. ASSUME NEW U \in SUBSET T, U # T, NEW it, NEW V, Solves(it, f, V), U \subseteq V
      PROVE  Sum(U) = it[U]
  <2>1. Solves(CHOOSE k : Solves(k, f, U), f, U)
    BY <1>3, <1>4
  <2>2. IsFiniteSet(U)
    BY FS_Subset
  <2> QED
    BY <1>4, <2>1, <2>2, SolutionsAgree, SumIsSolution
<1>5. ASSUME NEW U \in SUBSET T, U # T
      PROVE  Sum(U) = IF U = {} THEN 0 ELSE f[First(U)] + Sum(U \ {First(U)})
  <2>1. PICK it : Solves(it, f, U)
    BY <1>3, <1>5
  <2>2. it[U] = IF U = {} THEN 0 ELSE f[First(U)] + it[U \ {First(U)}]
    BY <2>1, SolutionAt
  <2>3. Sum(U) = it[U]
    BY <1>4, <1>5, <2>1
  <2>4. CASE U # {}
    <3>1. U \ {First(U)} \in SUBSET T /\ U \ {First(U)} # T /\ U \ {First(U)} \subseteq U
      BY <1>5, <2>4, FirstIsIn
    <3>2. Sum(U \ {First(U)}) = it[U \ {First(U)}]
      <4> HIDE DEF Sum
      <4> QED BY <1>4, <2>1, <3>1
    <3> QED
      BY <2>2, <2>3, <2>4, <3>2
  <2> QED
    BY <2>2, <2>3, <2>4
<1>6. Solves([s \in SUBSET T |-> IF s = {} THEN 0 ELSE f[First(s)] + Sum(s \ {First(s)})], f, T)
  <2> DEFINE it == [s \in SUBSET T |-> IF s = {} THEN 0 ELSE f[First(s)] + Sum(s \ {First(s)})]
  <2>1. ASSUME NEW s \in SUBSET T, s # {}
        PROVE  it[s \ {First(s)}] = Sum(s \ {First(s)})
    <3>1. s \ {First(s)} \in SUBSET T /\ s \ {First(s)} # T
      BY <2>1, FirstIsIn
    <3> HIDE DEF Sum
    <3> QED
      BY <1>5, <3>1
  <2>2. it = [s \in SUBSET T |-> IF s = {} THEN 0 ELSE f[First(s)] + it[s \ {First(s)}]]
    <3> HIDE DEF Sum
    <3> QED BY <2>1
  <2> HIDE DEF it
  <2> QED
    BY <2>2 DEF Solves, it
<1> QED
  BY <1>2, <1>6

(* A sum, unfolded once.                                                   *)
LEMMA SumUnfolded ==
  ASSUME NEW f, NEW S, IsFiniteSet(S)
  PROVE  SumFunctionOnSet(f, S) =
           IF S = {} THEN 0 ELSE f[First(S)] + SumFunctionOnSet(f, S \ {First(S)})
<1>1. PICK it : Solves(it, f, S)
  BY SolutionExists
<1>2. ASSUME NEW U \in SUBSET S PROVE SumFunctionOnSet(f, U) = it[U]
  <2>1. IsFiniteSet(U)
    BY FS_Subset
  <2>2. Solves(CHOOSE k : Solves(k, f, U), f, U)
    BY <2>1, SolutionExists
  <2> QED
    BY <1>1, <2>1, <2>2, SolutionsAgree, SumIsSolution
<1>3. it[S] = IF S = {} THEN 0 ELSE f[First(S)] + it[S \ {First(S)}]
  BY <1>1, SolutionAt
<1> QED
  BY <1>2, <1>3

(* A sum of natural numbers is one, and any summand may be taken first.    *)
LEMMA SumType ==
  ASSUME NEW f, NEW S, IsFiniteSet(S), \A x \in S : f[x] \in Nat
  PROVE  SumFunctionOnSet(f, S) \in Nat
<1> DEFINE B == {T \in SUBSET S : SumFunctionOnSet(f, T) \notin Nat}
<1>1. SUFFICES ASSUME B # {} PROVE FALSE
  BY DEF B
<1>2. PICK T \in B : \A U \in SUBSET T : U # T => U \notin B
  <2>1. B \in SUBSET SUBSET S
    OBVIOUS
  <2> HIDE DEF B
  <2> QED
    BY <1>1, <2>1, LeastSubset
<1>3. IsFiniteSet(T)
  BY FS_Subset
<1>4. CASE T = {}
  <2>1. SumFunctionOnSet(f, T) = 0
    BY <1>3, <1>4, SumUnfolded
  <2> QED
    BY <1>2, <2>1
<1>5. CASE T # {}
  <2>1. First(T) \in T /\ f[First(T)] \in Nat
    BY <1>5, FirstIsIn
  <2>2. T \ {First(T)} \notin B
    BY <1>2, <2>1
  <2>3. SumFunctionOnSet(f, T \ {First(T)}) \in Nat
    BY <2>2
  <2>4. SumFunctionOnSet(f, T) = f[First(T)] + SumFunctionOnSet(f, T \ {First(T)})
    BY <1>3, <1>5, SumUnfolded
  <2> QED
    BY <1>2, <2>1, <2>3, <2>4
<1> QED
  BY <1>4, <1>5

LEMMA SumWithout ==
  ASSUME NEW f, NEW S, IsFiniteSet(S), \A x \in S : f[x] \in Nat, NEW e \in S
  PROVE  SumFunctionOnSet(f, S) = f[e] + SumFunctionOnSet(f, S \ {e})
<1> DEFINE Sum(T) == SumFunctionOnSet(f, T)
           B == {T \in SUBSET S : \E x \in T : Sum(T) # f[x] + Sum(T \ {x})}
<1>1. SUFFICES ASSUME B # {} PROVE FALSE
  BY DEF B
<1>2. PICK T \in B : \A U \in SUBSET T : U # T => U \notin B
  <2>1. B \in SUBSET SUBSET S
    OBVIOUS
  <2> HIDE DEF B
  <2> QED
    BY <1>1, <2>1, LeastSubset
<1>3. PICK x \in T : Sum(T) # f[x] + Sum(T \ {x})
  OBVIOUS
<1> DEFINE c == First(T)
<1>4. T # {} /\ c \in T /\ T \in SUBSET S /\ f[c] \in Nat /\ f[x] \in Nat
  BY <1>3, FirstIsIn
<1>5. \A U \in SUBSET S : IsFiniteSet(U) /\ Sum(U) \in Nat
  BY FS_Subset, SumType
<1>6. Sum(T) = f[c] + Sum(T \ {c})
  BY <1>4, <1>5, SumUnfolded
<1> HIDE DEF Sum
<1>7. x # c
  BY <1>3, <1>6
<1>8. Sum(T \ {c}) = f[x] + Sum((T \ {c}) \ {x})
  <2>1. T \ {c} \in SUBSET T /\ T \ {c} # T /\ x \in T \ {c}
    BY <1>4, <1>7
  <2> QED
    BY <1>2, <2>1
<1>9. Sum(T \ {x}) = f[c] + Sum((T \ {x}) \ {c})
  <2>1. T \ {x} \in SUBSET T /\ T \ {x} # T /\ c \in T \ {x}
    BY <1>4, <1>7
  <2> QED
    BY <1>2, <2>1
<1>10. (T \ {x}) \ {c} = (T \ {c}) \ {x}
  OBVIOUS
<1>11. (T \ {c}) \ {x} \in SUBSET S
  BY <1>4
<1>12. PICK rest \in Nat : rest = Sum((T \ {c}) \ {x})
  BY <1>5, <1>11
<1>13. Sum(T) = f[c] + (f[x] + rest) /\ Sum(T \ {x}) = f[c] + rest
  BY <1>6, <1>8, <1>9, <1>10, <1>12
<1>14. f[c] + (f[x] + rest) = f[x] + (f[c] + rest)
  BY <1>4, <1>12
<1> QED
  BY <1>3, <1>13, <1>14

(* What is summed is all that counts.                                      *)
LEMMA SumSame ==
  ASSUME NEW f, NEW g, NEW S, IsFiniteSet(S), \A x \in S : f[x] = g[x]
  PROVE  SumFunctionOnSet(f, S) = SumFunctionOnSet(g, S)
<1> DEFINE B == {T \in SUBSET S : SumFunctionOnSet(f, T) # SumFunctionOnSet(g, T)}
<1>1. SUFFICES ASSUME B # {} PROVE FALSE
  BY DEF B
<1>2. PICK T \in B : \A U \in SUBSET T : U # T => U \notin B
  <2>1. B \in SUBSET SUBSET S
    OBVIOUS
  <2> HIDE DEF B
  <2> QED
    BY <1>1, <2>1, LeastSubset
<1>3. IsFiniteSet(T)
  BY FS_Subset
<1>4. CASE T = {}
  <2>1. SumFunctionOnSet(f, T) = 0 /\ SumFunctionOnSet(g, T) = 0
    BY <1>3, <1>4, SumUnfolded
  <2> QED
    BY <1>2, <2>1
<1>5. CASE T # {}
  <2>1. First(T) \in T /\ f[First(T)] = g[First(T)]
    BY <1>5, FirstIsIn
  <2>2. T \ {First(T)} \notin B
    BY <1>2, <2>1
  <2>3. SumFunctionOnSet(f, T \ {First(T)}) = SumFunctionOnSet(g, T \ {First(T)})
    BY <2>2
  <2>4. /\ SumFunctionOnSet(f, T) = f[First(T)] + SumFunctionOnSet(f, T \ {First(T)})
        /\ SumFunctionOnSet(g, T) = g[First(T)] + SumFunctionOnSet(g, T \ {First(T)})
    BY <1>3, <1>5, SumUnfolded
  <2> QED
    BY <1>2, <2>1, <2>3, <2>4
<1> QED
  BY <1>4, <1>5

(* One summand changes, or is new: the sum changes with it.                *)
LEMMA SumChanged ==
  ASSUME NEW f, NEW g, NEW S, IsFiniteSet(S), NEW e \in S,
         \A x \in S : f[x] \in Nat /\ g[x] \in Nat,
         \A x \in S \ {e} : f[x] = g[x]
  PROVE  /\ SumFunctionOnSet(f, S) \in Nat /\ SumFunctionOnSet(g, S) \in Nat
         /\ f[e] <= SumFunctionOnSet(f, S)
         /\ SumFunctionOnSet(g, S) - g[e] = SumFunctionOnSet(f, S) - f[e]
<1>1. IsFiniteSet(S \ {e}) /\ \A x \in S \ {e} : f[x] \in Nat
  BY FS_Subset
<1>2. SumFunctionOnSet(f, S \ {e}) = SumFunctionOnSet(g, S \ {e})
  BY <1>1, SumSame
<1>3. SumFunctionOnSet(f, S \ {e}) \in Nat
  BY <1>1, SumType
<1>4. /\ SumFunctionOnSet(f, S) = f[e] + SumFunctionOnSet(f, S \ {e})
      /\ SumFunctionOnSet(g, S) = g[e] + SumFunctionOnSet(g, S \ {e})
  BY SumWithout
<1> QED
  BY <1>2, <1>3, <1>4

LEMMA SumExtended ==
  ASSUME NEW f, NEW g, NEW S, IsFiniteSet(S), NEW e, e \notin S,
         \A x \in S : f[x] \in Nat /\ f[x] = g[x], g[e] \in Nat
  PROVE  SumFunctionOnSet(g, S \cup {e}) = SumFunctionOnSet(f, S) + g[e]
<1>1. IsFiniteSet(S \cup {e}) /\ (S \cup {e}) \ {e} = S
  BY FS_AddElement
<1>2. \A x \in S \cup {e} : g[x] \in Nat
  OBVIOUS
<1>3. SumFunctionOnSet(g, S \cup {e}) = g[e] + SumFunctionOnSet(g, (S \cup {e}) \ {e})
  BY <1>1, <1>2, SumWithout
<1>4. SumFunctionOnSet(g, S \cup {e}) = g[e] + SumFunctionOnSet(g, S)
  BY <1>1, <1>3
<1>5. SumFunctionOnSet(f, S) = SumFunctionOnSet(g, S) /\ SumFunctionOnSet(f, S) \in Nat
  BY SumSame, SumType
<1> QED
  BY <1>4, <1>5

(* Nothing is summed, or only nothings.                                    *)
LEMMA SumEmpty ==
  ASSUME NEW f
  PROVE  SumFunctionOnSet(f, {}) = 0
BY SumUnfolded, FS_EmptySet

LEMMA SumZero ==
  ASSUME NEW f, NEW S, IsFiniteSet(S), \A x \in S : f[x] = 0
  PROVE  SumFunctionOnSet(f, S) = 0
<1> DEFINE B == {T \in SUBSET S : SumFunctionOnSet(f, T) # 0}
<1>1. SUFFICES ASSUME B # {} PROVE FALSE
  BY DEF B
<1>2. PICK T \in B : \A U \in SUBSET T : U # T => U \notin B
  <2>1. B \in SUBSET SUBSET S
    OBVIOUS
  <2> HIDE DEF B
  <2> QED
    BY <1>1, <2>1, LeastSubset
<1>3. IsFiniteSet(T)
  BY FS_Subset
<1>4. CASE T = {}
  BY <1>2, <1>4, SumEmpty
<1>5. CASE T # {}
  <2>1. First(T) \in T /\ f[First(T)] = 0
    BY <1>5, FirstIsIn
  <2>2. SumFunctionOnSet(f, T \ {First(T)}) = 0
    BY <1>2, <2>1
  <2>3. SumFunctionOnSet(f, T) = f[First(T)] + SumFunctionOnSet(f, T \ {First(T)})
    BY <1>3, <1>5, SumUnfolded
  <2> QED
    BY <1>2, <2>1, <2>2, <2>3
<1> QED
  BY <1>4, <1>5
=============================================================================
