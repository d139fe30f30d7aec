---------------------------- MODULE SolverProofs ----------------------------
(***************************************************************************)
(* Proofs about the worklist of Solver, and about the machine of Execution *)
(* that runs what it has solved, for every set of well-formed methods and  *)
(* every worklist order:                                                   *)
(*   NoUpdateLost    Spec => []Settled                                     *)
(*   FixedPoint      Spec => [](an empty worklist means Solved)            *)
(*   Stored          Spec => []TypeOK                                      *)
(*   Pairs           Spec => []PairsWhole                                  *)
(*   FramesDescribe  ExecSpec => []FramesSound                             *)
(*   PhisNecessary   Spec => []PhisNeeded                                  *)
(*   Simulation      ExecSpec => []Simulates                               *)
(* For the first two the equations stay closed: they hold whatever a walk  *)
(* and a join compute.  For the next two, FramesProofs says what one       *)
(* transfer or join keeps, and the second part of this module carries it   *)
(* along the code of a block and over all edges into one.  For the fifth,  *)
(* the third part shows that the frames of a solved method cover what      *)
(* their edges carry, and runs the machine beside them.                    *)
(*   The fourth part is about names.  What simplifyPhiCopies computes of   *)
(* the equations of the phis (RepresentativeFacts) and that renaming keeps *)
(* the cycles of those that stay give PhisNecessary.  For Simulation it    *)
(* shows that a solved frame names what each edge delivers (NamesInv), and *)
(* that nothing is named anew while a usable cell has the name: a cell has *)
(* names from its own block and from blocks less deep (DepthInv).          *)
(***************************************************************************)
EXTENDS Execution, FramesProofs, OrderLemmas, SequenceTheorems

USE MethodsAssumption, PoliciesAssumption

(* A sequence contains what is in the set of its elements.                 *)
LEMMA ContainsIsMember ==
  ASSUME NEW S, NEW s \in Seq(S), NEW x
  PROVE  Contains(s, x) <=> x \in ToSet(s)
BY DEF Contains, ToSet

(* Taking a block off the worklist leaves the others, each once.           *)
LEMMA RemoveAtFacts ==
  ASSUME NEW S, NEW s \in Seq(S), IsInjective(s), NEW q \in DOMAIN s
  PROVE  /\ RemoveAt(s, q) \in Seq(S)
         /\ IsInjective(RemoveAt(s, q))
         /\ ToSet(s) = ToSet(RemoveAt(s, q)) \cup {s[q]}
<1> DEFINE n == Len(s)
           r == RemoveAt(s, q)
<1>1. n \in Nat /\ DOMAIN s = 1..n /\ q \in 1..n
  OBVIOUS
<1> DEFINE front == SubSeq(s, 1, q - 1)
           back == SubSeq(s, q + 1, n)
<1>2. /\ front \in Seq(S) /\ Len(front) = q - 1
      /\ \A i \in 1..(q - 1) : front[i] = s[i]
  BY <1>1
<1>3. /\ back \in Seq(S) /\ Len(back) = n - q
      /\ \A i \in 1..(n - q) : back[i] = s[i + q]
  BY <1>1
<1>4. r = front \o back
  BY DEF RemoveAt
<1> HIDE DEF front, back, r
<1>5. /\ r \in Seq(S) /\ Len(r) = n - 1 /\ DOMAIN r = 1..(n - 1)
      /\ \A i \in 1..(n - 1) : r[i] = IF i <= q - 1 THEN front[i] ELSE back[i - (q - 1)]
  <2>1. /\ r \in Seq(S) /\ Len(r) = Len(front) + Len(back)
        /\ \A i \in 1..(Len(front) + Len(back)) :
             r[i] = IF i <= Len(front) THEN front[i] ELSE back[i - Len(front)]
    BY <1>2, <1>3, <1>4, ConcatProperties
  <2>2. Len(front) + Len(back) = n - 1
    BY <1>1, <1>2, <1>3
  <2>3. DOMAIN r = 1..Len(r)
    BY <2>1, LenProperties
  <2> QED
    BY <1>2, <2>1, <2>2, <2>3
<1>6. \A i \in 1..(n - 1) : r[i] = IF i < q THEN s[i] ELSE s[i + 1]
  <2> SUFFICES ASSUME NEW i \in 1..(n - 1)
               PROVE  r[i] = IF i < q THEN s[i] ELSE s[i + 1]
    OBVIOUS
  <2>1. CASE i < q
    <3>1. i \in 1..(q - 1) /\ i <= q - 1
      BY <1>1, <2>1
    <3> QED
      BY <1>2, <1>5, <2>1, <3>1
  <2>2. CASE ~(i < q)
    <3>1. i - (q - 1) \in 1..(n - q) /\ ~(i <= q - 1) /\ (i - (q - 1)) + q = i + 1
      BY <1>1, <2>2
    <3> QED
      BY <1>3, <1>5, <2>2, <3>1
  <2> QED
    BY <2>1, <2>2
<1>7. IsInjective(r)
  <2> SUFFICES ASSUME NEW i \in 1..(n - 1), NEW j \in 1..(n - 1), r[i] = r[j]
               PROVE  i = j
    BY <1>5 DEF IsInjective
  <2> DEFINE pos(k) == IF k < q THEN k ELSE k + 1
  <2>1. pos(i) \in 1..n /\ pos(j) \in 1..n /\ s[pos(i)] = s[pos(j)]
    BY <1>1, <1>6
  <2>2. pos(i) = pos(j)
    BY <1>1, <2>1 DEF IsInjective
  <2> QED
    BY <1>1, <2>2
<1>8. \A i \in 1..n : i # q => \E j \in 1..(n - 1) : r[j] = s[i]
  <2> SUFFICES ASSUME NEW i \in 1..n, i # q
               PROVE  \E j \in 1..(n - 1) : r[j] = s[i]
    OBVIOUS
  <2>1. CASE i < q
    BY <1>1, <1>6, <2>1
  <2>2. CASE i > q
    <3>1. i - 1 \in 1..(n - 1) /\ ~(i - 1 < q) /\ (i - 1) + 1 = i
      BY <1>1, <2>2
    <3> QED
      BY <1>6, <3>1
  <2> QED
    BY <1>1, <2>1, <2>2
<1>9. ToSet(s) = ToSet(r) \cup {s[q]}
  <2>1. \A j \in 1..(n - 1) : \E i \in 1..n : r[j] = s[i]
    BY <1>1, <1>6
  <2>2. /\ \A x : x \in ToSet(s) <=> \E i \in 1..n : x = s[i]
        /\ \A x : x \in ToSet(r) <=> \E j \in 1..(n - 1) : x = r[j]
    BY <1>1, <1>5 DEF ToSet
  <2>3. ASSUME NEW x \in ToSet(s), x # s[q] PROVE x \in ToSet(r)
    <3>1. PICK i \in 1..n : x = s[i]
      BY <2>2
    <3> QED
      BY <1>8, <2>2, <2>3, <3>1
  <2>4. s[q] \in ToSet(s) /\ \A x \in ToSet(r) : x \in ToSet(s)
    BY <1>1, <2>1, <2>2
  <2> QED
    BY <2>3, <2>4
<1> QED
  BY <1>5, <1>7, <1>9 DEF r

(* Blocks are positions of the code, and every edge leads to one.          *)
LEMMA TargetType ==
  ASSUME NEW m, WellFormed(m), NEW e \in {0} \cup DOMAIN m.edges
  PROVE  Target(m, e) \in Blocks(m)
BY DEF WellFormed, GraphOf, Target

(* Enqueue puts every target of the edges on the worklist, and none twice. *)
LEMMA EnqueueFacts ==
  ASSUME WellFormed(method), NEW rest \in Seq(Blocks(method)), IsInjective(rest),
         NEW es \in SUBSET DOMAIN method.edges
  PROVE  /\ Enqueue(rest, es) \in Seq(Blocks(method))
         /\ IsInjective(Enqueue(rest, es))
         /\ ToSet(Enqueue(rest, es)) = ToSet(rest) \cup {Target(method, e) : e \in es}
<1> DEFINE first == {e \in es : /\ Target(method, e) \notin ToSet(rest)
                                /\ \A d \in es : Target(method, d) = Target(method, e) => e <= d}
           n == Cardinality(first)
           nth(i) == CHOOSE e \in first : Rank(first, e) = i
           new == [i \in 1..n |-> Target(method, nth(i))]
           q == rest \o new
<1>1. IsFiniteSet(DOMAIN method.edges) /\ DOMAIN method.edges \subseteq Nat \ {0}
  <2>1. Len(method.edges) \in Nat /\ DOMAIN method.edges = 1..Len(method.edges)
    BY DEF WellFormed, GraphOf
  <2>2. \A k \in Nat : IsFiniteSet(1..k)
    BY FS_Interval
  <2> QED
    BY <2>1, <2>2
<1>2. es \in SUBSET Nat /\ IsFiniteSet(es) /\ first \in SUBSET Nat /\ IsFiniteSet(first)
  BY <1>1, FS_Subset
<1>3. /\ n \in Nat
      /\ \A e \in first : Rank(first, e) \in 1..n
      /\ \A d, e \in first : Rank(first, d) = Rank(first, e) => d = e
      /\ \A i \in 1..n : \E e \in first : Rank(first, e) = i
  <2> HIDE DEF first
  <2> QED
    BY <1>2, RankIsBijection
<1>4. \A i \in 1..n : nth(i) \in first /\ Rank(first, nth(i)) = i
  <2> HIDE DEF first
  <2> QED
    BY <1>3
<1>5. \A e \in first : nth(Rank(first, e)) = e
  <2> HIDE DEF first, nth
  <2> QED
    BY <1>3, <1>4
<1>6. \A d, e \in first : Target(method, d) = Target(method, e) => d = e
  BY <1>2
<1>7. \A e \in es : Target(method, e) \in Blocks(method)
  BY TargetType
<1>8. new \in Seq(Blocks(method)) /\ Len(new) = n
  <2>1. \A i \in 1..n : Target(method, nth(i)) \in Blocks(method)
    BY <1>4, <1>7
  <2> HIDE DEF nth
  <2> QED
    BY <1>3, <2>1
<1>9. IsInjective(new)
  <2> SUFFICES ASSUME NEW i \in 1..n, NEW j \in 1..n, Target(method, nth(i)) = Target(method, nth(j))
               PROVE  i = j
    BY DEF IsInjective
  <2>1. nth(i) = nth(j)
    <3> HIDE DEF first, nth
    <3> QED
      BY <1>4, <1>6
  <2> QED
    BY <1>4, <2>1
<1>10. ToSet(new) = {Target(method, e) : e \in es} \ ToSet(rest)
  <2>1. ASSUME NEW i \in 1..n
        PROVE  Target(method, nth(i)) \in {Target(method, e) : e \in es} \ ToSet(rest)
    BY <1>4
  <2>2. ASSUME NEW e \in es, Target(method, e) \notin ToSet(rest)
        PROVE  \E i \in 1..n : Target(method, nth(i)) = Target(method, e)
    <3> DEFINE same == {d \in es : Target(method, d) = Target(method, e)}
    <3>1. same \in SUBSET Nat /\ IsFiniteSet(same) /\ e \in same
      BY <1>2, FS_Subset
    <3>2. PICK d \in same : \A x \in same : d <= x
      <4> HIDE DEF same
      <4> QED
        BY <3>1, LeastElement
    <3>3. d \in first
      BY <2>2, <3>2
    <3> QED
      BY <1>3, <1>5, <3>2, <3>3
  <2>3. DOMAIN new = 1..n /\ \A i \in 1..n : new[i] = Target(method, nth(i))
    OBVIOUS
  <2> HIDE DEF new, nth, n
  <2> QED
    BY <2>1, <2>2, <2>3 DEF ToSet
<1>11. /\ q \in Seq(Blocks(method))
       /\ ToSet(q) = ToSet(rest) \cup ToSet(new)
       /\ IsInjective(q)
  <2>1. ToSet(rest) \cap ToSet(new) = {}
    BY <1>10
  <2> HIDE DEF new, first, n
  <2>2. /\ q \in Seq(Blocks(method)) /\ Len(q) = Len(rest) + Len(new)
        /\ DOMAIN q = 1..Len(q)
        /\ \A i \in 1..Len(q) : q[i] = IF i <= Len(rest) THEN rest[i] ELSE new[i - Len(rest)]
    <3>1. /\ q \in Seq(Blocks(method)) /\ Len(q) = Len(rest) + Len(new)
          /\ \A i \in 1..(Len(rest) + Len(new)) :
               q[i] = IF i <= Len(rest) THEN rest[i] ELSE new[i - Len(rest)]
      BY <1>8, ConcatProperties
    <3>2. DOMAIN q = 1..Len(q)
      BY <3>1, LenProperties
    <3> QED
      BY <3>1, <3>2
  <2>3. /\ Len(rest) \in Nat /\ DOMAIN rest = 1..Len(rest)
        /\ Len(new) \in Nat /\ DOMAIN new = 1..Len(new)
    BY <1>8
  <2> HIDE DEF q
  <2>4. ToSet(q) = ToSet(rest) \cup ToSet(new)
    <3>1. \A i \in 1..Len(q) : i \in 1..Len(rest) \/ i - Len(rest) \in 1..Len(new)
      BY <2>2, <2>3
    <3>2. \A i \in 1..Len(rest) : i \in 1..Len(q) /\ q[i] = rest[i]
      BY <2>2, <2>3
    <3>3. \A i \in 1..Len(new) : i + Len(rest) \in 1..Len(q) /\ q[i + Len(rest)] = new[i]
      BY <2>2, <2>3
    <3>4. \A i \in 1..Len(q) : \/ \E j \in 1..Len(rest) : q[i] = rest[j]
                               \/ \E j \in 1..Len(new) : q[i] = new[j]
      BY <2>2, <2>3, <3>1
    <3>5. /\ \A x : x \in ToSet(q) <=> \E i \in 1..Len(q) : x = q[i]
          /\ \A x : x \in ToSet(rest) <=> \E i \in 1..Len(rest) : x = rest[i]
          /\ \A x : x \in ToSet(new) <=> \E i \in 1..Len(new) : x = new[i]
      BY <2>2, <2>3 DEF ToSet
    <3>6. \A x \in ToSet(q) : x \in ToSet(rest) \/ x \in ToSet(new)
      BY <3>4, <3>5
    <3>7. \A x \in ToSet(rest) : x \in ToSet(q)
      BY <3>2, <3>5
    <3>8. ASSUME NEW x \in ToSet(new) PROVE x \in ToSet(q)
      <4>1. PICK i \in 1..Len(new) : x = new[i]
        BY <3>5
      <4>2. i + Len(rest) \in 1..Len(q) /\ q[i + Len(rest)] = x
        BY <3>3, <4>1
      <4> QED
        BY <3>5, <4>2
    <3> QED
      BY <3>6, <3>7, <3>8
  <2>5. IsInjective(q)
    <3> SUFFICES ASSUME NEW i \in 1..Len(q), NEW j \in 1..Len(q), q[i] = q[j]
                 PROVE  i = j
      BY <2>2 DEF IsInjective
    <3>1. \A k \in 1..Len(q) : k <= Len(rest) => k \in DOMAIN rest /\ q[k] = rest[k]
      BY <2>2, <2>3
    <3>2. \A k \in 1..Len(q) : ~(k <= Len(rest)) =>
            k - Len(rest) \in DOMAIN new /\ q[k] = new[k - Len(rest)]
      BY <2>2, <2>3
    <3>3. \A k, l \in 1..Len(q) : ~(k <= Len(rest) /\ ~(l <= Len(rest)) /\ q[k] = q[l])
      BY <2>1, <3>1, <3>2 DEF ToSet
    <3>4. CASE i <= Len(rest) /\ j <= Len(rest)
      BY <3>1, <3>4 DEF IsInjective
    <3>5. CASE ~(i <= Len(rest)) /\ ~(j <= Len(rest))
      <4>1. i - Len(rest) = j - Len(rest)
        BY <1>9, <3>2, <3>5 DEF IsInjective
      <4> QED
        BY <2>2, <2>3, <4>1
    <3> QED
      BY <3>3, <3>4, <3>5
  <2> QED
    BY <2>2, <2>4, <2>5 DEF q
<1>12. Enqueue(rest, es) = q
  BY DEF Enqueue, Rank
<1> QED
  BY <1>10, <1>11, <1>12
-----------------------------------------------------------------------------
(* The inductive invariant.  Settled is not inductive by itself: a visit   *)
(* relies on the worklist having each block once and on the shapes of the  *)
(* maps, and FixedPoint on every frame coming from a block that was        *)
(* walked.                                                                 *)

TypeInv ==
  /\ method \in Methods
  /\ policy \in Policies
  /\ DOMAIN edges \subseteq {0} \cup DOMAIN method.edges
  /\ edges = [e \in DOMAIN edges |-> edges[e]]
  /\ DOMAIN in \subseteq Blocks(method)
  /\ pending \in Seq(Blocks(method)) /\ IsInjective(pending)
  /\ status \in {"run", "done", "rejected", "budget"}

\* Frames come from the entry or from a walked block, and lead to each block
\* that is known.
ReachInv ==
  status = "run" =>
    /\ 0 \in DOMAIN edges /\ edges[0] = EntryFrame(method)
    /\ \A e \in DOMAIN edges \ {0} : method.edges[e].from[1] \in DOMAIN in
    /\ \A b \in DOMAIN in \cup ToSet(pending) : \E e \in DOMAIN edges : Target(method, e) = b

\* The edges of a walked block carry what its last walk gave, even while it
\* waits to be walked again.
WalkedInv ==
  status = "run" =>
    \A b \in DOMAIN in : \A e \in Leaving(method, b) :
      e \in DOMAIN edges /\ edges[e] = Carried(method, e, Trace(method, b, in[b]))

SolverInv == TypeInv /\ ReachInv /\ WalkedInv /\ Settled

LEMMA InitInv == Init => SolverInv
<1> SUFFICES ASSUME Init PROVE SolverInv
  OBVIOUS
<1> USE DEF Init
<1>1. WellFormed(method)
  OBVIOUS
<1>2. 1 \in Blocks(method)
  BY <1>1 DEF WellFormed, GraphOf
<1>3. pending \in Seq(Blocks(method)) /\ IsInjective(pending) /\ ToSet(pending) = {1}
  BY <1>2 DEF IsInjective, ToSet
<1>4. DOMAIN in = {} /\ DOMAIN edges = {0} /\ edges[0] = EntryFrame(method)
  OBVIOUS
<1>5. TypeInv
  BY <1>3, <1>4 DEF TypeInv
<1>6. Target(method, 0) = 1
  BY DEF Target
<1>7. ReachInv
  BY <1>3, <1>4, <1>6 DEF ReachInv
<1>8. Settled
  <2> SUFFICES ASSUME NEW b \in Blocks(method), ~Contains(pending, b),
                      DOMAIN Incoming(method, edges, b) # {}
               PROVE  FALSE
    BY DEF Settled
  <2>1. b # 1
    BY <1>3, ContainsIsMember
  <2>2. PICK e \in DOMAIN edges : Target(method, e) = b
    BY DEF Incoming
  <2> QED
    BY <1>4, <1>6, <2>1, <2>2
<1>9. WalkedInv
  BY <1>4 DEF WalkedInv
<1> QED
  BY <1>5, <1>7, <1>8, <1>9 DEF SolverInv

(* Settled, said with the set of waiting blocks.                           *)
SettledAt(b) == b \in DOMAIN in /\ in[b] = Merge(method, edges, b)

LEMMA SettledMeaning ==
  ASSUME TypeInv, WalkedInv, status = "run"
  PROVE  Settled <=> \A b \in Blocks(method) \ ToSet(pending) :
                       DOMAIN Incoming(method, edges, b) # {} => SettledAt(b)
<1>1. \A b : Contains(pending, b) <=> b \in ToSet(pending)
  BY ContainsIsMember DEF TypeInv
<1> QED
  BY <1>1 DEF Settled, WalkedInv, SettledAt

(* A block that is entered with the frame of its last walk has nothing to  *)
(* say to its successors.                                                  *)
LEMMA SkipKeeps ==
  ASSUME SolverInv, status = "run", NEW q \in DOMAIN pending,
         Skip(pending[q], Merge(method, edges, pending[q]), RemoveAt(pending, q))
  PROVE  SolverInv'
<1> DEFINE b == pending[q]
           rest == RemoveAt(pending, q)
<1>1. /\ b \in DOMAIN in /\ in[b] = Merge(method, edges, b) /\ pending' = rest
      /\ UNCHANGED <<method, policy, edges, in, phis, status>>
  BY DEF Skip
<1>2. /\ rest \in Seq(Blocks(method)) /\ IsInjective(rest)
      /\ ToSet(pending) = ToSet(rest) \cup {b}
  BY RemoveAtFacts DEF SolverInv, TypeInv
<1> HIDE DEF b, rest
<1>3. TypeInv'
  BY <1>1, <1>2 DEF SolverInv, TypeInv
<1>4. ReachInv'
  BY <1>1, <1>2 DEF SolverInv, ReachInv
<1>5. WalkedInv'
  BY <1>1 DEF SolverInv, WalkedInv
<1>6. \A c \in Blocks(method) \ ToSet(rest) : DOMAIN Incoming(method, edges, c) # {} => SettledAt(c)
  BY <1>1, <1>2, SettledMeaning DEF SolverInv, SettledAt
<1>7. (\A c \in Blocks(method) \ ToSet(pending) :
         DOMAIN Incoming(method, edges, c) # {} => SettledAt(c))'
  BY <1>1, <1>6 DEF SettledAt
<1>8. Settled'
  <2>1. \A c : Contains(pending', c) <=> c \in ToSet(pending')
    BY <1>3, ContainsIsMember DEF TypeInv
  <2> QED
    BY <1>5, <1>7, <2>1 DEF Settled, WalkedInv, SettledAt
<1> QED
  BY <1>3, <1>4, <1>5, <1>8 DEF SolverInv
(* Walking a block puts on the worklist every block that now gets another  *)
(* frame; the others still have what they were walked with.                *)
LEMMA PropagateKeeps ==
  ASSUME SolverInv, status = "run", NEW q \in DOMAIN pending,
         Propagate(pending[q], Merge(method, edges, pending[q]), RemoveAt(pending, q))
  PROVE  SolverInv'
<1> DEFINE b == pending[q]
           rest == RemoveAt(pending, q)
           f == Merge(method, edges, b)
           t == Trace(method, b, f)
           es == Changed(b, t)
<1>1. CASE ~Last(t).ok
  <2>1. /\ status' = "rejected"
        /\ UNCHANGED <<method, policy, edges, in, pending, phis>>
    BY <1>1 DEF Propagate, Reject
  <2> QED
    BY <2>1 DEF SolverInv, TypeInv, ReachInv, WalkedInv, Settled
<1>2. CASE Last(t).ok
  <2>1. /\ in' = [c \in DOMAIN in \cup {b} |-> IF c = b THEN f ELSE in[c]]
        /\ edges' = [e \in DOMAIN edges \cup es |->
                       IF e \in es THEN Carried(method, e, t) ELSE edges[e]]
        /\ pending' = Enqueue(rest, es)
        /\ UNCHANGED <<method, policy, phis, status>>
    BY <1>2 DEF Propagate
  <2>2. /\ rest \in Seq(Blocks(method)) /\ IsInjective(rest)
        /\ ToSet(pending) = ToSet(rest) \cup {b}
    BY RemoveAtFacts DEF SolverInv, TypeInv
  <2>3. b \in Blocks(method) /\ b \in ToSet(pending) /\ WellFormed(method)
    BY DEF SolverInv, TypeInv, ToSet
  <2>4. /\ es \in SUBSET Leaving(method, b)
        /\ \A e \in Leaving(method, b) : e \in es \/ (e \in DOMAIN edges /\ edges[e] = Carried(method, e, t))
    BY DEF Changed
  <2>5. /\ \A e \in Leaving(method, b) : e \in DOMAIN method.edges /\ method.edges[e].from[1] = b
        /\ DOMAIN method.edges \subseteq Nat \ {0}
    BY <2>3 DEF Leaving, WellFormed, GraphOf
  <2>6. /\ pending' \in Seq(Blocks(method)) /\ IsInjective(pending')
        /\ ToSet(pending') = ToSet(rest) \cup {Target(method, e) : e \in es}
    <3> HIDE DEF rest, es
    <3>1. es \in SUBSET DOMAIN method.edges
      BY <2>4, <2>5
    <3> QED
      BY <2>1, <2>2, <2>3, <3>1, EnqueueFacts
  <2> HIDE DEF b, rest, f, es, t
  <2>7. /\ DOMAIN edges' = DOMAIN edges \cup es
        /\ \A e \in es : edges'[e] = Carried(method, e, t)
        /\ \A e \in DOMAIN edges \ es : edges'[e] = edges[e]
        /\ DOMAIN in' = DOMAIN in \cup {b} /\ in'[b] = f
        /\ \A c \in DOMAIN in \ {b} : in'[c] = in[c]
    BY <2>1
  <2>8. TypeInv'
    BY <2>1, <2>3, <2>4, <2>5, <2>6, <2>7 DEF SolverInv, TypeInv
  <2>9. ReachInv'
    <3>1. /\ 0 \in DOMAIN edges /\ edges[0] = EntryFrame(method)
          /\ \A e \in DOMAIN edges \ {0} : method.edges[e].from[1] \in DOMAIN in
          /\ \A c \in DOMAIN in \cup ToSet(pending) : \E e \in DOMAIN edges : Target(method, e) = c
      BY DEF SolverInv, ReachInv
    <3>2. 0 \in DOMAIN edges' /\ edges'[0] = EntryFrame(method)
      BY <2>4, <2>5, <2>7, <3>1
    <3>3. \A e \in DOMAIN edges' \ {0} : method.edges[e].from[1] \in DOMAIN in'
      BY <2>4, <2>5, <2>7, <3>1
    <3>4. \A c \in DOMAIN in' \cup ToSet(pending') : \E e \in DOMAIN edges' : Target(method, e) = c
      BY <2>2, <2>3, <2>6, <2>7, <3>1
    <3> QED
      BY <2>1, <3>2, <3>3, <3>4 DEF ReachInv
  <2>10. WalkedInv'
    <3>1. \A c \in DOMAIN in : \A e \in Leaving(method, c) :
            e \in DOMAIN edges /\ edges[e] = Carried(method, e, Trace(method, c, in[c]))
      BY DEF SolverInv, WalkedInv
    <3>2. ASSUME NEW e \in Leaving(method, b)
          PROVE  e \in DOMAIN edges' /\ edges'[e] = Carried(method, e, Trace(method, b, in'[b]))
      <4>1. t = Trace(method, b, in'[b])
        BY <2>7 DEF t
      <4>2. e \in DOMAIN edges' /\ edges'[e] = Carried(method, e, t)
        BY <2>4, <2>7
      <4> QED
        BY <4>1, <4>2
    <3>3. ASSUME NEW c \in DOMAIN in \ {b}, NEW e \in Leaving(method, c)
          PROVE  e \in DOMAIN edges' /\ edges'[e] = Carried(method, e, Trace(method, c, in'[c]))
      <4>1. e \notin es
        BY <2>4, <2>5 DEF Leaving
      <4> QED
        BY <2>7, <3>1, <4>1
    <3>4. \A c \in DOMAIN in' : \A e \in Leaving(method, c) :
            e \in DOMAIN edges' /\ edges'[e] = Carried(method, e, Trace(method, c, in'[c]))
      <4> SUFFICES ASSUME NEW c \in DOMAIN in', NEW e \in Leaving(method, c)
                   PROVE  e \in DOMAIN edges' /\ edges'[e] = Carried(method, e, Trace(method, c, in'[c]))
        OBVIOUS
      <4>1. CASE c = b
        <5>1. e \in Leaving(method, b)
          BY <4>1
        <5>2. e \in DOMAIN edges' /\ edges'[e] = Carried(method, e, Trace(method, b, in'[b]))
          BY <3>2, <5>1
        <5> QED
          BY <4>1, <5>2
      <4>2. CASE c # b
        <5>1. c \in DOMAIN in \ {b}
          BY <2>7, <4>2
        <5> QED
          BY <3>3, <5>1
      <4> QED
        BY <4>1, <4>2
    <3>5. method' = method
      BY <2>1
    <3> QED
      BY <3>4, <3>5, Zenon DEF WalkedInv
  <2>11. ASSUME NEW c \in Blocks(method) \ ToSet(pending')
         PROVE  Incoming(method, edges', c) = Incoming(method, edges, c)
    <3>1. \A e \in es : Target(method, e) # c
      BY <2>6
    <3> QED
      BY <2>7, <3>1 DEF Incoming
  <2>12. ASSUME NEW c \in Blocks(method) \ ToSet(pending'), DOMAIN Incoming(method, edges', c) # {}
         PROVE  c \in DOMAIN in' /\ in'[c] = Merge(method, edges', c)
    <3>1. Merge(method, edges', c) = Merge(method, edges, c)
      BY <2>11 DEF Merge
    <3>2. CASE c = b
      BY <2>7, <3>1, <3>2 DEF f
    <3>3. CASE c # b
      <4>1. c \in Blocks(method) \ ToSet(pending) /\ DOMAIN Incoming(method, edges, c) # {}
        BY <2>2, <2>6, <2>11, <2>12, <3>3
      <4>2. SettledAt(c)
        BY <4>1, SettledMeaning DEF SolverInv
      <4> QED
        BY <2>7, <3>1, <3>3, <4>2 DEF SettledAt
    <3> QED
      BY <3>2, <3>3
  <2>13. Settled'
    <3>1. \A c : Contains(pending', c) <=> c \in ToSet(pending')
      BY <2>6, ContainsIsMember
    <3>2. \A c \in Blocks(method) : ~Contains(pending', c) /\ DOMAIN Incoming(method, edges', c) # {} =>
            c \in DOMAIN in' /\ in'[c] = Merge(method, edges', c)
      BY <2>12, <3>1
    <3>3. \A c \in DOMAIN in' : \A e \in Leaving(method, c) :
            e \in DOMAIN edges' /\ edges'[e] = Carried(method, e, Trace(method, c, in'[c]))
      BY <2>1, <2>10 DEF WalkedInv
    <3>4. ASSUME NEW c \in Blocks(method), ~Contains(pending', c), DOMAIN Incoming(method, edges', c) # {}
          PROVE  /\ c \in DOMAIN in' /\ in'[c] = Merge(method, edges', c)
                 /\ \A e \in Leaving(method, c) :
                      e \in DOMAIN edges' /\ edges'[e] = Carried(method, e, Trace(method, c, in'[c]))
      <4>1. c \in DOMAIN in' /\ in'[c] = Merge(method, edges', c)
        BY <3>2, <3>4
      <4> QED
        BY <3>3, <4>1
    <3>5. method' = method
      BY <2>1
    <3> QED
      BY <3>4, <3>5, Zenon DEF Settled
  <2> QED
    BY <2>8, <2>9, <2>10, <2>13 DEF SolverInv
<1> QED
  BY <1>1, <1>2

LEMMA NextInv == SolverInv /\ [Next]_vars => SolverInv'
<1> SUFFICES ASSUME SolverInv, [Next]_vars PROVE SolverInv'
  OBVIOUS
<1>1. CASE OutOfWork
  BY <1>1 DEF OutOfWork, SolverInv, TypeInv, ReachInv, WalkedInv, Settled
<1>2. CASE Visit
  <2>1. PICK q \in Picks :
          LET b == pending[q]
              rest == RemoveAt(pending, q)
              f == Merge(method, edges, b)
          IN  IF f.ok THEN Skip(b, f, rest) \/ Propagate(b, f, rest) ELSE Reject
    BY <1>2 DEF Visit
  <2>2. status = "run" /\ pending # <<>>
    BY <1>2 DEF Visit
  <2>3. q \in DOMAIN pending
    BY <2>2 DEF Picks, SolverInv, TypeInv
  <2>4. CASE Skip(pending[q], Merge(method, edges, pending[q]), RemoveAt(pending, q))
    BY <2>2, <2>3, <2>4, SkipKeeps
  <2>5. CASE Propagate(pending[q], Merge(method, edges, pending[q]), RemoveAt(pending, q))
    BY <2>2, <2>3, <2>5, PropagateKeeps
  <2>6. CASE Reject
    BY <2>6 DEF Reject, SolverInv, TypeInv, ReachInv, WalkedInv, Settled
  <2> QED
    BY <2>1, <2>4, <2>5, <2>6
<1>3. CASE Finish
  BY <1>3 DEF Finish, Reject, SolverInv, TypeInv, ReachInv, WalkedInv, Settled
<1>4. CASE UNCHANGED vars
  BY <1>4 DEF vars, SolverInv, TypeInv, ReachInv, WalkedInv, Settled
<1> QED
  BY <1>1, <1>2, <1>3, <1>4 DEF Next

LEMMA Invariance == Spec => []SolverInv
BY InitInv, NextInv, PTL DEF Spec

(* ssabuild.Build loses no update, whatever the method, the transfer, the  *)
(* join and the order of the worklist: every block that some edge reaches  *)
(* and that does not wait was last walked with what its edges carry now.   *)
THEOREM NoUpdateLost == Spec => []Settled
BY Invariance, PTL DEF SolverInv

(* When the worklist of Build is empty the frames on the edges solve the   *)
(* equations: one more walk of every block would change nothing.           *)
THEOREM FixedPoint == Spec => [](status = "run" /\ pending = <<>> => Solved)
<1>1. SolverInv => (status = "run" /\ pending = <<>> => Solved)
  <2> SUFFICES ASSUME SolverInv, status = "run", pending = <<>>
               PROVE  Round(method, edges) = edges
    BY DEF Solved
  <2> DEFINE reached == {Target(method, e) : e \in DOMAIN edges}
             trace == [b \in reached |-> Trace(method, b, Merge(method, edges, b))]
             flow == {0} \cup UNION {Leaving(method, b) : b \in reached}
  <2>1. WellFormed(method) /\ TypeInv /\ ReachInv /\ WalkedInv /\ ToSet(pending) = {}
    BY DEF SolverInv, TypeInv, ToSet
  <2>2. reached \subseteq Blocks(method)
    BY <2>1, TargetType DEF TypeInv
  <2>3. \A b \in reached : b \in DOMAIN in /\ in[b] = Merge(method, edges, b)
    <3> SUFFICES ASSUME NEW b \in reached PROVE SettledAt(b)
      BY DEF SettledAt
    <3>1. DOMAIN Incoming(method, edges, b) # {}
      BY DEF Incoming
    <3>2. \A c \in Blocks(method) \ ToSet(pending) :
            DOMAIN Incoming(method, edges, c) # {} => SettledAt(c)
      BY <2>1, SettledMeaning DEF SolverInv
    <3> QED
      BY <2>1, <2>2, <3>1, <3>2
  <2>4. \A b \in DOMAIN in : b \in reached
    BY <2>1 DEF ReachInv
  <2>5. ASSUME NEW b \in reached, NEW e \in Leaving(method, b)
        PROVE  /\ e \in DOMAIN edges /\ e # 0 /\ method.edges[e].from[1] = b
               /\ edges[e] = Carried(method, e, trace[b])
    <3>1. e \in DOMAIN method.edges /\ method.edges[e].from[1] = b
      BY DEF Leaving
    <3>2. e # 0
      BY <2>1, <3>1 DEF WellFormed, GraphOf
    <3>3. trace[b] = Trace(method, b, in[b])
      BY <2>3
    <3> QED
      BY <2>1, <2>3, <3>1, <3>2, <3>3 DEF WalkedInv
  <2>6. ASSUME NEW e \in DOMAIN edges \ {0}
        PROVE  \E b \in reached : e \in Leaving(method, b)
    <3>1. e \in DOMAIN method.edges /\ method.edges[e].from[1] \in reached
      BY <2>1, <2>4 DEF TypeInv, ReachInv
    <3> QED
      BY <3>1 DEF Leaving
  <2>7. 0 \in DOMAIN edges /\ edges[0] = EntryFrame(method)
    BY <2>1 DEF ReachInv
  <2>8. flow = DOMAIN edges
    BY <2>5, <2>6, <2>7
  <2>9. ASSUME NEW e \in DOMAIN edges
        PROVE  edges[e] = IF e = 0 THEN EntryFrame(method)
                          ELSE Carried(method, e, trace[method.edges[e].from[1]])
    BY <2>5, <2>6, <2>7
  <2>10. Round(method, edges) =
           [e \in flow |-> IF e = 0 THEN EntryFrame(method)
                           ELSE Carried(method, e, trace[method.edges[e].from[1]])]
    BY DEF Round
  <2>11. edges = [e \in DOMAIN edges |-> edges[e]]
    BY <2>1 DEF TypeInv
  <2> HIDE DEF reached, trace, flow
  <2> QED
    BY <2>8, <2>9, <2>10, <2>11
<1> QED
  BY Invariance, <1>1, PTL
-----------------------------------------------------------------------------
(* The frames.  Each is a frame of the method's locals whose wide values   *)
(* are whole; an error never stays on an edge.                             *)

\* The declared locals.
LEMMA EntrySound ==
  ASSUME NEW m, WellFormed(m)
  PROVE  Sound(EntryFrame(m), Len(m.locals))
<1> DEFINE n == Len(m.locals)
           slot(i) == IF IsTail(m.locals[i]) THEN i - 1 ELSE i
           g(i) == IF m.locals[i].kind = "Top" THEN Unusable ELSE Cell(m.locals[i], Param(slot(i)))
           r == [i \in 1..n |-> g(i)]
<1>1. /\ n \in Nat /\ DOMAIN m.locals = 1..n
      /\ \A i \in 1..n : m.locals[i] \in Types
  BY DEF WellFormed, LocalsOf
<1>2. \A i \in 1..n : /\ IsHead(m.locals[i]) => i + 1 \in 1..n /\ m.locals[i + 1] = T("LongTail")
                      /\ IsTail(m.locals[i]) => i - 1 \in 1..n /\ IsHead(m.locals[i - 1])
  BY <1>1 DEF WellFormed, LocalsOf
<1>3. EntryFrame(m) = Frame(r, <<>>)
  BY <1>1 DEF EntryFrame
<1>4. /\ IsTail(T("LongTail")) /\ T("LongTail").kind # "Top" /\ ~IsHead(T("LongTail"))
      /\ ~IsHead(Unusable.type) /\ ~IsTail(Unusable.type)
      /\ \A t : IsHead(t) \/ IsTail(t) => t.kind # "Top"
      /\ \A t : ~(IsHead(t) /\ IsTail(t))
  BY DEF IsHead, IsTail, T, Unusable, Cell
<1>5. \A i \in 1..n : g(i) \in CellSet
  <2> SUFFICES ASSUME NEW i \in 1..n PROVE g(i) \in CellSet
    OBVIOUS
  <2>1. slot(i) \in Int
    BY <1>1
  <2>2. Param(slot(i)) \in Origins
    BY <2>1, OriginTypes
  <2> QED
    BY <1>1, <2>2, CellType
<1>6. \A i \in 1..n :
        \/ g(i) = Unusable
        \/ /\ g(i) = Cell(m.locals[i], Param(slot(i)))
           /\ g(i).type = m.locals[i] /\ g(i).origin = Param(slot(i))
  BY DEF Cell
<1> HIDE DEF r, n
<1>7. /\ r \in Seq(CellSet) /\ Len(r) = n /\ DOMAIN r = 1..n
      /\ \A i \in 1..n : r[i] = g(i)
  <2> HIDE DEF g
  <2> QED
    BY <1>1, <1>5 DEF r
<1>8. ASSUME NEW i \in 1..n, IsHead(r[i].type)
      PROVE  i + 1 \in 1..n /\ r[i + 1] = Cell(T("LongTail"), r[i].origin)
  <2>1. IsHead(m.locals[i]) /\ r[i].origin = Param(i)
    <3>1. r[i] = g(i) /\ g(i) # Unusable
      BY <1>4, <1>7, <1>8
    <3>2. r[i].type = m.locals[i] /\ r[i].origin = Param(slot(i))
      BY <1>6, <3>1
    <3> QED
      BY <1>4, <1>8, <3>2
  <2>2. i + 1 \in 1..n /\ m.locals[i + 1] = T("LongTail")
    BY <1>2, <2>1
  <2>3. (i + 1) - 1 = i
    BY <1>1
  <2>4. g(i + 1) = Cell(T("LongTail"), Param(i))
    BY <1>4, <2>2, <2>3
  <2> QED
    BY <1>7, <2>1, <2>2, <2>4
<1>9. ASSUME NEW i \in 1..n, IsTail(r[i].type)
      PROVE  i - 1 \in 1..n /\ IsHead(r[i - 1].type) /\ r[i - 1].origin = r[i].origin
  <2>1. IsTail(m.locals[i]) /\ r[i].origin = Param(i - 1)
    <3>1. r[i] = g(i) /\ g(i) # Unusable
      BY <1>4, <1>7, <1>9
    <3>2. r[i].type = m.locals[i] /\ r[i].origin = Param(slot(i))
      BY <1>6, <3>1
    <3> QED
      BY <1>9, <3>2
  <2>2. i - 1 \in 1..n /\ IsHead(m.locals[i - 1])
    BY <1>2, <2>1
  <2>3. m.locals[i - 1].kind # "Top" /\ ~IsTail(m.locals[i - 1])
    BY <1>4, <2>2
  <2>4. g(i - 1) = Cell(m.locals[i - 1], Param(i - 1))
    BY <2>3
  <2>5. r[i - 1] = Cell(m.locals[i - 1], Param(i - 1))
    BY <1>7, <2>2, <2>4
  <2> QED
    BY <2>1, <2>2, <2>5 DEF Cell
<1>10. Whole(r)
  BY <1>7, <1>8, <1>9 DEF Whole
<1> QED
  BY <1>3, <1>7, <1>10, NoCell DEF Sound, IsFrame, Frame, n

\* A joined frame keeps its types; both halves of a wide value are one phi.
LEMMA PhisSound ==
  ASSUME NEW n \in Nat, NEW f, Sound(f, n), NEW b \in Int
  PROVE  Sound(WithPhis(f, b), n)
<1> DEFINE slot(i) == IF IsTail(f.locals[i].type) THEN i - 1 ELSE i
           g(i) == IF f.locals[i].type.kind = "Top" THEN Unusable
                   ELSE Cell(f.locals[i].type, Phi(b, slot(i)))
           h(i) == Cell(f.stack[i].type, Phi(b, n + i))
           r == [i \in 1..n |-> g(i)]
           s == [i \in DOMAIN f.stack |-> h(i)]
<1>1. /\ f = Frame(f.locals, f.stack) /\ f.locals \in Seq(CellSet) /\ Len(f.locals) = n
      /\ DOMAIN f.locals = 1..n /\ \A i \in 1..n : f.locals[i] \in CellSet
      /\ f.stack \in Seq(CellSet) /\ Len(f.stack) \in Nat /\ DOMAIN f.stack = 1..Len(f.stack)
      /\ \A i \in DOMAIN f.stack : f.stack[i] \in CellSet /\ Computational(f.stack[i].type)
  BY DEF Sound, IsFrame, IsStack
<1>2. WithPhis(f, b) = [f EXCEPT !.locals = Listed(r), !.stack = Listed(s)]
  BY <1>1 DEF WithPhis, Frame
<1>3. /\ ~IsHead(Unusable.type) /\ ~IsTail(Unusable.type)
      /\ \A t : IsHead(t) \/ IsTail(t) => t.kind # "Top"
      /\ \A t : ~(IsHead(t) /\ IsTail(t))
      /\ \A t, o : Cell(t, o).type = t /\ Cell(t, o).origin = o
      /\ IsTail(T("LongTail"))
  BY DEF IsHead, IsTail, T, Unusable, Cell
<1>4. \A i \in 1..n : g(i) \in CellSet
  <2> SUFFICES ASSUME NEW i \in 1..n PROVE g(i) \in CellSet
    OBVIOUS
  <2>1. slot(i) \in Int
    OBVIOUS
  <2>2. Phi(b, slot(i)) \in Origins /\ f.locals[i].type \in Types
    BY <1>1, <2>1, OriginTypes, CellType
  <2> QED
    BY <2>2, CellType
<1>5. \A i \in DOMAIN f.stack : h(i) \in CellSet /\ Computational(h(i).type)
  <2> SUFFICES ASSUME NEW i \in DOMAIN f.stack
               PROVE  h(i) \in CellSet /\ Computational(h(i).type)
    OBVIOUS
  <2>1. n + i \in Int
    BY <1>1
  <2>2. Phi(b, n + i) \in Origins /\ f.stack[i].type \in Types
    BY <1>1, <2>1, OriginTypes, CellType
  <2> QED
    BY <1>1, <1>3, <2>2, CellType
<1> HIDE DEF r, s
<1>6. /\ r \in Seq(CellSet) /\ Len(r) = n /\ DOMAIN r = 1..n
      /\ \A i \in 1..n : r[i] = g(i)
  <2> HIDE DEF g
  <2> QED
    BY <1>4 DEF r
<1>7. IsStack(s)
  <2> HIDE DEF h
  <2>1. s \in Seq(CellSet) /\ DOMAIN s = DOMAIN f.stack /\ \A i \in DOMAIN f.stack : s[i] = h(i)
    BY <1>1, <1>5 DEF s
  <2> QED
    BY <1>5, <2>1 DEF IsStack
<1>8. WithPhis(f, b) = Frame(r, s)
  <2>1. Listed(r) = r /\ Listed(s) = s
    BY <1>6, <1>7, ListedSequence DEF IsStack
  <2>2. WithPhis(f, b) = [f EXCEPT !.locals = r, !.stack = s]
    BY <1>2, <2>1
  <2>3. Remade(f, r, s) = Frame(r, s)
    BY <1>1, Remaking
  <2> QED
    BY <2>2, <2>3 DEF Remade
<1>9. /\ \A i \in 1..n : IsHead(f.locals[i].type) =>
           i + 1 \in 1..n /\ f.locals[i + 1] = Cell(T("LongTail"), f.locals[i].origin)
      /\ \A i \in 1..n : IsTail(f.locals[i].type) =>
           i - 1 \in 1..n /\ IsHead(f.locals[i - 1].type)
  BY <1>1 DEF Sound, Whole
<1>10. \A i \in 1..n :
         IsHead(r[i].type) \/ IsTail(r[i].type) => r[i] = Cell(f.locals[i].type, Phi(b, slot(i)))
  BY <1>3, <1>6
<1>11. \A i \in 1..n :
         f.locals[i].type.kind # "Top" => r[i] = Cell(f.locals[i].type, Phi(b, slot(i)))
  BY <1>6
<1>12. ASSUME NEW i \in 1..n, IsHead(r[i].type)
       PROVE  i + 1 \in 1..n /\ r[i + 1] = Cell(T("LongTail"), r[i].origin)
  <2>1. IsHead(f.locals[i].type) /\ r[i].origin = Phi(b, i)
    <3>1. r[i].type = f.locals[i].type /\ r[i].origin = Phi(b, slot(i))
      BY <1>3, <1>10, <1>12
    <3> QED
      BY <1>3, <1>12, <3>1
  <2>2. i + 1 \in 1..n /\ f.locals[i + 1].type = T("LongTail")
    BY <1>3, <1>9, <2>1
  <2>3. r[i + 1] = Cell(T("LongTail"), Phi(b, slot(i + 1)))
    BY <1>3, <1>11, <2>2
  <2>4. slot(i + 1) = i
    BY <1>3, <2>2
  <2> HIDE DEF slot
  <2> QED
    BY <2>1, <2>2, <2>3, <2>4
<1>13. ASSUME NEW i \in 1..n, IsTail(r[i].type)
       PROVE  i - 1 \in 1..n /\ IsHead(r[i - 1].type) /\ r[i - 1].origin = r[i].origin
  <2>1. IsTail(f.locals[i].type) /\ r[i].origin = Phi(b, i - 1)
    <3>1. r[i].type = f.locals[i].type /\ r[i].origin = Phi(b, slot(i))
      BY <1>3, <1>10, <1>13
    <3> QED
      BY <1>13, <3>1
  <2>2. i - 1 \in 1..n /\ IsHead(f.locals[i - 1].type)
    BY <1>9, <2>1
  <2>3. r[i - 1] = Cell(f.locals[i - 1].type, Phi(b, slot(i - 1))) /\ slot(i - 1) = i - 1
    BY <1>3, <1>11, <2>2
  <2> HIDE DEF slot
  <2> QED
    BY <1>3, <2>1, <2>2, <2>3
<1>14. Whole(r)
  BY <1>6, <1>12, <1>13 DEF Whole
<1> QED
  BY <1>6, <1>7, <1>8, <1>14 DEF Sound, IsFrame, Frame

(* A walk along a sequence is a recursive function on its positions.  Each *)
(* prefix has such a function, or the shortest one without would have one. *)
JoinStep(fs, h) == [k \in DOMAIN fs |-> IF k = 1 THEN fs[1] ELSE JoinFrames(h[k - 1], fs[k])]

LEMMA JoinAllIsSolution ==
  ASSUME NEW fs
  PROVE  JoinAll(fs) = (CHOOSE upto : upto = JoinStep(fs, upto))[Len(fs)]
BY DEF JoinAll, JoinStep

LEMMA JoinSolutionExists ==
  ASSUME NEW S, NEW fs \in Seq(S)
  PROVE  \E h : h = JoinStep(fs, h)
<1> DEFINE n == Len(fs)
           step(h, k) == IF k = 1 THEN fs[1] ELSE JoinFrames(h[k - 1], fs[k])
           solved(k) == \E h : h = [j \in 1..k |-> step(h, j)]
           B == {k \in 0..n : ~solved(k)}
<1>1. n \in Nat /\ DOMAIN fs = 1..n
  OBVIOUS
<1>2. SUFFICES solved(n)
  BY <1>1 DEF JoinStep
<1>3. SUFFICES ASSUME B # {} PROVE FALSE
  BY <1>1
<1>4. PICK k \in B : \A j \in B : k <= j
  <2>1. B \in SUBSET (0..n)
    OBVIOUS
  <2> HIDE DEF B
  <2> QED
    BY <1>1, <1>3, <2>1, LeastUpTo
<1>5. CASE k = 0
  <2> DEFINE h == [j \in 1..0 |-> fs]
  <2>1. h = [j \in 1..0 |-> step(h, j)]
    OBVIOUS
  <2>2. solved(0)
    BY <2>1
  <2> QED
    BY <1>4, <1>5, <2>2
<1>6. CASE k # 0
  <2>1. k \in Nat /\ k - 1 \in 0..n /\ k - 1 \notin B
    <3>1. k \in 0..n
      BY <1>4
    <3>2. k - 1 \in 0..n /\ ~(k <= k - 1)
      BY <1>1, <1>6, <3>1
    <3> HIDE DEF B
    <3> QED
      BY <1>1, <1>4, <3>1, <3>2
  <2>2. PICK h : h = [j \in 1..(k - 1) |-> step(h, j)]
    BY <2>1
  <2> DEFINE g == [j \in 1..k |-> IF j < k THEN h[j] ELSE step(h, k)]
  <2>3. ASSUME NEW j \in 1..k PROVE g[j] = step(g, j)
    <3>1. j \in Nat /\ (j # 1 => j - 1 \in 1..k /\ j - 1 < k)
      BY <2>1
    <3>2. step(g, j) = step(h, j)
      <4>1. j # 1 => g[j - 1] = h[j - 1]
        BY <3>1
      <4> HIDE DEF g
      <4> QED
        BY <4>1
    <3>3. CASE j < k
      <4>1. j \in 1..(k - 1)
        BY <2>1, <3>1, <3>3
      <4>2. h[j] = step(h, j)
        <5> HIDE DEF step
        <5> QED
          BY <2>2, <4>1
      <4>3. g[j] = h[j]
        BY <3>3
      <4> QED
        BY <3>2, <4>2, <4>3
    <3>4. CASE ~(j < k)
      <4>1. j = k
        BY <2>1, <3>1, <3>4
      <4>2. g[j] = step(h, k)
        BY <3>4
      <4> QED
        BY <3>2, <4>1, <4>2
    <3> QED
      BY <3>3, <3>4
  <2>4. g = [j \in 1..k |-> g[j]]
    OBVIOUS
  <2>5. g = [j \in 1..k |-> step(g, j)]
    <3> HIDE DEF g, step
    <3> QED
      BY <2>3, <2>4
  <2>6. solved(k)
    <3> HIDE DEF g, step
    <3> QED
      BY <2>5
  <2> QED
    BY <1>4, <2>6
<1> QED
  BY <1>5, <1>6

\* Frames of one method have no join, or a sound one.
LEMMA JoinAllSound ==
  ASSUME NEW n \in Nat, NEW S, NEW fs \in Seq(S), fs # <<>>,
         \A k \in DOMAIN fs : Sound(fs[k], n)
  PROVE  JoinAll(fs) = Invalid \/ Sound(JoinAll(fs), n)
<1> DEFINE l == Len(fs)
           h == CHOOSE upto : upto = JoinStep(fs, upto)
           B == {k \in 1..l : ~(h[k] = Invalid \/ Sound(h[k], n))}
<1>1. l \in Nat /\ l # 0 /\ DOMAIN fs = 1..l
  OBVIOUS
<1>2. h = JoinStep(fs, h)
  BY JoinSolutionExists
<1> HIDE DEF h
<1>3. ASSUME NEW k \in 1..l
      PROVE  h[k] = IF k = 1 THEN fs[1] ELSE JoinFrames(h[k - 1], fs[k])
  BY <1>1, <1>2 DEF JoinStep
<1>4. SUFFICES ASSUME B # {} PROVE FALSE
  <2>1. B = {} => h[l] = Invalid \/ Sound(h[l], n)
    BY <1>1
  <2> QED
    BY <2>1, JoinAllIsSolution DEF h
<1>5. PICK k \in B : \A j \in B : k <= j
  <2>1. B \in SUBSET (0..l)
    BY <1>1
  <2> HIDE DEF B
  <2> QED
    BY <1>1, <1>4, <2>1, LeastUpTo
<1>6. CASE k = 1
  <2>1. h[k] = fs[1] /\ Sound(fs[1], n)
    BY <1>1, <1>3, <1>6
  <2> QED
    BY <1>5, <1>6, <2>1
<1>7. CASE k # 1
  <2>1. k - 1 \in 1..l /\ k - 1 \notin B /\ k \in 1..l
    BY <1>1, <1>5, <1>7
  <2>2. h[k - 1] = Invalid \/ Sound(h[k - 1], n)
    BY <2>1
  <2>3. h[k] = JoinFrames(h[k - 1], fs[k]) /\ Sound(fs[k], n)
    BY <1>1, <1>3, <1>7, <2>1
  <2>4. h[k - 1] = Invalid => h[k] = Invalid
    BY <2>3 DEF JoinFrames, Invalid
  <2>5. Sound(h[k - 1], n) => h[k] = Invalid \/ Sound(h[k], n)
    BY <2>3, JoinSound
  <2> QED
    BY <1>5, <2>2, <2>4, <2>5
<1> QED
  BY <1>6, <1>7

\* The frames on some edges, listed by the ids of the edges.
LEMMA InOrderFacts ==
  ASSUME NEW m, WellFormed(m), NEW F, DOMAIN F \in SUBSET (0..Len(m.edges)),
         IsFiniteSet(DOMAIN F), DOMAIN F # {}
  PROVE  /\ InOrder(m, F) \in Seq({F[e] : e \in DOMAIN F})
         /\ InOrder(m, F) # <<>> /\ Len(InOrder(m, F)) = Cardinality(DOMAIN F)
<1> DEFINE D == DOMAIN F
           l == Cardinality(D)
           nth(i) == CHOOSE e \in D : Place(m.order, D, e) = i
<1>1. /\ l \in Nat
      /\ \A i \in 1..l : \E e \in D : Place(m.order, D, e) = i
  <2>1. /\ \A x \in D : m.order[x] \in Nat
        /\ \A d, x \in D : m.order[d] = m.order[x] => d = x
    BY DEF WellFormed, OrderOf
  <2> HIDE DEF D
  <2> QED
    BY <2>1, PlaceIsBijection DEF D
<1>2. l # 0
  BY FS_EmptySet
<1>3. \A i \in 1..l : nth(i) \in D
  <2> HIDE DEF D
  <2> QED
    BY <1>1
<1>4. InOrder(m, F) = [i \in 1..l |-> F[nth(i)]]
  BY DEF InOrder, Place
<1> HIDE DEF nth, l
<1>5. \A i \in 1..l : F[nth(i)] \in {F[e] : e \in DOMAIN F}
  BY <1>3
<1>6. InOrder(m, F) \in Seq({F[e] : e \in DOMAIN F}) /\ Len(InOrder(m, F)) = l
  BY <1>1, <1>4, <1>5
<1> QED
  BY <1>2, <1>6 DEF l

\* The frame a block is entered with, if the edges into it have a join.
LEMMA MergeSound ==
  ASSUME NEW m, WellFormed(m), NEW E, DOMAIN E \subseteq {0} \cup DOMAIN m.edges,
         \A e \in DOMAIN E : Sound(E[e], Len(m.locals)),
         NEW b \in Int, DOMAIN Incoming(m, E, b) # {}
  PROVE  Merge(m, E, b) = Invalid \/ Sound(Merge(m, E, b), Len(m.locals))
<1> DEFINE n == Len(m.locals)
           F == Incoming(m, E, b)
           fs == InOrder(m, F)
           S == {F[e] : e \in DOMAIN F}
<1>1. n \in Nat
  BY DEF WellFormed, LocalsOf
<1>2. DOMAIN F \in SUBSET (0..Len(m.edges)) /\ IsFiniteSet(DOMAIN F)
  <2>1. Len(m.edges) \in Nat /\ DOMAIN m.edges = 1..Len(m.edges)
    BY DEF WellFormed, GraphOf
  <2>2. \A k \in Nat : IsFiniteSet(0..k)
    BY FS_Interval
  <2>3. DOMAIN F \in SUBSET (0..Len(m.edges))
    BY <2>1 DEF Incoming
  <2> HIDE DEF F
  <2> QED
    BY <2>1, <2>2, <2>3, FS_Subset
<1>3. \A e \in DOMAIN F : Sound(F[e], n)
  BY DEF Incoming
<1> HIDE DEF n, F
<1>4. fs \in Seq(S) /\ fs # <<>>
  BY <1>2, InOrderFacts DEF F
<1>5. \A k \in DOMAIN fs : Sound(fs[k], n)
  <2>1. \A k \in DOMAIN fs : fs[k] \in S
    <3> HIDE DEF fs, S
    <3> QED
      BY <1>4
  <2> QED
    BY <1>3, <2>1
<1> HIDE DEF fs, S
<1>6. JoinAll(fs) = Invalid \/ Sound(JoinAll(fs), n)
  BY <1>1, <1>4, <1>5, JoinAllSound
<1>7. Merge(m, E, b) = IF Len(fs) = 1 \/ ~JoinAll(fs).ok THEN JoinAll(fs) ELSE WithPhis(JoinAll(fs), b)
  BY DEF Merge, Joined, fs, F
<1>8. JoinAll(fs) = Invalid => ~JoinAll(fs).ok
  BY DEF Invalid
<1>9. Sound(JoinAll(fs), n) => Sound(WithPhis(JoinAll(fs), b), n)
  BY <1>1, PhisSound
<1> QED
  BY <1>6, <1>7, <1>8, <1>9 DEF n

\* The walk along a block, likewise.
ListedFrame(g) == [g EXCEPT !.locals = Listed(@), !.stack = Listed(@)]
WalkStep(m, b, f, h, i) ==
  IF i = 1 THEN f ELSE ListedFrame(Transfer(h[i - 1], m.code[b][i - 1], <<b, i - 1>>))
WalkSolved(m, b, f, h) ==
  h = [i \in 1..(Len(m.code[b]) + 1) |-> WalkStep(m, b, f, h, i)]

LEMMA TraceIsSolution ==
  ASSUME NEW m, NEW b, NEW f
  PROVE  Trace(m, b, f) = CHOOSE before : WalkSolved(m, b, f, before)
BY Zenon DEF Trace, WalkSolved, WalkStep, ListedFrame

LEMMA WalkSolutionExists ==
  ASSUME NEW m, NEW b, NEW f, Len(m.code[b]) \in Nat
  PROVE  \E h : WalkSolved(m, b, f, h)
<1> DEFINE n == Len(m.code[b]) + 1
           step(h, k) == WalkStep(m, b, f, h, k)
           solved(k) == \E h : h = [j \in 1..k |-> step(h, j)]
           B == {k \in 0..n : ~solved(k)}
<1>1. n \in Nat
  OBVIOUS
<1>2. SUFFICES solved(n)
  BY DEF WalkSolved
<1>3. SUFFICES ASSUME B # {} PROVE FALSE
  BY <1>1
<1> HIDE DEF n
<1>4. PICK k \in B : \A j \in B : k <= j
  <2>1. B \in SUBSET (0..n)
    OBVIOUS
  <2> HIDE DEF B
  <2> QED
    BY <1>1, <1>3, <2>1, LeastUpTo
<1>5. CASE k = 0
  <2> DEFINE h == [j \in 1..0 |-> f]
  <2>1. h = [j \in 1..0 |-> step(h, j)]
    OBVIOUS
  <2>2. solved(0)
    <3> HIDE DEF h, step
    <3> QED
      BY <2>1
  <2> QED
    BY <1>4, <1>5, <2>2
<1>6. CASE k # 0
  <2>1. k \in Nat /\ k - 1 \in 0..n /\ k - 1 \notin B
    <3>1. k \in 0..n
      BY <1>4
    <3>2. k - 1 \in 0..n /\ ~(k <= k - 1)
      BY <1>1, <1>6, <3>1
    <3> HIDE DEF B
    <3> QED
      BY <1>1, <1>4, <3>1, <3>2
  <2>2. PICK h : h = [j \in 1..(k - 1) |-> step(h, j)]
    BY <2>1
  <2> DEFINE g == [j \in 1..k |-> IF j < k THEN h[j] ELSE step(h, k)]
  <2>3. ASSUME NEW j \in 1..k PROVE g[j] = step(g, j)
    <3>1. j \in Nat /\ (j # 1 => j - 1 \in 1..k /\ j - 1 < k)
      BY <2>1
    <3>2. step(g, j) = step(h, j)
      <4>1. j # 1 => g[j - 1] = h[j - 1]
        BY <3>1
      <4> HIDE DEF g
      <4> QED
        BY <4>1 DEF WalkStep
    <3>3. CASE j < k
      <4>1. j \in 1..(k - 1)
        BY <2>1, <3>1, <3>3
      <4>2. h[j] = step(h, j)
        <5> HIDE DEF step
        <5> QED
          BY <2>2, <4>1
      <4>3. g[j] = h[j]
        BY <3>3
      <4> QED
        BY <3>2, <4>2, <4>3
    <3>4. CASE ~(j < k)
      <4>1. j = k
        BY <2>1, <3>1, <3>4
      <4>2. g[j] = step(h, k)
        BY <3>4
      <4> QED
        BY <3>2, <4>1, <4>2
    <3> QED
      BY <3>3, <3>4
  <2>4. g = [j \in 1..k |-> g[j]]
    OBVIOUS
  <2>5. g = [j \in 1..k |-> step(g, j)]
    <3> HIDE DEF g, step
    <3> QED
      BY <2>3, <2>4
  <2>6. solved(k)
    <3> HIDE DEF g, step
    <3> QED
      BY <2>5
  <2> QED
    BY <1>4, <2>6
<1> QED
  BY <1>5, <1>6

LEMMA ListedFrameFacts ==
  /\ ~ListedFrame(Invalid).ok
  /\ \A g, n : Sound(g, n) => ListedFrame(g) = g
<1>1. ~ListedFrame(Invalid).ok
  <2> DEFINE none == Listed(<<>>)
  <2> HIDE DEF none
  <2>1. ListedFrame(Invalid) =
          [ [ok |-> FALSE, locals |-> <<>>, stack |-> <<>>] EXCEPT !.locals = none, !.stack = none]
    BY DEF ListedFrame, Invalid, none
  <2> QED
    BY <2>1
<1>2. ASSUME NEW g, NEW n, Sound(g, n) PROVE ListedFrame(g) = g
  <2>1. /\ g = Frame(g.locals, g.stack)
        /\ Listed(g.locals) = g.locals /\ Listed(g.stack) = g.stack
    BY <1>2, ListedSequence DEF Sound, IsFrame, IsStack
  <2>2. ListedFrame(g) = [g EXCEPT !.locals = g.locals, !.stack = g.stack]
    <3>1. ListedFrame(g) = [g EXCEPT !.locals = Listed(g.locals), !.stack = Listed(g.stack)]
      <4>1. g = [ok |-> TRUE, locals |-> g.locals, stack |-> g.stack]
        BY <2>1 DEF Frame
      <4> QED
        BY <4>1 DEF ListedFrame
    <3> QED
      BY <2>1, <3>1
  <2>3. Remade(g, g.locals, g.stack) = Frame(g.locals, g.stack)
    BY <2>1, Remaking
  <2> QED
    BY <2>1, <2>2, <2>3 DEF Remade
<1> QED
  BY <1>1, <1>2

\* What a walk along code is: it fails from some instruction on, if at all.
IsWalk(code, t, n) ==
  /\ Len(code) \in Nat /\ DOMAIN code = 1..Len(code)
  /\ t \in Seq({t[i] : i \in 1..(Len(code) + 1)}) /\ Len(t) = Len(code) + 1
  /\ \A i \in 1..(Len(code) + 1) : ~t[i].ok \/ Sound(t[i], n)
  /\ \A i \in 1..Len(code) : t[i + 1].ok => t[i].ok /\ Fits(t[i], code[i])

LEMMA TraceFacts ==
  ASSUME NEW m, WellFormed(m), NEW b \in Blocks(m), NEW f, Sound(f, Len(m.locals))
  PROVE  IsWalk(m.code[b], Trace(m, b, f), Len(m.locals))
<1> DEFINE t == Trace(m, b, f)
           code == m.code[b]
           n == Len(m.locals)
           l == Len(code)
           B == {k \in 1..(l + 1) : ~(~t[k].ok \/ Sound(t[k], n))}
<1>1. l \in Nat /\ DOMAIN code = 1..l /\ \A i \in 1..l : IsInstruction(code[i])
  BY DEF WellFormed, CodeOf
<1>2. b \in Nat
  BY DEF WellFormed, GraphOf, Blocks
<1>3. WalkSolved(m, b, f, t)
  BY <1>1, TraceIsSolution, WalkSolutionExists
<1> HIDE DEF t
<1>4. t = [i \in 1..(l + 1) |-> WalkStep(m, b, f, t, i)]
  BY <1>3 DEF WalkSolved
<1> HIDE DEF l, code
<1>5. t \in Seq({t[i] : i \in 1..(l + 1)}) /\ Len(t) = l + 1
  <2>1. t = [i \in 1..(l + 1) |-> t[i]] /\ l + 1 \in Nat
    BY <1>1, <1>4
  <2> QED
    BY <2>1
<1>6. l + 1 \in Nat /\ 1 \in 1..(l + 1)
  BY <1>1
<1>7. t[1] = f
  BY <1>4, <1>6 DEF WalkStep
<1>8. ASSUME NEW i \in 1..l
      PROVE  t[i + 1] = ListedFrame(Transfer(t[i], code[i], <<b, i>>))
  <2>1. i + 1 \in 1..(l + 1) /\ i + 1 # 1 /\ (i + 1) - 1 = i
    BY <1>1
  <2>2. t[i + 1] = WalkStep(m, b, f, t, i + 1)
    <3> DEFINE j == i + 1
    <3>1. j \in 1..(l + 1)
      BY <2>1
    <3> HIDE DEF j
    <3>2. t[j] = WalkStep(m, b, f, t, j)
      BY <1>4, <3>1
    <3> QED
      BY <3>2 DEF j
  <2> QED
    BY <2>1, <2>2 DEF WalkStep, code
<1>9. ASSUME NEW i \in 1..l, ~t[i].ok \/ Sound(t[i], n)
      PROVE  /\ ~t[i + 1].ok \/ Sound(t[i + 1], n)
             /\ t[i + 1].ok => t[i].ok /\ Fits(t[i], code[i])
  <2> DEFINE g == Transfer(t[i], code[i], <<b, i>>)
  <2>1. t[i + 1] = ListedFrame(g)
    BY <1>8
  <2>2. CASE ~t[i].ok
    <3>1. g = Invalid
      BY <2>2 DEF Transfer
    <3> QED
      BY <2>1, <3>1, ListedFrameFacts
  <2>3. CASE t[i].ok /\ Sound(t[i], n)
    <3>1. <<b, i>> \in Int \X Int
      BY <1>1, <1>2
    <3>2. g = Invalid \/ (Fits(t[i], code[i]) /\ Sound(g, n))
      BY <1>1, <2>3, <3>1, TransferSound
    <3> HIDE DEF g
    <3> QED
      BY <2>1, <2>3, <3>2, ListedFrameFacts
  <2> QED
    BY <1>9, <2>2, <2>3
<1>10. B = {}
  <2> SUFFICES ASSUME B # {} PROVE FALSE
    OBVIOUS
  <2>1. PICK k \in B : \A j \in B : k <= j
    <3>1. B \in SUBSET (0..(l + 1))
      BY <1>1
    <3> HIDE DEF B
    <3>2. \A u \in Nat : B \in SUBSET (0..u) /\ B # {} => \E x \in B : \A y \in B : x <= y
      BY LeastUpTo
    <3> QED
      BY <1>6, <3>1, <3>2
  <2>2. k # 1
    <3>1. Sound(f, n)
      OBVIOUS
    <3> QED
      BY <1>7, <2>1, <3>1
  <2>3. PICK i \in 1..l : i + 1 = k
    <3>1. k \in 1..(l + 1)
      BY <2>1
    <3>2. k - 1 \in 1..l /\ (k - 1) + 1 = k
      BY <1>1, <2>2, <3>1
    <3> QED
      BY <3>2
  <2>4. i \in 1..(l + 1) /\ ~(k <= i)
    BY <1>1, <2>3
  <2>5. i \notin B
    <3> HIDE DEF B
    <3> QED
      BY <2>1, <2>4
  <2>6. ~t[i].ok \/ Sound(t[i], n)
    BY <2>4, <2>5
  <2>7. ~t[k].ok \/ Sound(t[k], n)
    BY <1>9, <2>3, <2>6
  <2> QED
    BY <2>1, <2>7
<1>11. \A i \in 1..(l + 1) : ~t[i].ok \/ Sound(t[i], n)
  BY <1>10
<1>12. \A i \in 1..l : t[i + 1].ok => t[i].ok /\ Fits(t[i], code[i])
  <2>1. \A i \in 1..l : i \in 1..(l + 1)
    BY <1>1
  <2> QED
    BY <1>9, <1>11, <2>1
<1> QED
  BY <1>1, <1>5, <1>11, <1>12 DEF t, code, l, IsWalk

\* A walk that ends well was well all along.
LEMMA WalkSound ==
  ASSUME NEW m, WellFormed(m), NEW b \in Blocks(m), NEW f, Sound(f, Len(m.locals)),
         Last(Trace(m, b, f)).ok
  PROVE  /\ \A i \in 1..(Len(m.code[b]) + 1) : Sound(Trace(m, b, f)[i], Len(m.locals))
         /\ \A i \in 1..Len(m.code[b]) : Fits(Trace(m, b, f)[i], m.code[b][i])
<1> DEFINE t == Trace(m, b, f)
           n == Len(m.locals)
           code == m.code[b]
           l == Len(code)
<1>1. /\ l \in Nat /\ Len(t) = l + 1 /\ t \in Seq({t[i] : i \in 1..(l + 1)})
      /\ \A i \in 1..(l + 1) : ~t[i].ok \/ Sound(t[i], n)
      /\ \A i \in 1..l : t[i + 1].ok => t[i].ok /\ Fits(t[i], code[i])
  <2>1. IsWalk(code, t, n)
    BY TraceFacts
  <2> HIDE DEF t, n, code
  <2> QED
    BY <2>1 DEF IsWalk
<1> HIDE DEF t, n, l, code
<1>2. t[l + 1].ok
  BY <1>1 DEF Last, t
<1>3. \A i \in 1..(l + 1) : t[i].ok
  <2> SUFFICES ASSUME NEW i \in 1..(l + 1), ~t[i].ok PROVE FALSE
    OBVIOUS
  <2> DEFINE B == {j \in 1..(l + 1) : i <= j /\ t[j].ok}
  <2>1. l + 1 \in B /\ B \in SUBSET (0..(l + 1))
    BY <1>1, <1>2
  <2>2. PICK k \in B : \A j \in B : k <= j
    <3>1. PICK u \in Nat : u = l + 1
      BY <1>1
    <3>2. B \in SUBSET (0..u) /\ B # {}
      BY <2>1, <3>1
    <3> HIDE DEF B
    <3> QED
      BY <3>2, LeastUpTo
  <2>3. PICK j \in 1..l : j + 1 = k /\ i <= j
    <3>1. k \in 1..(l + 1) /\ i <= k /\ k # i
      BY <2>2
    <3>2. k - 1 \in 1..l /\ (k - 1) + 1 = k /\ i <= k - 1
      BY <1>1, <3>1
    <3> QED
      BY <3>2
  <2>4. t[j].ok
    BY <1>1, <2>2, <2>3
  <2>5. j \in B /\ ~(k <= j)
    BY <1>1, <2>3, <2>4
  <2> HIDE DEF B
  <2> QED
    BY <2>2, <2>5
<1>4. \A i \in 1..l : Fits(t[i], code[i])
  <2>1. \A i \in 1..l : i + 1 \in 1..(l + 1)
    BY <1>1
  <2> QED
    BY <1>1, <1>3, <2>1
<1> QED
  BY <1>1, <1>3, <1>4 DEF t, n, l, code

\* So is what its edges carry, to successors and to handlers.
LEMMA CarriedSound ==
  ASSUME NEW m, WellFormed(m), NEW b \in Blocks(m), NEW f, Sound(f, Len(m.locals)),
         Last(Trace(m, b, f)).ok, NEW e \in Leaving(m, b)
  PROVE  Sound(Carried(m, e, Trace(m, b, f)), Len(m.locals))
<1> DEFINE t == Trace(m, b, f)
           i == m.edges[e].from[2]
<1>1. e \in DOMAIN m.edges /\ m.edges[e].from[1] = b
  BY DEF Leaving
<1>2. Len(m.code[b]) \in Nat /\ DOMAIN m.code[b] = 1..Len(m.code[b])
  BY TraceFacts DEF IsWalk
<1>3. i \in 1..Len(m.code[b])
  BY <1>1, <1>2 DEF WellFormed, LeavingAt
<1>4. /\ \A j \in 1..(Len(m.code[b]) + 1) : Sound(t[j], Len(m.locals))
      /\ \A j \in 1..Len(m.code[b]) : Fits(t[j], m.code[b][j])
  BY WalkSound
<1>5. i \in 1..(Len(m.code[b]) + 1) /\ i + 1 \in 1..(Len(m.code[b]) + 1)
  BY <1>2, <1>3
<1> HIDE DEF t
<1>6. CASE m.edges[e].exc
  <2>1. Carried(m, e, t) = Exceptional(t[i], m.code[b][i], m.edges[e].from)
    BY <1>1, <1>6 DEF Carried
  <2>2. m.edges[e].from \in Int \X Int
    BY <1>1 DEF WellFormed, LeavingAt
  <2> QED
    BY <1>3, <1>4, <1>5, <2>1, <2>2, HandlerSound DEF t
<1>7. CASE ~m.edges[e].exc
  <2>1. Carried(m, e, t) = t[i + 1]
    BY <1>7 DEF Carried
  <2> QED
    BY <1>4, <1>5, <2>1 DEF t
<1> QED
  BY <1>6, <1>7

(* The invariant.  While the loop runs every frame is sound, which is what *)
(* the next walk needs; what renaming the phis keeps of that is the rest.  *)
Intact(f) == f.ok /\ Whole(f.locals)

SoundInv ==
  /\ status = "run" =>
       /\ \A e \in DOMAIN edges : Sound(edges[e], Len(method.locals))
       /\ \A b \in DOMAIN in : Sound(in[b], Len(method.locals))
  /\ \A e \in DOMAIN edges : Intact(edges[e])
  /\ \A b \in DOMAIN in : Intact(in[b])

LEMMA SoundIsWhole ==
  ASSUME NEW f, NEW n, Sound(f, n)
  PROVE  Intact(f)
<1>1. f = Frame(f.locals, f.stack) /\ Whole(f.locals)
  BY DEF Sound, IsFrame
<1>2. f.ok
  BY <1>1 DEF Frame
<1> QED
  BY <1>1, <1>2 DEF Intact

\* Both halves of a wide value get the same new name.
LEMMA RenamedWhole ==
  ASSUME NEW f, IsFrame(f), Whole(f.locals), NEW rep
  PROVE  Intact(Renamed(f, rep))
<1> DEFINE name(c) == IF c.origin \in DOMAIN rep THEN Cell(c.type, rep[c.origin]) ELSE c
           new(o) == IF o \in DOMAIN rep THEN rep[o] ELSE o
           r == [i \in DOMAIN f.locals |-> name(f.locals[i])]
           s == [i \in DOMAIN f.stack |-> name(f.stack[i])]
<1>1. /\ f = Frame(f.locals, f.stack) /\ DOMAIN f.locals = 1..Len(f.locals)
      /\ \A i \in DOMAIN f.locals : f.locals[i] \in CellSet
  BY DEF IsFrame
<1>2. Renamed(f, rep) = Frame(r, s)
  <2>1. Renamed(f, rep) = [f EXCEPT !.locals = r, !.stack = s]
    <3>1. f = [ok |-> TRUE, locals |-> f.locals, stack |-> f.stack]
      BY <1>1 DEF Frame
    <3> QED
      BY <3>1 DEF Renamed
  <2> HIDE DEF r, s
  <2>2. Remade(f, r, s) = Frame(r, s)
    BY <1>1, Remaking
  <2> QED
    BY <2>1, <2>2 DEF Remade
<1>3. \A i \in DOMAIN f.locals : name(f.locals[i]) = Cell(f.locals[i].type, new(f.locals[i].origin))
  <2> SUFFICES ASSUME NEW i \in DOMAIN f.locals
               PROVE  name(f.locals[i]) = Cell(f.locals[i].type, new(f.locals[i].origin))
    OBVIOUS
  <2>1. f.locals[i] = Cell(f.locals[i].type, f.locals[i].origin)
    BY <1>1 DEF CellSet, Cell
  <2> QED
    BY <2>1
<1>4. /\ DOMAIN r = DOMAIN f.locals
      /\ \A i \in DOMAIN f.locals :
           r[i].type = f.locals[i].type /\ r[i].origin = new(f.locals[i].origin)
           /\ r[i] = Cell(f.locals[i].type, new(f.locals[i].origin))
  BY <1>3 DEF Cell
<1> HIDE DEF r, new
<1>5. Whole(r)
  <2>1. ASSUME NEW i \in DOMAIN r, IsHead(r[i].type)
        PROVE  i + 1 \in DOMAIN r /\ r[i + 1] = Cell(T("LongTail"), r[i].origin)
    <3>1. i + 1 \in DOMAIN f.locals /\ f.locals[i + 1] = Cell(T("LongTail"), f.locals[i].origin)
      BY <1>4, <2>1 DEF Whole
    <3>2. f.locals[i + 1].type = T("LongTail") /\ f.locals[i + 1].origin = f.locals[i].origin
      BY <3>1 DEF Cell
    <3> QED
      BY <1>4, <2>1, <3>1, <3>2
  <2>2. ASSUME NEW i \in DOMAIN r, IsTail(r[i].type)
        PROVE  i - 1 \in DOMAIN r /\ IsHead(r[i - 1].type) /\ r[i - 1].origin = r[i].origin
    <3>1. /\ i - 1 \in DOMAIN f.locals /\ IsHead(f.locals[i - 1].type)
          /\ f.locals[i - 1].origin = f.locals[i].origin
      BY <1>4, <2>2 DEF Whole
    <3> QED
      BY <1>4, <2>2, <3>1
  <2> QED
    BY <2>1, <2>2 DEF Whole
<1> QED
  BY <1>2, <1>5 DEF Intact, Frame

LEMMA InitSound == Init => SoundInv
<1> SUFFICES ASSUME Init PROVE SoundInv
  OBVIOUS
<1>1. WellFormed(method) /\ DOMAIN edges = {0} /\ edges[0] = EntryFrame(method) /\ DOMAIN in = {}
  BY DEF Init
<1>2. Sound(EntryFrame(method), Len(method.locals))
  BY <1>1, EntrySound
<1> QED
  BY <1>1, <1>2, SoundIsWhole DEF SoundInv

LEMMA PropagateSound ==
  ASSUME SolverInv, SoundInv, status = "run", NEW q \in DOMAIN pending,
         Merge(method, edges, pending[q]).ok,
         Propagate(pending[q], Merge(method, edges, pending[q]), RemoveAt(pending, q))
  PROVE  SoundInv'
<1> DEFINE b == pending[q]
           f == Merge(method, edges, b)
           t == Trace(method, b, f)
           es == Changed(b, t)
           n == Len(method.locals)
<1>1. CASE ~Last(t).ok
  <2>1. status' = "rejected" /\ UNCHANGED <<edges, in>>
    BY <1>1 DEF Propagate, Reject
  <2> QED
    BY <2>1 DEF SoundInv
<1>2. CASE Last(t).ok
  <2>1. /\ in' = [c \in DOMAIN in \cup {b} |-> IF c = b THEN f ELSE in[c]]
        /\ edges' = [e \in DOMAIN edges \cup es |->
                       IF e \in es THEN Carried(method, e, t) ELSE edges[e]]
        /\ UNCHANGED <<method, status>>
    BY <1>2 DEF Propagate
  <2>2. /\ b \in Blocks(method) /\ b \in ToSet(pending) /\ WellFormed(method)
        /\ DOMAIN edges \subseteq {0} \cup DOMAIN method.edges
    BY DEF SolverInv, TypeInv, ToSet
  <2>3. b \in Int
    BY <2>2 DEF WellFormed, GraphOf, Blocks
  <2>4. DOMAIN Incoming(method, edges, b) # {}
    <3>1. \E e \in DOMAIN edges : Target(method, e) = b
      BY <2>2 DEF SolverInv, ReachInv
    <3> QED
      BY <3>1 DEF Incoming
  <2>5. \A e \in DOMAIN edges : Sound(edges[e], n)
    BY DEF SoundInv
  <2>6. Sound(f, n)
    <3>1. f.ok /\ ~Invalid.ok
      BY DEF Invalid
    <3>2. f = Invalid \/ Sound(f, n)
      BY <2>2, <2>3, <2>4, <2>5, MergeSound
    <3> QED
      BY <3>1, <3>2
  <2>7. es \in SUBSET Leaving(method, b)
    BY DEF Changed
  <2> HIDE DEF b, f, es
  <2>8. \A e \in es : Sound(Carried(method, e, t), n)
    BY <1>2, <2>2, <2>6, <2>7, CarriedSound
  <2> HIDE DEF t, n
  <2>9. \A c \in DOMAIN in : Sound(in[c], n)
    BY DEF SoundInv, n
  <2>10. /\ \A e \in DOMAIN edges' : Sound(edges'[e], n)
         /\ \A c \in DOMAIN in' : Sound(in'[c], n)
    BY <2>1, <2>5, <2>6, <2>8, <2>9
  <2>11. n = Len(method'.locals)
    BY <2>1 DEF n
  <2> QED
    BY <2>10, <2>11, SoundIsWhole DEF SoundInv
<1> QED
  BY <1>1, <1>2

LEMMA NextSound == SolverInv /\ SoundInv /\ [Next]_vars => SoundInv'
<1> SUFFICES ASSUME SolverInv, SoundInv, [Next]_vars PROVE SoundInv'
  OBVIOUS
<1>1. CASE OutOfWork
  BY <1>1 DEF OutOfWork, SoundInv
<1>2. CASE Visit
  <2>1. PICK q \in Picks :
          LET b == pending[q]
              rest == RemoveAt(pending, q)
              f == Merge(method, edges, b)
          IN  IF f.ok THEN Skip(b, f, rest) \/ Propagate(b, f, rest) ELSE Reject
    BY <1>2 DEF Visit
  <2>2. status = "run" /\ pending # <<>>
    BY <1>2 DEF Visit
  <2>3. q \in DOMAIN pending
    BY <2>2 DEF Picks, SolverInv, TypeInv
  <2>4. CASE Skip(pending[q], Merge(method, edges, pending[q]), RemoveAt(pending, q))
    BY <2>4 DEF Skip, SoundInv
  <2>5. CASE /\ Merge(method, edges, pending[q]).ok
             /\ Propagate(pending[q], Merge(method, edges, pending[q]), RemoveAt(pending, q))
    BY <2>2, <2>3, <2>5, PropagateSound
  <2>6. CASE Reject
    BY <2>6 DEF Reject, SoundInv
  <2> QED
    BY <2>1, <2>4, <2>5, <2>6
<1>3. CASE Finish
  <2>1. CASE Reject
    BY <2>1 DEF Reject, SoundInv
  <2>2. CASE /\ in' = [b \in DOMAIN in |-> Renamed(in[b], Representative(Equations))]
             /\ edges' = [e \in DOMAIN edges |-> Renamed(edges[e], Representative(Equations))]
             /\ status' = "done"
    <3>1. PICK rep : rep = Representative(Equations)
      OBVIOUS
    <3>2. /\ \A e \in DOMAIN edges : IsFrame(edges[e]) /\ Whole(edges[e].locals)
          /\ \A b \in DOMAIN in : IsFrame(in[b]) /\ Whole(in[b].locals)
      BY <1>3 DEF Finish, SoundInv, Sound
    <3>3. /\ \A e \in DOMAIN edges' : Intact(edges'[e])
          /\ \A b \in DOMAIN in' : Intact(in'[b])
      BY <2>2, <3>1, <3>2, RenamedWhole
    <3> QED
      BY <2>2, <3>3 DEF SoundInv
  <2> QED
    BY <1>3, <2>1, <2>2 DEF Finish
<1>4. CASE UNCHANGED vars
  BY <1>4 DEF vars, SoundInv
<1> QED
  BY <1>1, <1>2, <1>3, <1>4 DEF Next

LEMMA SoundInvariance == Spec => []SoundInv
BY Invariance, InitSound, NextSound, PTL DEF Spec

(* ssabuild.Build: the worklist has each block once and only blocks, and   *)
(* no transfer or join that failed is ever stored as the frame of an edge  *)
(* or of a block, for any method.                                          *)
THEOREM Stored == Spec => []TypeOK
<1>1. TypeInv /\ SoundInv => TypeOK
  BY DEF TypeInv, SoundInv, Intact, TypeOK
<1>2. SolverInv => TypeInv
  BY DEF SolverInv
<1> QED
  BY Invariance, SoundInvariance, <1>1, <1>2, PTL

(* frametransfer and ssabuild: at no time has an edge or a block half of a *)
(* wide local, or halves that name different values: no transfer, handler  *)
(* entry, join, phi or renaming of phis separates them, for any method.    *)
THEOREM Pairs == Spec => []PairsWhole
<1>1. SoundInv => PairsWhole
  BY DEF SoundInv, Intact, PairsWhole
<1> QED
  BY SoundInvariance, <1>1, PTL
-----------------------------------------------------------------------------
(* Naming the phis of a frame changes no type that is usable.              *)
LEMMA PhisCover ==
  ASSUME NEW n \in Nat, NEW f, Sound(f, n), NEW b
  PROVE  Covers(WithPhis(f, b), f)
<1> DEFINE slot(i) == IF IsTail(f.locals[i].type) THEN i - 1 ELSE i
           x(i) == IF f.locals[i].type.kind = "Top" THEN Unusable
                   ELSE Cell(f.locals[i].type, Phi(b, slot(i)))
           y(i) == Cell(f.stack[i].type, Phi(b, n + i))
           r == [i \in 1..n |-> x(i)]
           s == [i \in 1..Len(f.stack) |-> y(i)]
<1>1. /\ f = Frame(f.locals, f.stack) /\ Len(f.locals) = n /\ Len(f.stack) \in Nat
      /\ DOMAIN f.stack = 1..Len(f.stack)
      /\ IsList(f.locals) /\ IsList(f.stack)
  BY SequenceIsList DEF Sound, IsFrame, IsStack
<1>2. WithPhis(f, b) = [f EXCEPT !.locals = Listed(r), !.stack = Listed(s)]
  BY <1>1 DEF WithPhis, Frame
<1>3. \A p, q : Cell(p, q).type = p
  BY DEF Cell
<1>4. /\ \A i \in 1..n : Below(f.locals[i].type, x(i).type)
      /\ \A i \in 1..Len(f.stack) : y(i).type = f.stack[i].type
  <2>1. Unusable.type.kind = "Top"
    BY DEF Unusable, Cell, T
  <2>2. ASSUME NEW i \in 1..n PROVE Below(f.locals[i].type, x(i).type)
    BY <1>3, <2>1 DEF Below
  <2> QED
    BY <1>3, <2>2
<1> HIDE DEF x, y
<1>5. /\ IsMap(n, r) /\ IsMap(Len(f.stack), s)
      /\ \A i \in 1..n : r[i] = x(i)
      /\ \A i \in 1..Len(f.stack) : s[i] = y(i)
  BY DEF IsMap
<1> HIDE DEF r, s
<1>6. IsList(r) /\ Len(r) = n /\ IsList(s) /\ Len(s) = Len(f.stack)
  BY <1>1, <1>5, ListMade
<1>7. Listed(r) = r /\ Listed(s) = s
  BY <1>6, ListDomain, ListedSequence
<1>8. WithPhis(f, b) = Frame(r, s)
  <2>1. Remade(f, r, s) = Frame(r, s)
    BY <1>1, Remaking
  <2> QED
    BY <1>2, <1>7, <2>1 DEF Remade
<1>9. BelowCells(f.locals, r)
  BY <1>1, <1>4, <1>5, <1>6 DEF BelowCells
<1>10. BelowCells(f.stack, s)
  BY <1>1, <1>4, <1>5, <1>6 DEF BelowCells, Below
<1> QED
  BY <1>8, <1>9, <1>10 DEF Covers, Frame

(* The join of all frames covers each of them.                             *)
LEMMA JoinAllCovers ==
  ASSUME NEW n \in Nat, NEW S, NEW fs \in Seq(S), fs # <<>>,
         \A k \in DOMAIN fs : Sound(fs[k], n)
  PROVE  \/ JoinAll(fs) = Invalid
         \/ Sound(JoinAll(fs), n) /\ \A k \in DOMAIN fs : Covers(JoinAll(fs), fs[k])
<1> DEFINE l == Len(fs)
           h == CHOOSE upto : upto = JoinStep(fs, upto)
           good(k) == h[k] = Invalid \/ (Sound(h[k], n) /\ \A j \in 1..k : Covers(h[k], fs[j]))
           B == {k \in 1..l : ~good(k)}
<1>1. l \in Nat /\ l # 0 /\ DOMAIN fs = 1..l
  OBVIOUS
<1>2. h = JoinStep(fs, h)
  BY JoinSolutionExists
<1> HIDE DEF h
<1>3. ASSUME NEW k \in 1..l
      PROVE  h[k] = IF k = 1 THEN fs[1] ELSE JoinFrames(h[k - 1], fs[k])
  BY <1>1, <1>2 DEF JoinStep
<1>4. SUFFICES ASSUME B # {} PROVE FALSE
  <2>1. B = {} => good(l)
    BY <1>1
  <2> QED
    BY <1>1, <2>1, JoinAllIsSolution DEF h
<1>5. PICK k \in B : \A j \in B : k <= j
  <2>1. B \in SUBSET (0..l)
    BY <1>1
  <2> HIDE DEF B
  <2> QED
    BY <1>1, <1>4, <2>1, LeastUpTo
<1>6. CASE k = 1
  <2>1. h[1] = fs[1] /\ Sound(fs[1], n)
    BY <1>1, <1>3
  <2>2. Covers(fs[1], fs[1])
    BY <2>1, CoversItself
  <2>3. \A j \in 1..1 : j = 1
    OBVIOUS
  <2>4. good(1)
    BY <2>1, <2>2, <2>3
  <2> QED
    BY <1>5, <1>6, <2>4
<1>7. CASE k # 1
  <2>1. k - 1 \in 1..l /\ k - 1 \notin B /\ k \in 1..l
    BY <1>1, <1>5, <1>7
  <2>2. good(k - 1)
    BY <2>1
  <2>3. h[k] = JoinFrames(h[k - 1], fs[k]) /\ Sound(fs[k], n)
    BY <1>1, <1>3, <1>7, <2>1
  <2>4. CASE h[k - 1] = Invalid
    BY <1>5, <2>3, <2>4 DEF JoinFrames, Invalid
  <2>5. CASE h[k] = Invalid
    BY <1>5, <2>5
  <2>6. CASE h[k - 1] # Invalid /\ h[k] # Invalid
    <3>1. Sound(h[k - 1], n) /\ \A j \in 1..(k - 1) : Covers(h[k - 1], fs[j])
      BY <2>2, <2>6
    <3>2. Sound(h[k], n)
      BY <2>3, <2>6, <3>1, JoinSound
    <3>3. Covers(h[k], h[k - 1]) /\ Covers(h[k], fs[k])
      BY <2>3, <2>6, <3>1, JoinCovers
    <3>4. \A j \in 1..k : j \in 1..(k - 1) \/ j = k
      BY <2>1
    <3>5. \A j \in 1..k : Covers(h[k], fs[j])
      BY <3>1, <3>3, <3>4, CoversTransitive
    <3> QED
      BY <1>5, <3>2, <3>5
  <2> QED
    BY <2>4, <2>5, <2>6
<1> QED
  BY <1>6, <1>7

\* No frame is left out of the order.
LEMMA InOrderAll ==
  ASSUME NEW m, WellFormed(m), NEW F, DOMAIN F \in SUBSET (0..Len(m.edges)),
         IsFiniteSet(DOMAIN F), NEW e \in DOMAIN F
  PROVE  \E k \in DOMAIN InOrder(m, F) : InOrder(m, F)[k] = F[e]
<1> DEFINE D == DOMAIN F
           l == Cardinality(D)
           nth(i) == CHOOSE x \in D : Place(m.order, D, x) = i
           k == Place(m.order, D, e)
<1>1. k \in 1..l /\ \A d, x \in D : Place(m.order, D, d) = Place(m.order, D, x) => d = x
  <2>1. /\ \A x \in D : m.order[x] \in Nat
        /\ \A d, x \in D : m.order[d] = m.order[x] => d = x
    BY DEF WellFormed, OrderOf
  <2> HIDE DEF D
  <2> QED
    BY <2>1, PlaceIsBijection DEF D
<1>2. nth(k) = e
  <2>1. nth(k) \in D /\ Place(m.order, D, nth(k)) = k
    OBVIOUS
  <2> HIDE DEF nth, D
  <2>2. e \in D /\ Place(m.order, D, nth(k)) = Place(m.order, D, e)
    BY <2>1 DEF D
  <2> QED
    BY <1>1, <2>1, <2>2
<1>3. InOrder(m, F) = [i \in 1..l |-> F[nth(i)]]
  BY DEF InOrder, Place
<1> HIDE DEF nth, l, k
<1>4. k \in DOMAIN InOrder(m, F) /\ InOrder(m, F)[k] = F[e]
  BY <1>1, <1>2, <1>3
<1> QED
  BY <1>4

(* A block is entered with a frame that covers what its edges carry.       *)
LEMMA MergeCovers ==
  ASSUME NEW m, WellFormed(m), NEW E, DOMAIN E \subseteq {0} \cup DOMAIN m.edges,
         \A e \in DOMAIN E : Sound(E[e], Len(m.locals)),
         NEW b \in Int, Merge(m, E, b).ok, NEW e \in DOMAIN E, Target(m, e) = b
  PROVE  Covers(Merge(m, E, b), E[e])
<1> DEFINE n == Len(m.locals)
           F == Incoming(m, E, b)
           fs == InOrder(m, F)
           S == {F[d] : d \in DOMAIN F}
<1>1. n \in Nat
  BY DEF WellFormed, LocalsOf
<1>2. DOMAIN F \in SUBSET (0..Len(m.edges)) /\ IsFiniteSet(DOMAIN F)
  <2>1. Len(m.edges) \in Nat /\ DOMAIN m.edges = 1..Len(m.edges)
    BY DEF WellFormed, GraphOf
  <2>2. \A k \in Nat : IsFiniteSet(0..k)
    BY FS_Interval
  <2>3. DOMAIN F \in SUBSET (0..Len(m.edges))
    BY <2>1 DEF Incoming
  <2> HIDE DEF F
  <2> QED
    BY <2>1, <2>2, <2>3, FS_Subset
<1>3. /\ \A d \in DOMAIN F : Sound(F[d], n)
      /\ e \in DOMAIN F /\ F[e] = E[e]
  BY DEF Incoming
<1>4. Merge(m, E, b) = IF Len(fs) = 1 \/ ~JoinAll(fs).ok THEN JoinAll(fs) ELSE WithPhis(JoinAll(fs), b)
  BY DEF Merge, Joined
<1> HIDE DEF n, F
<1>5. fs \in Seq(S) /\ fs # <<>>
  BY <1>2, <1>3, InOrderFacts
<1>6. PICK k \in DOMAIN fs : fs[k] = E[e]
  BY <1>2, <1>3, InOrderAll
<1>7. \A j \in DOMAIN fs : Sound(fs[j], n)
  <2>1. \A j \in DOMAIN fs : fs[j] \in S
    <3> HIDE DEF fs, S
    <3> QED
      BY <1>5
  <2> QED
    BY <1>3, <2>1
<1> HIDE DEF fs, S
<1>8. JoinAll(fs).ok
  BY <1>4
<1>9. JoinAll(fs) # Invalid
  BY <1>8 DEF Invalid
<1>10. Sound(JoinAll(fs), n) /\ Covers(JoinAll(fs), E[e])
  BY <1>1, <1>5, <1>6, <1>7, <1>9, JoinAllCovers
<1>11. Covers(WithPhis(JoinAll(fs), b), JoinAll(fs))
  BY <1>1, <1>10, PhisCover
<1> QED
  BY <1>4, <1>8, <1>10, <1>11, CoversTransitive
-----------------------------------------------------------------------------
(* Renaming the phis leaves the types as they are, and so does a walk of a *)
(* block that starts with renamed phis.                                    *)
LEMMA SameReversed ==
  ASSUME NEW f, NEW g, Same(f, g)
  PROVE  Same(g, f)
BY DEF Same, SameCells

LEMMA SameTransitive ==
  ASSUME NEW f, NEW g, NEW h, Same(f, g), Same(g, h)
  PROVE  Same(f, h)
BY DEF Same, SameCells

LEMMA SameCovers ==
  ASSUME NEW f, NEW g, NEW x, NEW y, Covers(g, f), Same(f, x), Same(g, y)
  PROVE  Covers(y, x)
BY DEF Same, SameCells, Covers, BelowCells

Name(rep, x) == IF x \in DOMAIN rep THEN rep[x] ELSE x

Renames(rep, f, g) ==
  /\ \A i \in 1..Len(f.locals) : g.locals[i].origin = Name(rep, f.locals[i].origin)
  /\ \A i \in 1..Len(f.stack) : g.stack[i].origin = Name(rep, f.stack[i].origin)

LEMMA RenamedSame ==
  ASSUME NEW f, IsFrame(f), NEW rep
  PROVE  Same(f, Renamed(f, rep)) /\ Renames(rep, f, Renamed(f, rep))
<1> DEFINE name(c) == IF c.origin \in DOMAIN rep THEN Cell(c.type, rep[c.origin]) ELSE c
           x(i) == name(f.locals[i])
           y(i) == name(f.stack[i])
           n == Len(f.locals)
           k == Len(f.stack)
           r == [i \in 1..n |-> x(i)]
           s == [i \in 1..k |-> y(i)]
<1>1. /\ f = Frame(f.locals, f.stack)
      /\ IsList(f.locals) /\ n \in Nat /\ DOMAIN f.locals = 1..n
      /\ IsList(f.stack) /\ k \in Nat /\ DOMAIN f.stack = 1..k
  BY SequenceIsList DEF IsFrame, IsStack
<1>2. Renamed(f, rep) = [f EXCEPT !.locals = r, !.stack = s]
  <2>1. f = [ok |-> TRUE, locals |-> f.locals, stack |-> f.stack]
    BY <1>1 DEF Frame
  <2> QED
    BY <1>1, <2>1 DEF Renamed
<1>3. /\ \A i \in 1..n : x(i).type = f.locals[i].type /\ x(i).origin = Name(rep, f.locals[i].origin)
      /\ \A i \in 1..k : y(i).type = f.stack[i].type /\ y(i).origin = Name(rep, f.stack[i].origin)
  BY DEF Cell, Name
<1> HIDE DEF x, y
<1>4. /\ IsMap(n, r) /\ IsMap(k, s)
      /\ \A i \in 1..n : r[i] = x(i)
      /\ \A i \in 1..k : s[i] = y(i)
  BY DEF IsMap
<1> HIDE DEF r, s
<1>5. Renamed(f, rep) = Frame(r, s)
  <2>1. Remade(f, r, s) = Frame(r, s)
    BY <1>1, Remaking
  <2> QED
    BY <1>2, <2>1 DEF Remade
<1>6. IsList(r) /\ Len(r) = n /\ IsList(s) /\ Len(s) = k
  BY <1>1, <1>4, ListMade
<1>7. SameCells(f.locals, r) /\ SameCells(f.stack, s)
  BY <1>1, <1>3, <1>4, <1>6 DEF SameCells
<1>8. Same(Frame(f.locals, f.stack), Frame(r, s))
  BY <1>7, SameFrames
<1>9. Frame(r, s).locals = r /\ Frame(r, s).stack = s
  BY DEF Frame
<1> QED
  BY <1>1, <1>3, <1>4, <1>5, <1>8, <1>9 DEF Renames

LEMMA ListedFrameIsFrame ==
  ASSUME NEW f, f = Frame(f.locals, f.stack), IsList(f.locals), IsList(f.stack)
  PROVE  ListedFrame(f) = f
<1>1. Listed(f.locals) = f.locals /\ Listed(f.stack) = f.stack
  BY ListDomain, ListedSequence
<1>2. ListedFrame(f) = [f EXCEPT !.locals = Listed(f.locals), !.stack = Listed(f.stack)]
  <2>1. f = [ok |-> TRUE, locals |-> f.locals, stack |-> f.stack]
    BY DEF Frame
  <2> QED
    BY <2>1 DEF ListedFrame
<1>3. Remade(f, f.locals, f.stack) = Frame(f.locals, f.stack)
  BY Remaking
<1> QED
  BY <1>1, <1>2, <1>3 DEF Remade

LEMMA TraceUnfolds ==
  ASSUME NEW m, WellFormed(m), NEW b \in Blocks(m), NEW f
  PROVE  /\ Len(m.code[b]) \in Nat /\ DOMAIN m.code[b] = 1..Len(m.code[b])
         /\ Len(Trace(m, b, f)) = Len(m.code[b]) + 1
         /\ Trace(m, b, f)[1] = f
         /\ \A i \in 1..Len(m.code[b]) :
              Trace(m, b, f)[i + 1] = ListedFrame(Transfer(Trace(m, b, f)[i], m.code[b][i], <<b, i>>))
<1> DEFINE t == Trace(m, b, f)
           code == m.code[b]
           l == Len(code)
<1>1. l \in Nat /\ DOMAIN code = 1..l
  BY DEF WellFormed, CodeOf
<1>2. WalkSolved(m, b, f, t)
  BY <1>1, TraceIsSolution, WalkSolutionExists
<1> HIDE DEF t
<1>3. t = [i \in 1..(l + 1) |-> WalkStep(m, b, f, t, i)]
  BY <1>2 DEF WalkSolved
<1> HIDE DEF l, code
<1>4. Len(t) = l + 1
  <2>1. t = [i \in 1..(l + 1) |-> t[i]] /\ l + 1 \in Nat
    BY <1>1, <1>3
  <2> QED
    BY <2>1
<1>5. l + 1 \in Nat /\ 1 \in 1..(l + 1)
  BY <1>1
<1>6. t[1] = f
  BY <1>3, <1>5 DEF WalkStep
<1>7. ASSUME NEW i \in 1..l
      PROVE  t[i + 1] = ListedFrame(Transfer(t[i], code[i], <<b, i>>))
  <2>1. i + 1 \in 1..(l + 1) /\ i + 1 # 1 /\ (i + 1) - 1 = i
    BY <1>1
  <2>2. t[i + 1] = WalkStep(m, b, f, t, i + 1)
    <3> DEFINE j == i + 1
    <3>1. j \in 1..(l + 1)
      BY <2>1
    <3> HIDE DEF j
    <3>2. t[j] = WalkStep(m, b, f, t, j)
      BY <1>3, <3>1
    <3> QED
      BY <3>2 DEF j
  <2> QED
    BY <2>1, <2>2 DEF WalkStep, code
<1> QED
  BY <1>1, <1>4, <1>6, <1>7 DEF t, code, l

\* A frame of usable stack entries, whatever the origins in it.
IsTyped(f) ==
  /\ f = Frame(f.locals, f.stack) /\ IsList(f.locals) /\ IsList(f.stack)
  /\ \A i \in 1..Len(f.locals) : f.locals[i].type \in Types
  /\ \A i \in 1..Len(f.stack) : f.stack[i].type \in Types /\ Computational(f.stack[i].type)

LEMMA SoundIsTyped ==
  ASSUME NEW n, NEW f, Sound(f, n), NEW g, Same(f, g)
  PROVE  IsTyped(g)
<1>1. /\ \A i \in 1..Len(f.stack) : f.stack[i] \in CellSet /\ Computational(f.stack[i].type)
      /\ \A i \in 1..Len(f.locals) : f.locals[i] \in CellSet
  BY SequenceIsList, ListDomain DEF Sound, IsFrame, IsStack
<1>2. \A c \in CellSet : c.type \in Types
  BY DEF CellSet
<1> QED
  BY <1>1, <1>2 DEF Same, SameCells, IsTyped

\* A walk along code whose instructions all fit.
Runs(code, b, t) ==
  /\ Len(code) \in Nat /\ DOMAIN code = 1..Len(code)
  /\ \A i \in 1..(Len(code) + 1) : IsTyped(t[i])
  /\ \A i \in 1..Len(code) : Fits(t[i], code[i]) /\ t[i + 1] = Transfer(t[i], code[i], <<b, i>>)

LEMMA TraceSame ==
  ASSUME NEW m, WellFormed(m), NEW b \in Blocks(m), NEW f, Sound(f, Len(m.locals)),
         Last(Trace(m, b, f)).ok, NEW g, Same(f, g)
  PROVE  /\ \A i \in 1..(Len(m.code[b]) + 1) : Same(Trace(m, b, f)[i], Trace(m, b, g)[i])
         /\ Runs(m.code[b], b, Trace(m, b, g))
<1> DEFINE t == Trace(m, b, f)
           u == Trace(m, b, g)
           code == m.code[b]
           l == Len(code)
           n == Len(m.locals)
           B == {k \in 1..(l + 1) : ~Same(t[k], u[k])}
<1>1. /\ l \in Nat /\ DOMAIN code = 1..l /\ \A i \in 1..l : IsInstruction(code[i])
  BY DEF WellFormed, CodeOf
<1>2. /\ t[1] = f /\ u[1] = g
      /\ \A i \in 1..l : /\ t[i + 1] = ListedFrame(Transfer(t[i], code[i], <<b, i>>))
                         /\ u[i + 1] = ListedFrame(Transfer(u[i], code[i], <<b, i>>))
  BY TraceUnfolds
<1>3. /\ \A i \in 1..(l + 1) : Sound(t[i], n)
      /\ \A i \in 1..l : Fits(t[i], code[i])
  BY WalkSound
<1> HIDE DEF t, u, l, n, code
<1>4. ASSUME NEW i \in 1..l, Same(t[i], u[i])
      PROVE  /\ Same(t[i + 1], u[i + 1])
             /\ u[i + 1] = Transfer(u[i], code[i], <<b, i>>)
  <2> DEFINE x == Transfer(t[i], code[i], <<b, i>>)
             y == Transfer(u[i], code[i], <<b, i>>)
  <2>1. Same(x, y)
    BY <1>1, <1>3, <1>4, SameTransfer
  <2> HIDE DEF x, y
  <2>2. ListedFrame(x) = x /\ ListedFrame(y) = y
    BY <2>1, ListedFrameIsFrame DEF Same, SameCells
  <2>3. t[i + 1] = x /\ u[i + 1] = y
    BY <1>2, <2>2 DEF x, y
  <2> QED
    BY <2>1, <2>3 DEF y
<1>5. B = {}
  <2> SUFFICES ASSUME B # {} PROVE FALSE
    OBVIOUS
  <2>1. PICK k \in B : \A j \in B : k <= j
    <3>1. B \in SUBSET (0..(l + 1)) /\ l + 1 \in Nat
      BY <1>1
    <3> HIDE DEF B
    <3>2. \A v \in Nat : B \in SUBSET (0..v) /\ B # {} => \E x \in B : \A y \in B : x <= y
      BY LeastUpTo
    <3> QED
      BY <3>1, <3>2
  <2>2. k # 1
    BY <1>2, <2>1
  <2>3. PICK i \in 1..l : i + 1 = k
    <3>1. k \in 1..(l + 1)
      BY <2>1
    <3>2. k - 1 \in 1..l /\ (k - 1) + 1 = k
      BY <1>1, <2>2, <3>1
    <3> QED
      BY <3>2
  <2>4. i \in 1..(l + 1) /\ ~(k <= i)
    BY <1>1, <2>3
  <2>5. i \notin B
    <3> HIDE DEF B
    <3> QED
      BY <2>1, <2>4
  <2>6. Same(t[i], u[i])
    BY <2>4, <2>5
  <2>7. Same(t[k], u[k])
    BY <1>4, <2>3, <2>6
  <2> QED
    BY <2>1, <2>7
<1>6. \A i \in 1..(l + 1) : Same(t[i], u[i])
  BY <1>5
<1>7. \A i \in 1..(l + 1) : IsTyped(u[i])
  BY <1>3, <1>6, SoundIsTyped
<1>8. \A i \in 1..l : i \in 1..(l + 1)
  BY <1>1
<1>9. \A i \in 1..l : Fits(u[i], code[i]) /\ u[i + 1] = Transfer(u[i], code[i], <<b, i>>)
  BY <1>1, <1>3, <1>4, <1>6, <1>8, SameFits
<1>10. Runs(code, b, u)
  BY <1>1, <1>7, <1>9 DEF Runs, l
<1> QED
  BY <1>6, <1>10 DEF t, u, l, code

LEMMA CarriedSame ==
  ASSUME NEW m, WellFormed(m), NEW b \in Blocks(m), NEW f, Sound(f, Len(m.locals)),
         Last(Trace(m, b, f)).ok, NEW g, Same(f, g), NEW e \in Leaving(m, b)
  PROVE  Same(Carried(m, e, Trace(m, b, f)), Carried(m, e, Trace(m, b, g)))
<1> DEFINE t == Trace(m, b, f)
           u == Trace(m, b, g)
           code == m.code[b]
           l == Len(code)
           i == m.edges[e].from[2]
<1>1. e \in DOMAIN m.edges /\ m.edges[e].from[1] = b
  BY DEF Leaving
<1>2. l \in Nat /\ DOMAIN code = 1..l /\ \A j \in 1..l : IsInstruction(code[j])
  BY DEF WellFormed, CodeOf
<1>3. i \in 1..l
  BY <1>1, <1>2 DEF WellFormed, LeavingAt
<1>4. /\ \A j \in 1..(l + 1) : Same(t[j], u[j])
      /\ \A j \in 1..l : Fits(t[j], code[j])
  BY TraceSame, WalkSound
<1>5. i \in 1..(l + 1) /\ i + 1 \in 1..(l + 1)
  BY <1>2, <1>3
<1> HIDE DEF t, u, l, i
<1>6. CASE m.edges[e].exc
  <2>1. /\ Carried(m, e, t) = Exceptional(t[i], code[i], m.edges[e].from)
        /\ Carried(m, e, u) = Exceptional(u[i], code[i], m.edges[e].from)
    BY <1>1, <1>6 DEF Carried, i
  <2>2. Same(t[i], u[i]) /\ Fits(t[i], code[i]) /\ IsInstruction(code[i])
    BY <1>2, <1>3, <1>4, <1>5
  <2> QED
    BY <2>1, <2>2, SameExceptional DEF t, u
<1>7. CASE ~m.edges[e].exc
  <2>1. Carried(m, e, t) = t[i + 1] /\ Carried(m, e, u) = u[i + 1]
    BY <1>7 DEF Carried, i
  <2> QED
    BY <1>4, <1>5, <2>1 DEF t, u
<1> QED
  BY <1>6, <1>7
-----------------------------------------------------------------------------
(* What the frames of a solved method say of each other.  No walk that is  *)
(* kept has failed; and once solved, walking any block gives along each of *)
(* its edges a frame that the frame of the target covers.                  *)
WalkOkInv ==
  status = "run" => \A b \in DOMAIN in : Last(Trace(method, b, in[b])).ok

Entered(I, b, f) == b \in DOMAIN I /\ Covers(I[b], f)

FlowInv ==
  status = "done" =>
    /\ Entered(in, 1, EntryFrame(method))
    /\ \A b \in DOMAIN in :
         /\ Runs(method.code[b], b, Trace(method, b, in[b]))
         /\ \A e \in Leaving(method, b) :
              Entered(in, Target(method, e), Carried(method, e, Trace(method, b, in[b])))

LEMMA InitFlow == Init => WalkOkInv /\ FlowInv
BY DEF Init, WalkOkInv, FlowInv

\* Naming the representatives of the phis leaves a solved method solved.
LEMMA FinishFlows ==
  ASSUME SolverInv, SoundInv, WalkOkInv, status = "run", pending = <<>>, NEW rep,
         in' = [b \in DOMAIN in |-> Renamed(in[b], rep)], method' = method
  PROVE  /\ Entered(in', 1, EntryFrame(method))
         /\ \A b \in DOMAIN in' :
              /\ Runs(method.code[b], b, Trace(method, b, in'[b]))
              /\ \A e \in Leaving(method, b) :
                   Entered(in', Target(method, e), Carried(method, e, Trace(method, b, in'[b])))
<1> DEFINE n == Len(method.locals)
<1>1. /\ WellFormed(method) /\ DOMAIN in \subseteq Blocks(method)
      /\ DOMAIN edges \subseteq {0} \cup DOMAIN method.edges
  BY DEF SolverInv, TypeInv
<1>2. /\ \A e \in DOMAIN edges : Sound(edges[e], n)
      /\ \A b \in DOMAIN in : Sound(in[b], n) /\ Last(Trace(method, b, in[b])).ok
  BY DEF SoundInv, WalkOkInv
<1>3. DOMAIN in' = DOMAIN in /\ \A b \in DOMAIN in : Same(in[b], in'[b])
  BY <1>2, RenamedSame DEF Sound
<1>4. /\ 0 \in DOMAIN edges /\ edges[0] = EntryFrame(method) /\ Target(method, 0) = 1
      /\ \A b \in DOMAIN in : \A e \in Leaving(method, b) :
           e \in DOMAIN edges /\ edges[e] = Carried(method, e, Trace(method, b, in[b]))
  BY DEF SolverInv, ReachInv, WalkedInv, Target
<1>5. ASSUME NEW e \in DOMAIN edges
      PROVE  Target(method, e) \in DOMAIN in /\ Covers(in[Target(method, e)], edges[e])
  <2> DEFINE b == Target(method, e)
  <2>1. b \in Blocks(method) /\ b \in Int
    BY <1>1 DEF WellFormed, GraphOf, Target, Blocks
  <2>2. e \in DOMAIN Incoming(method, edges, b)
    BY DEF Incoming
  <2>3. ToSet(pending) = {}
    BY DEF ToSet
  <2> HIDE DEF b
  <2>4. SettledAt(b)
    BY <2>1, <2>2, <2>3, SettledMeaning DEF SolverInv
  <2>5. b \in DOMAIN in /\ in[b] = Merge(method, edges, b) /\ in[b].ok
    <3>1. \A f : IsFrame(f) => f.ok
      BY DEF IsFrame, Frame
    <3> QED
      BY <1>2, <2>4, <3>1 DEF SettledAt, Sound
  <2>6. Covers(Merge(method, edges, b), edges[e])
    BY <1>1, <1>2, <2>1, <2>5, MergeCovers DEF b
  <2> QED
    BY <2>5, <2>6 DEF b
<1>6. ASSUME NEW b \in DOMAIN in, NEW f, NEW g, Covers(in[b], f), Same(f, g)
      PROVE  Entered(in', b, g)
  <2>1. Same(in[b], in'[b])
    BY <1>3
  <2>2. Covers(in'[b], g)
    BY <1>6, <2>1, SameCovers
  <2> QED
    BY <1>3, <2>2 DEF Entered
<1>7. Entered(in', 1, EntryFrame(method))
  <2> DEFINE f == EntryFrame(method)
  <2>1. 1 \in DOMAIN in /\ Covers(in[1], f)
    BY <1>4, <1>5
  <2>2. Same(f, f)
    <3>1. Sound(f, n)
      BY <1>2, <1>4
    <3> HIDE DEF f
    <3>2. f = Frame(f.locals, f.stack) /\ IsList(f.locals) /\ IsList(f.stack)
      BY <3>1, SequenceIsList DEF Sound, IsFrame, IsStack
    <3> QED
      BY <3>2 DEF Same, SameCells
  <2> HIDE DEF f
  <2>3. Covers(in'[1], f)
    BY <1>3, <2>1, <2>2, SameCovers
  <2> QED
    BY <1>3, <2>1, <2>3 DEF Entered, f
<1>8. ASSUME NEW b \in DOMAIN in'
      PROVE  /\ Runs(method.code[b], b, Trace(method, b, in'[b]))
             /\ \A e \in Leaving(method, b) :
                  Entered(in', Target(method, e), Carried(method, e, Trace(method, b, in'[b])))
  <2>1. /\ b \in DOMAIN in /\ b \in Blocks(method) /\ Same(in[b], in'[b]) /\ Sound(in[b], n)
        /\ Last(Trace(method, b, in[b])).ok
    BY <1>1, <1>2, <1>3
  <2>2. Runs(method.code[b], b, Trace(method, b, in'[b]))
    BY <1>1, <2>1, TraceSame
  <2>3. ASSUME NEW e \in Leaving(method, b)
        PROVE  Entered(in', Target(method, e), Carried(method, e, Trace(method, b, in'[b])))
    <3> DEFINE f == Carried(method, e, Trace(method, b, in[b]))
               g == Carried(method, e, Trace(method, b, in'[b]))
               c == Target(method, e)
    <3>1. c \in DOMAIN in /\ Covers(in[c], f)
      BY <1>4, <1>5, <2>1
    <3>2. Same(f, g)
      BY <1>1, <2>1, CarriedSame
    <3>3. Covers(in'[c], g)
      <4> HIDE DEF f, g, c
      <4> QED
        BY <1>3, <3>1, <3>2, SameCovers
    <3> QED
      BY <1>3, <3>1, <3>3 DEF Entered
  <2> QED
    BY <2>2, <2>3
<1> QED
  BY <1>7, <1>8

LEMMA NextFlow == SolverInv /\ SoundInv /\ WalkOkInv /\ FlowInv /\ [Next]_vars => WalkOkInv' /\ FlowInv'
<1> SUFFICES ASSUME SolverInv, SoundInv, WalkOkInv, FlowInv, [Next]_vars
             PROVE  WalkOkInv' /\ FlowInv'
  OBVIOUS
<1>1. CASE OutOfWork
  BY <1>1 DEF OutOfWork, WalkOkInv, FlowInv
<1>2. CASE Reject /\ status = "run"
  BY <1>2 DEF Reject, WalkOkInv, FlowInv
<1>3. CASE Visit
  <2>1. PICK q \in Picks :
          LET b == pending[q]
              rest == RemoveAt(pending, q)
              f == Merge(method, edges, b)
          IN  IF f.ok THEN Skip(b, f, rest) \/ Propagate(b, f, rest) ELSE Reject
    BY <1>3 DEF Visit
  <2>2. status = "run"
    BY <1>3 DEF Visit
  <2>3. PICK b : b = pending[q]
    OBVIOUS
  <2>4. PICK f : f = Merge(method, edges, b)
    OBVIOUS
  <2>5. CASE Skip(b, f, RemoveAt(pending, q))
    BY <2>2, <2>5 DEF Skip, WalkOkInv, FlowInv
  <2>6. CASE Propagate(b, f, RemoveAt(pending, q)) /\ ~Last(Trace(method, b, f)).ok
    BY <1>2, <2>2, <2>6 DEF Propagate
  <2>7. CASE Propagate(b, f, RemoveAt(pending, q)) /\ Last(Trace(method, b, f)).ok
    <3>1. /\ in' = [c \in DOMAIN in \cup {b} |-> IF c = b THEN f ELSE in[c]]
          /\ UNCHANGED <<method, status>>
      BY <2>7 DEF Propagate
    <3> QED
      BY <2>2, <2>7, <3>1 DEF WalkOkInv, FlowInv
  <2> QED
    BY <1>2, <2>1, <2>2, <2>3, <2>4, <2>5, <2>6, <2>7
<1>4. CASE Finish /\ ~Reject
  <2>1. PICK rep : rep = Representative(Equations)
    OBVIOUS
  <2>2. /\ status = "run" /\ pending = <<>> /\ status' = "done" /\ method' = method
        /\ in' = [b \in DOMAIN in |-> Renamed(in[b], rep)]
    BY <1>4, <2>1 DEF Finish
  <2>3. /\ Entered(in', 1, EntryFrame(method))
        /\ \A b \in DOMAIN in' :
             /\ Runs(method.code[b], b, Trace(method, b, in'[b]))
             /\ \A e \in Leaving(method, b) :
                  Entered(in', Target(method, e), Carried(method, e, Trace(method, b, in'[b])))
    BY <2>2, FinishFlows
  <2> QED
    BY <2>2, <2>3 DEF WalkOkInv, FlowInv, Entered
<1>5. CASE UNCHANGED vars
  BY <1>5 DEF vars, WalkOkInv, FlowInv, Entered
<1> QED
  <2>1. Finish => status = "run"
    BY DEF Finish
  <2> QED
    BY <1>1, <1>2, <1>3, <1>4, <1>5, <2>1 DEF Next
-----------------------------------------------------------------------------
(* What the frames say of the machine.  A cell whose type is that of an    *)
(* object not initialised yet stands for one value: u says which, by the   *)
(* type, which names the site that made the object.                        *)
IsValue(v) == v = Value(v.origin, v.age, v.type)

Suits(u, t, v) ==
  /\ IsValue(v)
  /\ Promises(t, v.type)
  /\ t.kind = "UninitNew" => t \in DOMAIN u /\ v = u[t]

Described(u, s, r) ==
  IsList(s) /\ IsList(r) /\ Len(s) = Len(r) /\ \A i \in 1..Len(s) : Suits(u, s[i].type, r[i])

Describes(u, f, s, r) == Described(u, f.locals, s) /\ Described(u, f.stack, r)

LEMMA SuitsAbove ==
  ASSUME NEW u, NEW s, NEW t, Below(s, t), NEW v, Suits(u, s, v)
  PROVE  Suits(u, t, v)
<1>1. CASE s = t
  BY <1>1
<1>2. CASE t.kind = "Top"
  BY <1>2 DEF Suits, Promises
<1>3. CASE t.kind \in {"Int", "Long"} /\ s.kind = t.kind /\ t.val = NoVal
  BY <1>3 DEF Suits, Promises
<1>4. CASE t.kind = "Null" /\ s.kind = "Null"
  BY <1>4 DEF Suits, Promises
<1>5. CASE t.kind = "Ref" /\ s.kind = "Null"
  BY <1>5 DEF Suits, Promises
<1>6. CASE t.kind = "Ref" /\ s.kind = "Ref" /\ t.class \in {Object, s.class}
  BY <1>6 DEF Suits, Promises
<1> QED
  BY <1>1, <1>2, <1>3, <1>4, <1>5, <1>6 DEF Below

\* A frame that covers another describes all that the other describes.
LEMMA DescribesAbove ==
  ASSUME NEW u, NEW f, NEW g, Covers(g, f), NEW s, NEW r, Describes(u, f, s, r)
  PROVE  Describes(u, g, s, r)
BY SuitsAbove DEF Covers, BelowCells, Describes, Described

LEMMA DescribedMap ==
  ASSUME NEW n \in Nat, NEW a, NEW b, IsMap(n, a), IsMap(n, b), NEW u,
         \A i \in 1..n : Suits(u, a[i].type, b[i])
  PROVE  Described(u, a, b)
<1>1. IsList(a) /\ Len(a) = n /\ IsList(b) /\ Len(b) = n
  BY ListMade
<1> QED
  BY <1>1 DEF Described

LEMMA DescribedFew ==
  ASSUME NEW u
  PROVE  /\ Described(u, <<>>, <<>>)
         /\ \A c, v : Suits(u, c.type, v) => Described(u, <<c>>, <<v>>)
         /\ \A c, v, d, w : Suits(u, c.type, v) /\ Suits(u, d.type, w) => Described(u, <<c, d>>, <<v, w>>)
<1>1. \A c, d : /\ IsList(<<>>) /\ Len(<<>>) = 0
                /\ IsList(<<c>>) /\ Len(<<c>>) = 1
                /\ IsList(<<c, d>>) /\ Len(<<c, d>>) = 2
  BY DEF IsList
<1>2. Described(u, <<>>, <<>>)
  <2>1. IsList(<<>>) /\ Len(<<>>) = 0
    BY <1>1
  <2>2. 1..0 = {}
    OBVIOUS
  <2> QED
    BY <2>1, <2>2 DEF Described
<1>3. \A i \in 1..1 : i = 1
  OBVIOUS
<1>4. ASSUME NEW c, NEW v, Suits(u, c.type, v)
      PROVE  Described(u, <<c>>, <<v>>)
  <2>1. \A i \in 1..1 : Suits(u, <<c>>[i].type, <<v>>[i])
    BY <1>3, <1>4
  <2> QED
    BY <1>1, <2>1 DEF Described
<1>5. ASSUME NEW c, NEW v, NEW d, NEW w, Suits(u, c.type, v), Suits(u, d.type, w)
      PROVE  Described(u, <<c, d>>, <<v, w>>)
  <2>1. \A i \in 1..2 : i = 1 \/ i = 2
    OBVIOUS
  <2>2. \A i \in 1..2 : Suits(u, <<c, d>>[i].type, <<v, w>>[i])
    BY <1>5, <2>1
  <2> QED
    BY <1>1, <2>2 DEF Described
<1> QED
  BY <1>2, <1>4, <1>5

LEMMA DescribedStacked ==
  ASSUME NEW u, NEW s, NEW r, Described(u, s, r), NEW k \in 0..Len(s),
         NEW x, NEW y, Described(u, x, y)
  PROVE  Described(u, SubSeq(s, 1, Len(s) - k) \o x, SubSeq(r, 1, Len(r) - k) \o y)
<1> DEFINE n == Len(s) - k
           a == SubSeq(s, 1, n) \o x
           b == SubSeq(r, 1, n) \o y
<1>1. /\ IsList(s) /\ IsList(r) /\ IsList(x) /\ IsList(y)
      /\ Len(r) = Len(s) /\ Len(y) = Len(x)
      /\ \A i \in 1..Len(s) : Suits(u, s[i].type, r[i])
      /\ \A i \in 1..Len(x) : Suits(u, x[i].type, y[i])
  BY DEF Described
<1>2. Restacked(s, n, x, a)
  BY <1>1, Stacking
<1>3. Restacked(r, n, y, b)
  BY <1>1, Stacking
<1> HIDE DEF n, a, b
<1>4. \A i \in 1..(n + Len(x)) : Suits(u, a[i].type, b[i])
  BY <1>1, <1>2, <1>3 DEF Restacked
<1>5. Described(u, a, b)
  BY <1>1, <1>2, <1>3, <1>4 DEF Described, Restacked
<1> QED
  BY <1>1, <1>5 DEF a, b, n

\* The machine's way to write what Restack does.
LEMMA StackForms ==
  ASSUME NEW s, IsList(s), NEW k \in 0..Len(s)
  PROVE  /\ SubSeq(s, 1, Len(s) - 0) = s
         /\ SubSeq(s, 1, Len(s) - k) \o <<>> = SubSeq(s, 1, Len(s) - k)
         /\ \A v : SubSeq(s, 1, Len(s) - k) \o <<v>> = Append(SubSeq(s, 1, Len(s) - k), v)
         /\ \A v : SubSeq(s, 1, Len(s) - 0) \o <<v>> = Append(s, v)
<1> DEFINE S == {s[i] : i \in 1..Len(s)}
           r == SubSeq(s, 1, Len(s) - k)
<1>1. s \in Seq(S) /\ Len(s) \in Nat
  BY ListDomain DEF IsList
<1> HIDE DEF S
<1>2. r \in Seq(S)
  BY <1>1
<1>3. SubSeq(s, 1, Len(s) - 0) = s
  BY <1>1
<1> HIDE DEF r
<1>4. r \o <<>> = r
  BY <1>2
<1>5. ASSUME NEW v PROVE r \o <<v>> = Append(r, v) /\ s \o <<v>> = Append(s, v)
  <2>1. r \in Seq(S \cup {v}) /\ s \in Seq(S \cup {v}) /\ v \in S \cup {v}
    BY <1>1, <1>2
  <2> QED
    BY <2>1, AppendIsConcat
<1> QED
  BY <1>3, <1>4, <1>5 DEF r

\* What a store or iinc makes of the machine's locals.
Written(r, n, v) ==
  [i \in DOMAIN r |-> IF i = n \/ (IsHead(v.type) /\ i = n + 1) THEN v ELSE r[i]]

LEMMA PutDescribed ==
  ASSUME NEW u, NEW l, NEW r, Described(u, l, r), NEW n, NEW c, NEW v, Suits(u, c.type, v),
         Computational(c.type), c.type.kind \in Kinds
  PROVE  Described(u, Put(l, n, c), Written(r, n, v))
<1> DEFINE last == IF IsHead(c.type) THEN n + 1 ELSE n
           x(i) == IF i = n THEN c
                   ELSE IF i = last THEN Cell(T("LongTail"), c.origin)
                   ELSE IF \/ i = n - 1 /\ IsHead(l[i].type)
                           \/ i = last + 1 /\ IsTail(l[i].type)
                   THEN Unusable ELSE l[i]
           y(i) == IF i = n \/ (IsHead(v.type) /\ i = n + 1) THEN v ELSE r[i]
           k == Len(l)
<1>1. /\ DOMAIN l = 1..k /\ DOMAIN r = 1..k /\ k \in Nat
      /\ \A i \in 1..k : Suits(u, l[i].type, r[i])
  BY ListDomain DEF Described, IsList
<1>2. IsHead(v.type) <=> IsHead(c.type)
  <2>1. c.type.kind \in {"Int", "Long", "Ref", "Null", "UninitNew"}
    BY DEF Computational, Kinds
  <2>2. Promises(c.type, v.type)
    BY DEF Suits
  <2> QED
    BY <2>1, <2>2 DEF Promises, IsHead
<1>3. \A w : IsValue(w) => Suits(u, Unusable.type, w)
  <2>1. Unusable.type.kind = "Top"
    BY DEF Unusable, Cell, T
  <2> QED
    BY <2>1 DEF Suits, Promises
<1>4. IsHead(v.type) => Suits(u, Cell(T("LongTail"), c.origin).type, v)
  <2>1. Cell(T("LongTail"), c.origin).type.kind = "LongTail"
    BY DEF Cell, T
  <2>2. IsValue(v)
    BY DEF Suits
  <2> QED
    BY <2>1, <2>2 DEF Suits, Promises, IsHead
<1>5. ASSUME NEW i \in 1..k PROVE Suits(u, x(i).type, y(i))
  <2>1. IsValue(r[i])
    BY <1>1 DEF Suits
  <2>2. CASE i = n
    BY <2>2
  <2>3. CASE i # n /\ i = last
    BY <1>2, <1>4, <2>3
  <2>4. CASE i # n /\ i # last
    <3>1. y(i) = r[i]
      BY <1>2, <2>4
    <3>2. x(i) = Unusable \/ x(i) = l[i]
      BY <2>4
    <3> HIDE DEF x, y
    <3> QED
      BY <1>1, <1>3, <2>1, <3>1, <3>2
  <2> QED
    BY <2>2, <2>3, <2>4
<1>6. /\ Put(l, n, c) = [i \in 1..k |-> x(i)]
      /\ Written(r, n, v) = [i \in 1..k |-> y(i)]
  BY <1>1 DEF Put, Written
<1> HIDE DEF x, y
<1>7. /\ IsMap(k, [i \in 1..k |-> x(i)]) /\ IsMap(k, [i \in 1..k |-> y(i)])
      /\ \A i \in 1..k : [j \in 1..k |-> x(j)][i] = x(i) /\ [j \in 1..k |-> y(j)][i] = y(i)
  BY DEF IsMap
<1>8. Described(u, [i \in 1..k |-> x(i)], [i \in 1..k |-> y(i)])
  BY <1>1, <1>5, <1>7, DescribedMap
<1> QED
  BY <1>6, <1>8

\* iinc writes one slot, as the value it computes is no head.
LEMMA IncreasedDescribed ==
  ASSUME NEW u, NEW l, NEW r, Described(u, l, r), NEW n, NEW c, NEW v, Suits(u, c.type, v),
         ~IsHead(v.type)
  PROVE  Described(u, [l EXCEPT ![n] = c], Written(r, n, v))
<1> DEFINE x(i) == IF i = n THEN c ELSE l[i]
           y(i) == IF i = n THEN v ELSE r[i]
           k == Len(l)
<1>1. /\ DOMAIN l = 1..k /\ DOMAIN r = 1..k /\ k \in Nat
      /\ l = [i \in 1..k |-> l[i]]
      /\ \A i \in 1..k : Suits(u, l[i].type, r[i])
  BY ListDomain DEF Described, IsList
<1>2. \A i \in 1..k : Suits(u, x(i).type, y(i))
  BY <1>1
<1>3. /\ [l EXCEPT ![n] = c] = [i \in 1..k |-> x(i)]
      /\ Written(r, n, v) = [i \in 1..k |-> y(i)]
  BY <1>1 DEF Written
<1> HIDE DEF x, y
<1>4. /\ IsMap(k, [i \in 1..k |-> x(i)]) /\ IsMap(k, [i \in 1..k |-> y(i)])
      /\ \A i \in 1..k : [j \in 1..k |-> x(j)][i] = x(i) /\ [j \in 1..k |-> y(j)][i] = y(i)
  BY DEF IsMap
<1>5. Described(u, [i \in 1..k |-> x(i)], [i \in 1..k |-> y(i)])
  BY <1>1, <1>2, <1>4, DescribedMap
<1> QED
  BY <1>3, <1>5

\* The cells of an object not initialised yet are the cells of its type.
LEMMA OneObject ==
  ASSUME NEW u, NEW t, NEW v, t.kind = "UninitNew", Suits(u, t, v),
         NEW s, NEW w, s.kind \in Kinds, Suits(u, s, w)
  PROVE  /\ s = t => w = v
         /\ s # t /\ w = v => s.kind = "Top"
<1>1. v.type = t
  BY DEF Suits, Promises
<1>2. s = t => w = v
  BY DEF Suits
<1>3. ASSUME s # t, w = v PROVE s.kind = "Top"
  <2>1. Promises(s, t) /\ t.kind = "UninitNew"
    BY <1>1, <1>3 DEF Suits
  <2> QED
    BY <1>3, <2>1 DEF Promises, Kinds
<1> QED
  BY <1>2, <1>3

LEMMA Retyped ==
  ASSUME NEW v, IsValue(v), NEW t
  PROVE  IsValue([v EXCEPT !.type = t]) /\ [v EXCEPT !.type = t].type = t
<1>1. v = [origin |-> v.origin, age |-> v.age, type |-> v.type]
  BY DEF IsValue, Value
<1>2. [v EXCEPT !.type = t] = [origin |-> v.origin, age |-> v.age, type |-> t]
  BY <1>1
<1> QED
  BY <1>2 DEF IsValue, Value

\* The object t changes its state, and its cells their type with it.
LEMMA BecomingDescribed ==
  ASSUME NEW u, NEW l, NEW r, Described(u, l, r), \A i \in 1..Len(l) : l[i].type.kind \in Kinds,
         NEW t, NEW v, t.kind = "UninitNew", Suits(u, t, v),
         NEW b, IsMap(Len(l), b), NEW to,
         \A i \in 1..Len(l) : IF l[i].type = t THEN Promises(b[i].type, to) /\ b[i].type.kind # "UninitNew"
                                               ELSE b[i] = l[i]
  PROVE  Described(u, b, Becoming(r, v, to))
<1> DEFINE k == Len(l)
           y(i) == IF r[i] = v THEN [v EXCEPT !.type = to] ELSE r[i]
<1>1. /\ k \in Nat /\ DOMAIN r = 1..k
      /\ \A i \in 1..k : Suits(u, l[i].type, r[i])
  BY ListDomain DEF Described, IsList
<1>2. IsValue([v EXCEPT !.type = to]) /\ [v EXCEPT !.type = to].type = to
  BY Retyped DEF Suits
<1>3. ASSUME NEW i \in 1..k PROVE Suits(u, b[i].type, y(i))
  <2>1. /\ l[i].type = t => r[i] = v
        /\ l[i].type # t /\ r[i] = v => l[i].type.kind = "Top"
    BY <1>1, OneObject
  <2>2. CASE l[i].type = t
    <3>1. y(i) = [v EXCEPT !.type = to]
      BY <2>1, <2>2
    <3>2. Promises(b[i].type, to) /\ b[i].type.kind # "UninitNew"
      BY <2>2
    <3> QED
      BY <1>2, <3>1, <3>2 DEF Suits
  <2>3. CASE l[i].type # t /\ r[i] = v
    <3>1. y(i) = [v EXCEPT !.type = to] /\ b[i].type.kind = "Top"
      BY <2>1, <2>3
    <3> QED
      BY <1>2, <3>1 DEF Suits, Promises
  <2>4. CASE l[i].type # t /\ r[i] # v
    <3>1. y(i) = r[i] /\ b[i] = l[i]
      BY <2>4
    <3> QED
      BY <1>1, <3>1
  <2> QED
    BY <2>2, <2>3, <2>4
<1>4. Becoming(r, v, to) = [i \in 1..k |-> y(i)]
  BY <1>1 DEF Becoming
<1> HIDE DEF y
<1>5. /\ IsMap(k, [i \in 1..k |-> y(i)])
      /\ \A i \in 1..k : [j \in 1..k |-> y(j)][i] = y(i)
  BY DEF IsMap
<1>6. Described(u, b, [i \in 1..k |-> y(i)])
  BY <1>1, <1>3, <1>5, DescribedMap
<1> QED
  BY <1>4, <1>6

\* A constructor returned.
LEMMA ConstructedDescribed ==
  ASSUME NEW u, NEW l, NEW r, Described(u, l, r), \A i \in 1..Len(l) : l[i].type.kind \in Kinds,
         NEW t, NEW v, t.kind = "UninitNew", Suits(u, t, v)
  PROVE  Described(u, Initialised(l, t), Becoming(r, v, RefOf(t.class)))
<1> DEFINE k == Len(l)
           x(i) == IF l[i].type = t THEN Cell(RefOf(t.class), l[i].origin) ELSE l[i]
           b == [i \in 1..k |-> x(i)]
<1>1. k \in Nat /\ DOMAIN l = 1..k
  BY ListDomain DEF Described, IsList
<1>2. Initialised(l, t) = b
  BY <1>1 DEF Initialised
<1>3. RefOf(t.class).kind = "Ref" /\ Promises(RefOf(t.class), RefOf(t.class))
  BY DEF RefOf, Promises
<1>4. \A i \in 1..k :
       IF l[i].type = t
       THEN Promises(x(i).type, RefOf(t.class)) /\ x(i).type.kind # "UninitNew"
       ELSE x(i) = l[i]
  BY <1>3 DEF Cell
<1> HIDE DEF x
<1>5. IsMap(k, b) /\ \A i \in 1..k : b[i] = x(i)
  BY DEF IsMap
<1> HIDE DEF b
<1>6. \A i \in 1..k :
       IF l[i].type = t
       THEN Promises(b[i].type, RefOf(t.class)) /\ b[i].type.kind # "UninitNew"
       ELSE b[i] = l[i]
  BY <1>4, <1>5
<1>7. Described(u, b, Becoming(r, v, RefOf(t.class)))
  BY <1>5, <1>6, BecomingDescribed
<1> QED
  BY <1>2, <1>7

\* A constructor threw.
LEMMA LostDescribed ==
  ASSUME NEW u, NEW l, NEW r, Described(u, l, r), \A i \in 1..Len(l) : l[i].type.kind \in Kinds,
         NEW t, NEW v, t.kind = "UninitNew", Suits(u, t, v)
  PROVE  Described(u, [i \in DOMAIN l |-> IF l[i].type = t THEN Unusable ELSE l[i]],
                   Becoming(r, v, T("Top")))
<1> DEFINE k == Len(l)
           x(i) == IF l[i].type = t THEN Unusable ELSE l[i]
           b == [i \in 1..k |-> x(i)]
<1>1. k \in Nat /\ DOMAIN l = 1..k
  BY ListDomain DEF Described, IsList
<1>2. [i \in DOMAIN l |-> IF l[i].type = t THEN Unusable ELSE l[i]] = b
  BY <1>1
<1>3. Unusable.type.kind = "Top" /\ Promises(Unusable.type, T("Top"))
  <2>1. Unusable.type.kind = "Top"
    BY DEF Unusable, Cell, T
  <2> QED
    BY <2>1 DEF Promises
<1>4. \A i \in 1..k : IF l[i].type = t THEN Promises(x(i).type, T("Top")) /\ x(i).type.kind # "UninitNew"
                                       ELSE x(i) = l[i]
  BY <1>3
<1> HIDE DEF x
<1>5. IsMap(k, b) /\ \A i \in 1..k : b[i] = x(i)
  BY DEF IsMap
<1> HIDE DEF b
<1>6. \A i \in 1..k : IF l[i].type = t THEN Promises(b[i].type, T("Top")) /\ b[i].type.kind # "UninitNew"
                                       ELSE b[i] = l[i]
  BY <1>4, <1>5
<1>7. Described(u, b, Becoming(r, v, T("Top")))
  BY <1>5, <1>6, BecomingDescribed
<1> QED
  BY <1>2, <1>7

\* A new object of a site whose last object is gone.
LEMMA ReplacedDescribed ==
  ASSUME NEW u, NEW l, NEW r, Described(u, l, r), NEW t, \A i \in 1..Len(l) : l[i].type # t, NEW v
  PROVE  Described(With(u, t, v), l, r)
<1> DEFINE w == With(u, t, v)
<1>1. \A x \in DOMAIN u : x # t => x \in DOMAIN w /\ w[x] = u[x]
  BY DEF With
<1> HIDE DEF w
<1>2. \A i \in 1..Len(l) : Suits(w, l[i].type, r[i])
  BY <1>1 DEF Described, Suits
<1>3. Described(w, l, r)
  BY <1>2 DEF Described
<1> QED
  BY <1>3 DEF w
-----------------------------------------------------------------------------
(* One instruction of the machine: what the frame after it says is true of *)
(* the machine after it.  Its new object, if any, is known by its site.    *)
Objects(u, new) ==
  IF Instruction.op # "new" THEN u
  ELSE With(u, UninitAt(at, Instruction.type.class), new)

Absent(f, t) ==
  /\ \A i \in 1..Len(f.locals) : f.locals[i].type # t
  /\ \A i \in 1..Len(f.stack) : f.stack[i].type # t

LEMMA ResultFacts ==
  ASSUME Instruction.op \in {"const", "invoke", "new", "iinc", "add", "checkcast"}
  PROVE  IsValue(Result) /\ Result.type = Computed
<1>1. Result = Fresh(Def(at), Computed)
  BY DEF Result, Defines
<1>2. \A o, t : IsValue(Fresh(o, t)) /\ Fresh(o, t).type = t
  BY DEF Fresh, IsValue, Value
<1> QED
  BY <1>1, <1>2

\* Known constants, casts of null and the rest: the value has the type the
\* frame gives the result.
LEMMA ConstantPromised ==
  ASSUME NEW t, Computational(t), t.kind \in Kinds, t.kind # "UninitNew"
  PROVE  Promises(t, IF t = T("Int") THEN IntConst(0) ELSE t)
<1>1. t.kind \in {"Int", "Long", "Ref", "Null"}
  BY DEF Computational, Kinds
<1>2. CASE t = T("Int")
  <2>1. t.kind = "Int" /\ t.val = NoVal /\ IntConst(0).kind = "Int"
    BY <1>2 DEF T, IntConst
  <2> QED
    BY <1>2, <2>1 DEF Promises
<1>3. CASE t # T("Int")
  BY <1>1, <1>3 DEF Promises
<1> QED
  BY <1>2, <1>3

LEMMA IncrementPromised ==
  ASSUME NEW t, NEW v, t.kind = "Int", Promises(t, v)
  PROVE  Promises(Incremented(t), IntConst((v.val + 1) % IntSize))
<1>1. t.val \in {NoVal, v.val}
  BY DEF Promises
<1>2. \A x : IntConst(x).kind = "Int" /\ IntConst(x).val = x
  BY DEF IntConst
<1>3. CASE t.val = NoVal
  <2>1. Incremented(t).kind = "Int" /\ Incremented(t).val = NoVal
    BY <1>3 DEF Incremented, T
  <2> QED
    BY <1>2, <2>1 DEF Promises
<1>4. CASE t.val # NoVal
  <2>1. t.val = v.val
    BY <1>1, <1>4
  <2>2. Incremented(t) = IntConst((t.val + 1) % IntSize)
    BY <1>4, Zenon DEF Incremented
  <2>3. PICK w : w = (v.val + 1) % IntSize
    OBVIOUS
  <2>4. Incremented(t) = IntConst(w) /\ IntConst(w).kind = "Int"
    BY <1>2, <2>1, <2>2, <2>3
  <2>5. Promises(Incremented(t), IntConst(w))
    BY <2>4 DEF Promises
  <2> QED
    BY <2>3, <2>5
<1> QED
  BY <1>3, <1>4

LEMMA CastPromised ==
  ASSUME NEW t \in Types, NEW v, Pops(t, "Ref"), Promises(t, v), NEW class
  PROVE  /\ Promises(CastTo(t, class), IF v.kind = "Null" THEN v ELSE RefOf(class))
         /\ CastTo(t, class).kind # "UninitNew"
<1>1. t.kind \in {"Ref", "Null"}
  BY DEF Pops
<1>2. RefOf(class).kind = "Ref" /\ RefOf(class).class = class
  BY DEF RefOf
<1>3. CASE t.kind = "Null"
  <2>1. [t EXCEPT !.class = class].kind = "Null"
    BY <1>3 DEF Types
  <2>2. CastTo(t, class).kind = "Null" /\ v.kind = "Null"
    BY <1>3, <2>1 DEF CastTo, Promises
  <2> QED
    BY <2>2 DEF Promises
<1>4. CASE t.kind = "Ref"
  <2>1. CastTo(t, class) = RefOf(class)
    BY <1>4 DEF CastTo
  <2> QED
    BY <1>2, <2>1 DEF Promises
<1> QED
  BY <1>1, <1>3, <1>4

LEMMA RunDescribes ==
  ASSUME NEW f, IsTyped(f), NEW u, Describes(u, f, locals, stack),
         NEW ins, ins = Instruction, IsInstruction(ins), Fits(f, ins), ins.op # "athrow",
         ins.op = "new" => Absent(f, UninitAt(at, ins.type.class)),
         NEW new, new = Result
  PROVE  Describes(Objects(u, new), Transfer(f, ins, at), Run(new)[1], Run(new)[2])
<1> DEFINE n == Len(stack)
           top == f.stack[n]
           under == f.stack[n - 1]
           vtop == stack[n]
           vunder == stack[n - 1]
           k == Len(f.locals)
           g == Transfer(f, ins, at)
           goal == Describes(Objects(u, new), g, Run(new)[1], Run(new)[2])
<1>1. /\ n \in Nat /\ Len(f.stack) = n /\ k \in Nat /\ IsList(stack) /\ IsList(f.stack)
      /\ DOMAIN f.locals = 1..k /\ DOMAIN locals = 1..k
      /\ \A i \in 1..k : Suits(u, f.locals[i].type, locals[i]) /\ f.locals[i].type \in Types
      /\ \A i \in 1..n : /\ Suits(u, f.stack[i].type, stack[i])
                         /\ f.stack[i].type \in Types /\ Computational(f.stack[i].type)
      /\ f = Frame(f.locals, f.stack) /\ f.ok
      /\ Described(u, f.locals, locals) /\ Described(u, f.stack, stack)
  <2>1. f.ok
    BY DEF IsTyped, Frame
  <2> QED
    BY <2>1, ListDomain DEF IsTyped, Describes, Described, IsList
<1>2. /\ n > 0 => n \in 1..n
      /\ n > 1 => n - 1 \in 1..n
  BY <1>1
<1>3. /\ n > 0 => Suits(u, top.type, vtop) /\ top.type \in Types /\ Computational(top.type)
      /\ n > 1 => Suits(u, under.type, vunder) /\ under.type \in Types /\ Computational(under.type)
  BY <1>1, <1>2
<1>4. ASSUME NEW j \in 0..n, NEW x
      PROVE  Restack(f, j, x) = Frame(f.locals, SubSeq(f.stack, 1, n - j) \o x)
  BY <1>1, FrameUpdates DEF Restack
<1>5. ASSUME NEW w, Describes(w, f, locals, stack), NEW j \in 0..n, NEW x, NEW y, Described(w, x, y)
      PROVE  Describes(w, Restack(f, j, x), locals, SubSeq(stack, 1, n - j) \o y)
  <2>1. Described(w, f.locals, locals) /\ Described(w, f.stack, stack)
    BY <1>5 DEF Describes
  <2>2. Described(w, SubSeq(f.stack, 1, n - j) \o x, SubSeq(stack, 1, n - j) \o y)
    <3> HIDE DEF n
    <3> QED
      BY <1>1, <1>5, <2>1, DescribedStacked DEF n
  <2>3. Restack(f, j, x) = Frame(f.locals, SubSeq(f.stack, 1, n - j) \o x)
    BY <1>4
  <2>4. \A p, q : Frame(p, q).locals = p /\ Frame(p, q).stack = q
    BY DEF Frame
  <2> QED
    BY <2>1, <2>2, <2>3, <2>4 DEF Describes
<1>6. ASSUME NEW j \in 0..n
      PROVE  /\ SubSeq(stack, 1, n - j) \o <<>> = SubSeq(stack, 1, n - j)
             /\ \A v : SubSeq(stack, 1, n - j) \o <<v>> = Append(SubSeq(stack, 1, n - j), v)
             /\ \A v : SubSeq(stack, 1, n - 0) \o <<v>> = Append(stack, v)
  BY <1>1, StackForms
<1>7. /\ 0 \in 0..n
      /\ n > 0 => 1 \in 0..n
      /\ n > 1 => 2 \in 0..n
  BY <1>1
<1>8. /\ ins.op \in Ops /\ ins.type \in Types
      /\ ins.op \in {"const", "invoke"} => Computational(ins.type) /\ ins.type.kind # "UninitNew"
      /\ \A t \in Types : t.kind \in Kinds
  BY DEF IsInstruction, Types
<1>9. ASSUME ins.op \in {"const", "invoke", "new", "iinc", "add", "checkcast"}
      PROVE  IsValue(new) /\ new.type = Computed
  BY <1>9, ResultFacts
<1>10. \A p, q : Cell(p, q).type = p
  BY DEF Cell
<1>11. ASSUME NEW w, Describes(w, f, locals, stack), NEW t, Suits(w, t, new), NEW j \in 0..n
       PROVE  Describes(w, Restack(f, j, <<Cell(t, Def(at))>>), locals, Append(SubSeq(stack, 1, n - j), new))
  <2>1. Described(w, <<Cell(t, Def(at))>>, <<new>>)
    BY <1>10, <1>11, DescribedFew
  <2>2. SubSeq(stack, 1, n - j) \o <<new>> = Append(SubSeq(stack, 1, n - j), new)
    BY <1>6
  <2>3. Describes(w, Restack(f, j, <<Cell(t, Def(at))>>), locals, SubSeq(stack, 1, n - j) \o <<new>>)
    BY <1>5, <1>11, <2>1
  <2> QED
    BY <2>2, <2>3
<1>12. SubSeq(stack, 1, n - 0) = stack
  BY <1>1, <1>7, StackForms
<1>13. ins.op # "new" => Objects(u, new) = u
  BY DEF Objects
<1>14. f.ok /\ Fits(f, ins)
  BY <1>1
<1>20. CASE ins.op \in {"goto", "return"}
  <2>1. g = f /\ Run(new) = <<locals, stack>>
    BY <1>14, <1>20 DEF Transfer, Run
  <2> QED
    BY <1>13, <1>20, <2>1
<1>21. CASE ins.op \in {"const", "invoke"}
  <2>1. g = Restack(f, 0, <<Cell(ins.type, Def(at))>>)
    BY <1>14, <1>21 DEF Transfer
  <2>2. Run(new) = <<locals, Append(stack, new)>>
    BY <1>21 DEF Run
  <2>3. Computed = IF ins.type = T("Int") THEN IntConst(0) ELSE ins.type
    BY <1>21 DEF Computed
  <2>4. Suits(u, ins.type, new)
    BY <1>8, <1>9, <1>21, <2>3, ConstantPromised DEF Suits
  <2>5. Describes(u, g, locals, Append(stack, new))
    BY <1>7, <1>11, <1>12, <2>1, <2>4
  <2> QED
    BY <1>13, <1>21, <2>2, <2>5
<1>22. CASE ins.op = "new"
  <2> DEFINE t == UninitAt(at, ins.type.class)
             w == Objects(u, new)
  <2>1. g = Restack(f, 0, <<Cell(t, Def(at))>>)
    BY <1>14, <1>22 DEF Transfer
  <2>2. Run(new) = <<locals, Append(stack, new)>>
    BY <1>22 DEF Run
  <2>3. Computed = t
    BY <1>22 DEF Computed
  <2>4. w = With(u, t, new)
    BY <1>22 DEF Objects
  <2>5. t.kind = "UninitNew"
    BY DEF UninitAt
  <2> HIDE DEF t, w
  <2>6. t \in DOMAIN w /\ w[t] = new
    BY <2>4 DEF With
  <2>7. Suits(w, t, new)
    BY <1>9, <1>22, <2>3, <2>5, <2>6 DEF Suits, Promises
  <2>8. Describes(w, f, locals, stack)
    <3>1. Absent(f, t)
      BY <1>22 DEF t
    <3>2. Described(With(u, t, new), f.locals, locals)
      BY <1>1, <3>1, ReplacedDescribed DEF Absent
    <3>3. Described(With(u, t, new), f.stack, stack)
      BY <1>1, <3>1, ReplacedDescribed DEF Absent
    <3> QED
      BY <1>1, <2>4, <3>2, <3>3 DEF Describes
  <2>9. Describes(w, g, locals, Append(stack, new))
    BY <1>7, <1>11, <1>12, <2>1, <2>7, <2>8
  <2> QED
    BY <2>2, <2>9 DEF w
<1>23. CASE ins.op = "load"
  <2>1. g = Restack(f, 0, <<f.locals[ins.local]>>)
    BY <1>14, <1>23 DEF Transfer
  <2>2. Run(new) = <<locals, Append(stack, locals[ins.local])>>
    BY <1>23 DEF Run
  <2>3. ins.local \in 1..k
    BY <1>1, <1>14, <1>23 DEF Fits
  <2>4. Described(u, <<f.locals[ins.local]>>, <<locals[ins.local]>>)
    BY <1>1, <2>3, DescribedFew
  <2>5. Describes(u, g, locals, SubSeq(stack, 1, n - 0) \o <<locals[ins.local]>>)
    BY <1>5, <1>7, <2>1, <2>4
  <2>6. Describes(u, g, locals, Append(stack, locals[ins.local]))
    BY <1>6, <1>7, <2>5
  <2> QED
    BY <1>13, <1>23, <2>2, <2>6
<1>24. CASE ins.op = "store"
  <2> DEFINE p == SubSeq(f.stack, 1, n - 1) \o <<>>
             l == Put(f.locals, ins.local, top)
             r == Written(locals, ins.local, vtop)
             q == SubSeq(stack, 1, n - 1)
  <2>1. n > 0
    BY <1>1, <1>14, <1>24 DEF Fits
  <2>2. g = [Restack(f, 1, <<>>) EXCEPT !.locals = Put(@, ins.local, top)]
    BY <1>1, <1>14, <1>24 DEF Transfer
  <2>3. Run(new) = <<r, q>>
    BY <1>24 DEF Run, Written
  <2>4. Restack(f, 1, <<>>) = Frame(f.locals, p)
    BY <1>4, <1>7, <2>1
  <2>5. Described(u, p, q)
    <3>1. Describes(u, Restack(f, 1, <<>>), locals, SubSeq(stack, 1, n - 1) \o <<>>)
      BY <1>5, <1>7, <2>1, DescribedFew
    <3>2. SubSeq(stack, 1, n - 1) \o <<>> = q
      BY <1>6, <1>7, <2>1
    <3>3. Restack(f, 1, <<>>).stack = p
      BY <2>4 DEF Frame
    <3> QED
      BY <3>1, <3>2, <3>3 DEF Describes
  <2>6. g = Frame(l, p)
    <3>1. PICK h : h = Frame(f.locals, p)
      OBVIOUS
    <3>2. h.locals = f.locals /\ h.stack = p
      BY <3>1 DEF Frame
    <3>3. Relocated(h, l) = Frame(l, p)
      <4> HIDE DEF p, l
      <4>1. h = Frame(h.locals, h.stack)
        BY <3>1, <3>2
      <4> QED
        BY <3>2, <4>1, Remaking
    <3>4. g = [h EXCEPT !.locals = Put(@, ins.local, top)]
      BY <2>2, <2>4, <3>1
    <3>5. g = [h EXCEPT !.locals = l]
      <4>1. h = [ok |-> TRUE, locals |-> f.locals, stack |-> p]
        BY <3>1 DEF Frame
      <4> HIDE DEF p, l, g
      <4> QED
        BY <3>4, <4>1 DEF l
    <3> QED
      BY <3>3, <3>5 DEF Relocated
  <2>7. Described(u, l, r)
    BY <1>1, <1>3, <1>8, <2>1, PutDescribed
  <2>8. Describes(u, g, r, q)
    <3> HIDE DEF l, p, r, q, g
    <3> QED
      BY <2>5, <2>6, <2>7 DEF Describes, Frame
  <2> QED
    BY <1>13, <1>24, <2>3, <2>8
<1>25. CASE ins.op = "iinc"
  <2> DEFINE c == f.locals[ins.local]
             l == [f.locals EXCEPT ![ins.local] = Increased(c, at)]
             r == Written(locals, ins.local, new)
  <2>1. ins.local \in 1..k /\ c.type.kind = "Int"
    BY <1>1, <1>14, <1>25 DEF Fits
  <2>2. Run(new) = <<r, stack>>
    BY <1>25 DEF Run, Written
  <2>3. g = Frame(l, f.stack)
    <3>1. g = [f EXCEPT !.locals[ins.local] = Increased(@, at)]
      BY <1>14, <1>25 DEF Transfer
    <3>2. [f EXCEPT !.locals[ins.local] = Increased(@, at)] = Frame(l, f.stack)
      BY <1>1, FrameUpdates
    <3> QED
      BY <3>1, <3>2
  <2>4. Computed = IntConst((locals[ins.local].type.val + 1) % IntSize)
    BY <1>25 DEF Computed
  <2>5. Suits(u, Increased(c, at).type, new) /\ ~IsHead(new.type)
    <3>1. Promises(c.type, locals[ins.local].type)
      BY <1>1, <2>1 DEF Suits
    <3>2. Promises(Incremented(c.type), Computed)
      BY <2>1, <2>4, <3>1, IncrementPromised
    <3>3. Incremented(c.type).kind = "Int" /\ Computed.kind = "Int"
      BY <2>4 DEF Incremented, T, IntConst
    <3>4. Increased(c, at).type = Incremented(c.type)
      BY <1>10 DEF Increased
    <3> HIDE DEF c
    <3> QED
      BY <1>9, <1>25, <3>2, <3>3, <3>4 DEF Suits, IsHead
  <2>6. Described(u, l, r)
    <3> HIDE DEF c
    <3> QED
      BY <1>1, <2>5, IncreasedDescribed
  <2>7. Describes(u, g, r, stack)
    <3> HIDE DEF l, r, g
    <3> QED
      BY <1>1, <2>3, <2>6 DEF Describes, Frame
  <2> QED
    BY <1>13, <1>25, <2>2, <2>7
<1>26. CASE ins.op \in {"pop", "if"}
  <2>1. n > 0
    BY <1>1, <1>14, <1>26 DEF Fits
  <2>2. g = Restack(f, 1, <<>>)
    BY <1>14, <1>26 DEF Transfer
  <2>3. Run(new) = <<locals, SubSeq(stack, 1, n - 1)>>
    BY <1>26 DEF Run
  <2>4. Describes(u, g, locals, SubSeq(stack, 1, n - 1) \o <<>>)
    BY <1>5, <1>7, <2>1, <2>2, DescribedFew
  <2>5. Describes(u, g, locals, SubSeq(stack, 1, n - 1))
    BY <1>6, <1>7, <2>1, <2>4
  <2> QED
    BY <1>13, <1>26, <2>3, <2>5
<1>27. CASE ins.op = "dup"
  <2>1. n > 0
    BY <1>1, <1>14, <1>27 DEF Fits
  <2>2. g = Restack(f, 0, <<top>>)
    BY <1>1, <1>14, <1>27 DEF Transfer
  <2>3. Run(new) = <<locals, Append(stack, vtop)>>
    BY <1>27 DEF Run
  <2>4. Described(u, <<top>>, <<vtop>>)
    BY <1>3, <2>1, DescribedFew
  <2>5. Describes(u, g, locals, SubSeq(stack, 1, n - 0) \o <<vtop>>)
    BY <1>5, <1>7, <2>2, <2>4
  <2>6. Describes(u, g, locals, Append(stack, vtop))
    BY <1>6, <1>7, <2>5
  <2> QED
    BY <1>13, <1>27, <2>3, <2>6
<1>28. CASE ins.op = "swap"
  <2>1. n > 1
    BY <1>1, <1>14, <1>28 DEF Fits
  <2>2. g = Restack(f, 2, <<top, under>>)
    BY <1>1, <1>14, <1>28 DEF Transfer
  <2>3. Run(new) = <<locals, SubSeq(stack, 1, n - 2) \o <<vtop, vunder>>>>
    BY <1>28 DEF Run
  <2>4. Described(u, <<top, under>>, <<vtop, vunder>>)
    <3>1. n > 0
      BY <1>1, <2>1
    <3> QED
      BY <1>3, <2>1, <3>1, DescribedFew
  <2>5. Describes(u, g, locals, SubSeq(stack, 1, n - 2) \o <<vtop, vunder>>)
    BY <1>5, <1>7, <2>1, <2>2, <2>4
  <2> QED
    BY <1>13, <1>28, <2>3, <2>5
<1>29. CASE ins.op = "add"
  <2>1. n > 1
    BY <1>1, <1>14, <1>29 DEF Fits
  <2>2. g = Restack(f, 2, <<Cell(T("Int"), Def(at))>>)
    BY <1>14, <1>29 DEF Transfer
  <2>3. Run(new) = <<locals, Append(SubSeq(stack, 1, n - 2), new)>>
    BY <1>29 DEF Run
  <2>4. Computed.kind = "Int"
    BY <1>29 DEF Computed, IntConst
  <2>5. T("Int").kind = "Int" /\ T("Int").val = NoVal
    BY DEF T
  <2>6. Suits(u, T("Int"), new)
    BY <1>9, <1>29, <2>4, <2>5 DEF Suits, Promises
  <2>7. Describes(u, g, locals, Append(SubSeq(stack, 1, n - 2), new))
    BY <1>7, <1>11, <2>1, <2>2, <2>6
  <2> QED
    BY <1>13, <1>29, <2>3, <2>7
<1>30. CASE ins.op = "checkcast"
  <2>1. n > 0 /\ Pops(top.type, "Ref")
    BY <1>1, <1>14, <1>30 DEF Fits
  <2>2. g = Restack(f, 1, <<Cell(CastTo(top.type, ins.type.class), Def(at))>>)
    BY <1>1, <1>14, <1>30 DEF Transfer
  <2>3. Run(new) = <<locals, Append(SubSeq(stack, 1, n - 1), new)>>
    BY <1>30 DEF Run
  <2>4. Computed = IF vtop.type.kind = "Null" THEN vtop.type ELSE RefOf(ins.type.class)
    BY <1>30 DEF Computed
  <2>5. Suits(u, CastTo(top.type, ins.type.class), new)
    <3>1. top.type \in Types /\ Promises(top.type, vtop.type)
      BY <1>3, <2>1 DEF Suits
    <3> HIDE DEF top, vtop
    <3>2. /\ Promises(CastTo(top.type, ins.type.class), Computed)
          /\ CastTo(top.type, ins.type.class).kind # "UninitNew"
      BY <2>1, <2>4, <3>1, CastPromised
    <3> QED
      BY <1>9, <1>30, <3>2 DEF Suits
  <2>6. Describes(u, g, locals, Append(SubSeq(stack, 1, n - 1), new))
    BY <1>7, <1>11, <2>1, <2>2, <2>5
  <2> QED
    BY <1>13, <1>30, <2>3, <2>6
<1>31. CASE ins.op = "init"
  <2> DEFINE t == top.type
             p == SubSeq(f.stack, 1, n - 1) \o <<>>
             q == SubSeq(stack, 1, n - 1)
             to == RefOf(ins.type.class)
  <2>1. n > 0 /\ t.kind = "UninitNew" /\ t.class = ins.type.class
    BY <1>1, <1>14, <1>31 DEF Fits
  <2>2. Restack(f, 1, <<>>) = Frame(f.locals, p)
    BY <1>4, <1>7, <2>1
  <2>3. g = Frame(Initialised(Restack(f, 1, <<>>).locals, t), Initialised(Restack(f, 1, <<>>).stack, t))
    BY <1>1, <1>14, <1>31 DEF Transfer
  <2>4. g = Frame(Initialised(f.locals, t), Initialised(p, t))
    <3>1. Frame(f.locals, p).locals = f.locals /\ Frame(f.locals, p).stack = p
      BY DEF Frame
    <3> QED
      BY <2>2, <2>3, <3>1
  <2>5. Run(new) = <<Becoming(locals, vtop, to), Becoming(q, vtop, to)>>
    BY <1>31 DEF Run
  <2>6. Described(u, p, q) /\ \A i \in 1..Len(p) : p[i].type.kind \in Kinds
    <3>1. Described(u, p, SubSeq(stack, 1, n - 1) \o <<>>)
      <4>1. Described(u, <<>>, <<>>) /\ 1 \in 0..n
        BY <1>7, <2>1, DescribedFew
      <4> QED
        BY <1>1, <4>1, DescribedStacked
    <3>2. SubSeq(stack, 1, n - 1) \o <<>> = q
      BY <1>6, <1>7, <2>1
    <3>3. Restacked(f.stack, n - 1, <<>>, p)
      <4>1. IsList(<<>>) /\ 1 \in 0..n
        BY <1>7, <2>1 DEF IsList
      <4> QED
        BY <1>1, <4>1, Stacking
    <3> HIDE DEF p
    <3>4. Len(p) = n - 1 /\ \A i \in 1..(n - 1) : p[i] = f.stack[i] /\ i \in 1..n
      <4>1. Len(<<>>) = 0
        OBVIOUS
      <4> QED
        BY <1>1, <3>3, <4>1 DEF Restacked
    <3> QED
      BY <1>1, <1>8, <3>1, <3>2, <3>4
  <2>7. Suits(u, t, vtop) /\ \A i \in 1..k : f.locals[i].type.kind \in Kinds
    BY <1>1, <1>3, <1>8, <2>1
  <2> HIDE DEF t, p, q, top, vtop
  <2>8. Described(u, Initialised(f.locals, t), Becoming(locals, vtop, RefOf(t.class)))
    BY <1>1, <2>1, <2>7, ConstructedDescribed
  <2>9. Described(u, Initialised(p, t), Becoming(q, vtop, RefOf(t.class)))
    BY <2>1, <2>6, <2>7, ConstructedDescribed
  <2>10. Describes(u, g, Becoming(locals, vtop, to), Becoming(q, vtop, to))
    <3>1. \A x, y : Frame(x, y).locals = x /\ Frame(x, y).stack = y
      BY DEF Frame
    <3> HIDE DEF g
    <3> QED
      BY <2>1, <2>4, <2>8, <2>9, <3>1 DEF Describes
  <2> QED
    BY <1>13, <1>31, <2>5, <2>10
<1> QED
  BY <1>8, <1>20, <1>21, <1>22, <1>23, <1>24, <1>25, <1>26, <1>27, <1>28, <1>29, <1>30, <1>31 DEF Ops
-----------------------------------------------------------------------------
(* The invariant of the machine.  u knows every object that a usable cell  *)
(* may hold before its constructor has returned; where a site is about to  *)
(* make an object, no cell is left with the one it made before.            *)
Site(b, i) == UninitAt(<<b, i>>, method.code[b][i].type.class)

Unmade(u) ==
  \A b \in DOMAIN in : \A i \in DOMAIN method.code[b] :
    method.code[b][i].op = "new" /\ Site(b, i) \in DOMAIN u =>
      Absent(Trace(method, b, in[b])[i], Site(b, i))

Ready(a, s, r) ==
  /\ a \in Nat \X Nat
  /\ a[1] \in DOMAIN in /\ a[2] \in 1..(Len(method.code[a[1]]) + 1)
  /\ \E u : Describes(u, Trace(method, a[1], in[a[1]])[a[2]], s, r) /\ Unmade(u)

MachineInv == Running => status = "done" /\ Ready(at, locals, stack)

Solid == SolverInv /\ SoundInv /\ WalkOkInv /\ FlowInv

\* The machine moves, the solution stays.
LEMMA ReadyStays ==
  ASSUME status = "done", UNCHANGED vars, Ready(at', locals', stack')
  PROVE  MachineInv'
<1>1. method' = method /\ in' = in /\ status' = status
  BY DEF vars
<1>2. Ready(at, locals, stack)'
  BY <1>1 DEF Ready, Unmade, Site
<1> QED
  BY <1>1, <1>2 DEF MachineInv

\* What holds of a block that the machine is in.
LEMMA BlockFacts ==
  ASSUME Solid, status = "done", NEW b \in DOMAIN in
  PROVE  /\ WellFormed(method) /\ b \in Blocks(method) /\ b \in Nat
         /\ Runs(method.code[b], b, Trace(method, b, in[b]))
         /\ Trace(method, b, in[b])[1] = in[b]
         /\ \A i \in DOMAIN method.code[b] : IsInstruction(method.code[b][i])
<1>1. WellFormed(method) /\ b \in Blocks(method)
  BY DEF Solid, SolverInv, TypeInv
<1>2. b \in Nat /\ \A i \in DOMAIN method.code[b] : IsInstruction(method.code[b][i])
  BY <1>1 DEF WellFormed, GraphOf, CodeOf, Blocks
<1>3. Runs(method.code[b], b, Trace(method, b, in[b]))
  BY DEF Solid, FlowInv
<1> QED
  BY <1>1, <1>2, <1>3, TraceUnfolds

\* A site that makes an object again is not confused with its last one.
LEMMA UnmadeKept ==
  ASSUME Solid, status = "done", at \in Nat \X Nat, at[1] \in DOMAIN in,
         at[2] \in DOMAIN method.code[at[1]],
         NEW u, Describes(u, Here, locals, stack), Unmade(u), NEW new
  PROVE  /\ Instruction.op = "new" => Absent(Here, UninitAt(at, Instruction.type.class))
         /\ Unmade(Objects(u, new))
<1> DEFINE t == UninitAt(at, Instruction.type.class)
<1>1. at = <<at[1], at[2]>>
  OBVIOUS
<1>2. t = Site(at[1], at[2])
  BY <1>1 DEF Site, Instruction
<1>3. t.kind = "UninitNew" /\ t.val = PC(at)
  BY DEF UninitAt
<1> HIDE DEF t
<1>4. ASSUME Instruction.op = "new" PROVE Absent(Here, t)
  <2>1. CASE t \in DOMAIN u
    BY <1>2, <1>4, <2>1 DEF Unmade, Here, Instruction
  <2>2. CASE t \notin DOMAIN u
    BY <1>3, <2>2 DEF Describes, Described, Suits, Absent
  <2> QED
    BY <2>1, <2>2
<1>5. CASE Instruction.op # "new"
  <2>1. Objects(u, new) = u
    BY <1>5 DEF Objects
  <2> QED
    BY <1>5, <2>1
<1>6. CASE Instruction.op = "new"
  <2>1. DOMAIN Objects(u, new) = DOMAIN u \cup {t}
    BY <1>6 DEF Objects, With, t
  <2>2. ASSUME NEW b \in DOMAIN in, NEW i \in DOMAIN method.code[b],
               method.code[b][i].op = "new", Site(b, i) \in DOMAIN u \cup {t}
        PROVE  Absent(Trace(method, b, in[b])[i], Site(b, i))
    <3>1. CASE Site(b, i) \in DOMAIN u
      BY <2>2, <3>1 DEF Unmade
    <3>2. CASE Site(b, i) = t
      <4>1. <<b, i>> \in Nat \X Nat
        <5>1. b \in Nat /\ Runs(method.code[b], b, Trace(method, b, in[b]))
          BY BlockFacts
        <5>2. i \in 1..Len(method.code[b])
          BY <5>1 DEF Runs
        <5> QED
          BY <5>1, <5>2
      <4>2. PC(<<b, i>>) = PC(at)
        <5>1. Site(b, i).val = PC(<<b, i>>)
          BY DEF Site, UninitAt
        <5> QED
          BY <1>3, <3>2, <5>1
      <4>3. <<b, i>> = at
        BY <4>1, <4>2, OnePC
      <4>4. b = at[1] /\ i = at[2]
        BY <1>1, <4>3
      <4> QED
        BY <1>4, <1>6, <3>2, <4>4 DEF Here
    <3> QED
      BY <2>2, <3>1, <3>2
  <2> HIDE DEF t
  <2> QED
    BY <1>4, <1>6, <2>1, <2>2 DEF Unmade, t
<1> QED
  BY <1>5, <1>6

\* The machine after an instruction that completes.
LEMMA CompletionDescribes ==
  ASSUME Solid, status = "done", Ready(at, locals, stack),
         at[2] \in DOMAIN method.code[at[1]], Instruction.op # "athrow"
  PROVE  \E u : /\ Describes(u, Trace(method, at[1], in[at[1]])[at[2] + 1], Run(Result)[1], Run(Result)[2])
                /\ Unmade(u)
<1> DEFINE b == at[1]
           i == at[2]
           t == Trace(method, b, in[b])
<1>1. PICK u : Describes(u, Here, locals, stack) /\ Unmade(u)
  BY DEF Ready, Here
<1>2. at \in Nat \X Nat /\ b \in DOMAIN in /\ at = <<b, i>> /\ Here = t[i]
  BY DEF Ready, Here
<1>3. Runs(method.code[b], b, t) /\ IsInstruction(Instruction) /\ Instruction = method.code[b][i]
  BY <1>2, BlockFacts DEF Instruction
<1>4. IsTyped(Here) /\ Fits(Here, Instruction) /\ t[i + 1] = Transfer(Here, Instruction, at)
  <2> HIDE DEF b, i, t
  <2>1. i \in 1..Len(method.code[b]) /\ Len(method.code[b]) \in Nat
    BY <1>3 DEF Runs, b, i
  <2>2. i \in 1..(Len(method.code[b]) + 1)
    BY <2>1
  <2> QED
    BY <1>2, <1>3, <2>1, <2>2 DEF Runs
<1>5. PICK new : new = Result
  OBVIOUS
<1>6. /\ Instruction.op = "new" => Absent(Here, UninitAt(at, Instruction.type.class))
      /\ Unmade(Objects(u, new))
  BY <1>1, <1>2, UnmadeKept
<1>7. PICK ins : ins = Instruction
  OBVIOUS
<1>8. Describes(Objects(u, new), Transfer(Here, ins, at), Run(new)[1], Run(new)[2])
  <2>1. PICK f : f = Here
    OBVIOUS
  <2> QED
    BY <1>1, <1>3, <1>4, <1>5, <1>6, <1>7, <2>1, RunDescribes
<1> QED
  BY <1>4, <1>5, <1>6, <1>7, <1>8

\* The machine after an instruction that throws.
LEMMA ThrowDescribes ==
  ASSUME NEW f, IsTyped(f), NEW u, Describes(u, f, locals, stack),
         NEW ins, Fits(f, ins), NEW thrown, IsValue(thrown), thrown.type = RefOf(Throwable)
  PROVE  Describes(u, Exceptional(f, ins, at),
                   IF ins.op = "init" THEN Becoming(locals, stack[Len(stack)], T("Top")) ELSE locals,
                   <<thrown>>)
<1> DEFINE n == Len(stack)
           c == Cell(RefOf(Throwable), Thrown(at))
           t == f.stack[n].type
           lost(x) == ins.op = "init" /\ x = f.stack[Len(f.stack)].type
           l == [i \in DOMAIN f.locals |-> IF lost(f.locals[i].type) THEN Unusable ELSE f.locals[i]]
           d == IF ins.op = "init" THEN Becoming(locals, stack[n], T("Top")) ELSE locals
<1>1. /\ Described(u, f.locals, locals) /\ Described(u, f.stack, stack)
      /\ Len(f.stack) = n /\ n \in Nat
      /\ f.locals = [i \in DOMAIN f.locals |-> f.locals[i]]
      /\ \A i \in 1..Len(f.locals) : f.locals[i].type.kind \in Kinds
  <2>1. \A x \in Types : x.kind \in Kinds
    BY DEF Types
  <2> QED
    BY <2>1, ListDomain DEF Describes, Described, IsList, IsTyped
<1>2. Described(u, <<c>>, <<thrown>>)
  <2>1. c.type = RefOf(Throwable)
    BY DEF Cell
  <2>2. RefOf(Throwable).kind = "Ref" /\ Promises(RefOf(Throwable), RefOf(Throwable))
    BY DEF RefOf, Promises
  <2>3. Suits(u, c.type, thrown)
    BY <2>1, <2>2 DEF Suits
  <2> HIDE DEF c
  <2> QED
    BY <2>3, DescribedFew
<1>3. Described(u, l, d)
  <2>1. CASE ins.op = "init"
    <3>1. n > 0 /\ t.kind = "UninitNew"
      BY <1>1, <2>1 DEF Fits
    <3>2. Suits(u, t, stack[n])
      BY <1>1, <3>1 DEF Described
    <3>3. l = [i \in DOMAIN f.locals |-> IF f.locals[i].type = t THEN Unusable ELSE f.locals[i]]
      BY <1>1, <2>1
    <3> HIDE DEF t
    <3>4. Described(u, [i \in DOMAIN f.locals |-> IF f.locals[i].type = t THEN Unusable ELSE f.locals[i]],
                    Becoming(locals, stack[n], T("Top")))
      <4>1. PICK g, v : g = f.locals /\ v = stack[n]
        OBVIOUS
      <4>2. Described(u, g, locals) /\ (\A i \in 1..Len(g) : g[i].type.kind \in Kinds) /\ Suits(u, t, v)
        BY <1>1, <3>2, <4>1
      <4>3. Described(u, [i \in DOMAIN g |-> IF g[i].type = t THEN Unusable ELSE g[i]],
                      Becoming(locals, v, T("Top")))
        BY <3>1, <4>2, LostDescribed
      <4> QED
        BY <4>1, <4>3
    <3> HIDE DEF l
    <3> QED
      BY <2>1, <3>3, <3>4
  <2>2. CASE ins.op # "init"
    <3>1. l = f.locals
      BY <1>1, <2>2
    <3>2. d = locals
      BY <2>2
    <3> HIDE DEF l, d
    <3> QED
      BY <1>1, <3>1, <3>2
  <2> QED
    BY <2>1, <2>2
<1>4. Exceptional(f, ins, at) = Frame(l, <<c>>)
  BY DEF Exceptional
<1>5. \A p, q : Frame(p, q).locals = p /\ Frame(p, q).stack = q
  BY DEF Frame
<1> HIDE DEF l, c, d
<1>6. Describes(u, Exceptional(f, ins, at), d, <<thrown>>)
  <2>1. /\ Exceptional(f, ins, at).locals = l /\ Exceptional(f, ins, at).stack = <<c>>
        /\ Exceptional(f, ins, at) = Frame(l, <<c>>)
    BY <1>4, <1>5
  <2> QED
    BY <1>2, <1>3, <2>1 DEF Describes
<1> QED
  BY <1>6 DEF d

\* The machine is where an edge that it followed leads.
LEMMA FollowReady ==
  ASSUME Solid, status = "done", NEW e, NEW f, Entered(in, Target(method, e), f),
         NEW s, NEW r, NEW base, Follow(e, s, r, base),
         NEW u, Describes(u, f, s, r), Unmade(u)
  PROVE  MachineInv'
<1> DEFINE b == Target(method, e)
<1>1. b \in DOMAIN in /\ Covers(in[b], f)
  BY DEF Entered
<1>2. at' = <<b, 1>> /\ locals' = s /\ stack' = r /\ UNCHANGED vars
  BY DEF Follow
<1> HIDE DEF b
<1>3. b \in Nat /\ Runs(method.code[b], b, Trace(method, b, in[b])) /\ Trace(method, b, in[b])[1] = in[b]
  BY <1>1, BlockFacts
<1>4. Describes(u, in[b], s, r)
  BY <1>1, DescribesAbove
<1>5. at' \in Nat \X Nat /\ at'[1] = b /\ at'[2] = 1 /\ 1 \in 1..(Len(method.code[b]) + 1)
  BY <1>2, <1>3 DEF Runs
<1>6. Ready(at', locals', stack')
  BY <1>1, <1>2, <1>3, <1>4, <1>5 DEF Ready
<1> QED
  BY <1>2, <1>6, ReadyStays

\* The arguments of the call are what the descriptor says.
Arguments ==
  LET argument(i) ==
        LET t == method.locals[i] IN
        IF t.kind = "Top" THEN Garbage
        ELSE IF IsTail(t) THEN Value(Param(i - 1), 0, method.locals[i - 1])
        ELSE Value(Param(i), 0, IF t.kind = "Int" THEN IntConst(0) ELSE t)
  IN  [i \in DOMAIN method.locals |-> argument(i)]

LEMMA ArgumentsDescribed ==
  ASSUME WellFormed(method), NEW u
  PROVE  Describes(u, EntryFrame(method), Arguments, <<>>)
<1> DEFINE n == Len(method.locals)
           slot(i) == IF IsTail(method.locals[i]) THEN i - 1 ELSE i
           x(i) == IF method.locals[i].kind = "Top" THEN Unusable
                   ELSE Cell(method.locals[i], Param(slot(i)))
           y(i) == IF method.locals[i].kind = "Top" THEN Garbage
                   ELSE IF IsTail(method.locals[i]) THEN Value(Param(i - 1), 0, method.locals[i - 1])
                   ELSE Value(Param(i), 0, IF method.locals[i].kind = "Int" THEN IntConst(0)
                                           ELSE method.locals[i])
<1>1. /\ n \in Nat /\ DOMAIN method.locals = 1..n
      /\ \A i \in 1..n :
           /\ method.locals[i].kind \in Kinds
           /\ IsTail(method.locals[i]) => IsHead(method.locals[i - 1])
           /\ method.locals[i].kind # "UninitNew"
           /\ method.locals[i].kind \in {"Int", "Long"} => method.locals[i].val = NoVal
  <2>1. method.locals \in Seq(Types) /\ \A t \in Types : t.kind \in Kinds
    BY DEF WellFormed, LocalsOf, Types
  <2> QED
    BY <2>1 DEF WellFormed, LocalsOf
<1>2. \A o, k, t : IsValue(Value(o, k, t)) /\ Value(o, k, t).type = t
  BY DEF IsValue, Value
<1>3. \A p, q : Cell(p, q).type = p
  BY DEF Cell
<1>4. ASSUME NEW i \in 1..n PROVE Suits(u, x(i).type, y(i))
  <2> DEFINE t == method.locals[i]
  <2>1. CASE t.kind = "Top"
    <3>1. x(i) = Unusable /\ y(i) = Garbage
      BY <2>1
    <3>2. Unusable.type.kind = "Top"
      BY DEF Unusable, Cell, T
    <3>3. IsValue(Garbage)
      BY <1>2 DEF Garbage
    <3> HIDE DEF x, y, t
    <3>4. Suits(u, Unusable.type, Garbage)
      BY <3>2, <3>3 DEF Suits, Promises
    <3> QED
      BY <3>1, <3>4
  <2>2. CASE IsTail(t)
    <3>1. x(i).type = t /\ t.kind = "LongTail"
      BY <1>3, <2>2 DEF IsTail
    <3>2. IsValue(y(i)) /\ y(i).type = method.locals[i - 1] /\ method.locals[i - 1].kind = "Long"
      BY <1>1, <1>2, <2>2, <3>1 DEF IsHead
    <3>3. t.kind # "Top" /\ t.kind # "UninitNew" /\ Promises(t, method.locals[i - 1])
      BY <3>1, <3>2 DEF Promises
    <3> HIDE DEF x, y, t
    <3> QED
      BY <3>1, <3>2, <3>3 DEF Suits
  <2>3. CASE t.kind # "Top" /\ ~IsTail(t)
    <3>1. /\ x(i).type = t /\ IsValue(y(i))
          /\ y(i).type = IF t.kind = "Int" THEN IntConst(0) ELSE t
      BY <1>2, <1>3, <2>3
    <3>2. t.kind \in {"Int", "Long", "Ref", "Null"}
      BY <1>1, <2>3 DEF IsTail, Kinds
    <3>3. t.kind = "Int" => t.val = NoVal /\ IntConst(0).kind = "Int"
      BY <1>1 DEF IntConst
    <3> HIDE DEF x, y, t
    <3>4. Promises(t, IF t.kind = "Int" THEN IntConst(0) ELSE t)
      <4>1. CASE t.kind = "Int"
        BY <3>3, <4>1 DEF Promises
      <4>2. CASE t.kind # "Int"
        BY <3>2, <4>2 DEF Promises
      <4> QED
        BY <4>1, <4>2
    <3> QED
      BY <3>1, <3>2, <3>4 DEF Suits
  <2> QED
    BY <2>1, <2>2, <2>3
<1>5. EntryFrame(method) = Frame([i \in 1..n |-> x(i)], <<>>)
  BY <1>1 DEF EntryFrame
<1>6. Arguments = [i \in 1..n |-> y(i)]
  BY <1>1 DEF Arguments
<1> HIDE DEF x, y
<1>7. /\ IsMap(n, [i \in 1..n |-> x(i)]) /\ IsMap(n, [i \in 1..n |-> y(i)])
      /\ \A i \in 1..n : [j \in 1..n |-> x(j)][i] = x(i) /\ [j \in 1..n |-> y(j)][i] = y(i)
  BY DEF IsMap
<1>8. Described(u, [i \in 1..n |-> x(i)], [i \in 1..n |-> y(i)])
  BY <1>1, <1>4, <1>7, DescribedMap
<1>9. Described(u, <<>>, <<>>)
  BY DescribedFew
<1>10. \A p, q : Frame(p, q).locals = p /\ Frame(p, q).stack = q
  BY DEF Frame
<1> QED
  BY <1>5, <1>6, <1>8, <1>9, <1>10 DEF Describes

LEMMA CallReady == Solid /\ Call => MachineInv'
<1> SUFFICES ASSUME Solid, Call PROVE MachineInv'
  OBVIOUS
<1>1. PICK u : DOMAIN u = {}
  <2>1. DOMAIN [x \in {} |-> x] = {}
    OBVIOUS
  <2> QED
    BY <2>1
<1>2. status = "done" /\ WellFormed(method)
  BY DEF Call, Solid, SolverInv, TypeInv
<1>3. PICK base : Follow(0, Arguments, <<>>, base)
  BY DEF Call, Arguments
<1>4. Describes(u, EntryFrame(method), Arguments, <<>>)
  BY <1>2, ArgumentsDescribed
<1>5. Entered(in, Target(method, 0), EntryFrame(method))
  BY <1>2 DEF Solid, FlowInv, Target
<1>6. Unmade(u)
  BY <1>1 DEF Unmade
<1>7. PICK s : s = Arguments
  OBVIOUS
<1>8. PICK f : f = EntryFrame(method)
  OBVIOUS
<1> QED
  BY <1>2, <1>3, <1>4, <1>5, <1>6, <1>7, <1>8, FollowReady

LEMMA StepReady == Solid /\ MachineInv /\ Step => MachineInv'
<1> SUFFICES ASSUME Solid, MachineInv, Step PROVE MachineInv'
  OBVIOUS
<1>1. /\ status = "done" /\ Ready(at, locals, stack) /\ Instruction.op # "athrow"
      /\ at[2] < Len(method.code[at[1]]) /\ at' = <<at[1], at[2] + 1>>
      /\ locals' = Run(Result)[1] /\ stack' = Run(Result)[2] /\ UNCHANGED vars
  BY DEF Step, MachineInv
<1>2. /\ at \in Nat \X Nat /\ at[1] \in DOMAIN in
      /\ at[2] \in 1..(Len(method.code[at[1]]) + 1)
  BY <1>1 DEF Ready
<1>3. /\ Len(method.code[at[1]]) \in Nat
      /\ DOMAIN method.code[at[1]] = 1..Len(method.code[at[1]])
  BY <1>1, <1>2, BlockFacts DEF Runs
<1>4. at[2] \in DOMAIN method.code[at[1]] /\ at[2] + 1 \in 1..(Len(method.code[at[1]]) + 1)
  BY <1>1, <1>2, <1>3
<1>5. PICK u : /\ Describes(u, Trace(method, at[1], in[at[1]])[at[2] + 1], locals', stack')
               /\ Unmade(u)
  BY <1>1, <1>4, CompletionDescribes
<1>6. at' \in Nat \X Nat /\ at'[1] = at[1] /\ at'[2] = at[2] + 1
  BY <1>1, <1>2
<1>7. Ready(at', locals', stack')
  BY <1>2, <1>4, <1>5, <1>6 DEF Ready
<1> QED
  BY <1>1, <1>7, ReadyStays

\* The edges that leave the instruction the machine is at.
LEMMA LeaveFacts ==
  ASSUME Solid, status = "done", Ready(at, locals, stack), NEW exc \in BOOLEAN, NEW e \in Leave(exc)
  PROVE  /\ e \in Leaving(method, at[1]) /\ method.edges[e].from = at
         /\ at[2] \in DOMAIN method.code[at[1]] /\ (method.edges[e].exc = exc)
         /\ Entered(in, Target(method, e), Carried(method, e, Trace(method, at[1], in[at[1]])))
<1>1. e \in DOMAIN method.edges /\ method.edges[e].from = at /\ (method.edges[e].exc = exc)
  BY DEF Leave
<1>2. at[1] \in DOMAIN in /\ WellFormed(method)
  BY DEF Ready, Solid, SolverInv, TypeInv
<1>3. e \in Leaving(method, at[1]) /\ at[2] \in DOMAIN method.code[at[1]]
  BY <1>1, <1>2 DEF Leaving, WellFormed, LeavingAt
<1>4. Entered(in, Target(method, e), Carried(method, e, Trace(method, at[1], in[at[1]])))
  BY <1>2, <1>3 DEF Solid, FlowInv
<1> QED
  BY <1>1, <1>3, <1>4

LEMMA BranchReady ==
  ASSUME Solid, MachineInv, NEW e, Branch(e)
  PROVE  MachineInv'
<1>1. /\ status = "done" /\ Ready(at, locals, stack) /\ Instruction.op # "athrow"
      /\ e \in Leave(FALSE) /\ Follow(e, Run(Result)[1], Run(Result)[2], Updated(Result))
  BY DEF Branch, MachineInv
<1>2. /\ method.edges[e].from = at /\ at[2] \in DOMAIN method.code[at[1]] /\ ~method.edges[e].exc
      /\ Entered(in, Target(method, e), Carried(method, e, Trace(method, at[1], in[at[1]])))
  BY <1>1, LeaveFacts
<1>3. Carried(method, e, Trace(method, at[1], in[at[1]])) = Trace(method, at[1], in[at[1]])[at[2] + 1]
  BY <1>2 DEF Carried
<1>4. PICK f : f = Trace(method, at[1], in[at[1]])[at[2] + 1]
  OBVIOUS
<1>5. PICK s : s = Run(Result)[1]
  OBVIOUS
<1>6. PICK r : r = Run(Result)[2]
  OBVIOUS
<1>7. PICK base : base = Updated(Result)
  OBVIOUS
<1>8. PICK u : Describes(u, f, s, r) /\ Unmade(u)
  BY <1>1, <1>2, <1>4, <1>5, <1>6, CompletionDescribes
<1> QED
  BY <1>1, <1>2, <1>3, <1>4, <1>5, <1>6, <1>7, <1>8, FollowReady

LEMMA ThrowReady ==
  ASSUME Solid, MachineInv, NEW e, ThrowTo(e)
  PROVE  MachineInv'
<1>1. PICK thrown : thrown = Fresh(Thrown(at), RefOf(Throwable))
  OBVIOUS
<1>2. PICK ins : ins = Instruction
  OBVIOUS
<1>3. PICK s : s = IF ins.op = "init" THEN Becoming(locals, stack[Len(stack)], T("Top")) ELSE locals
  OBVIOUS
<1>4. /\ status = "done" /\ Ready(at, locals, stack) /\ e \in Leave(TRUE)
      /\ \E base : Follow(e, s, <<thrown>>, base)
  BY <1>1, <1>2, <1>3 DEF ThrowTo, MachineInv
<1>5. PICK base : Follow(e, s, <<thrown>>, base)
  BY <1>4
<1>6. /\ method.edges[e].from = at /\ at[2] \in DOMAIN method.code[at[1]] /\ method.edges[e].exc
      /\ Entered(in, Target(method, e), Carried(method, e, Trace(method, at[1], in[at[1]])))
  BY <1>4, LeaveFacts
<1>7. PICK u : Describes(u, Here, locals, stack) /\ Unmade(u)
  BY <1>4 DEF Ready, Here
<1>8. PICK f : f = Here
  OBVIOUS
<1>9. Carried(method, e, Trace(method, at[1], in[at[1]])) = Exceptional(f, ins, at)
  BY <1>2, <1>6, <1>8 DEF Carried, Here, Instruction
<1>10. IsTyped(f) /\ Fits(f, ins)
  <2>1. at[1] \in DOMAIN in
    BY <1>4 DEF Ready
  <2>2. Runs(method.code[at[1]], at[1], Trace(method, at[1], in[at[1]]))
    BY <1>4, <2>1, BlockFacts
  <2>3. at[2] \in 1..Len(method.code[at[1]]) /\ at[2] \in 1..(Len(method.code[at[1]]) + 1)
    BY <1>6, <2>2 DEF Runs
  <2> QED
    BY <1>2, <1>8, <2>2, <2>3 DEF Runs, Here, Instruction
<1>11. IsValue(thrown) /\ thrown.type = RefOf(Throwable)
  BY <1>1 DEF Fresh, IsValue, Value
<1>12. Describes(u, Exceptional(f, ins, at), s, <<thrown>>)
  BY <1>3, <1>7, <1>8, <1>10, <1>11, ThrowDescribes
<1>13. PICK g : g = Exceptional(f, ins, at)
  OBVIOUS
<1> QED
  BY <1>4, <1>5, <1>6, <1>7, <1>9, <1>12, <1>13, FollowReady

ExecInv == Solid /\ MachineInv

LEMMA ExecInitInv == ExecInit => ExecInv
<1>1. Init => Solid
  BY InitInv, InitSound, InitFlow DEF Solid
<1>2. Idle => MachineInv
  BY DEF Idle, MachineInv, Running
<1> QED
  BY <1>1, <1>2 DEF ExecInit, ExecInv

LEMMA ExecNextInv == ExecInv /\ [ExecNext]_<<vars, machine>> => ExecInv'
<1> SUFFICES ASSUME ExecInv, [ExecNext]_<<vars, machine>> PROVE ExecInv'
  OBVIOUS
<1>1. [Next]_vars => Solid'
  BY NextInv, NextSound, NextFlow DEF ExecInv, Solid
<1>2. CASE Build
  <2>1. [Next]_vars
    BY <1>2 DEF Build, Next
  <2>2. status = "run"
    BY <1>2 DEF Build, Visit, Finish
  <2>3. at = <<0, 0>> /\ at' = at
    BY <1>2, <2>2 DEF ExecInv, MachineInv, Running, Build, machine
  <2>4. MachineInv'
    BY <2>3 DEF MachineInv, Running
  <2> QED
    BY <1>1, <2>1, <2>4 DEF ExecInv
<1>3. CASE Call
  <2>1. UNCHANGED vars
    BY <1>3 DEF Call, Follow
  <2> QED
    BY <1>1, <1>3, <2>1, CallReady DEF ExecInv
<1>4. CASE Step
  <2>1. UNCHANGED vars
    BY <1>4 DEF Step
  <2> QED
    BY <1>1, <1>4, <2>1, StepReady DEF ExecInv
<1>5. ASSUME NEW e, Branch(e) PROVE ExecInv'
  <2>1. UNCHANGED vars
    BY <1>5 DEF Branch, Follow
  <2> QED
    BY <1>1, <1>5, <2>1, BranchReady DEF ExecInv
<1>6. ASSUME NEW e, ThrowTo(e) PROVE ExecInv'
  <2>1. UNCHANGED vars
    BY <1>6 DEF ThrowTo, Follow
  <2> QED
    BY <1>1, <1>6, <2>1, ThrowReady DEF ExecInv
<1>7. CASE UNCHANGED <<vars, machine>>
  <2>1. UNCHANGED vars /\ at' = at /\ locals' = locals /\ stack' = stack
    BY <1>7 DEF machine
  <2>2. MachineInv'
    <3>1. CASE Running
      BY <2>1, <3>1, ReadyStays DEF ExecInv, MachineInv
    <3>2. CASE ~Running
      BY <2>1, <3>2 DEF Running, MachineInv
    <3> QED
      BY <3>1, <3>2
  <2> QED
    BY <1>1, <2>1, <2>2 DEF ExecInv
<1> QED
  BY <1>2, <1>3, <1>4, <1>5, <1>6, <1>7 DEF ExecNext

(* frametransfer and ssabuild: wherever the JVM's control is in a solved   *)
(* method, each local and stack entry holds a value of the type its cell   *)
(* names: the kind, the class, the constant that was folded, the halves of *)
(* a wide value, and whether an object is initialised or lost.             *)
THEOREM FramesDescribe == ExecSpec => []FramesSound
<1>1. ExecInv => FramesSound
  <2> SUFFICES ASSUME ExecInv, Running PROVE FramesSound
    BY DEF FramesSound
  <2>1. PICK u : Describes(u, Here, locals, stack)
    BY DEF ExecInv, MachineInv, Ready, Here
  <2>2. /\ DOMAIN stack = 1..Len(Here.stack) /\ DOMAIN locals = 1..Len(Here.locals)
        /\ \A i \in 1..Len(Here.stack) : Promises(Here.stack[i].type, stack[i].type)
        /\ \A i \in 1..Len(Here.locals) : Promises(Here.locals[i].type, locals[i].type)
    BY <2>1, ListDomain DEF Describes, Described, Suits
  <2> QED
    BY <2>2 DEF FramesSound
<1> QED
  BY ExecInitInv, ExecNextInv, <1>1, PTL DEF ExecSpec
-----------------------------------------------------------------------------
(* The equations of the phis: what simplifyPhiCopies computes, whatever    *)
(* the equations.                                                          *)
System(eqs) == IsFiniteSet(DOMAIN eqs) /\ \A o \in DOMAIN eqs : IsFiniteSet(DOMAIN eqs[o])

LEMMA ImageFinite ==
  ASSUME NEW S, IsFiniteSet(S), NEW f
  PROVE  IsFiniteSet({f[x] : x \in S})
<1> DEFINE R == {f[x] : x \in S}
           g == [x \in S |-> f[x]]
<1>1. g \in Surjection(S, R)
  BY DEF Surjection
<1> HIDE DEF g
<1> QED
  BY <1>1, FS_Surjection

\* One more step along the operands.
Grow(eqs, S) == S \cup ((UNION {Operands(eqs, u) : u \in S}) \cap DOMAIN eqs)
GrowStep(eqs, o, h, k) ==
  IF k = 0 THEN Operands(eqs, o) \cap DOMAIN eqs ELSE Grow(eqs, h[k - 1])
Grown(eqs, o, h) ==
  h = [k \in 0..Cardinality(DOMAIN eqs) |-> GrowStep(eqs, o, h, k)]

LEMMA InputsIsSolution ==
  ASSUME NEW eqs, NEW o
  PROVE  Inputs(eqs, o) = (CHOOSE upto : Grown(eqs, o, upto))[Cardinality(DOMAIN eqs)]
BY Zenon DEF Inputs, Grown, GrowStep, Grow

LEMMA GrownExists ==
  ASSUME NEW eqs, NEW o, Cardinality(DOMAIN eqs) \in Nat
  PROVE  \E h : Grown(eqs, o, h)
<1> DEFINE n == Cardinality(DOMAIN eqs)
           step(h, k) == GrowStep(eqs, o, h, k)
           solved(k) == \E h : h = [j \in 0..k |-> step(h, j)]
           B == {k \in 0..n : ~solved(k)}
<1>1. SUFFICES solved(n)
  BY DEF Grown
<1>2. SUFFICES ASSUME B # {} PROVE FALSE
  OBVIOUS
<1> HIDE DEF n
<1>3. n \in Nat
  BY DEF n
<1>4. PICK k \in B : \A j \in B : k <= j
  <2>1. B \in SUBSET (0..n)
    OBVIOUS
  <2> HIDE DEF B
  <2> QED
    BY <1>2, <1>3, <2>1, LeastUpTo
<1>5. CASE k = 0
  <2> DEFINE h == [j \in 0..0 |-> Operands(eqs, o) \cap DOMAIN eqs]
  <2>1. h = [j \in 0..0 |-> step(h, j)]
    <3>1. \A j \in 0..0 : step(h, j) = Operands(eqs, o) \cap DOMAIN eqs
      BY DEF GrowStep
    <3> HIDE DEF step
    <3> QED
      BY <3>1
  <2>2. solved(0)
    <3> HIDE DEF h, step
    <3> QED
      BY <2>1
  <2> QED
    BY <1>4, <1>5, <2>2
<1>6. CASE k # 0
  <2>1. k \in Nat /\ k - 1 \in 0..n /\ k - 1 \notin B
    <3>1. k \in 0..n
      BY <1>4
    <3>2. k - 1 \in 0..n /\ ~(k <= k - 1)
      BY <1>3, <1>6, <3>1
    <3> HIDE DEF B
    <3> QED
      BY <1>3, <1>4, <3>1, <3>2
  <2>2. PICK h : h = [j \in 0..(k - 1) |-> step(h, j)]
    BY <2>1
  <2> DEFINE g == [j \in 0..k |-> IF j < k THEN h[j] ELSE step(h, k)]
  <2>3. ASSUME NEW j \in 0..k PROVE g[j] = step(g, j)
    <3>1. j \in Nat /\ (j # 0 => j - 1 \in 0..k /\ j - 1 < k)
      BY <2>1
    <3>2. step(g, j) = step(h, j)
      <4>1. j # 0 => g[j - 1] = h[j - 1]
        BY <3>1
      <4> HIDE DEF g
      <4> QED
        BY <4>1 DEF GrowStep
    <3>3. CASE j < k
      <4>1. j \in 0..(k - 1)
        BY <2>1, <3>1, <3>3
      <4>2. h[j] = step(h, j)
        <5> HIDE DEF step
        <5> QED
          BY <2>2, <4>1
      <4>3. g[j] = h[j]
        BY <3>3
      <4> QED
        BY <3>2, <4>2, <4>3
    <3>4. CASE ~(j < k)
      <4>1. j = k
        BY <2>1, <3>1, <3>4
      <4>2. g[j] = step(h, k)
        BY <3>4
      <4> QED
        BY <3>2, <4>1, <4>2
    <3> QED
      BY <3>3, <3>4
  <2>4. g = [j \in 0..k |-> g[j]]
    OBVIOUS
  <2>5. g = [j \in 0..k |-> step(g, j)]
    <3> HIDE DEF g, step
    <3> QED
      BY <2>3, <2>4
  <2>6. solved(k)
    <3> HIDE DEF g, step
    <3> QED
      BY <2>5
  <2> QED
    BY <1>4, <2>6
<1> QED
  BY <1>5, <1>6

LEMMA GrowFacts ==
  ASSUME NEW eqs, NEW S
  PROVE  /\ S \subseteq Grow(eqs, S) /\ Grow(eqs, S) \subseteq S \cup DOMAIN eqs
         /\ \A u \in S : Operands(eqs, u) \cap DOMAIN eqs \subseteq Grow(eqs, S)
<1>1. PICK W : W = UNION {Operands(eqs, u) : u \in S}
  OBVIOUS
<1>2. Grow(eqs, S) = S \cup (W \cap DOMAIN eqs)
  BY <1>1, Zenon DEF Grow
<1>3. \A u \in S : Operands(eqs, u) \subseteq W
  BY <1>1
<1> QED
  BY <1>2, <1>3

LEMMA GrownUnfolds ==
  ASSUME NEW eqs, NEW o, NEW h, Grown(eqs, o, h), Cardinality(DOMAIN eqs) \in Nat
  PROVE  /\ h[0] = Operands(eqs, o) \cap DOMAIN eqs
         /\ \A k \in 1..Cardinality(DOMAIN eqs) : h[k] = Grow(eqs, h[k - 1])
<1> DEFINE n == Cardinality(DOMAIN eqs)
<1>1. h = [k \in 0..n |-> GrowStep(eqs, o, h, k)]
  BY DEF Grown
<1>2. \A k \in 0..n : h[k] = GrowStep(eqs, o, h, k)
  BY <1>1
<1>3. 0 \in 0..n /\ \A k \in 1..n : k \in 0..n /\ k # 0
  OBVIOUS
<1>4. h[0] = GrowStep(eqs, o, h, 0) /\ \A k \in 1..n : h[k] = GrowStep(eqs, o, h, k)
  BY <1>2, <1>3
<1> QED
  BY <1>3, <1>4 DEF GrowStep

\* Each step adds an input or is the last: as many steps as there are phis
\* are enough to have them all.
LEMMA InputsClosed ==
  ASSUME NEW eqs, System(eqs), NEW o
  PROVE  /\ Inputs(eqs, o) \subseteq DOMAIN eqs
         /\ Operands(eqs, o) \cap DOMAIN eqs \subseteq Inputs(eqs, o)
         /\ \A u \in Inputs(eqs, o) : Operands(eqs, u) \cap DOMAIN eqs \subseteq Inputs(eqs, o)
<1> DEFINE D == DOMAIN eqs
           n == Cardinality(D)
           h == CHOOSE upto : Grown(eqs, o, upto)
           closed(k) == Grow(eqs, h[k]) = h[k]
           B == {k \in 0..n : ~(/\ h[k] \subseteq D
                                /\ Operands(eqs, o) \cap D \subseteq h[k]
                                /\ closed(k) \/ Cardinality(h[k]) > k)}
<1>1. n \in Nat /\ IsFiniteSet(D)
  BY FS_CardinalityType DEF System
<1>2. Grown(eqs, o, h)
  BY <1>1, GrownExists
<1>3. Inputs(eqs, o) = h[n]
  BY InputsIsSolution
<1> HIDE DEF h, n
<1>4. h[0] = Operands(eqs, o) \cap D /\ \A k \in 1..n : h[k] = Grow(eqs, h[k - 1])
  BY <1>1, <1>2, GrownUnfolds DEF n
<1>5. ASSUME NEW S, S \subseteq D
      PROVE  IsFiniteSet(S) /\ Cardinality(S) \in Nat /\ Cardinality(S) <= n
  <2> HIDE DEF D
  <2>1. IsFiniteSet(S) /\ Cardinality(S) <= Cardinality(D)
    BY <1>1, <1>5, FS_Subset
  <2> QED
    BY <2>1, FS_CardinalityType DEF n
<1>6. ASSUME NEW S, S \subseteq D
      PROVE  S \subseteq Grow(eqs, S) /\ Grow(eqs, S) \subseteq D
  BY <1>6, GrowFacts
<1> HIDE DEF D
<1>7. B = {}
  <2> SUFFICES ASSUME B # {} PROVE FALSE
    OBVIOUS
  <2>1. PICK k \in B : \A j \in B : k <= j
    <3>1. B \in SUBSET (0..n)
      OBVIOUS
    <3> HIDE DEF B
    <3> QED
      BY <1>1, <3>1, LeastUpTo
  <2>2. CASE k = 0
    <3>1. h[0] \subseteq D /\ Operands(eqs, o) \cap D \subseteq h[0]
      BY <1>4
    <3>2. closed(0) \/ Cardinality(h[0]) > 0
      <4>1. h[0] = {} => closed(0)
        BY DEF Grow
      <4>2. h[0] # {} => Cardinality(h[0]) # 0
        BY <1>5, <3>1, FS_EmptySet
      <4> QED
        BY <1>5, <3>1, <4>1, <4>2
    <3> QED
      BY <2>1, <2>2, <3>1, <3>2
  <2>3. CASE k # 0
    <3>1. PICK j \in 0..n : k = j + 1 /\ j \notin B
      <4>1. k \in 0..n
        BY <2>1
      <4>2. k - 1 \in 0..n /\ ~(k <= k - 1) /\ k = (k - 1) + 1
        BY <1>1, <2>3, <4>1
      <4> HIDE DEF B
      <4> QED
        BY <2>1, <4>2
    <3>2. /\ h[j] \subseteq D
          /\ Operands(eqs, o) \cap D \subseteq h[j]
          /\ closed(j) \/ Cardinality(h[j]) > j
      BY <3>1
    <3>3. h[k] = Grow(eqs, h[j])
      <4>1. k \in 1..n /\ k - 1 = j
        BY <1>1, <2>1, <3>1
      <4> QED
        BY <1>4, <4>1
    <3>4. h[k] \subseteq D /\ h[j] \subseteq h[k]
      BY <1>6, <3>2, <3>3
    <3>5. CASE closed(j)
      BY <2>1, <3>2, <3>3, <3>4, <3>5
    <3>6. CASE ~closed(j)
      <4>1. Cardinality(h[j]) > j
        BY <3>2, <3>6
      <4>2. Cardinality(h[j]) < Cardinality(h[k])
        <5>1. IsFiniteSet(h[k]) /\ h[j] # h[k]
          BY <1>5, <3>3, <3>4, <3>6
        <5>2. Cardinality(h[j]) <= Cardinality(h[k]) /\ Cardinality(h[j]) # Cardinality(h[k])
          BY <3>4, <5>1, FS_Subset
        <5> QED
          BY <1>5, <3>2, <3>4, <5>2
      <4>3. Cardinality(h[k]) > k
        BY <1>5, <3>1, <3>2, <3>4, <4>1, <4>2
      <4> QED
        BY <2>1, <3>2, <3>4, <4>3
    <3> QED
      BY <3>5, <3>6
  <2> QED
    BY <2>2, <2>3
<1>8. /\ h[n] \subseteq D
      /\ Operands(eqs, o) \cap D \subseteq h[n]
      /\ closed(n) \/ Cardinality(h[n]) > n
  <2>1. n \in 0..n
    BY <1>1
  <2> QED
    BY <1>7, <2>1
<1>9. Grow(eqs, h[n]) = h[n]
  <2>1. Cardinality(h[n]) \in Nat /\ Cardinality(h[n]) <= n
    BY <1>5, <1>8
  <2> HIDE DEF closed
  <2>2. closed(n)
    BY <1>1, <1>8, <2>1
  <2> QED
    BY <2>2 DEF closed
<1>10. \A u \in h[n] : Operands(eqs, u) \cap D \subseteq h[n]
  BY <1>9, GrowFacts DEF D
<1> QED
  BY <1>3, <1>8, <1>10 DEF D

\* Inputs is the least such set.
LEMMA InputsLeast ==
  ASSUME NEW eqs, System(eqs), NEW o, NEW R, Operands(eqs, o) \cap DOMAIN eqs \subseteq R,
         \A u \in R : Operands(eqs, u) \cap DOMAIN eqs \subseteq R
  PROVE  Inputs(eqs, o) \subseteq R
<1> DEFINE D == DOMAIN eqs
           n == Cardinality(D)
           h == CHOOSE upto : Grown(eqs, o, upto)
           B == {k \in 0..n : ~(h[k] \subseteq R)}
<1>1. n \in Nat
  BY FS_CardinalityType DEF System
<1>2. Grown(eqs, o, h)
  BY <1>1, GrownExists
<1>3. Inputs(eqs, o) = h[n]
  BY InputsIsSolution
<1> HIDE DEF h, n
<1>4. h[0] = Operands(eqs, o) \cap D /\ \A k \in 1..n : h[k] = Grow(eqs, h[k - 1])
  BY <1>1, <1>2, GrownUnfolds DEF n
<1>5. ASSUME NEW S, S \subseteq R
      PROVE  Grow(eqs, S) \subseteq R
  <2>1. PICK W : W = UNION {Operands(eqs, u) : u \in S}
    OBVIOUS
  <2>2. \A y \in W : \E u \in S : y \in Operands(eqs, u)
    BY <2>1
  <2>3. Grow(eqs, S) = S \cup (W \cap D)
    BY <2>1, Zenon DEF Grow
  <2> QED
    BY <1>5, <2>2, <2>3
<1>6. h[0] \subseteq R
  BY <1>4
<1> HIDE DEF D
<1>7. B = {}
  <2> SUFFICES ASSUME B # {} PROVE FALSE
    OBVIOUS
  <2>1. PICK k \in B : \A j \in B : k <= j
    <3>1. B \in SUBSET (0..n)
      OBVIOUS
    <3> HIDE DEF B
    <3> QED
      BY <1>1, <3>1, LeastUpTo
  <2>2. k # 0
    BY <1>6, <2>1
  <2>3. PICK j \in 0..n : k = j + 1 /\ j \notin B
    <3>1. k \in 0..n
      BY <2>1
    <3>2. k - 1 \in 0..n /\ ~(k <= k - 1) /\ k = (k - 1) + 1
      BY <1>1, <2>2, <3>1
    <3> HIDE DEF B
    <3> QED
      BY <2>1, <3>2
  <2>4. k \in 1..n /\ k - 1 = j
    BY <1>1, <2>1, <2>3
  <2>5. h[k] = Grow(eqs, h[j]) /\ h[j] \subseteq R
    BY <1>4, <2>3, <2>4
  <2> QED
    BY <1>5, <2>1, <2>5
<1>8. n \in 0..n
  BY <1>1
<1> QED
  BY <1>3, <1>7, <1>8

\* Inputs of inputs are inputs, and phis that are inputs of each other have
\* the same.
LEMMA InputsNest ==
  ASSUME NEW eqs, System(eqs), NEW o, NEW x \in Inputs(eqs, o)
  PROVE  Inputs(eqs, x) \subseteq Inputs(eqs, o)
<1>1. \A u \in Inputs(eqs, o) : Operands(eqs, u) \cap DOMAIN eqs \subseteq Inputs(eqs, o)
  BY InputsClosed
<1> QED
  BY <1>1, InputsLeast

LEMMA ComponentFacts ==
  ASSUME NEW eqs, System(eqs), NEW o \in DOMAIN eqs
  PROVE  /\ o \in Component(eqs, o) /\ Component(eqs, o) \subseteq DOMAIN eqs
         /\ \A x \in Component(eqs, o) : External(eqs, x) = External(eqs, o)
<1> DEFINE C(y) == Component(eqs, y)
           I(y) == Inputs(eqs, y)
<1>1. \A y : I(y) \subseteq DOMAIN eqs
  BY InputsClosed
<1>2. \A y, z : z \in I(y) => I(z) \subseteq I(y)
  BY InputsNest
<1>3. o \in C(o) /\ C(o) \subseteq DOMAIN eqs
  BY <1>1 DEF Component
<1>4. ASSUME NEW x \in C(o) PROVE External(eqs, x) = External(eqs, o)
  <2>1. x = o \/ (x \in I(o) /\ o \in I(x))
    BY DEF Component
  <2>2. C(x) = C(o)
    <3>1. ASSUME NEW y PROVE y \in C(x) <=> y \in C(o)
      <4>1. /\ y \in C(x) <=> y = x \/ (y \in I(x) /\ x \in I(y))
            /\ y \in C(o) <=> y = o \/ (y \in I(o) /\ o \in I(y))
        BY DEF Component
      <4> HIDE DEF C, I
      <4> QED
        BY <1>2, <2>1, <4>1
    <3> QED
      BY <3>1, Zenon
  <2> QED
    BY <2>2 DEF External
<1> QED
  BY <1>3, <1>4

LEMMA ExternalMembers ==
  ASSUME NEW eqs, NEW o
  PROVE  \A x : x \in External(eqs, o) <=>
           x \notin Component(eqs, o) /\ \E u \in Component(eqs, o) : x \in Operands(eqs, u)
<1>1. PICK c : c = Component(eqs, o)
  OBVIOUS
<1>2. PICK W : W = UNION {Operands(eqs, u) : u \in c}
  OBVIOUS
<1>3. External(eqs, o) = W \ c
  BY <1>1, <1>2, Zenon DEF External
<1>4. \A y : y \in W <=> \E u \in c : y \in Operands(eqs, u)
  BY <1>2
<1> QED
  BY <1>1, <1>3, <1>4

LEMMA ExternalFinite ==
  ASSUME NEW eqs, System(eqs), NEW o \in DOMAIN eqs
  PROVE  IsFiniteSet(External(eqs, o))
<1>1. PICK c : c = Component(eqs, o)
  OBVIOUS
<1> DEFINE f == [u \in c |-> Operands(eqs, u)]
           W == {f[u] : u \in c}
<1>2. c \subseteq DOMAIN eqs /\ IsFiniteSet(DOMAIN eqs)
  BY <1>1, ComponentFacts DEF System
<1>3. IsFiniteSet(c)
  BY <1>2, FS_Subset
<1>4. IsFiniteSet(W)
  <2> HIDE DEF f
  <2> QED
    BY <1>3, ImageFinite
<1>5. \A u \in c : IsFiniteSet(f[u])
  <2>1. \A u \in c : IsFiniteSet({eqs[u][e] : e \in DOMAIN eqs[u]})
    BY <1>2, ImageFinite DEF System
  <2> QED
    BY <2>1 DEF Operands
<1>6. IsFiniteSet(UNION W)
  <2>1. \A S \in W : IsFiniteSet(S)
    BY <1>5
  <2> HIDE DEF W
  <2> QED
    BY <1>4, <2>1, FS_UNION
<1>7. External(eqs, o) \in SUBSET (UNION W)
  <2>1. ASSUME NEW x \in External(eqs, o) PROVE x \in UNION W
    <3>1. PICK u \in c : x \in Operands(eqs, u)
      BY <1>1, ExternalMembers
    <3>2. f[u] \in W /\ x \in f[u]
      BY <3>1
    <3> HIDE DEF f, W
    <3> QED
      BY <3>2
  <2> HIDE DEF W
  <2> QED
    BY <2>1
<1> QED
  <2> HIDE DEF W
  <2> QED
    BY <1>6, <1>7, FS_Subset

\* How many phis a phi depends on, itself included.
Weight(eqs, o) == Cardinality(Inputs(eqs, o) \cup {o})

\* A value that enters a component comes from fewer phis.
LEMMA ExternalLighter ==
  ASSUME NEW eqs, System(eqs), NEW o \in DOMAIN eqs
  PROVE  /\ Weight(eqs, o) \in 1..Cardinality(DOMAIN eqs)
         /\ \A x \in External(eqs, o) \cap DOMAIN eqs : Weight(eqs, x) < Weight(eqs, o)
<1> DEFINE I(y) == Inputs(eqs, y)
           D == DOMAIN eqs
<1>1. IsFiniteSet(D) /\ Cardinality(D) \in Nat
  BY FS_CardinalityType DEF System
<1>2. ASSUME NEW y \in D
      PROVE  /\ I(y) \cup {y} \subseteq D /\ IsFiniteSet(I(y) \cup {y})
             /\ Weight(eqs, y) \in 1..Cardinality(D)
  <2>1. I(y) \cup {y} \subseteq D
    BY InputsClosed
  <2> HIDE DEF I, D
  <2>2. IsFiniteSet(I(y) \cup {y}) /\ Cardinality(I(y) \cup {y}) <= Cardinality(D)
    BY <1>1, <2>1, FS_Subset
  <2>3. Cardinality(I(y) \cup {y}) \in Nat /\ Cardinality(I(y) \cup {y}) # 0
    BY <2>2, FS_CardinalityType, FS_EmptySet
  <2> QED
    BY <1>1, <2>1, <2>2, <2>3 DEF Weight, I
<1>3. ASSUME NEW x \in External(eqs, o) \cap D
      PROVE  Weight(eqs, x) < Weight(eqs, o)
  <2>1. x \notin Component(eqs, o) /\ \E u \in Component(eqs, o) : x \in Operands(eqs, u)
    BY ExternalMembers
  <2>2. PICK u \in Component(eqs, o) : x \in Operands(eqs, u)
    BY <2>1
  <2>3. u = o \/ u \in I(o)
    BY DEF Component
  <2>4. x \in I(o)
    BY <2>2, <2>3, InputsClosed
  <2>5. I(x) \subseteq I(o)
    BY <2>4, InputsNest
  <2>6. o \notin I(x) /\ x # o
    BY <2>1, <2>4 DEF Component
  <2>7. I(x) \cup {x} \subseteq I(o) \cup {o} /\ I(x) \cup {x} # I(o) \cup {o}
    BY <2>4, <2>5, <2>6
  <2>8. IsFiniteSet(I(o) \cup {o}) /\ Weight(eqs, x) \in Nat /\ Weight(eqs, o) \in Nat
    <3>1. x \in D /\ o \in D
      OBVIOUS
    <3> HIDE DEF I, D
    <3>2. \A k \in 1..Cardinality(D) : k \in Nat
      BY <1>1
    <3>3. /\ IsFiniteSet(I(o) \cup {o})
          /\ Weight(eqs, x) \in 1..Cardinality(D) /\ Weight(eqs, o) \in 1..Cardinality(D)
      BY <1>2, <3>1
    <3> QED
      BY <3>2, <3>3
  <2> HIDE DEF I, D
  <2>9. Cardinality(I(x) \cup {x}) <= Cardinality(I(o) \cup {o}) /\ Cardinality(I(x) \cup {x}) # Cardinality(I(o) \cup {o})
    BY <2>7, <2>8, FS_Subset
  <2> QED
    BY <2>8, <2>9 DEF Weight, I
<1> QED
  BY <1>2, <1>3

\* The representatives are a recursive function on the phis, which unfolds
\* because what enters a component weighs less.
Entering(eqs, c, h, o) == {IF x \in DOMAIN eqs THEN h[x] ELSE x : x \in c[o]}
Sole(ext, o) == IF Cardinality(ext) = 1 THEN CHOOSE x \in ext : TRUE ELSE o
RepStep(eqs, c, h, o) == Sole(Entering(eqs, c, h, o), o)
RepSolved(eqs, c, rep) == rep = [o \in DOMAIN eqs |-> RepStep(eqs, c, rep, o)]

LEMMA RepresentativeIsSolution ==
  ASSUME NEW eqs
  PROVE  Representative(eqs) =
           CHOOSE rep : RepSolved(eqs, [o \in DOMAIN eqs |-> External(eqs, o)], rep)
BY Zenon DEF Representative, RepSolved, RepStep, Entering, Sole

LEMMA RepStepSame ==
  ASSUME NEW eqs, NEW c, NEW o, NEW g, NEW h,
         \A x \in c[o] \cap DOMAIN eqs : g[x] = h[x]
  PROVE  RepStep(eqs, c, g, o) = RepStep(eqs, c, h, o)
<1> DEFINE name(f, x) == IF x \in DOMAIN eqs THEN f[x] ELSE x
<1>1. \A x \in c[o] : name(g, x) = name(h, x)
  OBVIOUS
<1>2. \A f : Entering(eqs, c, f, o) = {name(f, x) : x \in c[o]}
  BY Zenon DEF Entering
<1> HIDE DEF name
<1>3. Entering(eqs, c, g, o) = Entering(eqs, c, h, o)
  BY <1>1, <1>2
<1> QED
  BY <1>3 DEF RepStep

LEMMA RepSolutionExists ==
  ASSUME NEW eqs, System(eqs), NEW c, c = [o \in DOMAIN eqs |-> External(eqs, o)]
  PROVE  \E rep : RepSolved(eqs, c, rep)
<1> DEFINE n == Cardinality(DOMAIN eqs)
           D(k) == {o \in DOMAIN eqs : Weight(eqs, o) <= k}
           step(h, o) == RepStep(eqs, c, h, o)
           solved(k) == \E h : h = [o \in D(k) |-> step(h, o)]
           B == {k \in 0..n : ~solved(k)}
<1>1. n \in Nat
  BY FS_CardinalityType DEF System
<1>2. /\ \A o \in DOMAIN eqs : Weight(eqs, o) \in 1..n
      /\ \A o \in DOMAIN eqs : \A x \in c[o] \cap DOMAIN eqs : Weight(eqs, x) < Weight(eqs, o)
  <2>1. \A o \in DOMAIN eqs : c[o] = External(eqs, o)
    OBVIOUS
  <2> QED
    BY <2>1, ExternalLighter
<1> HIDE DEF n
<1>3. D(n) = DOMAIN eqs
  <2>1. \A k \in 1..n : k <= n
    BY <1>1
  <2> QED
    BY <1>2, <2>1
<1>4. SUFFICES solved(n)
  <2>1. PICK d : d = D(n)
    OBVIOUS
  <2>2. d = DOMAIN eqs
    BY <1>3, <2>1
  <2> HIDE DEF D
  <2>3. solved(n) => \E h : h = [o \in DOMAIN eqs |-> RepStep(eqs, c, h, o)]
    BY <2>1, <2>2
  <2> QED
    BY <2>3 DEF RepSolved
<1>5. SUFFICES ASSUME B # {} PROVE FALSE
  <2>1. n \in 0..n
    BY <1>1
  <2> HIDE DEF solved
  <2> QED
    BY <2>1
<1>6. PICK k \in B : \A j \in B : k <= j
  <2>1. B \in SUBSET (0..n)
    OBVIOUS
  <2> HIDE DEF B
  <2> QED
    BY <1>1, <1>5, <2>1, LeastUpTo
<1>7. CASE k = 0
  <2> DEFINE h == [o \in {} |-> eqs]
  <2>1. D(0) = {}
    BY <1>1, <1>2
  <2> HIDE DEF D, step
  <2>2. h = [o \in D(0) |-> step(h, o)]
    BY <2>1
  <2>3. solved(0)
    BY <2>2
  <2> QED
    BY <1>6, <1>7, <2>3 DEF D, step
<1>8. CASE k # 0
  <2>1. PICK j \in 0..n : k = j + 1 /\ j \notin B
    <3>1. k \in 0..n
      BY <1>6
    <3>2. k - 1 \in 0..n /\ ~(k <= k - 1) /\ k = (k - 1) + 1
      BY <1>1, <1>8, <3>1
    <3> HIDE DEF B
    <3> QED
      BY <1>6, <3>2
  <2>2. PICK h : h = [o \in D(j) |-> step(h, o)]
    BY <2>1
  <2>3. /\ D(j) \subseteq D(k)
        /\ \A o \in D(k) : o \in DOMAIN eqs /\ c[o] \cap DOMAIN eqs \subseteq D(j)
    BY <1>1, <1>2, <2>1
  <2> DEFINE g == [o \in D(k) |-> step(h, o)]
  <2> HIDE DEF D
  <2>4. \A o \in D(j) : g[o] = h[o]
    <3> HIDE DEF step
    <3>1. \A o \in D(j) : h[o] = step(h, o)
      BY <2>2
    <3> QED
      BY <2>3, <3>1
  <2>5. ASSUME NEW o \in D(k) PROVE step(g, o) = step(h, o)
    <3>1. \A x \in c[o] \cap DOMAIN eqs : g[x] = h[x]
      <4> HIDE DEF g
      <4> QED
        BY <2>3, <2>4
    <3> HIDE DEF g
    <3> QED
      BY <3>1, RepStepSame
  <2>6. g = [o \in D(k) |-> step(g, o)]
    <3>1. g = [o \in D(k) |-> step(h, o)]
      OBVIOUS
    <3> HIDE DEF g, step
    <3> QED
      BY <2>5, <3>1
  <2>7. solved(k)
    <3> HIDE DEF g, step
    <3> QED
      BY <2>6
  <2> HIDE DEF solved
  <2> QED
    BY <1>6, <2>7
<1> QED
  BY <1>7, <1>8

\* What replaces a phi: the one value that its component merges, if there is
\* only one once the inputs of the component have been replaced.
LEMMA RepresentativeSole ==
  ASSUME NEW eqs, System(eqs), NEW rep, rep = Representative(eqs)
  PROVE  /\ DOMAIN rep = DOMAIN eqs
         /\ \A o \in DOMAIN eqs : rep[o] = Sole({Name(rep, x) : x \in External(eqs, o)}, o)
<1> DEFINE c == [o \in DOMAIN eqs |-> External(eqs, o)]
<1>1. RepSolved(eqs, c, rep)
  BY RepSolutionExists, RepresentativeIsSolution
<1>2. \A o \in DOMAIN eqs : c[o] = External(eqs, o)
  OBVIOUS
<1> HIDE DEF c
<1>3. DOMAIN rep = DOMAIN eqs /\ \A o \in DOMAIN eqs : rep[o] = RepStep(eqs, c, rep, o)
  BY <1>1 DEF RepSolved
<1>4. ASSUME NEW o \in DOMAIN eqs
      PROVE  rep[o] = Sole({Name(rep, x) : x \in External(eqs, o)}, o)
  <2>1. rep[o] = Sole(Entering(eqs, c, rep, o), o)
    BY <1>3 DEF RepStep
  <2>2. Entering(eqs, c, rep, o) = {Name(rep, x) : x \in External(eqs, o)}
    BY <1>2, <1>3, Zenon DEF Entering, Name
  <2> QED
    BY <2>1, <2>2
<1> QED
  BY <1>3, <1>4

LEMMA EnteringFinite ==
  ASSUME NEW eqs, System(eqs), NEW rep, NEW o \in DOMAIN eqs,
         NEW ext, ext = {Name(rep, x) : x \in External(eqs, o)}
  PROVE  IsFiniteSet(ext)
<1>1. IsFiniteSet(External(eqs, o))
  BY ExternalFinite
<1> DEFINE f == [x \in External(eqs, o) |-> Name(rep, x)]
<1>2. IsFiniteSet({f[x] : x \in External(eqs, o)})
  BY <1>1, ImageFinite
<1>3. {f[x] : x \in External(eqs, o)} = ext
  OBVIOUS
<1> QED
  BY <1>2, <1>3

LEMMA SoleMember ==
  ASSUME NEW ext, IsFiniteSet(ext), Cardinality(ext) = 1, NEW o
  PROVE  ext = {Sole(ext, o)}
<1>1. PICK y : ext = {y}
  BY FS_Singleton
<1>2. Sole(ext, o) = CHOOSE x \in ext : TRUE
  BY DEF Sole
<1>3. (CHOOSE x \in ext : TRUE) \in ext
  BY <1>1
<1> QED
  BY <1>1, <1>2, <1>3

(* simplifyPhiCopies: a phi that is replaced is replaced like all that are *)
(* computed from each other with it, and each value any of them merges has *)
(* got the name that replaces them.                                        *)
LEMMA RepresentativeFacts ==
  ASSUME NEW eqs, System(eqs), NEW rep, rep = Representative(eqs)
  PROVE  /\ DOMAIN rep = DOMAIN eqs
         /\ \A o \in DOMAIN eqs : rep[o] # o =>
              /\ \A x \in External(eqs, o) : Name(rep, x) = rep[o]
              /\ \A x \in Operands(eqs, o) : Name(rep, x) = rep[o]
<1>1. /\ DOMAIN rep = DOMAIN eqs
      /\ \A o \in DOMAIN eqs : rep[o] = Sole({Name(rep, x) : x \in External(eqs, o)}, o)
  BY RepresentativeSole
<1>2. ASSUME NEW o \in DOMAIN eqs, rep[o] # o
      PROVE  /\ \A x \in External(eqs, o) : Name(rep, x) = rep[o]
             /\ \A x \in Operands(eqs, o) : Name(rep, x) = rep[o]
  <2>1. PICK ext : ext = {Name(rep, x) : x \in External(eqs, o)}
    OBVIOUS
  <2>2. rep[o] = Sole(ext, o)
    BY <1>1, <2>1
  <2>3. Cardinality(ext) = 1
    BY <1>2, <2>2 DEF Sole
  <2>4. ext = {rep[o]}
    <3>1. IsFiniteSet(ext)
      BY <2>1, EnteringFinite
    <3> QED
      BY <2>2, <2>3, <3>1, SoleMember
  <2>5. \A x \in External(eqs, o) : Name(rep, x) = rep[o]
    BY <2>1, <2>4
  <2>6. ASSUME NEW x \in Operands(eqs, o), x \notin External(eqs, o)
        PROVE  Name(rep, x) = rep[o]
    <3>1. x \in Component(eqs, o) /\ x \in DOMAIN eqs
      BY <2>6, ComponentFacts, ExternalMembers
    <3>2. External(eqs, x) = External(eqs, o)
      BY <3>1, ComponentFacts
    <3>3. rep[x] = Sole(ext, x)
      BY <1>1, <2>1, <3>1, <3>2
    <3>4. Sole(ext, x) = Sole(ext, o)
      BY <2>3 DEF Sole
    <3> QED
      BY <1>1, <2>2, <3>1, <3>3, <3>4 DEF Name
  <2> QED
    BY <2>5, <2>6
<1> QED
  BY <1>1, <1>2
-----------------------------------------------------------------------------
(* Two walks of a block stay linked if they start so: the relation may     *)
(* grow on the way, by what the instructions define and throw.             *)
Extends(R, b, l) ==
  /\ \A i \in 1..(l + 1) : Link(R[i], Unusable, Unusable)
  /\ \A i \in 1..l : /\ R[i] \subseteq R[i + 1]
                     /\ <<Def(<<b, i>>), Def(<<b, i>>)>> \in R[i + 1]
                     /\ <<Thrown(<<b, i>>), Thrown(<<b, i>>)>> \in R[i + 1]

LEMMA LinkedWider ==
  ASSUME NEW R, NEW Q, R \subseteq Q, NEW f, NEW g, Linked(R, f, g)
  PROVE  Linked(Q, f, g)
BY DEF Linked, LinkedCells, Link

LEMMA WalkLinked ==
  ASSUME NEW code, NEW b, NEW t, Runs(code, b, t), NEW u, Runs(code, b, u),
         \A i \in 1..Len(code) : IsInstruction(code[i]),
         NEW R, Extends(R, b, Len(code)), Linked(R[1], t[1], u[1])
  PROVE  \A i \in 1..(Len(code) + 1) : Linked(R[i], t[i], u[i])
<1> DEFINE l == Len(code)
           B == {k \in 1..(l + 1) : ~Linked(R[k], t[k], u[k])}
<1>1. l \in Nat
  BY DEF Runs
<1>2. \A i \in 1..l : /\ Fits(t[i], code[i])
                      /\ t[i + 1] = Transfer(t[i], code[i], <<b, i>>)
                      /\ u[i + 1] = Transfer(u[i], code[i], <<b, i>>)
  BY DEF Runs
<1>3. ASSUME NEW i \in 1..l, Linked(R[i], t[i], u[i])
      PROVE  Linked(R[i + 1], t[i + 1], u[i + 1])
  <2>1. /\ R[i] \subseteq R[i + 1] /\ <<Def(<<b, i>>), Def(<<b, i>>)>> \in R[i + 1]
        /\ Link(R[i + 1], Unusable, Unusable)
    <3>1. i + 1 \in 1..(l + 1)
      BY <1>1
    <3> QED
      BY <3>1 DEF Extends
  <2>2. Linked(R[i + 1], t[i], u[i])
    BY <1>3, <2>1, LinkedWider
  <2>3. Linked(R[i + 1], Transfer(t[i], code[i], <<b, i>>), Transfer(u[i], code[i], <<b, i>>))
    BY <1>2, <2>1, <2>2, LinkedTransfer
  <2> QED
    BY <1>2, <2>3
<1> HIDE DEF l
<1>4. B = {}
  <2> SUFFICES ASSUME B # {} PROVE FALSE
    OBVIOUS
  <2>1. PICK k \in B : \A j \in B : k <= j
    <3>1. B \in SUBSET (0..(l + 1)) /\ l + 1 \in Nat
      BY <1>1
    <3> HIDE DEF B
    <3> QED
      BY <3>1, LeastUpTo
  <2>2. k # 1
    BY <2>1
  <2>3. PICK i \in 1..l : i + 1 = k
    <3>1. k \in 1..(l + 1)
      BY <2>1
    <3>2. k - 1 \in 1..l /\ (k - 1) + 1 = k
      BY <1>1, <2>2, <3>1
    <3> QED
      BY <3>2
  <2>4. i \in 1..(l + 1) /\ ~(k <= i)
    BY <1>1, <2>3
  <2>5. i \notin B
    <3> HIDE DEF B
    <3> QED
      BY <2>1, <2>4
  <2>6. Linked(R[i], t[i], u[i])
    BY <2>4, <2>5
  <2> QED
    BY <1>3, <2>1, <2>3, <2>6
<1> QED
  BY <1>4 DEF l

\* What the edges of the block carry is linked too.
LEMMA CarriedLinked ==
  ASSUME NEW m, WellFormed(m), NEW b \in Blocks(m), NEW e \in Leaving(m, b),
         NEW t, Runs(m.code[b], b, t), NEW u, Runs(m.code[b], b, u),
         NEW R, Extends(R, b, Len(m.code[b])), Linked(R[1], t[1], u[1])
  PROVE  /\ m.edges[e].from[2] \in 1..Len(m.code[b])
         /\ Linked(R[m.edges[e].from[2] + 1], Carried(m, e, t), Carried(m, e, u))
<1> DEFINE code == m.code[b]
           l == Len(code)
           i == m.edges[e].from[2]
<1>1. e \in DOMAIN m.edges /\ m.edges[e].from[1] = b
  BY DEF Leaving
<1>2. l \in Nat /\ DOMAIN code = 1..l /\ \A j \in 1..l : IsInstruction(code[j])
  BY DEF WellFormed, CodeOf
<1>3. i \in 1..l /\ m.edges[e].from = <<b, i>>
  <2>1. m.edges[e].from \in Nat \X Nat /\ i \in DOMAIN m.code[m.edges[e].from[1]]
    BY <1>1 DEF WellFormed, LeavingAt
  <2> QED
    BY <1>1, <1>2, <2>1
<1>4. \A j \in 1..(l + 1) : Linked(R[j], t[j], u[j])
  BY <1>2, WalkLinked
<1>5. /\ Fits(t[i], code[i]) /\ IsInstruction(code[i])
      /\ i \in 1..(l + 1) /\ i + 1 \in 1..(l + 1)
  <2>1. \A j \in 1..l : Fits(t[j], code[j])
    BY DEF Runs
  <2> HIDE DEF l, i, code
  <2> QED
    BY <1>2, <1>3, <2>1
<1>6. /\ R[i] \subseteq R[i + 1] /\ <<Thrown(<<b, i>>), Thrown(<<b, i>>)>> \in R[i + 1]
      /\ Link(R[i + 1], Unusable, Unusable)
  <2>1. /\ \A j \in 1..(l + 1) : Link(R[j], Unusable, Unusable)
        /\ \A j \in 1..l : R[j] \subseteq R[j + 1] /\ <<Thrown(<<b, j>>), Thrown(<<b, j>>)>> \in R[j + 1]
    BY DEF Extends
  <2> HIDE DEF l, i
  <2> QED
    BY <1>3, <1>5, <2>1
<1> HIDE DEF code, l, i
<1>7. CASE m.edges[e].exc
  <2>1. /\ Carried(m, e, t) = Exceptional(t[i], code[i], <<b, i>>)
        /\ Carried(m, e, u) = Exceptional(u[i], code[i], <<b, i>>)
    BY <1>1, <1>3, <1>7 DEF Carried, code
  <2>2. Linked(R[i + 1], t[i], u[i])
    BY <1>4, <1>5, <1>6, LinkedWider
  <2>3. Linked(R[i + 1], Exceptional(t[i], code[i], <<b, i>>), Exceptional(u[i], code[i], <<b, i>>))
    BY <1>5, <1>6, <2>2, LinkedExceptional
  <2> QED
    BY <1>3, <2>1, <2>3 DEF code, l, i
<1>8. CASE ~m.edges[e].exc
  <2>1. Carried(m, e, t) = t[i + 1] /\ Carried(m, e, u) = u[i + 1]
    BY <1>8 DEF Carried, i
  <2> QED
    BY <1>3, <1>4, <1>5, <2>1 DEF code, l, i
<1> QED
  BY <1>7, <1>8
-----------------------------------------------------------------------------
(* Where the origins in a frame can be from.  Blocks have depths, such     *)
(* that some edge into each block comes from a block less deep; before the *)
(* instruction at <<b, i>> there are parameters, what less deep blocks     *)
(* have, and what b itself has before i.                                   *)
Before(depth, o, d) ==
  \/ o.kind \in {"param", "top"}
  \/ o.at[1] \in DOMAIN depth /\ depth[o.at[1]] < d

Placed(depth, b, i, o) ==
  Before(depth, o, depth[b]) \/ (o.at[1] = b /\ o.at[2] \in 0..(i - 1))

AllPlaced(depth, b, i, f) ==
  /\ \A k \in 1..Len(f.locals) : Placed(depth, b, i, f.locals[k].origin)
  /\ \A k \in 1..Len(f.stack) : Placed(depth, b, i, f.stack[k].origin)

\* The origins that a walk of block b from f can have to do with.
Known(b, l, f) ==
  {f.locals[k].origin : k \in 1..Len(f.locals)} \cup {f.stack[k].origin : k \in 1..Len(f.stack)}
    \cup {Def(<<b, i>>) : i \in 1..l} \cup {Thrown(<<b, i>>) : i \in 1..l} \cup {NoOrigin}

PlacedPairs(depth, b, l, f) ==
  [i \in 1..(l + 1) |-> {<<o, o>> : o \in {x \in Known(b, l, f) : Placed(depth, b, i, x)}}]

LEMMA LinkedPlaced ==
  ASSUME NEW depth, NEW b, NEW i, NEW K, NEW f,
         Linked({<<o, o>> : o \in {x \in K : Placed(depth, b, i, x)}}, f, f)
  PROVE  AllPlaced(depth, b, i, f)
BY DEF Linked, LinkedCells, Link, AllPlaced

LEMMA PlacedExtends ==
  ASSUME NEW l \in Nat, NEW b, NEW depth, NEW f, IsTyped(f), AllPlaced(depth, b, 1, f)
  PROVE  /\ Extends(PlacedPairs(depth, b, l, f), b, l)
         /\ Linked(PlacedPairs(depth, b, l, f)[1], f, f)
<1> DEFINE K == Known(b, l, f)
           R == PlacedPairs(depth, b, l, f)
           here(i) == {x \in K : Placed(depth, b, i, x)}
<1>1. \A i \in 1..(l + 1) : R[i] = {<<o, o>> : o \in here(i)}
  BY DEF PlacedPairs
<1>2. /\ \A k \in 1..Len(f.locals) : f.locals[k].origin \in here(1)
      /\ \A k \in 1..Len(f.stack) : f.stack[k].origin \in here(1)
  BY DEF Known, AllPlaced
<1>3. \A i \in 1..(l + 1) : NoOrigin \in here(i)
  BY DEF Known, Placed, Before, NoOrigin, Origin
<1>4. ASSUME NEW i \in 1..l
      PROVE  /\ here(i) \subseteq here(i + 1)
             /\ Def(<<b, i>>) \in here(i + 1) /\ Thrown(<<b, i>>) \in here(i + 1)
  <2>1. \A j \in 0..(i - 1) : j \in 0..((i + 1) - 1)
    OBVIOUS
  <2>2. i \in 0..((i + 1) - 1)
    OBVIOUS
  <2>3. Def(<<b, i>>).at = <<b, i>> /\ Thrown(<<b, i>>).at = <<b, i>>
    BY DEF Def, Thrown, Origin
  <2>4. Placed(depth, b, i + 1, Def(<<b, i>>)) /\ Placed(depth, b, i + 1, Thrown(<<b, i>>))
    BY <2>2, <2>3 DEF Placed
  <2>5. \A x : Placed(depth, b, i, x) => Placed(depth, b, i + 1, x)
    BY <2>1 DEF Placed
  <2> QED
    BY <2>4, <2>5 DEF Known
<1> HIDE DEF here, R
<1>5. Extends(R, b, l)
  <2>1. \A i \in 1..l : i \in 1..(l + 1) /\ i + 1 \in 1..(l + 1)
    OBVIOUS
  <2>2. \A i \in 1..(l + 1) : Link(R[i], Unusable, Unusable)
    BY <1>1, <1>3 DEF Link, Unusable, Cell
  <2>3. ASSUME NEW i \in 1..l
        PROVE  /\ R[i] \subseteq R[i + 1]
               /\ <<Def(<<b, i>>), Def(<<b, i>>)>> \in R[i + 1]
               /\ <<Thrown(<<b, i>>), Thrown(<<b, i>>)>> \in R[i + 1]
    <3>1. R[i] = {<<o, o>> : o \in here(i)} /\ R[i + 1] = {<<o, o>> : o \in here(i + 1)}
      BY <1>1, <2>1
    <3> QED
      BY <1>4, <3>1
  <2> QED
    BY <2>2, <2>3 DEF Extends
<1>6. Linked(R[1], f, f)
  <2>1. R[1] = {<<o, o>> : o \in here(1)}
    BY <1>1
  <2> QED
    BY <1>2, <2>1 DEF Linked, LinkedCells, Link, IsTyped
<1> QED
  BY <1>5, <1>6 DEF R

\* Each frame of a walk has only what was there before its instruction; and
\* so has what the edges of the block carry.
LEMMA WalkPlaced ==
  ASSUME NEW code, NEW b, NEW t, Runs(code, b, t), \A i \in 1..Len(code) : IsInstruction(code[i]),
         NEW depth, AllPlaced(depth, b, 1, t[1])
  PROVE  \A i \in 1..(Len(code) + 1) : AllPlaced(depth, b, i, t[i])
<1> DEFINE l == Len(code)
           R == PlacedPairs(depth, b, l, t[1])
<1>1. l \in Nat /\ IsTyped(t[1])
  BY DEF Runs
<1>2. Extends(R, b, l) /\ Linked(R[1], t[1], t[1])
  BY <1>1, PlacedExtends
<1> HIDE DEF R
<1>3. \A i \in 1..(l + 1) : Linked(R[i], t[i], t[i])
  BY <1>2, WalkLinked
<1>4. ASSUME NEW i \in 1..(l + 1)
      PROVE  R[i] = {<<o, o>> : o \in {x \in Known(b, l, t[1]) : Placed(depth, b, i, x)}}
  BY DEF R, PlacedPairs
<1> QED
  BY <1>3, <1>4, LinkedPlaced

LEMMA CarriedPlaced ==
  ASSUME NEW m, WellFormed(m), NEW b \in Blocks(m), NEW e \in Leaving(m, b),
         NEW t, Runs(m.code[b], b, t), NEW depth, AllPlaced(depth, b, 1, t[1])
  PROVE  AllPlaced(depth, b, m.edges[e].from[2] + 1, Carried(m, e, t))
<1> DEFINE l == Len(m.code[b])
           i == m.edges[e].from[2]
           R == PlacedPairs(depth, b, l, t[1])
<1>1. l \in Nat /\ IsTyped(t[1])
  BY DEF Runs
<1>2. Extends(R, b, l) /\ Linked(R[1], t[1], t[1])
  BY <1>1, PlacedExtends
<1> HIDE DEF R
<1>3. i \in 1..l /\ Linked(R[i + 1], Carried(m, e, t), Carried(m, e, t))
  BY <1>2, CarriedLinked
<1>4. R[i + 1] = {<<o, o>> : o \in {x \in Known(b, l, t[1]) : Placed(depth, b, i + 1, x)}}
  <2>1. i + 1 \in 1..(l + 1)
    BY <1>1, <1>3
  <2>2. \A j \in 1..(l + 1) : R[j] = {<<o, o>> : o \in {x \in Known(b, l, t[1]) : Placed(depth, b, j, x)}}
    BY DEF R, PlacedPairs
  <2> HIDE DEF i, l
  <2> QED
    BY <2>1, <2>2
<1> QED
  BY <1>3, <1>4, LinkedPlaced
-----------------------------------------------------------------------------
(* What a solved method's frames are named: a block that one edge reaches  *)
(* has the frame of that edge, any other has phis of its own.              *)
PhiNamed(f, b) ==
  /\ \A i \in 1..Len(f.locals) :
       \/ f.locals[i] = Unusable
       \/ /\ f.locals[i].type.kind # "Top"
          /\ f.locals[i].origin = Phi(b, IF IsTail(f.locals[i].type) THEN i - 1 ELSE i)
  /\ \A i \in 1..Len(f.stack) : f.stack[i].origin = Phi(b, Len(f.locals) + i)

LEMMA PhisName ==
  ASSUME NEW n \in Nat, NEW f, Sound(f, n), NEW b
  PROVE  PhiNamed(WithPhis(f, b), b)
<1> DEFINE slot(i) == IF IsTail(f.locals[i].type) THEN i - 1 ELSE i
           x(i) == IF f.locals[i].type.kind = "Top" THEN Unusable
                   ELSE Cell(f.locals[i].type, Phi(b, slot(i)))
           y(i) == Cell(f.stack[i].type, Phi(b, n + i))
           r == [i \in 1..n |-> x(i)]
           s == [i \in 1..Len(f.stack) |-> y(i)]
<1>1. /\ f = Frame(f.locals, f.stack) /\ Len(f.locals) = n /\ Len(f.stack) \in Nat
      /\ DOMAIN f.stack = 1..Len(f.stack)
  BY DEF Sound, IsFrame, IsStack
<1>2. WithPhis(f, b) = [f EXCEPT !.locals = Listed(r), !.stack = Listed(s)]
  BY <1>1 DEF WithPhis, Frame
<1>3. \A p, q : Cell(p, q).type = p /\ Cell(p, q).origin = q
  BY DEF Cell
<1>4. /\ \A i \in 1..n : \/ x(i) = Unusable
                         \/ /\ x(i).type.kind # "Top"
                            /\ x(i).origin = Phi(b, IF IsTail(x(i).type) THEN i - 1 ELSE i)
      /\ \A i \in 1..Len(f.stack) : y(i).origin = Phi(b, n + i)
  BY <1>3
<1> HIDE DEF x, y
<1>5. /\ IsMap(n, r) /\ IsMap(Len(f.stack), s)
      /\ \A i \in 1..n : r[i] = x(i)
      /\ \A i \in 1..Len(f.stack) : s[i] = y(i)
  BY DEF IsMap
<1> HIDE DEF r, s
<1>6. IsList(r) /\ Len(r) = n /\ IsList(s) /\ Len(s) = Len(f.stack)
  BY <1>1, <1>5, ListMade
<1>7. Listed(r) = r /\ Listed(s) = s
  BY <1>6, ListDomain, ListedSequence
<1>8. WithPhis(f, b) = Frame(r, s)
  <2>1. Remade(f, r, s) = Frame(r, s)
    BY <1>1, Remaking
  <2> QED
    BY <1>2, <1>7, <2>1 DEF Remade
<1>9. PhiNamed(Frame(r, s), b)
  <2>1. Frame(r, s).locals = r /\ Frame(r, s).stack = s
    BY DEF Frame
  <2> QED
    BY <1>4, <1>5, <1>6, <2>1 DEF PhiNamed
<1> QED
  BY <1>8, <1>9

LEMMA MergeForms ==
  ASSUME NEW m, WellFormed(m), NEW E, DOMAIN E \subseteq {0} \cup DOMAIN m.edges,
         \A e \in DOMAIN E : Sound(E[e], Len(m.locals)),
         NEW b \in Int, Merge(m, E, b).ok, NEW e \in DOMAIN E, Target(m, e) = b
  PROVE  \/ Merge(m, E, b) = E[e] /\ \A d \in DOMAIN E : Target(m, d) = b => d = e
         \/ PhiNamed(Merge(m, E, b), b)
<1> DEFINE n == Len(m.locals)
           F == Incoming(m, E, b)
           fs == InOrder(m, F)
           S == {F[d] : d \in DOMAIN F}
<1>1. n \in Nat
  BY DEF WellFormed, LocalsOf
<1>2. DOMAIN F \in SUBSET (0..Len(m.edges)) /\ IsFiniteSet(DOMAIN F)
  <2>1. Len(m.edges) \in Nat /\ DOMAIN m.edges = 1..Len(m.edges)
    BY DEF WellFormed, GraphOf
  <2>2. \A k \in Nat : IsFiniteSet(0..k)
    BY FS_Interval
  <2>3. DOMAIN F \in SUBSET (0..Len(m.edges))
    BY <2>1 DEF Incoming
  <2> HIDE DEF F
  <2> QED
    BY <2>1, <2>2, <2>3, FS_Subset
<1>3. /\ \A d \in DOMAIN F : Sound(F[d], n)
      /\ e \in DOMAIN F /\ F[e] = E[e]
      /\ \A d \in DOMAIN E : Target(m, d) = b => d \in DOMAIN F
  BY DEF Incoming
<1>4. Merge(m, E, b) = IF Len(fs) = 1 \/ ~JoinAll(fs).ok THEN JoinAll(fs) ELSE WithPhis(JoinAll(fs), b)
  BY DEF Merge, Joined
<1> HIDE DEF n, F
<1>5. fs \in Seq(S) /\ fs # <<>> /\ Len(fs) = Cardinality(DOMAIN F)
  BY <1>2, <1>3, InOrderFacts
<1>6. PICK k \in DOMAIN fs : fs[k] = E[e]
  BY <1>2, <1>3, InOrderAll
<1>7. \A j \in DOMAIN fs : Sound(fs[j], n)
  <2>1. \A j \in DOMAIN fs : fs[j] \in S
    <3> HIDE DEF fs, S
    <3> QED
      BY <1>5
  <2> QED
    BY <1>3, <2>1
<1> HIDE DEF fs, S
<1>8. JoinAll(fs).ok
  BY <1>4
<1>9. CASE Len(fs) = 1
  <2>1. \A d \in DOMAIN F : d = e
    <3>1. Cardinality(DOMAIN F) = 1
      BY <1>5, <1>9
    <3>2. PICK x : DOMAIN F = {x}
      BY <1>2, <3>1, FS_Singleton
    <3> QED
      BY <1>3, <3>2
  <2>2. JoinAll(fs) = fs[1]
    <3> DEFINE h == CHOOSE upto : upto = JoinStep(fs, upto)
    <3>1. h = JoinStep(fs, h)
      BY <1>5, JoinSolutionExists
    <3>2. JoinAll(fs) = h[Len(fs)]
      BY JoinAllIsSolution
    <3> HIDE DEF h
    <3>3. DOMAIN fs = 1..Len(fs) /\ 1 \in DOMAIN fs
      BY <1>5, <1>9
    <3>4. h[1] = fs[1]
      BY <3>1, <3>3 DEF JoinStep
    <3> QED
      BY <1>9, <3>2, <3>4
  <2>3. k = 1
    <3>1. DOMAIN fs = 1..Len(fs)
      BY <1>5
    <3>2. \A j \in 1..1 : j = 1
      OBVIOUS
    <3> QED
      BY <1>6, <1>9, <3>1, <3>2
  <2>4. Merge(m, E, b) = E[e]
    BY <1>4, <1>6, <1>9, <2>2, <2>3
  <2>5. \A d \in DOMAIN E : Target(m, d) = b => d = e
    BY <1>3, <2>1
  <2> QED
    BY <2>4, <2>5
<1>10. CASE Len(fs) # 1
  <2>1. JoinAll(fs) # Invalid
    BY <1>8 DEF Invalid
  <2>2. Sound(JoinAll(fs), n)
    BY <1>1, <1>5, <1>7, <2>1, JoinAllSound
  <2> QED
    BY <1>1, <1>4, <1>8, <1>10, <2>2, PhisName
<1> QED
  BY <1>9, <1>10
-----------------------------------------------------------------------------
(* The depths: a block that is reached for the first time is deeper than   *)
(* the block whose edge reaches it.                                        *)
Graded(m, D, E, depth) ==
  \A b \in D : \E e \in E :
    Target(m, e) = b /\ (e = 0 \/ (m.edges[e].from[1] \in D /\ depth[m.edges[e].from[1]] < depth[b]))

Deep(m, D, E) == \E k \in Nat : \E depth \in [D -> 0..k] : Graded(m, D, E, depth)

DepthInv == Deep(method, DOMAIN in, DOMAIN edges)

LEMMA InitDepth == Init => DepthInv
<1> SUFFICES ASSUME Init PROVE DepthInv
  OBVIOUS
<1>1. DOMAIN in = {}
  BY DEF Init
<1>2. [b \in {} |-> 0] \in [{} -> 0..0] /\ Graded(method, {}, DOMAIN edges, [b \in {} |-> 0])
  BY DEF Graded
<1>3. 0 \in Nat
  OBVIOUS
<1> QED
  BY <1>1, <1>2, <1>3 DEF DepthInv, Deep

LEMMA DeepGrows ==
  ASSUME NEW m, NEW D, NEW E, Deep(m, D, E), NEW b, NEW e \in E, Target(m, e) = b,
         e = 0 \/ m.edges[e].from[1] \in D, NEW Q, E \subseteq Q
  PROVE  Deep(m, D \cup {b}, Q)
<1>1. PICK k \in Nat : \E depth \in [D -> 0..k] : Graded(m, D, E, depth)
  BY DEF Deep
<1>2. PICK depth \in [D -> 0..k] : Graded(m, D, E, depth)
  BY <1>1
<1> DEFINE next == [c \in D \cup {b} |-> IF c \in D THEN depth[c] ELSE k + 1]
<1>3. next \in [D \cup {b} -> 0..(k + 1)] /\ k + 1 \in Nat
  BY <1>1, <1>2
<1>4. ASSUME NEW c \in D \cup {b}
      PROVE  \E x \in Q : /\ Target(m, x) = c
                          /\ \/ x = 0
                             \/ m.edges[x].from[1] \in D \cup {b} /\ next[m.edges[x].from[1]] < next[c]
  <2>1. CASE c \in D
    <3>1. PICK x \in E : /\ Target(m, x) = c
                         /\ x = 0 \/ (m.edges[x].from[1] \in D /\ depth[m.edges[x].from[1]] < depth[c])
      BY <1>2, <2>1 DEF Graded
    <3>2. m.edges[x].from[1] \in D => next[m.edges[x].from[1]] = depth[m.edges[x].from[1]]
      OBVIOUS
    <3>3. next[c] = depth[c]
      BY <2>1
    <3> HIDE DEF next
    <3> QED
      BY <3>1, <3>2, <3>3
  <2>2. CASE c \notin D
    <3>1. c = b /\ next[b] = k + 1
      BY <2>2
    <3>2. e # 0 => next[m.edges[e].from[1]] < k + 1
      <4>1. e # 0 => depth[m.edges[e].from[1]] \in 0..k /\ next[m.edges[e].from[1]] = depth[m.edges[e].from[1]]
        BY <1>2
      <4> HIDE DEF next
      <4> QED
        BY <1>1, <4>1
    <3> HIDE DEF next
    <3> QED
      BY <3>1, <3>2
  <2> QED
    BY <2>1, <2>2
<1> HIDE DEF next
<1>5. Graded(m, D \cup {b}, Q, next)
  BY <1>4 DEF Graded
<1> QED
  BY <1>3, <1>5 DEF Deep

LEMMA NextDepth == SolverInv /\ DepthInv /\ [Next]_vars => DepthInv'
<1> SUFFICES ASSUME SolverInv, DepthInv, [Next]_vars PROVE DepthInv'
  OBVIOUS
<1>1. ASSUME method' = method, DOMAIN in' = DOMAIN in, DOMAIN edges' = DOMAIN edges
      PROVE  DepthInv'
  BY <1>1 DEF DepthInv
<1>2. CASE OutOfWork \/ Reject \/ UNCHANGED vars
  BY <1>1, <1>2 DEF OutOfWork, Reject, vars
<1>3. CASE Visit
  <2>1. PICK q \in Picks :
          LET b == pending[q]
              rest == RemoveAt(pending, q)
              f == Merge(method, edges, b)
          IN  IF f.ok THEN Skip(b, f, rest) \/ Propagate(b, f, rest) ELSE Reject
    BY <1>3 DEF Visit
  <2>2. status = "run" /\ pending # <<>> /\ q \in DOMAIN pending
    <3>1. status = "run" /\ pending # <<>>
      BY <1>3 DEF Visit
    <3> QED
      BY <3>1 DEF Picks, SolverInv, TypeInv
  <2>3. PICK b : b = pending[q]
    OBVIOUS
  <2>4. PICK f : f = Merge(method, edges, b)
    OBVIOUS
  <2>5. CASE Skip(b, f, RemoveAt(pending, q))
    BY <1>1, <2>5 DEF Skip
  <2>6. CASE Propagate(b, f, RemoveAt(pending, q)) /\ ~Last(Trace(method, b, f)).ok
    BY <1>2, <2>6 DEF Propagate
  <2>7. CASE Propagate(b, f, RemoveAt(pending, q)) /\ Last(Trace(method, b, f)).ok
    <3>1. PICK es : es = Changed(b, Trace(method, b, f))
      OBVIOUS
    <3>2. /\ DOMAIN in' = DOMAIN in \cup {b} /\ DOMAIN edges' = DOMAIN edges \cup es
          /\ method' = method
      BY <2>7, <3>1 DEF Propagate
    <3>3. b \in ToSet(pending)
      BY <2>2, <2>3 DEF ToSet
    <3>4. PICK e \in DOMAIN edges : Target(method, e) = b
      BY <2>2, <3>3 DEF SolverInv, ReachInv
    <3>5. e = 0 \/ method.edges[e].from[1] \in DOMAIN in
      BY <2>2 DEF SolverInv, ReachInv
    <3>6. Deep(method, DOMAIN in \cup {b}, DOMAIN edges \cup es)
      BY <3>4, <3>5, DeepGrows DEF DepthInv
    <3> QED
      BY <3>2, <3>6 DEF DepthInv
  <2> QED
    BY <1>2, <2>1, <2>3, <2>4, <2>5, <2>6, <2>7
<1>4. CASE Finish /\ ~Reject
  <2>1. PICK rep : rep = Representative(Equations)
    OBVIOUS
  <2>2. /\ method' = method
        /\ in' = [b \in DOMAIN in |-> Renamed(in[b], rep)]
        /\ edges' = [e \in DOMAIN edges |-> Renamed(edges[e], rep)]
    BY <1>4, <2>1 DEF Finish
  <2> QED
    BY <1>1, <2>2
<1> QED
  BY <1>2, <1>3, <1>4 DEF Next
-----------------------------------------------------------------------------
(* When the worklist is empty.                                             *)
Converged == SolverInv /\ SoundInv /\ WalkOkInv /\ status = "run" /\ pending = <<>>

LEMMA SameItself ==
  ASSUME NEW n, NEW f, Sound(f, n)
  PROVE  Same(f, f)
<1>1. f = Frame(f.locals, f.stack) /\ IsList(f.locals) /\ IsList(f.stack)
  BY SequenceIsList DEF Sound, IsFrame, IsStack
<1> QED
  BY <1>1 DEF Same, SameCells

LEMMA ConvergedBlocks ==
  ASSUME Converged
  PROVE  /\ WellFormed(method) /\ DOMAIN in \subseteq Blocks(method)
         /\ DOMAIN edges \subseteq {0} \cup DOMAIN method.edges
         /\ 0 \in DOMAIN edges /\ edges[0] = EntryFrame(method)
         /\ \A b \in DOMAIN in :
              /\ Sound(in[b], Len(method.locals)) /\ Last(Trace(method, b, in[b])).ok
              /\ Runs(method.code[b], b, Trace(method, b, in[b]))
              /\ Trace(method, b, in[b])[1] = in[b]
              /\ \A e \in Leaving(method, b) :
                   e \in DOMAIN edges /\ edges[e] = Carried(method, e, Trace(method, b, in[b]))
<1>1. /\ WellFormed(method) /\ DOMAIN in \subseteq Blocks(method)
      /\ DOMAIN edges \subseteq {0} \cup DOMAIN method.edges
  BY DEF Converged, SolverInv, TypeInv
<1>2. 0 \in DOMAIN edges /\ edges[0] = EntryFrame(method)
  BY DEF Converged, SolverInv, ReachInv
<1>3. ASSUME NEW b \in DOMAIN in
      PROVE  /\ Sound(in[b], Len(method.locals)) /\ Last(Trace(method, b, in[b])).ok
             /\ \A e \in Leaving(method, b) :
                  e \in DOMAIN edges /\ edges[e] = Carried(method, e, Trace(method, b, in[b]))
  BY DEF Converged, SoundInv, WalkOkInv, SolverInv, WalkedInv
<1>4. ASSUME NEW b \in DOMAIN in
      PROVE  /\ Runs(method.code[b], b, Trace(method, b, in[b]))
             /\ Trace(method, b, in[b])[1] = in[b]
  <2>1. b \in Blocks(method) /\ Same(in[b], in[b])
    BY <1>1, <1>3, SameItself
  <2> QED
    BY <1>1, <1>3, <2>1, TraceSame, TraceUnfolds
<1> QED
  BY <1>1, <1>2, <1>3, <1>4

LEMMA ConvergedEdges ==
  ASSUME Converged, NEW e \in DOMAIN edges, NEW b, b = Target(method, e)
  PROVE  /\ Sound(edges[e], Len(method.locals))
         /\ e # 0 => method.edges[e].from[1] \in DOMAIN in /\ e \in Leaving(method, method.edges[e].from[1])
         /\ b \in DOMAIN in /\ Covers(in[b], edges[e])
         /\ \/ in[b] = edges[e] /\ \A d \in DOMAIN edges : Target(method, d) = b => d = e
            \/ PhiNamed(in[b], b)
<1>1. /\ WellFormed(method) /\ DOMAIN edges \subseteq {0} \cup DOMAIN method.edges
      /\ \A d \in DOMAIN edges : Sound(edges[d], Len(method.locals))
  BY DEF Converged, SolverInv, TypeInv, SoundInv
<1>2. e # 0 => method.edges[e].from[1] \in DOMAIN in /\ e \in Leaving(method, method.edges[e].from[1])
  BY <1>1 DEF Converged, SolverInv, ReachInv, Leaving
<1>3. b \in Blocks(method) /\ b \in Int
  BY <1>1 DEF WellFormed, GraphOf, Target, Blocks
<1>4. e \in DOMAIN Incoming(method, edges, b)
  BY DEF Incoming
<1>5. SettledAt(b)
  <2>1. ToSet(pending) = {}
    BY DEF Converged, ToSet
  <2> QED
    BY <1>3, <1>4, <2>1, SettledMeaning DEF Converged, SolverInv
<1>6. b \in DOMAIN in /\ in[b] = Merge(method, edges, b) /\ in[b].ok
  <2>1. \A f : IsFrame(f) => f.ok
    BY DEF IsFrame, Frame
  <2> QED
    BY <1>5, <2>1, ConvergedBlocks DEF SettledAt, Sound
<1>7. Covers(Merge(method, edges, b), edges[e])
  BY <1>1, <1>3, <1>6, MergeCovers
<1>8. \/ Merge(method, edges, b) = edges[e] /\ \A d \in DOMAIN edges : Target(method, d) = b => d = e
      \/ PhiNamed(Merge(method, edges, b), b)
  BY <1>1, <1>3, <1>6, MergeForms
<1> QED
  BY <1>1, <1>2, <1>6, <1>7, <1>8

AllBefore(depth, f, d) ==
  /\ \A k \in 1..Len(f.locals) : Before(depth, f.locals[k].origin, d)
  /\ \A k \in 1..Len(f.stack) : Before(depth, f.stack[k].origin, d)

LEMMA EntryBefore ==
  ASSUME NEW m, WellFormed(m), NEW depth, NEW d
  PROVE  AllBefore(depth, EntryFrame(m), d)
<1>1. m.locals \in Seq(Types)
  BY DEF WellFormed, LocalsOf
<1> DEFINE slot(i) == IF IsTail(m.locals[i]) THEN i - 1 ELSE i
           c(i) == IF m.locals[i].kind = "Top" THEN Unusable ELSE Cell(m.locals[i], Param(slot(i)))
           l == [i \in DOMAIN m.locals |-> c(i)]
<1>2. EntryFrame(m).locals = l /\ EntryFrame(m).stack = <<>>
  BY DEF EntryFrame, Frame
<1>3. \A i : c(i).origin.kind \in {"param", "top"}
  BY DEF Unusable, Cell, Param, NoOrigin, Origin
<1> HIDE DEF c
<1>4. \A i \in 1..Len(l) : l[i] = c(i)
  BY <1>1
<1> HIDE DEF l
<1>5. Len(<<>>) = 0
  OBVIOUS
<1> QED
  BY <1>2, <1>3, <1>4, <1>5 DEF AllBefore, Before

\* What is there at the end of a block is there before a deeper one.
LEMMA DeeperBefore ==
  ASSUME NEW k \in Nat, NEW D, NEW depth \in [D -> 0..k], NEW b \in D, NEW i, NEW f,
         AllPlaced(depth, b, i, f), NEW d \in Int, depth[b] < d
  PROVE  AllBefore(depth, f, d)
<1>1. \A o : Placed(depth, b, i, o) => Before(depth, o, d)
  <2> SUFFICES ASSUME NEW o, Placed(depth, b, i, o) PROVE Before(depth, o, d)
    OBVIOUS
  <2>1. DOMAIN depth = D /\ depth[b] \in Int /\ \A c \in D : depth[c] \in Int
    OBVIOUS
  <2> QED
    BY <2>1 DEF Placed, Before
<1> QED
  BY <1>1 DEF AllPlaced, AllBefore

LEMMA EdgeBefore ==
  ASSUME Converged, NEW k \in Nat, NEW depth \in [DOMAIN in -> 0..k], NEW e \in DOMAIN edges, NEW d \in Int,
         e # 0 => /\ AllPlaced(depth, method.edges[e].from[1], 1, in[method.edges[e].from[1]])
                  /\ depth[method.edges[e].from[1]] < d
  PROVE  AllBefore(depth, edges[e], d)
<1>1. CASE e = 0
  BY <1>1, EntryBefore, ConvergedBlocks
<1>2. CASE e # 0
  <2>1. PICK a : a = method.edges[e].from[1]
    OBVIOUS
  <2>2. a \in DOMAIN in /\ e \in Leaving(method, a)
    BY <1>2, <2>1, ConvergedEdges
  <2>3. /\ a \in Blocks(method) /\ WellFormed(method)
        /\ Runs(method.code[a], a, Trace(method, a, in[a]))
        /\ Trace(method, a, in[a])[1] = in[a]
        /\ edges[e] = Carried(method, e, Trace(method, a, in[a]))
    BY <2>2, ConvergedBlocks
  <2>4. AllPlaced(depth, a, method.edges[e].from[2] + 1, edges[e])
    BY <1>2, <2>1, <2>2, <2>3, CarriedPlaced
  <2> QED
    BY <1>2, <2>1, <2>2, <2>4, DeeperBefore
<1> QED
  BY <1>1, <1>2

LEMMA PhisPlaced ==
  ASSUME NEW depth, NEW b, NEW f, PhiNamed(f, b)
  PROVE  AllPlaced(depth, b, 1, f)
<1>1. \A s : Placed(depth, b, 1, Phi(b, s))
  BY DEF Placed, Phi, Origin
<1>2. Placed(depth, b, 1, Unusable.origin)
  BY DEF Placed, Before, Unusable, Cell, NoOrigin, Origin
<1> QED
  BY <1>1, <1>2 DEF PhiNamed, AllPlaced

\* Before a block there are its own phis and what is from less deep blocks.
LEMMA Aging ==
  ASSUME Converged, NEW k \in Nat, NEW depth \in [DOMAIN in -> 0..k],
         Graded(method, DOMAIN in, DOMAIN edges, depth)
  PROVE  \A b \in DOMAIN in : AllPlaced(depth, b, 1, in[b])
<1> DEFINE B == {r \in 0..k : \E b \in DOMAIN in : depth[b] = r /\ ~AllPlaced(depth, b, 1, in[b])}
<1>1. SUFFICES ASSUME B # {} PROVE FALSE
  OBVIOUS
<1>2. PICK r \in B : \A j \in B : r <= j
  <2>1. B \in SUBSET (0..k)
    OBVIOUS
  <2> HIDE DEF B
  <2> QED
    BY <1>1, <2>1, LeastUpTo
<1>3. PICK b \in DOMAIN in : depth[b] = r /\ ~AllPlaced(depth, b, 1, in[b])
  BY <1>2
<1>4. ASSUME NEW c \in DOMAIN in, depth[c] < r PROVE AllPlaced(depth, c, 1, in[c])
  <2>1. depth[c] \in 0..k /\ ~(r <= depth[c])
    BY <1>2, <1>4
  <2> HIDE DEF B
  <2>2. depth[c] \notin B
    BY <1>2, <2>1
  <2> QED
    BY <2>1, <2>2 DEF B
<1>5. PICK e \in DOMAIN edges :
        /\ Target(method, e) = b
        /\ e = 0 \/ (method.edges[e].from[1] \in DOMAIN in /\ depth[method.edges[e].from[1]] < depth[b])
  BY DEF Graded
<1>6. AllBefore(depth, edges[e], depth[b])
  <2>1. depth[b] \in Int
    BY <1>2, <1>3
  <2> QED
    BY <1>3, <1>4, <1>5, <2>1, EdgeBefore
<1>7. in[b] = edges[e] \/ PhiNamed(in[b], b)
  BY <1>5, ConvergedEdges
<1>8. in[b] = edges[e] => AllPlaced(depth, b, 1, in[b])
  BY <1>6 DEF AllBefore, AllPlaced, Placed
<1> QED
  BY <1>3, <1>7, <1>8, PhisPlaced
-----------------------------------------------------------------------------
(* The equations that the frames of a converged method give the phis.      *)
LEMMA CellsFacts ==
  ASSUME NEW f, IsFrame(f)
  PROVE  /\ Len(f.locals) \in Nat /\ Len(f.stack) \in Nat
         /\ DOMAIN Cells(f) = 1..(Len(f.locals) + Len(f.stack))
         /\ \A i \in 1..Len(f.locals) : i \in DOMAIN Cells(f) /\ Cells(f)[i] = f.locals[i]
         /\ \A i \in 1..Len(f.stack) :
              Len(f.locals) + i \in DOMAIN Cells(f) /\ Cells(f)[Len(f.locals) + i] = f.stack[i]
         /\ \A j \in DOMAIN Cells(f) :
              j \in 1..Len(f.locals) \/ \E i \in 1..Len(f.stack) : j = Len(f.locals) + i
<1> DEFINE n == Len(f.locals)
           k == Len(f.stack)
<1>1. f.locals \in Seq(CellSet) /\ f.stack \in Seq(CellSet)
  BY DEF IsFrame, IsStack
<1>2. n \in Nat /\ k \in Nat
  BY <1>1
<1>3. PICK s, r : s = f.locals /\ r = f.stack
  OBVIOUS
<1>4. s \in Seq(CellSet) /\ r \in Seq(CellSet) /\ Len(s) = n /\ Len(r) = k /\ Cells(f) = s \o r
  BY <1>1, <1>3 DEF Cells
<1> HIDE DEF n, k
<1>5. /\ DOMAIN (s \o r) = 1..(n + k)
      /\ \A j \in 1..(n + k) : (s \o r)[j] = IF j <= n THEN s[j] ELSE r[j - n]
  BY <1>4
<1>6. \A i \in 1..n : i \in 1..(n + k) /\ i <= n
  BY <1>2
<1>7. \A i \in 1..k : n + i \in 1..(n + k) /\ ~(n + i <= n) /\ (n + i) - n = i
  BY <1>2
<1>8. \A j \in 1..(n + k) : j \in 1..n \/ (j - n \in 1..k /\ j = n + (j - n))
  BY <1>2
<1>9. \A i \in 1..n : (s \o r)[i] = s[i]
  BY <1>5, <1>6
<1>10. \A i \in 1..k : (s \o r)[n + i] = r[i]
  BY <1>5, <1>7
<1>11. \A j \in 1..(n + k) : j \in 1..n \/ \E i \in 1..k : j = n + i
  BY <1>8
<1>12. /\ n \in Nat /\ k \in Nat /\ DOMAIN Cells(f) = 1..(n + k)
       /\ \A i \in 1..n : i \in DOMAIN Cells(f) /\ Cells(f)[i] = s[i]
       /\ \A i \in 1..k : n + i \in DOMAIN Cells(f) /\ Cells(f)[n + i] = r[i]
       /\ \A j \in DOMAIN Cells(f) : j \in 1..n \/ \E i \in 1..k : j = n + i
  BY <1>2, <1>4, <1>5, <1>6, <1>7, <1>9, <1>10, <1>11
<1> QED
  BY <1>3, <1>12 DEF n, k

LEMMA CellsBefore ==
  ASSUME NEW depth, NEW d, NEW f, IsFrame(f), AllBefore(depth, f, d), NEW s \in DOMAIN Cells(f)
  PROVE  Before(depth, Cells(f)[s].origin, d)
<1>1. CASE s \in 1..Len(f.locals)
  <2>1. Cells(f)[s] = f.locals[s] /\ Before(depth, f.locals[s].origin, d)
    BY <1>1, CellsFacts DEF AllBefore
  <2> QED
    BY <2>1
<1>2. ASSUME NEW i \in 1..Len(f.stack), s = Len(f.locals) + i
      PROVE  Before(depth, Cells(f)[s].origin, d)
  <2>1. Cells(f)[s] = f.stack[i] /\ Before(depth, f.stack[i].origin, d)
    BY <1>2, CellsFacts DEF AllBefore
  <2> QED
    BY <2>1
<1>3. s \in 1..Len(f.locals) \/ \E i \in 1..Len(f.stack) : s = Len(f.locals) + i
  BY CellsFacts
<1> QED
  BY <1>1, <1>2, <1>3

LEMMA CoveredCells ==
  ASSUME NEW f, IsFrame(f), NEW g, IsFrame(g), Covers(g, f)
  PROVE  /\ Len(f.locals) = Len(g.locals) /\ Len(f.stack) = Len(g.stack)
         /\ DOMAIN Cells(f) = DOMAIN Cells(g)
<1>1. Len(f.locals) = Len(g.locals) /\ Len(f.stack) = Len(g.stack)
  BY DEF Covers, BelowCells
<1> QED
  BY <1>1, CellsFacts

\* The phis that head a value of block b.
Heads(b) ==
  {Cells(in[b])[s].origin : s \in {s \in DOMAIN Cells(in[b]) : Cells(in[b])[s].origin = Phi(b, s)}}

LEMMA EquationsFacts ==
  ASSUME Converged, NEW eqs, eqs = Equations
  PROVE  /\ System(eqs)
         /\ \A o : o \in DOMAIN eqs <=>
              \E b \in DOMAIN in : \E s \in DOMAIN Cells(in[b]) :
                o = Phi(b, s) /\ Cells(in[b])[s].origin = o
         /\ \A o \in DOMAIN eqs : \A e :
              e \in DOMAIN eqs[o] <=> e \in DOMAIN edges /\ Target(method, e) = o.at[1]
         /\ \A o \in DOMAIN eqs : \A e \in DOMAIN eqs[o] :
              eqs[o][e] = Cells(edges[e])[o.slot].origin
<1> DEFINE heads == UNION {Heads(b) : b \in DOMAIN in}
           row(o) == [e \in DOMAIN Incoming(method, edges, o.at[1]) |-> Cells(edges[e])[o.slot].origin]
<1>1. eqs = [o \in heads |-> row(o)]
  BY Zenon DEF Equations, Heads
<1>2. \A o : o \in heads <=> \E b \in DOMAIN in : o \in Heads(b)
  <2> HIDE DEF Heads
  <2> QED
    OBVIOUS
<1>3. \A b, o : o \in Heads(b) <=> \E s \in DOMAIN Cells(in[b]) : o = Phi(b, s) /\ Cells(in[b])[s].origin = o
  BY DEF Heads
<1>4. ASSUME NEW o, NEW e
      PROVE  /\ e \in DOMAIN row(o) <=> e \in DOMAIN edges /\ Target(method, e) = o.at[1]
             /\ e \in DOMAIN row(o) => row(o)[e] = Cells(edges[e])[o.slot].origin
  BY DEF Incoming
<1>5. \A b \in DOMAIN in : IsFiniteSet(Heads(b))
  <2> SUFFICES ASSUME NEW b \in DOMAIN in PROVE IsFiniteSet(Heads(b))
    OBVIOUS
  <2>1. IsFrame(in[b])
    BY ConvergedBlocks DEF Sound
  <2>2. IsFiniteSet(DOMAIN Cells(in[b]))
    <3>1. \A j \in Int : IsFiniteSet(1..j)
      BY FS_Interval
    <3>2. Len(in[b].locals) + Len(in[b].stack) \in Int
      BY <2>1, CellsFacts
    <3> QED
      BY <2>1, <3>1, <3>2, CellsFacts
  <2> DEFINE f == [s \in DOMAIN Cells(in[b]) |-> Cells(in[b])[s].origin]
  <2>3. IsFiniteSet({f[s] : s \in DOMAIN Cells(in[b])})
    BY <2>2, ImageFinite
  <2>4. Heads(b) \in SUBSET {f[s] : s \in DOMAIN Cells(in[b])}
    BY DEF Heads
  <2> QED
    BY <2>3, <2>4, FS_Subset
<1>6. IsFiniteSet(DOMAIN in) /\ IsFiniteSet(DOMAIN edges)
  <2>1. /\ DOMAIN in \subseteq DOMAIN method.code /\ DOMAIN edges \subseteq {0} \cup DOMAIN method.edges
        /\ Len(method.code) \in Nat /\ DOMAIN method.code = 1..Len(method.code)
        /\ Len(method.edges) \in Nat /\ DOMAIN method.edges = 1..Len(method.edges)
    BY ConvergedBlocks DEF WellFormed, GraphOf, Blocks
  <2>2. DOMAIN in \in SUBSET (0..Len(method.code)) /\ DOMAIN edges \in SUBSET (0..Len(method.edges))
    BY <2>1
  <2>3. \A k \in Nat : IsFiniteSet(0..k)
    BY FS_Interval
  <2> QED
    BY <2>1, <2>2, <2>3, FS_Subset
<1>7. IsFiniteSet(heads)
  <2> DEFINE f == [b \in DOMAIN in |-> Heads(b)]
             W == {f[b] : b \in DOMAIN in}
  <2>1. IsFiniteSet(W)
    <3> HIDE DEF f
    <3> QED
      BY <1>6, ImageFinite
  <2>2. \A S \in W : IsFiniteSet(S)
    BY <1>5
  <2>3. W = {Heads(b) : b \in DOMAIN in}
    <3> HIDE DEF Heads
    <3> QED
      OBVIOUS
  <2> HIDE DEF W
  <2>4. IsFiniteSet(UNION W)
    BY <2>1, <2>2, FS_UNION
  <2> QED
    BY <2>3, <2>4, Zenon
<1> HIDE DEF heads, row
<1>8. DOMAIN eqs = heads /\ \A o \in heads : eqs[o] = row(o)
  BY <1>1
<1>9. ASSUME NEW o \in DOMAIN eqs PROVE IsFiniteSet(DOMAIN eqs[o])
  <2>1. DOMAIN eqs[o] \in SUBSET DOMAIN edges
    BY <1>4, <1>8
  <2> QED
    BY <1>6, <2>1, FS_Subset
<1>10. System(eqs)
  BY <1>7, <1>8, <1>9 DEF System
<1> QED
  BY <1>2, <1>3, <1>4, <1>8, <1>10
\* The phis of a converged method are of blocks that are reached.
LEMMA PhiParts ==
  \A b, s : Phi(b, s).kind = "phi" /\ Phi(b, s).at = <<b, 0>> /\ Phi(b, s).at[1] = b /\ Phi(b, s).slot = s
BY DEF Phi, Origin

\* One operand of each phi is from a less deep block than the phi.
LEMMA LowOperand ==
  ASSUME Converged, NEW eqs, eqs = Equations,
         NEW k \in Nat, NEW depth \in [DOMAIN in -> 0..k], Graded(method, DOMAIN in, DOMAIN edges, depth),
         NEW o \in DOMAIN eqs
  PROVE  /\ o.kind = "phi" /\ o.at[1] \in DOMAIN in
         /\ \E y \in Operands(eqs, o) : Before(depth, y, depth[o.at[1]])
<1>1. PICK b \in DOMAIN in : \E s \in DOMAIN Cells(in[b]) : o = Phi(b, s)
  BY EquationsFacts
<1>2. PICK s \in DOMAIN Cells(in[b]) : o = Phi(b, s)
  BY <1>1
<1>3. o.kind = "phi" /\ o.at[1] = b /\ o.slot = s
  BY <1>2, PhiParts
<1>4. PICK e \in DOMAIN edges :
        /\ Target(method, e) = b
        /\ e = 0 \/ (method.edges[e].from[1] \in DOMAIN in /\ depth[method.edges[e].from[1]] < depth[b])
  BY DEF Graded
<1>5. depth[b] \in Int
  OBVIOUS
<1>6. AllBefore(depth, edges[e], depth[b])
  <2>1. e # 0 => /\ AllPlaced(depth, method.edges[e].from[1], 1, in[method.edges[e].from[1]])
                 /\ depth[method.edges[e].from[1]] < depth[b]
    BY <1>4, Aging
  <2> QED
    BY <1>5, <2>1, EdgeBefore
<1>7. IsFrame(in[b]) /\ IsFrame(edges[e]) /\ Covers(in[b], edges[e])
  BY <1>4, ConvergedEdges, ConvergedBlocks DEF Sound
<1>8. s \in DOMAIN Cells(edges[e])
  BY <1>7, CoveredCells
<1>9. Before(depth, Cells(edges[e])[s].origin, depth[b])
  BY <1>6, <1>7, <1>8, CellsBefore
<1>10. e \in DOMAIN eqs[o] /\ eqs[o][e] = Cells(edges[e])[s].origin
  BY <1>3, <1>4, EquationsFacts
<1> QED
  BY <1>3, <1>9, <1>10 DEF Operands

\* A phi that is replaced is replaced by a value from a less deep block: the
\* least deep phi of its cycle has an operand that is.
LEMMA RepresentativeOlder ==
  ASSUME Converged, NEW eqs, eqs = Equations, NEW rep, rep = Representative(eqs),
         NEW k \in Nat, NEW depth \in [DOMAIN in -> 0..k], Graded(method, DOMAIN in, DOMAIN edges, depth)
  PROVE  /\ DOMAIN rep = DOMAIN eqs
         /\ \A o \in DOMAIN rep : /\ o.kind = "phi" /\ o.at[1] \in DOMAIN in
                                  /\ rep[o] # o => Before(depth, rep[o], depth[o.at[1]])
<1> DEFINE d(o) == depth[o.at[1]]
           Older(o) == rep[o] # o => Before(depth, rep[o], d(o))
<1>1. System(eqs)
  BY EquationsFacts
<1>2. /\ DOMAIN rep = DOMAIN eqs
      /\ \A o \in DOMAIN eqs : rep[o] # o => \A x \in External(eqs, o) : Name(rep, x) = rep[o]
  BY <1>1, RepresentativeFacts
<1>3. \A o \in DOMAIN eqs :
        /\ o.kind = "phi" /\ o.at[1] \in DOMAIN in
        /\ \E y \in Operands(eqs, o) : Before(depth, y, d(o))
  BY LowOperand
<1>4. \A o \in DOMAIN eqs : d(o) \in 0..k
  BY <1>3
<1>5. ASSUME NEW o \in DOMAIN eqs, rep[o] # o, \A x \in DOMAIN eqs : d(x) < d(o) => Older(x)
      PROVE  Before(depth, rep[o], d(o))
  <2> DEFINE c == Component(eqs, o)
             depths == {d(x) : x \in c}
  <2>1. o \in c /\ c \subseteq DOMAIN eqs /\ \A x \in c : External(eqs, x) = External(eqs, o)
    BY <1>1, ComponentFacts
  <2>2. PICK n \in depths : \A i \in depths : n <= i
    <3>1. depths \in SUBSET (0..k) /\ depths # {}
      BY <1>4, <2>1
    <3> HIDE DEF depths
    <3> QED
      BY <3>1, LeastUpTo
  <2>3. PICK m \in c : d(m) = n
    BY <2>2
  <2>4. m \in DOMAIN eqs /\ d(m) <= d(o) /\ \A x \in c : d(m) <= d(x)
    BY <1>4, <2>1, <2>2, <2>3
  <2>5. PICK y \in Operands(eqs, m) : Before(depth, y, d(m))
    BY <1>3, <2>4
  <2>6. y \notin c
    <3> SUFFICES ASSUME y \in c PROVE FALSE
      OBVIOUS
    <3>1. y \in DOMAIN eqs /\ d(m) <= d(y) /\ y.kind = "phi"
      BY <1>3, <2>1, <2>4
    <3>2. d(y) < d(m)
      BY <2>5, <3>1 DEF Before
    <3> QED
      BY <1>4, <2>4, <3>1, <3>2
  <2>7. y \in External(eqs, o)
    BY <2>3, <2>6, ExternalMembers
  <2>8. Name(rep, y) = rep[o]
    BY <1>2, <1>5, <2>7
  <2>9. \A x : Before(depth, x, d(m)) => Before(depth, x, d(o))
    <3>1. \A i \in DOMAIN depth : depth[i] \in Int
      OBVIOUS
    <3> QED
      BY <1>4, <2>4, <3>1 DEF Before
  <2>10. CASE y \notin DOMAIN eqs \/ rep[y] = y
    <3>1. rep[o] = y
      BY <1>2, <2>8, <2>10 DEF Name
    <3> QED
      BY <2>5, <2>9, <3>1
  <2>11. CASE y \in DOMAIN eqs /\ rep[y] # y
    <3>1. rep[o] = rep[y]
      BY <1>2, <2>8, <2>11 DEF Name
    <3>2. d(y) < d(m) /\ d(y) < d(o)
      BY <1>3, <1>4, <2>4, <2>5, <2>11 DEF Before
    <3>3. Before(depth, rep[y], d(y))
      BY <1>5, <2>11, <3>2
    <3>4. Before(depth, rep[y], d(m))
      BY <1>4, <2>4, <2>11, <3>2, <3>3 DEF Before
    <3> QED
      BY <2>9, <3>1, <3>4
  <2> QED
    BY <2>10, <2>11
<1>6. ASSUME \E o \in DOMAIN eqs : ~Older(o) PROVE FALSE
  <2> DEFINE depths == {d(o) : o \in {x \in DOMAIN eqs : ~Older(x)}}
  <2>1. PICK n \in depths : \A i \in depths : n <= i
    <3>1. depths \in SUBSET (0..k) /\ depths # {}
      <4> HIDE DEF Older
      <4> QED
        BY <1>4, <1>6
    <3> HIDE DEF depths
    <3> QED
      BY <3>1, LeastUpTo
  <2>2. PICK o \in DOMAIN eqs : d(o) = n /\ ~Older(o)
    <3> HIDE DEF Older
    <3> QED
      BY <2>1
  <2>3. ASSUME NEW x \in DOMAIN eqs, d(x) < d(o) PROVE Older(x)
    <3> HIDE DEF Older
    <3>1. ~Older(x) => n <= d(x)
      BY <2>1
    <3> QED
      BY <1>4, <2>2, <2>3, <3>1
  <2> QED
    BY <1>5, <2>2, <2>3
<1> QED
  BY <1>2, <1>3, <1>6
-----------------------------------------------------------------------------
(* Naming the representatives.                                             *)
RepOlder(rep, depth) ==
  \A o \in DOMAIN rep : /\ o.kind = "phi" /\ o.at[1] \in DOMAIN depth
                        /\ rep[o] # o => Before(depth, rep[o], depth[o.at[1]])

\* What replaces a phi is from before, so all is where it was or before.
LEMMA RenamedPlaced ==
  ASSUME NEW k \in Nat, NEW D, NEW depth \in [D -> 0..k], NEW b \in D, NEW i, NEW rep, RepOlder(rep, depth),
         NEW f, NEW g, Same(f, g), Renames(rep, f, g), AllPlaced(depth, b, i, f)
  PROVE  AllPlaced(depth, b, i, g)
<1>1. ASSUME NEW o, Placed(depth, b, i, o) PROVE Placed(depth, b, i, Name(rep, o))
  <2>1. CASE o \notin DOMAIN rep \/ rep[o] = o
    BY <1>1, <2>1 DEF Name
  <2>2. CASE o \in DOMAIN rep /\ rep[o] # o
    <3> DEFINE q == rep[o]
    <3>1. Name(rep, o) = q
      BY <2>2 DEF Name
    <3>2. o.kind = "phi" /\ o.at[1] \in D /\ Before(depth, q, depth[o.at[1]])
      BY <2>2 DEF RepOlder
    <3>3. depth[o.at[1]] <= depth[b]
      <4>1. depth[o.at[1]] \in Int /\ depth[b] \in Int
        BY <3>2
      <4> QED
        BY <1>1, <3>2, <4>1 DEF Placed, Before
    <3> HIDE DEF q
    <3>4. Before(depth, q, depth[b])
      <4>1. \A x \in DOMAIN depth : depth[x] \in Int
        OBVIOUS
      <4>2. depth[o.at[1]] \in Int /\ depth[b] \in Int
        BY <3>2
      <4> QED
        BY <3>2, <3>3, <4>1, <4>2 DEF Before
    <3> QED
      BY <3>1, <3>4 DEF Placed
  <2> QED
    BY <2>1, <2>2
<1>2. Len(f.locals) = Len(g.locals) /\ Len(f.stack) = Len(g.stack)
  BY DEF Same, SameCells
<1> QED
  BY <1>1, <1>2 DEF AllPlaced, Renames

\* What a block makes of renamed phis is what it makes of them, renamed.
LEMMA CarriedRenamed ==
  ASSUME NEW m, WellFormed(m), NEW b \in Blocks(m), NEW e \in Leaving(m, b),
         NEW t, Runs(m.code[b], b, t), NEW u, Runs(m.code[b], b, u),
         NEW rep, \A o \in DOMAIN rep : o.kind = "phi",
         Same(t[1], u[1]), Renames(rep, t[1], u[1])
  PROVE  Same(Carried(m, e, t), Carried(m, e, u)) /\ Renames(rep, Carried(m, e, t), Carried(m, e, u))
<1> DEFINE l == Len(m.code[b])
           K == Known(b, l, t[1])
           pairs == {<<o, Name(rep, o)>> : o \in K}
           R == [i \in 1..(l + 1) |-> pairs]
           f == Carried(m, e, t)
           g == Carried(m, e, u)
<1>1. l \in Nat
  BY DEF Runs
<1>2. \A o : o.kind # "phi" => Name(rep, o) = o
  BY DEF Name
<1>3. /\ NoOrigin \in K /\ Name(rep, NoOrigin) = NoOrigin
      /\ \A i \in 1..l : Def(<<b, i>>) \in K /\ Name(rep, Def(<<b, i>>)) = Def(<<b, i>>)
      /\ \A i \in 1..l : Thrown(<<b, i>>) \in K /\ Name(rep, Thrown(<<b, i>>)) = Thrown(<<b, i>>)
  BY <1>2 DEF Known, NoOrigin, Def, Thrown, Origin
<1>4. /\ \A k \in 1..Len(t[1].locals) : t[1].locals[k].origin \in K
      /\ \A k \in 1..Len(t[1].stack) : t[1].stack[k].origin \in K
  BY DEF Known
<1> HIDE DEF K
<1>5. /\ <<NoOrigin, NoOrigin>> \in pairs
      /\ \A i \in 1..l : <<Def(<<b, i>>), Def(<<b, i>>)>> \in pairs
      /\ \A i \in 1..l : <<Thrown(<<b, i>>), Thrown(<<b, i>>)>> \in pairs
  BY <1>3
<1>6. \A x, y : <<x, y>> \in pairs => y = Name(rep, x)
  OBVIOUS
<1>7. Linked(pairs, t[1], u[1])
  <2>1. \A o \in K : <<o, Name(rep, o)>> \in pairs
    OBVIOUS
  <2> HIDE DEF pairs
  <2> QED
    BY <1>4, <2>1 DEF Linked, LinkedCells, Link, Same, SameCells, Renames
<1> HIDE DEF pairs
<1>8. \A i \in 1..(l + 1) : R[i] = pairs
  OBVIOUS
<1> HIDE DEF R
<1>9. Extends(R, b, l)
  <2>1. \A i \in 1..l : i \in 1..(l + 1) /\ i + 1 \in 1..(l + 1)
    BY <1>1
  <2>2. Link(pairs, Unusable, Unusable)
    BY <1>5 DEF Link, Unusable, Cell
  <2> QED
    BY <1>5, <1>8, <2>1, <2>2 DEF Extends
<1>10. Linked(R[1], t[1], u[1])
  BY <1>1, <1>7, <1>8
<1>11. m.edges[e].from[2] \in 1..l /\ Linked(R[m.edges[e].from[2] + 1], f, g)
  BY <1>9, <1>10, CarriedLinked
<1>12. R[m.edges[e].from[2] + 1] = pairs
  BY <1>1, <1>8, <1>11
<1>13. Linked(pairs, f, g)
  BY <1>11, <1>12
<1>14. Renames(rep, f, g)
  <2> HIDE DEF f, g
  <2> QED
    BY <1>6, <1>13 DEF Linked, LinkedCells, Link, Renames
<1> QED
  BY <1>13, <1>14, LinkedSame
(* What an edge delivers.  The value of origin p that it carries is, in    *)
(* its target, that of a phi which takes it, or has its origin still.      *)
Passes(P, e, b, o, p) ==
  IF o \in DOMAIN P /\ o.at = <<b, 0>> THEN P[o][e] = p ELSE o = p

DeliversCells(P, e, b, s, r) ==
  \A i \in 1..Len(r) : r[i].type.kind # "Top" => Passes(P, e, b, r[i].origin, s[i].origin)

Delivers(P, e, b, f, g) ==
  DeliversCells(P, e, b, f.locals, g.locals) /\ DeliversCells(P, e, b, f.stack, g.stack)

\* Function.Phis of a solved method.
Kept(eqs, rep) ==
  [o \in {x \in DOMAIN eqs : rep[x] = x} |-> [e \in DOMAIN eqs[o] |-> Name(rep, eqs[o][e])]]

LEMMA KeptFacts ==
  ASSUME NEW eqs, NEW rep
  PROVE  /\ \A o : o \in DOMAIN Kept(eqs, rep) <=> o \in DOMAIN eqs /\ rep[o] = o
         /\ \A o \in DOMAIN Kept(eqs, rep) : \A e \in DOMAIN eqs[o] :
              Kept(eqs, rep)[o][e] = Name(rep, eqs[o][e])
BY DEF Kept

\* A phi of the target: it is kept and takes its operand, or the operand has
\* got the name that replaces it.
LEMMA HeadPasses ==
  ASSUME Converged, NEW eqs, eqs = Equations, NEW rep, rep = Representative(eqs),
         NEW k \in Nat, NEW depth \in [DOMAIN in -> 0..k], RepOlder(rep, depth),
         NEW b \in DOMAIN in, NEW e, Target(method, e) = b,
         NEW o \in DOMAIN eqs, o.at = <<b, 0>>, e \in DOMAIN eqs[o]
  PROVE  Passes(Kept(eqs, rep), e, b, Name(rep, o), Name(rep, eqs[o][e]))
<1> DEFINE y == eqs[o][e]
<1>1. /\ System(eqs) /\ DOMAIN rep = DOMAIN eqs
      /\ rep[o] # o => \A x \in Operands(eqs, o) : Name(rep, x) = rep[o]
  BY EquationsFacts, RepresentativeFacts
<1>2. Name(rep, o) = rep[o]
  BY <1>1 DEF Name
<1>3. CASE rep[o] = o
  <2>1. o \in DOMAIN Kept(eqs, rep) /\ Kept(eqs, rep)[o][e] = Name(rep, y)
    BY <1>3, KeptFacts
  <2> QED
    BY <1>2, <1>3, <2>1 DEF Passes
<1>4. CASE rep[o] # o
  <2> DEFINE q == rep[o]
  <2>1. Name(rep, y) = q
    <3>1. y \in Operands(eqs, o)
      BY DEF Operands
    <3> QED
      BY <1>1, <1>4, <3>1
  <2>2. Before(depth, q, depth[b])
    BY <1>1, <1>4 DEF RepOlder
  <2>3. ASSUME q \in DOMAIN Kept(eqs, rep), q.at = <<b, 0>> PROVE FALSE
    <3>1. q.kind = "phi" /\ q.at[1] = b
      BY <1>1, <2>3, KeptFacts DEF RepOlder
    <3>2. depth[b] < depth[b] /\ depth[b] \in Int
      BY <2>2, <3>1 DEF Before
    <3> QED
      BY <3>2
  <2> HIDE DEF y
  <2>4. Passes(Kept(eqs, rep), e, b, q, Name(rep, y))
    BY <2>1, <2>3 DEF Passes
  <2> QED
    BY <1>2, <2>4 DEF y
<1> QED
  BY <1>3, <1>4

\* The target has phis: each usable cell names one, whose operand is what
\* the edge carries in that cell, or in the head of the pair.
Takes(eqs, b, e, o, p) ==
  o \in DOMAIN eqs /\ o.at = <<b, 0>> /\ e \in DOMAIN eqs[o] /\ eqs[o][e] = p

LEMMA PhiCells ==
  ASSUME Converged, NEW eqs, eqs = Equations,
         NEW e \in DOMAIN edges, NEW b, b = Target(method, e), PhiNamed(in[b], b)
  PROVE  /\ \A i \in 1..Len(in[b].locals) : in[b].locals[i].type.kind # "Top" =>
              Takes(eqs, b, e, in[b].locals[i].origin, edges[e].locals[i].origin)
         /\ \A i \in 1..Len(in[b].stack) :
              Takes(eqs, b, e, in[b].stack[i].origin, edges[e].stack[i].origin)
<1>1. b \in DOMAIN in /\ Covers(in[b], edges[e])
  BY ConvergedEdges
<1>2. PICK f, g : f = edges[e] /\ g = in[b]
  OBVIOUS
<1>3. IsFrame(f) /\ IsFrame(g) /\ Covers(g, f) /\ Whole(f.locals) /\ Whole(g.locals) /\ PhiNamed(g, b)
  BY <1>1, <1>2, ConvergedBlocks, ConvergedEdges DEF Sound
<1>4. Len(f.locals) = Len(g.locals) /\ Len(f.stack) = Len(g.stack)
  BY <1>3, CoveredCells
<1>5. /\ DOMAIN f.locals = 1..Len(f.locals) /\ DOMAIN g.locals = 1..Len(g.locals)
      /\ Len(g.locals) \in Nat /\ Len(g.stack) \in Nat
  BY <1>3 DEF IsFrame, IsStack
<1>6. ASSUME NEW s \in DOMAIN Cells(g), Cells(g)[s].origin = Phi(b, s)
      PROVE  Takes(eqs, b, e, Phi(b, s), Cells(f)[s].origin)
  <2>1. Phi(b, s) \in DOMAIN eqs
    BY <1>1, <1>2, <1>6, EquationsFacts
  <2>2. Phi(b, s).at[1] = b /\ Phi(b, s).at = <<b, 0>> /\ Phi(b, s).slot = s
    BY PhiParts
  <2>3. e \in DOMAIN eqs[Phi(b, s)]
    BY <2>1, <2>2, EquationsFacts
  <2>4. eqs[Phi(b, s)][e] = Cells(f)[s].origin
    BY <1>2, <2>1, <2>2, <2>3, EquationsFacts
  <2> QED
    BY <2>1, <2>2, <2>3, <2>4 DEF Takes
<1>7. ASSUME NEW i \in 1..Len(g.locals), g.locals[i].type.kind # "Top"
      PROVE  Takes(eqs, b, e, g.locals[i].origin, f.locals[i].origin)
  <2>1. g.locals[i].origin = Phi(b, IF IsTail(g.locals[i].type) THEN i - 1 ELSE i)
    <3>1. Unusable.type.kind = "Top"
      BY DEF Unusable, Cell, T
    <3> QED
      BY <1>3, <1>7, <3>1 DEF PhiNamed
  <2>2. CASE ~IsTail(g.locals[i].type)
    <3>1. i \in DOMAIN Cells(g) /\ Cells(g)[i] = g.locals[i] /\ Cells(f)[i] = f.locals[i]
      BY <1>3, <1>4, CellsFacts
    <3>2. g.locals[i].origin = Phi(b, i)
      BY <2>1, <2>2
    <3> QED
      BY <1>6, <3>1, <3>2
  <2>3. CASE IsTail(g.locals[i].type)
    <3> DEFINE j == i - 1
    <3>1. j \in 1..Len(g.locals) /\ g.locals[j].origin = g.locals[i].origin
      BY <1>3, <1>5, <2>3 DEF Whole
    <3>2. IsTail(f.locals[i].type)
      BY <1>3, <1>4, <2>3 DEF Covers, BelowCells, Below, IsTail
    <3>3. f.locals[j].origin = f.locals[i].origin
      BY <1>3, <1>4, <1>5, <3>2 DEF Whole
    <3> HIDE DEF j
    <3>4. j \in DOMAIN Cells(g) /\ Cells(g)[j] = g.locals[j] /\ Cells(f)[j] = f.locals[j]
      BY <1>3, <1>4, <3>1, CellsFacts
    <3>5. g.locals[i].origin = Phi(b, j)
      BY <2>1, <2>3 DEF j
    <3> QED
      BY <1>6, <3>1, <3>3, <3>4, <3>5
  <2> QED
    BY <2>2, <2>3
<1>8. ASSUME NEW i \in 1..Len(g.stack)
      PROVE  Takes(eqs, b, e, g.stack[i].origin, f.stack[i].origin)
  <2> DEFINE j == Len(g.locals) + i
  <2>1. g.stack[i].origin = Phi(b, j)
    BY <1>3 DEF PhiNamed
  <2>2. j \in DOMAIN Cells(g) /\ Cells(g)[j] = g.stack[i] /\ Cells(f)[j] = f.stack[i]
    BY <1>3, <1>4, CellsFacts
  <2> HIDE DEF j
  <2> QED
    BY <1>6, <2>1, <2>2
<1> QED
  BY <1>2, <1>7, <1>8

\* The target has the frame of its only edge: it has no phis.
LEMMA NoPhis ==
  ASSUME Converged, NEW eqs, eqs = Equations,
         NEW k \in Nat, NEW depth \in [DOMAIN in -> 0..k], Graded(method, DOMAIN in, DOMAIN edges, depth),
         NEW e \in DOMAIN edges, NEW b, b = Target(method, e),
         in[b] = edges[e], \A d \in DOMAIN edges : Target(method, d) = b => d = e
  PROVE  \A o \in DOMAIN eqs : o.at # <<b, 0>>
<1> SUFFICES ASSUME NEW o \in DOMAIN eqs, o.at = <<b, 0>> PROVE FALSE
  OBVIOUS
<1>1. o.at[1] = b /\ o.kind = "phi" /\ b \in DOMAIN in /\ depth[b] \in Int
  BY LowOperand
<1>2. PICK s \in DOMAIN Cells(in[b]) : Cells(in[b])[s].origin = o
  <2>1. PICK c \in DOMAIN in : \E s \in DOMAIN Cells(in[c]) : o = Phi(c, s) /\ Cells(in[c])[s].origin = o
    BY EquationsFacts
  <2>2. c = b
    BY <1>1, <2>1, PhiParts
  <2> QED
    BY <2>1, <2>2
<1>3. PICK f : f = edges[e]
  OBVIOUS
<1>4. AllBefore(depth, f, depth[b])
  <2>1. e = 0 \/ (method.edges[e].from[1] \in DOMAIN in /\ depth[method.edges[e].from[1]] < depth[b])
    BY <1>1 DEF Graded
  <2>2. e # 0 => /\ AllPlaced(depth, method.edges[e].from[1], 1, in[method.edges[e].from[1]])
                 /\ depth[method.edges[e].from[1]] < depth[b]
    BY <2>1, Aging
  <2> QED
    BY <1>1, <1>3, <2>2, EdgeBefore
<1>5. IsFrame(f) /\ s \in DOMAIN Cells(f) /\ Cells(f)[s].origin = o
  BY <1>2, <1>3, ConvergedEdges DEF Sound
<1>6. Before(depth, o, depth[b])
  BY <1>4, <1>5, CellsBefore
<1> QED
  BY <1>1, <1>6 DEF Before
LEMMA EdgeDelivers ==
  ASSUME Converged, NEW eqs, eqs = Equations, NEW rep, rep = Representative(eqs),
         NEW k \in Nat, NEW depth \in [DOMAIN in -> 0..k],
         Graded(method, DOMAIN in, DOMAIN edges, depth), RepOlder(rep, depth),
         NEW e \in DOMAIN edges, NEW b, b = Target(method, e),
         NEW f, Same(edges[e], f), Renames(rep, edges[e], f),
         NEW g, Same(in[b], g), Renames(rep, in[b], g)
  PROVE  Delivers(Kept(eqs, rep), e, b, f, g)
<1>1. b \in DOMAIN in /\ Covers(in[b], edges[e])
  BY ConvergedEdges
<1>2. /\ Len(g.locals) = Len(in[b].locals) /\ Len(edges[e].locals) = Len(in[b].locals)
      /\ Len(g.stack) = Len(in[b].stack) /\ Len(edges[e].stack) = Len(in[b].stack)
      /\ \A i \in 1..Len(g.locals) : g.locals[i].type = in[b].locals[i].type
  BY <1>1 DEF Covers, BelowCells, Same, SameCells
<1>3. /\ \A i \in 1..Len(g.locals) : /\ g.locals[i].origin = Name(rep, in[b].locals[i].origin)
                                     /\ f.locals[i].origin = Name(rep, edges[e].locals[i].origin)
      /\ \A i \in 1..Len(g.stack) : /\ g.stack[i].origin = Name(rep, in[b].stack[i].origin)
                                    /\ f.stack[i].origin = Name(rep, edges[e].stack[i].origin)
  BY <1>2 DEF Renames
<1>4. CASE in[b] = edges[e] /\ \A d \in DOMAIN edges : Target(method, d) = b => d = e
  <2>1. \A o \in DOMAIN Kept(eqs, rep) : o.at # <<b, 0>>
    BY <1>4, NoPhis, KeptFacts
  <2>2. \A o : Passes(Kept(eqs, rep), e, b, o, o)
    BY <2>1 DEF Passes
  <2> QED
    BY <1>3, <1>4, <2>2 DEF Delivers, DeliversCells
<1>5. CASE PhiNamed(in[b], b)
  <2>1. ASSUME NEW o, NEW p, Takes(eqs, b, e, o, p)
        PROVE  Passes(Kept(eqs, rep), e, b, Name(rep, o), Name(rep, p))
    BY <1>1, <2>1, HeadPasses DEF Takes
  <2>2. ASSUME NEW i \in 1..Len(g.locals), g.locals[i].type.kind # "Top"
        PROVE  Passes(Kept(eqs, rep), e, b, g.locals[i].origin, f.locals[i].origin)
    <3>1. Takes(eqs, b, e, in[b].locals[i].origin, edges[e].locals[i].origin)
      BY <1>2, <1>5, <2>2, PhiCells
    <3> QED
      BY <1>3, <2>1, <3>1
  <2>3. ASSUME NEW i \in 1..Len(g.stack)
        PROVE  Passes(Kept(eqs, rep), e, b, g.stack[i].origin, f.stack[i].origin)
    <3>1. Takes(eqs, b, e, in[b].stack[i].origin, edges[e].stack[i].origin)
      BY <1>2, <1>5, PhiCells
    <3> QED
      BY <1>3, <2>1, <3>1
  <2> QED
    BY <2>2, <2>3 DEF Delivers, DeliversCells
<1> QED
  BY <1>4, <1>5, ConvergedEdges

(* A solved method: origins are from where they can be from, and every     *)
(* edge delivers to each usable cell of its target the value that the cell *)
(* names.                                                                  *)
Aged(I) ==
  \E k \in Nat : \E depth \in [DOMAIN I -> 0..k] : \A b \in DOMAIN I : AllPlaced(depth, b, 1, I[b])

NamesInv ==
  status = "done" =>
    /\ Aged(in)
    /\ Delivers(phis, 0, 1, EntryFrame(method), in[1])
    /\ \A b \in DOMAIN in : \A e \in Leaving(method, b) :
         Delivers(phis, e, Target(method, e), Carried(method, e, Trace(method, b, in[b])), in[Target(method, e)])

\* The declared locals are named by no phi.
LEMMA EntryRenames ==
  ASSUME NEW m, WellFormed(m), NEW rep, \A o \in DOMAIN rep : o.kind = "phi"
  PROVE  Same(EntryFrame(m), EntryFrame(m)) /\ Renames(rep, EntryFrame(m), EntryFrame(m))
<1> DEFINE f == EntryFrame(m)
<1>1. Same(f, f)
  BY EntrySound, SameItself
<1>2. ASSUME NEW depth, DOMAIN depth = {} PROVE Renames(rep, f, f)
  <2>1. AllBefore(depth, f, 0)
    BY EntryBefore
  <2> HIDE DEF f
  <2> QED
    BY <1>2, <2>1 DEF AllBefore, Before, Renames, Name
<1>3. DOMAIN [x \in {} |-> x] = {}
  OBVIOUS
<1> QED
  BY <1>1, <1>2, <1>3

LEMMA FinishNames ==
  ASSUME Converged, DepthInv, NEW eqs, eqs = Equations, NEW rep, rep = Representative(eqs),
         in' = [b \in DOMAIN in |-> Renamed(in[b], rep)], phis' = Kept(eqs, rep), method' = method
  PROVE  NamesInv'
<1>1. PICK k \in Nat : \E depth \in [DOMAIN in -> 0..k] : Graded(method, DOMAIN in, DOMAIN edges, depth)
  BY DEF DepthInv, Deep
<1>2. PICK depth \in [DOMAIN in -> 0..k] : Graded(method, DOMAIN in, DOMAIN edges, depth)
  BY <1>1
<1>3. RepOlder(rep, depth) /\ \A o \in DOMAIN rep : o.kind = "phi"
  BY <1>2, RepresentativeOlder DEF RepOlder
<1>4. /\ WellFormed(method) /\ DOMAIN in \subseteq Blocks(method)
      /\ 0 \in DOMAIN edges /\ edges[0] = EntryFrame(method) /\ Target(method, 0) = 1
      /\ \A b \in DOMAIN in :
           /\ Sound(in[b], Len(method.locals)) /\ Last(Trace(method, b, in[b])).ok
           /\ Runs(method.code[b], b, Trace(method, b, in[b]))
           /\ Trace(method, b, in[b])[1] = in[b]
           /\ \A e \in Leaving(method, b) :
                e \in DOMAIN edges /\ edges[e] = Carried(method, e, Trace(method, b, in[b]))
  BY ConvergedBlocks DEF Target
<1>5. DOMAIN in' = DOMAIN in /\ \A b \in DOMAIN in : Same(in[b], in'[b]) /\ Renames(rep, in[b], in'[b])
  BY <1>4, RenamedSame DEF Sound
<1>6. Aged(in)'
  <2>1. \A b \in DOMAIN in : AllPlaced(depth, b, 1, in'[b])
    BY <1>2, <1>3, <1>5, Aging, RenamedPlaced
  <2> QED
    BY <1>5, <2>1 DEF Aged
<1>7. \A e \in DOMAIN edges : Target(method, e) \in DOMAIN in
  BY ConvergedEdges
<1>8. Delivers(phis', 0, 1, EntryFrame(method), in'[1])
  <2>1. Same(edges[0], EntryFrame(method)) /\ Renames(rep, edges[0], EntryFrame(method))
    BY <1>3, <1>4, EntryRenames
  <2>2. Same(in[1], in'[1]) /\ Renames(rep, in[1], in'[1])
    BY <1>4, <1>5, <1>7
  <2>3. PICK f : f = EntryFrame(method)
    OBVIOUS
  <2>4. Delivers(Kept(eqs, rep), 0, 1, f, in'[1])
    BY <1>2, <1>3, <1>4, <2>1, <2>2, <2>3, EdgeDelivers
  <2> QED
    BY <2>3, <2>4
<1>9. ASSUME NEW b \in DOMAIN in, NEW e \in Leaving(method, b)
      PROVE  Delivers(phis', e, Target(method, e), Carried(method, e, Trace(method, b, in'[b])), in'[Target(method, e)])
  <2>1. PICK t, u : t = Trace(method, b, in[b]) /\ u = Trace(method, b, in'[b])
    OBVIOUS
  <2>2. Runs(method.code[b], b, t) /\ Runs(method.code[b], b, u) /\ t[1] = in[b] /\ u[1] = in'[b]
    BY <1>4, <1>5, <2>1, TraceSame, TraceUnfolds
  <2>3. Same(t[1], u[1]) /\ Renames(rep, t[1], u[1])
    BY <1>5, <2>2
  <2>4. /\ Same(Carried(method, e, t), Carried(method, e, u))
        /\ Renames(rep, Carried(method, e, t), Carried(method, e, u))
    BY <1>3, <1>4, <2>2, <2>3, CarriedRenamed
  <2>5. e \in DOMAIN edges /\ edges[e] = Carried(method, e, t)
    BY <1>4, <2>1
  <2>6. PICK c : c = Target(method, e)
    OBVIOUS
  <2>7. c \in DOMAIN in /\ Same(in[c], in'[c]) /\ Renames(rep, in[c], in'[c])
    BY <1>5, <1>7, <2>5, <2>6
  <2>8. PICK f : f = Carried(method, e, u)
    OBVIOUS
  <2>9. Delivers(Kept(eqs, rep), e, c, f, in'[c])
    BY <1>2, <1>3, <2>4, <2>5, <2>6, <2>7, <2>8, EdgeDelivers
  <2> QED
    BY <2>1, <2>6, <2>8, <2>9
<1> QED
  BY <1>5, <1>6, <1>8, <1>9 DEF NamesInv

\* A method becomes solved by Finish, which finds its equations solvable.
Solvable(eqs) ==
  \A o \in DOMAIN eqs :
    External(eqs, o) # {} /\ \A x \in Operands(eqs, o) : x.kind = "phi" => x \in DOMAIN eqs

LEMMA BecomesDone ==
  ASSUME SolverInv, SoundInv, WalkOkInv, [Next]_vars, status' = "done"
  PROVE  \/ UNCHANGED vars
         \/ \E eqs, rep :
              /\ Converged /\ eqs = Equations /\ rep = Representative(eqs) /\ Solvable(eqs)
              /\ method' = method /\ phis' = Kept(eqs, rep)
              /\ in' = [b \in DOMAIN in |-> Renamed(in[b], rep)]
<1>1. Reject => FALSE
  BY DEF Reject
<1>2. ~Visit
  <2> SUFFICES ASSUME Visit PROVE FALSE
    OBVIOUS
  <2>1. PICK q \in Picks :
          LET b == pending[q]
              rest == RemoveAt(pending, q)
              f == Merge(method, edges, b)
          IN  IF f.ok THEN Skip(b, f, rest) \/ Propagate(b, f, rest) ELSE Reject
    BY DEF Visit
  <2>2. PICK b, f, rest : b = pending[q] /\ f = Merge(method, edges, b) /\ rest = RemoveAt(pending, q)
    OBVIOUS
  <2>3. status = "run" /\ (Skip(b, f, rest) \/ Propagate(b, f, rest) \/ Reject)
    BY <2>1, <2>2 DEF Visit
  <2> QED
    BY <1>1, <2>3 DEF Skip, Propagate
<1>3. ~OutOfWork
  BY DEF OutOfWork
<1>4. CASE Finish
  <2>1. PICK eqs, rep : eqs = Equations /\ rep = Representative(eqs)
    OBVIOUS
  <2>2. status = "run" /\ pending = <<>>
    BY <1>4 DEF Finish
  <2>3. /\ \A o \in DOMAIN eqs :
             ~(\/ External(eqs, o) = {}
               \/ \E x \in Operands(eqs, o) : x.kind = "phi" /\ x \notin DOMAIN eqs)
        /\ in' = [b \in DOMAIN in |-> Renamed(in[b], rep)] /\ method' = method
        /\ phis' = LET kept == {o \in DOMAIN eqs : rep[o] = o}
                       name(o) == IF o \in DOMAIN rep THEN rep[o] ELSE o
                   IN  [o \in kept |-> [e \in DOMAIN eqs[o] |-> name(eqs[o][e])]]
    BY <1>1, <1>4, <2>1, Zenon DEF Finish
  <2>4. phis' = Kept(eqs, rep)
    BY <2>3, Zenon DEF Kept, Name
  <2>5. Converged
    BY <2>2 DEF Converged
  <2>6. Solvable(eqs)
    BY <2>3, Zenon DEF Solvable
  <2> QED
    BY <2>1, <2>3, <2>4, <2>5, <2>6
<1> QED
  BY <1>2, <1>3, <1>4 DEF Next

LEMMA NextNames ==
  SolverInv /\ SoundInv /\ WalkOkInv /\ DepthInv /\ NamesInv /\ [Next]_vars => NamesInv'
<1> SUFFICES ASSUME SolverInv, SoundInv, WalkOkInv, DepthInv, NamesInv, [Next]_vars PROVE NamesInv'
  OBVIOUS
<1>1. CASE status' # "done"
  BY <1>1 DEF NamesInv
<1>2. CASE UNCHANGED vars
  <2>1. UNCHANGED <<method, in, phis, status>>
    BY <1>2 DEF vars
  <2>2. Aged(in') = Aged(in)
    BY <2>1
  <2> QED
    BY <2>1, <2>2 DEF NamesInv
<1>3. CASE status' = "done" /\ ~UNCHANGED vars
  <2>1. PICK eqs, rep : /\ Converged /\ eqs = Equations /\ rep = Representative(eqs)
                        /\ method' = method /\ phis' = Kept(eqs, rep)
                        /\ in' = [b \in DOMAIN in |-> Renamed(in[b], rep)]
    BY <1>3, BecomesDone
  <2> QED
    BY <2>1, FinishNames
<1> QED
  BY <1>1, <1>2, <1>3
-----------------------------------------------------------------------------
(* The phis that are kept.  Their equations have the cycles of the old     *)
(* ones, and into a cycle comes what came into it, renamed.                *)

\* A phi is replaced by a kept one that it is computed from, or by an operand
\* that is no phi.
LEMMA ReplacedBy ==
  ASSUME NEW eqs, System(eqs), \A o \in DOMAIN eqs : External(eqs, o) # {},
         NEW rep, rep = Representative(eqs)
  PROVE  \A o \in DOMAIN eqs : rep[o] # o =>
           /\ rep[o] \in DOMAIN eqs => rep[o] \in Inputs(eqs, o) /\ rep[rep[o]] = rep[o]
           /\ rep[o] \notin DOMAIN eqs => \E u \in DOMAIN eqs : rep[o] \in Operands(eqs, u)
<1> DEFINE D == DOMAIN eqs
           good(o) == rep[o] # o =>
             /\ rep[o] \in D => rep[o] \in Inputs(eqs, o) /\ rep[rep[o]] = rep[o]
             /\ rep[o] \notin D => \E u \in D : rep[o] \in Operands(eqs, u)
           n == Cardinality(D)
           B == {k \in 0..n : \E o \in D : Weight(eqs, o) = k /\ ~good(o)}
<1>1. /\ n \in Nat /\ DOMAIN rep = D
      /\ \A o \in D : Weight(eqs, o) \in 1..n
      /\ \A o \in D : \A x \in External(eqs, o) \cap D : Weight(eqs, x) < Weight(eqs, o)
      /\ \A o \in D : rep[o] # o => \A x \in External(eqs, o) : Name(rep, x) = rep[o]
  BY FS_CardinalityType, ExternalLighter, RepresentativeFacts DEF System
<1> HIDE DEF n
<1>2. ASSUME NEW o \in D, \A x \in External(eqs, o) \cap D : good(x)
      PROVE  good(o)
  <2> SUFFICES ASSUME rep[o] # o PROVE good(o)
    OBVIOUS
  <2>1. PICK x : x \in External(eqs, o)
    OBVIOUS
  <2>2. PICK u \in Component(eqs, o) : x \in Operands(eqs, u)
    BY <2>1, ExternalMembers
  <2>3. u \in D /\ (u = o \/ u \in Inputs(eqs, o))
    BY <2>2, ComponentFacts DEF Component
  <2>4. Name(rep, x) = rep[o]
    BY <1>1, <2>1
  <2>5. CASE x \notin D
    BY <1>1, <2>2, <2>3, <2>4, <2>5 DEF Name
  <2>6. CASE x \in D
    <3>1. x \in Inputs(eqs, o)
      BY <2>2, <2>3, <2>6, InputsClosed
    <3>2. Inputs(eqs, x) \subseteq Inputs(eqs, o)
      BY <3>1, InputsNest
    <3>3. rep[x] = rep[o]
      BY <1>1, <2>4, <2>6 DEF Name
    <3>4. good(x)
      BY <1>2, <2>1, <2>6
    <3> HIDE DEF D
    <3> QED
      BY <2>6, <3>1, <3>2, <3>3, <3>4
  <2> QED
    BY <2>5, <2>6
<1> HIDE DEF good, D
<1>3. B = {}
  <2> SUFFICES ASSUME B # {} PROVE FALSE
    OBVIOUS
  <2>1. PICK k \in B : \A j \in B : k <= j
    <3>1. B \in SUBSET (0..n)
      OBVIOUS
    <3> HIDE DEF B
    <3> QED
      BY <1>1, <3>1, LeastUpTo
  <2>2. PICK o \in D : Weight(eqs, o) = k /\ ~good(o)
    BY <2>1
  <2>3. PICK x \in External(eqs, o) \cap D : ~good(x)
    BY <1>2, <2>2
  <2>4. Weight(eqs, x) \in 1..n /\ Weight(eqs, x) < k /\ k \in 0..n
    BY <1>1, <2>1, <2>2
  <2>5. Weight(eqs, x) \in B
    BY <1>1, <2>3, <2>4
  <2>6. ~(k <= Weight(eqs, x))
    BY <1>1, <2>4
  <2> HIDE DEF B
  <2> QED
    BY <2>1, <2>5, <2>6
<1>4. \A o \in D : good(o)
  <2>1. \A o \in D : Weight(eqs, o) \in 0..n
    BY <1>1
  <2> QED
    BY <1>3, <2>1
<1> QED
  BY <1>4 DEF good, D

\* The equations of a method that are solvable, and what is kept of them.
Simplified(eqs, rep, P) ==
  /\ System(eqs)
  /\ rep = Representative(eqs)
  /\ P = Kept(eqs, rep)
  /\ \A o \in DOMAIN eqs : External(eqs, o) # {}
  /\ \A o \in DOMAIN eqs : \A x \in Operands(eqs, o) : x.kind = "phi" => x \in DOMAIN eqs

LEMMA KeptSystem ==
  ASSUME NEW eqs, NEW rep, NEW P, Simplified(eqs, rep, P)
  PROVE  /\ System(P)
         /\ \A o : o \in DOMAIN P <=> o \in DOMAIN eqs /\ rep[o] = o
         /\ \A o \in DOMAIN P : \A w :
              w \in Operands(P, o) <=> \E y \in Operands(eqs, o) : w = Name(rep, y)
         /\ \A y : y \in DOMAIN eqs => Name(rep, y) = rep[y]
         /\ \A y : y \notin DOMAIN eqs => Name(rep, y) = y
<1>1. DOMAIN P = {x \in DOMAIN eqs : rep[x] = x}
  BY DEF Simplified, Kept
<1>2. \A o \in DOMAIN P : P[o] = [e \in DOMAIN eqs[o] |-> Name(rep, eqs[o][e])]
  BY <1>1 DEF Simplified, Kept
<1>3. System(P)
  <2>1. DOMAIN P \subseteq DOMAIN eqs /\ \A o \in DOMAIN P : DOMAIN P[o] = DOMAIN eqs[o]
    BY <1>1, <1>2
  <2>2. IsFiniteSet(DOMAIN P)
    BY <2>1, FS_Subset DEF Simplified, System
  <2> QED
    BY <2>1, <2>2 DEF Simplified, System
<1>4. ASSUME NEW o \in DOMAIN P, NEW w
      PROVE  w \in Operands(P, o) <=> \E y \in Operands(eqs, o) : w = Name(rep, y)
  <2>1. w \in Operands(P, o) <=> \E e \in DOMAIN P[o] : w = P[o][e]
    BY DEF Operands
  <2>2. \A y : y \in Operands(eqs, o) <=> \E e \in DOMAIN eqs[o] : y = eqs[o][e]
    BY DEF Operands
  <2>3. DOMAIN P[o] = DOMAIN eqs[o] /\ \A e \in DOMAIN eqs[o] : P[o][e] = Name(rep, eqs[o][e])
    BY <1>2
  <2> QED
    BY <2>1, <2>2, <2>3
<1>5. DOMAIN rep = DOMAIN eqs
  BY RepresentativeSole DEF Simplified
<1> QED
  BY <1>1, <1>3, <1>4, <1>5 DEF Name

\* What a kept phi is computed from, it was computed from before.
LEMMA KeptInputs ==
  ASSUME NEW eqs, NEW rep, NEW P, Simplified(eqs, rep, P), NEW o \in DOMAIN P
  PROVE  Inputs(P, o) \subseteq Inputs(eqs, o)
<1> DEFINE R == Inputs(eqs, o)
<1>1. System(eqs) /\ System(P) /\ DOMAIN P \subseteq DOMAIN eqs
  BY KeptSystem DEF Simplified
<1>2. R \subseteq DOMAIN eqs
  BY <1>1, InputsClosed
<1>3. ASSUME NEW u, u = o \/ u \in R, u \in DOMAIN P, NEW w \in Operands(P, u) \cap DOMAIN P
      PROVE  w \in R
  <2>1. PICK y \in Operands(eqs, u) : w = Name(rep, y)
    BY <1>3, KeptSystem
  <2>2. y \in DOMAIN eqs /\ w = rep[y]
    BY <1>1, <2>1, KeptSystem
  <2>3. y \in R
    BY <1>1, <1>3, <2>1, <2>2, InputsClosed
  <2>4. rep[y] = y \/ rep[y] \in Inputs(eqs, y)
    BY <1>1, <2>2, ReplacedBy DEF Simplified
  <2>5. Inputs(eqs, y) \subseteq R
    BY <1>1, <2>3, InputsNest
  <2> QED
    BY <2>2, <2>3, <2>4, <2>5
<1> DEFINE Q == R \cap DOMAIN P
<1>4. Operands(P, o) \cap DOMAIN P \subseteq Q
  BY <1>3
<1>5. \A u \in Q : Operands(P, u) \cap DOMAIN P \subseteq Q
  BY <1>3
<1> HIDE DEF Q, R
<1>6. Inputs(P, o) \subseteq Q
  BY <1>1, <1>4, <1>5, InputsLeast
<1> QED
  BY <1>6 DEF Q, R

\* A value that enters a component is not replaced by one of the component.
LEMMA NeverBack ==
  ASSUME NEW eqs, NEW rep, NEW P, Simplified(eqs, rep, P), NEW o \in DOMAIN eqs, NEW x \in External(eqs, o)
  PROVE  Name(rep, x) \notin Component(eqs, o)
<1>1. System(eqs) /\ Component(eqs, o) \subseteq DOMAIN eqs
  BY ComponentFacts DEF Simplified
<1>2. PICK u \in Component(eqs, o) : x \in Operands(eqs, u) /\ x \notin Component(eqs, o)
  BY ExternalMembers
<1>3. CASE x \notin DOMAIN eqs
  BY <1>1, <1>3, KeptSystem
<1>4. CASE x \in DOMAIN eqs
  <2>1. x \in Inputs(eqs, o)
    BY <1>1, <1>2, <1>4, InputsClosed DEF Component
  <2>2. Name(rep, x) = rep[x]
    BY <1>4, KeptSystem
  <2>3. SUFFICES ASSUME rep[x] \in Component(eqs, o) PROVE FALSE
    BY <2>2
  <2>4. rep[x] \in Inputs(eqs, x)
    BY <1>1, <1>2, <1>4, <2>3, ReplacedBy DEF Simplified
  <2>5. Inputs(eqs, rep[x]) \subseteq Inputs(eqs, x)
    BY <1>1, <2>4, InputsNest
  <2>6. o \in Inputs(eqs, x)
    BY <2>3, <2>4, <2>5 DEF Component
  <2> QED
    BY <1>2, <2>1, <2>6 DEF Component
<1> QED
  BY <1>3, <1>4

\* With a phi all of its component is kept, because more than one value
\* enters the component.
LEMMA ComponentKept ==
  ASSUME NEW eqs, NEW rep, NEW P, Simplified(eqs, rep, P), NEW o \in DOMAIN P,
         NEW ext, ext = {Name(rep, x) : x \in External(eqs, o)}
  PROVE  Component(eqs, o) \subseteq DOMAIN P /\ Cardinality(ext) # 1
<1>1. System(eqs) /\ o \in DOMAIN eqs /\ rep[o] = o
  BY KeptSystem DEF Simplified
<1>2. /\ o \in Component(eqs, o) /\ Component(eqs, o) \subseteq DOMAIN eqs
      /\ \A u \in Component(eqs, o) : External(eqs, u) = External(eqs, o)
  BY <1>1, ComponentFacts
<1>3. \A u \in Component(eqs, o) : rep[u] = Sole(ext, u)
  BY <1>1, <1>2, RepresentativeSole DEF Simplified
<1>4. Cardinality(ext) # 1
  <2> SUFFICES ASSUME Cardinality(ext) = 1 PROVE FALSE
    OBVIOUS
  <2>1. ext = {o}
    <3>1. IsFiniteSet(ext)
      BY <1>1, EnteringFinite
    <3> QED
      BY <1>1, <1>2, <1>3, <3>1, SoleMember
  <2>2. PICK x \in External(eqs, o) : Name(rep, x) = o
    BY <2>1
  <2> QED
    BY <1>1, <1>2, <2>2, NeverBack
<1>5. \A u \in Component(eqs, o) : rep[u] = u
  BY <1>3, <1>4 DEF Sole
<1> QED
  BY <1>2, <1>4, <1>5, KeptSystem

\* A path between phis of a component stays in it, and so is kept.
LEMMA PathsKept ==
  ASSUME NEW eqs, NEW rep, NEW P, Simplified(eqs, rep, P), NEW o \in DOMAIN P,
         NEW a \in Component(eqs, o), NEW b \in Component(eqs, o), b \in Inputs(eqs, a)
  PROVE  b \in Inputs(P, a)
<1> DEFINE C == Component(eqs, o)
           R == {v \in Inputs(eqs, a) : v \in C => v \in Inputs(P, a)}
<1>1. System(eqs) /\ System(P) /\ o \in DOMAIN eqs /\ DOMAIN P \subseteq DOMAIN eqs
  BY KeptSystem DEF Simplified
<1>2. C \subseteq DOMAIN P
  BY ComponentKept
<1>3. \A v : v \in C <=> v = o \/ (v \in Inputs(eqs, o) /\ o \in Inputs(eqs, v))
  BY DEF Component
<1> HIDE DEF C
<1>4. a \in C /\ b \in C
  BY DEF C
<1>5. ASSUME NEW v \in DOMAIN eqs, v = a \/ v \in R, NEW w \in Operands(eqs, v) \cap DOMAIN eqs
      PROVE  w \in R
  <2>1. w \in Inputs(eqs, a) /\ w \in Inputs(eqs, v)
    BY <1>1, <1>5, InputsClosed
  <2>2. ASSUME w \in C PROVE w \in Inputs(P, a)
    <3>1. v \in C
      <4>1. CASE v = a
        BY <1>4, <4>1
      <4>2. CASE v \in Inputs(eqs, a)
        <5>1. v \in Inputs(eqs, o)
          BY <1>1, <1>3, <1>4, <4>2, InputsNest
        <5>2. o \in Inputs(eqs, v)
          BY <1>1, <1>3, <2>1, <2>2, InputsNest
        <5> QED
          BY <1>3, <5>1, <5>2
      <4> QED
        BY <1>5, <4>1, <4>2
    <3>2. v = a \/ v \in Inputs(P, a)
      BY <1>5, <3>1
    <3>3. v \in DOMAIN P /\ w \in DOMAIN P /\ rep[w] = w
      BY <1>2, <2>2, <3>1, KeptSystem
    <3>4. w \in Operands(P, v)
      <4>1. w \in Operands(eqs, v) /\ w = Name(rep, w)
        BY <1>5, <3>3, KeptSystem
      <4> QED
        BY <3>3, <4>1, KeptSystem
    <3> QED
      BY <1>1, <3>2, <3>3, <3>4, InputsClosed
  <2> QED
    BY <2>1, <2>2
<1>6. a \in DOMAIN eqs /\ R \subseteq DOMAIN eqs
  BY <1>1, <1>2, <1>4, InputsClosed
<1> HIDE DEF R
<1>7. /\ Operands(eqs, a) \cap DOMAIN eqs \subseteq R
      /\ \A u \in R : Operands(eqs, u) \cap DOMAIN eqs \subseteq R
  BY <1>5, <1>6
<1>8. Inputs(eqs, a) \subseteq R
  BY <1>1, <1>7, InputsLeast
<1> QED
  BY <1>4, <1>8 DEF R

LEMMA ComponentSame ==
  ASSUME NEW eqs, NEW rep, NEW P, Simplified(eqs, rep, P), NEW o \in DOMAIN P
  PROVE  \A u : u \in Component(P, o) <=> u \in Component(eqs, o)
<1>1. System(eqs) /\ System(P) /\ o \in DOMAIN eqs
  BY KeptSystem DEF Simplified
<1>2. ASSUME NEW u \in Component(P, o) PROVE u \in Component(eqs, o)
  <2>1. u = o \/ (u \in Inputs(P, o) /\ o \in Inputs(P, u))
    BY DEF Component
  <2>2. u \in DOMAIN P
    BY <1>1, <1>2, ComponentFacts
  <2>3. u = o \/ (u \in Inputs(eqs, o) /\ o \in Inputs(eqs, u))
    BY <2>1, <2>2, KeptInputs
  <2> QED
    BY <2>3 DEF Component
<1>3. ASSUME NEW u \in Component(eqs, o) PROVE u \in Component(P, o)
  <2>1. u = o \/ (u \in Inputs(eqs, o) /\ o \in Inputs(eqs, u))
    BY DEF Component
  <2>2. o \in Component(eqs, o)
    BY DEF Component
  <2>3. u = o \/ (u \in Inputs(P, o) /\ o \in Inputs(P, u))
    BY <2>1, <2>2, PathsKept
  <2> QED
    BY <2>3 DEF Component
<1> QED
  BY <1>2, <1>3

\* What enters the component of a kept phi is what entered it, renamed.
LEMMA ExternalKept ==
  ASSUME NEW eqs, NEW rep, NEW P, Simplified(eqs, rep, P), NEW o \in DOMAIN P
  PROVE  External(P, o) = {Name(rep, x) : x \in External(eqs, o)}
<1> DEFINE C == Component(eqs, o)
<1>1. System(eqs) /\ System(P) /\ o \in DOMAIN eqs
  BY KeptSystem DEF Simplified
<1>2. C \subseteq DOMAIN P /\ \A u : u \in Component(P, o) <=> u \in C
  BY ComponentKept, ComponentSame
<1>3. \A w : w \in External(P, o) <=> w \notin C /\ \E u \in C : w \in Operands(P, u)
  BY <1>2, ExternalMembers
<1>4. \A x : x \in External(eqs, o) <=> x \notin C /\ \E u \in C : x \in Operands(eqs, u)
  BY ExternalMembers
<1>5. \A x \in External(eqs, o) : Name(rep, x) \notin C
  BY <1>1, NeverBack
<1> HIDE DEF C
<1>6. \A u \in C : \A w : w \in Operands(P, u) <=> \E y \in Operands(eqs, u) : w = Name(rep, y)
  BY <1>2, KeptSystem
<1>7. \A y \in C : Name(rep, y) = y
  BY <1>2, KeptSystem
<1>8. ASSUME NEW w PROVE w \in External(P, o) <=> \E x \in External(eqs, o) : w = Name(rep, x)
  <2>1. ASSUME w \in External(P, o) PROVE \E x \in External(eqs, o) : w = Name(rep, x)
    <3>1. PICK u \in C : w \in Operands(P, u) /\ w \notin C
      BY <1>3, <2>1
    <3>2. PICK y \in Operands(eqs, u) : w = Name(rep, y)
      BY <1>6, <3>1
    <3>3. y \notin C
      BY <1>7, <3>1, <3>2
    <3> QED
      BY <1>4, <3>1, <3>2, <3>3
  <2>2. ASSUME NEW x \in External(eqs, o), w = Name(rep, x) PROVE w \in External(P, o)
    BY <1>3, <1>4, <1>5, <1>6, <2>2
  <2> QED
    BY <2>1, <2>2
<1> QED
  BY <1>8

LEMMA KeptNeeded ==
  ASSUME NEW eqs, NEW rep, NEW P, Simplified(eqs, rep, P), NEW o \in DOMAIN P
  PROVE  /\ Cardinality(External(P, o)) > 1
         /\ \A x \in Operands(P, o) : x.kind = "phi" => x \in DOMAIN P
<1>1. System(eqs) /\ o \in DOMAIN eqs /\ rep = Representative(eqs)
  BY KeptSystem DEF Simplified
<1>2. Cardinality(External(P, o)) > 1
  <2>1. PICK ext : ext = {Name(rep, x) : x \in External(eqs, o)}
    OBVIOUS
  <2>2. External(P, o) = ext /\ IsFiniteSet(ext) /\ Cardinality(ext) # 1
    BY <1>1, <2>1, ExternalKept, EnteringFinite, ComponentKept
  <2>3. ext # {}
    BY <1>1, <2>1 DEF Simplified
  <2>4. Cardinality(ext) \in Nat /\ Cardinality(ext) # 0
    BY <2>2, <2>3, FS_CardinalityType, FS_EmptySet
  <2> QED
    BY <2>2, <2>4
<1>3. ASSUME NEW x \in Operands(P, o), x.kind = "phi" PROVE x \in DOMAIN P
  <2>1. PICK y \in Operands(eqs, o) : x = Name(rep, y)
    BY KeptSystem
  <2>2. CASE y \notin DOMAIN eqs
    BY <1>1, <1>3, <2>1, <2>2, KeptSystem DEF Simplified
  <2>3. CASE y \in DOMAIN eqs
    <3>1. x = rep[y]
      BY <2>1, <2>3, KeptSystem
    <3>2. x \in DOMAIN eqs
      BY <1>1, <1>3, <2>3, <3>1, ReplacedBy DEF Simplified
    <3>3. rep[x] = x
      BY <1>1, <2>3, <3>1, <3>2, ReplacedBy DEF Simplified
    <3> QED
      BY <3>2, <3>3, KeptSystem
  <2> QED
    BY <2>2, <2>3
<1> QED
  BY <1>2, <1>3

Necessary(P) ==
  \A o \in DOMAIN P :
    /\ Cardinality(External(P, o)) > 1
    /\ \A x \in Operands(P, o) : x.kind = "phi" => x \in DOMAIN P

(* simplifyPhiCopies: every phi of a solved method merges two or more      *)
(* values that reach its cycle from outside, so none is a copy of another  *)
(* value; and the phis name no phi that was removed.                       *)
THEOREM PhisNecessary == Spec => []PhisNeeded
<1> DEFINE J == Solid /\ PhisNeeded
<1>1. Init => J
  <2>1. Init => Solid
    BY InitInv, InitSound, InitFlow DEF Solid
  <2>2. Init => PhisNeeded
    BY DEF Init, PhisNeeded
  <2> QED
    BY <2>1, <2>2
<1>2. J /\ [Next]_vars => J'
  <2> SUFFICES ASSUME Solid, PhisNeeded, [Next]_vars PROVE Solid' /\ PhisNeeded'
    OBVIOUS
  <2>1. Solid'
    BY NextInv, NextSound, NextFlow DEF Solid
  <2>2. PhisNeeded <=> (status = "done" => Necessary(phis))
    BY DEF PhisNeeded, Necessary
  <2>3. PhisNeeded' <=> (status' = "done" => Necessary(phis'))
    BY DEF PhisNeeded, Necessary
  <2>4. CASE status' # "done"
    BY <2>1, <2>3, <2>4
  <2>5. CASE UNCHANGED vars
    <3>1. status' = status /\ phis' = phis
      BY <2>5 DEF vars
    <3> QED
      BY <2>1, <2>2, <2>3, <3>1
  <2>6. CASE status' = "done" /\ ~UNCHANGED vars
    <3>1. PICK eqs, rep : /\ Converged /\ eqs = Equations /\ rep = Representative(eqs) /\ Solvable(eqs)
                          /\ phis' = Kept(eqs, rep)
      BY <2>6, BecomesDone DEF Solid
    <3>2. System(eqs)
      BY <3>1, EquationsFacts
    <3>3. PICK P : P = Kept(eqs, rep)
      OBVIOUS
    <3>4. Simplified(eqs, rep, P)
      BY <3>1, <3>2, <3>3 DEF Simplified, Solvable
    <3>5. Necessary(P)
      BY <3>4, KeptNeeded DEF Necessary
    <3> QED
      BY <2>1, <2>3, <3>1, <3>3, <3>5
  <2> QED
    BY <2>4, <2>5, <2>6
<1>3. J => PhisNeeded
  OBVIOUS
<1> QED
  BY <1>1, <1>2, <1>3, PTL DEF Spec
-----------------------------------------------------------------------------
(* The machine.  Each usable cell of the frame names an origin, and the    *)
(* environment E has for it the value that the machine has in that place.  *)
Holds(E, o, v) == o \in DOMAIN E /\ E[o] = v

Bound(E, s, r) ==
  /\ IsList(s) /\ IsList(r) /\ Len(s) = Len(r)
  /\ \A i \in 1..Len(s) : s[i].type.kind # "Top" => Holds(E, s[i].origin, r[i])

Binds(E, f, s, r) == Bound(E, f.locals, s) /\ Bound(E, f.stack, r)

\* A cell that is not usable stands for any value.
Stands(E, c, v) == c.type.kind # "Top" => Holds(E, c.origin, v)

LEMMA BoundMap ==
  ASSUME NEW n \in Nat, NEW a, NEW b, IsMap(n, a), IsMap(n, b), NEW E,
         \A i \in 1..n : Stands(E, a[i], b[i])
  PROVE  Bound(E, a, b)
<1>1. IsList(a) /\ Len(a) = n /\ IsList(b) /\ Len(b) = n
  BY ListMade
<1> QED
  BY <1>1 DEF Bound, Stands

LEMMA BoundFew ==
  ASSUME NEW E
  PROVE  /\ Bound(E, <<>>, <<>>)
         /\ \A c, v : Stands(E, c, v) => Bound(E, <<c>>, <<v>>)
         /\ \A c, v, d, w : Stands(E, c, v) /\ Stands(E, d, w) => Bound(E, <<c, d>>, <<v, w>>)
<1>1. \A c, d : /\ IsList(<<>>) /\ Len(<<>>) = 0
                /\ IsList(<<c>>) /\ Len(<<c>>) = 1
                /\ IsList(<<c, d>>) /\ Len(<<c, d>>) = 2
  BY DEF IsList
<1>2. Bound(E, <<>>, <<>>)
  <2>1. IsList(<<>>) /\ Len(<<>>) = 0
    BY <1>1
  <2>2. 1..0 = {}
    OBVIOUS
  <2> QED
    BY <2>1, <2>2 DEF Bound
<1>3. \A i \in 1..1 : i = 1
  OBVIOUS
<1>4. ASSUME NEW c, NEW v, Stands(E, c, v)
      PROVE  Bound(E, <<c>>, <<v>>)
  <2>1. \A i \in 1..1 : Stands(E, <<c>>[i], <<v>>[i])
    BY <1>3, <1>4
  <2> QED
    BY <1>1, <2>1 DEF Bound, Stands
<1>5. ASSUME NEW c, NEW v, NEW d, NEW w, Stands(E, c, v), Stands(E, d, w)
      PROVE  Bound(E, <<c, d>>, <<v, w>>)
  <2>1. \A i \in 1..2 : i = 1 \/ i = 2
    OBVIOUS
  <2>2. \A i \in 1..2 : Stands(E, <<c, d>>[i], <<v, w>>[i])
    BY <1>5, <2>1
  <2> QED
    BY <1>1, <2>2 DEF Bound, Stands
<1> QED
  BY <1>2, <1>4, <1>5

LEMMA BoundStacked ==
  ASSUME NEW E, NEW s, NEW r, Bound(E, s, r), NEW k \in 0..Len(s),
         NEW x, NEW y, Bound(E, x, y)
  PROVE  Bound(E, SubSeq(s, 1, Len(s) - k) \o x, SubSeq(r, 1, Len(r) - k) \o y)
<1> DEFINE n == Len(s) - k
           a == SubSeq(s, 1, n) \o x
           b == SubSeq(r, 1, n) \o y
<1>1. /\ IsList(s) /\ IsList(r) /\ IsList(x) /\ IsList(y)
      /\ Len(r) = Len(s) /\ Len(y) = Len(x)
      /\ \A i \in 1..Len(s) : Stands(E, s[i], r[i])
      /\ \A i \in 1..Len(x) : Stands(E, x[i], y[i])
  BY DEF Bound, Stands
<1>2. Restacked(s, n, x, a)
  BY <1>1, Stacking
<1>3. Restacked(r, n, y, b)
  BY <1>1, Stacking
<1> HIDE DEF n, a, b
<1>4. \A i \in 1..(n + Len(x)) : Stands(E, a[i], b[i])
  BY <1>1, <1>2, <1>3 DEF Restacked
<1>5. Bound(E, a, b)
  BY <1>1, <1>2, <1>3, <1>4 DEF Bound, Stands, Restacked
<1> QED
  BY <1>1, <1>5 DEF a, b, n

LEMMA PutBound ==
  ASSUME NEW E, NEW l, NEW r, Bound(E, l, r), NEW n, NEW c, NEW v, Stands(E, c, v),
         Computational(c.type), IsHead(v.type) <=> IsHead(c.type)
  PROVE  Bound(E, Put(l, n, c), Written(r, n, v))
<1> DEFINE last == IF IsHead(c.type) THEN n + 1 ELSE n
           x(i) == IF i = n THEN c
                   ELSE IF i = last THEN Cell(T("LongTail"), c.origin)
                   ELSE IF \/ i = n - 1 /\ IsHead(l[i].type)
                           \/ i = last + 1 /\ IsTail(l[i].type)
                   THEN Unusable ELSE l[i]
           y(i) == IF i = n \/ (IsHead(v.type) /\ i = n + 1) THEN v ELSE r[i]
           k == Len(l)
<1>1. /\ DOMAIN l = 1..k /\ DOMAIN r = 1..k /\ k \in Nat
      /\ \A i \in 1..k : Stands(E, l[i], r[i])
  BY ListDomain DEF Bound, Stands, IsList
<1>2. \A w : Stands(E, Unusable, w)
  <2>1. Unusable.type.kind = "Top"
    BY DEF Unusable, Cell, T
  <2> QED
    BY <2>1 DEF Stands
<1>3. Stands(E, Cell(T("LongTail"), c.origin), v)
  <2>1. Cell(T("LongTail"), c.origin).origin = c.origin
    BY DEF Cell
  <2>2. Holds(E, c.origin, v)
    BY DEF Stands, Computational
  <2> QED
    BY <2>1, <2>2 DEF Stands
<1>4. ASSUME NEW i \in 1..k PROVE Stands(E, x(i), y(i))
  <2>1. CASE i = n
    BY <2>1
  <2>2. CASE i # n /\ i = last
    BY <1>3, <2>2
  <2>3. CASE i # n /\ i # last
    <3>1. y(i) = r[i]
      BY <2>3
    <3>2. x(i) = Unusable \/ x(i) = l[i]
      BY <2>3
    <3> HIDE DEF x, y
    <3> QED
      BY <1>1, <1>2, <3>1, <3>2
  <2> QED
    BY <2>1, <2>2, <2>3
<1>5. /\ Put(l, n, c) = [i \in 1..k |-> x(i)]
      /\ Written(r, n, v) = [i \in 1..k |-> y(i)]
  BY <1>1 DEF Put, Written
<1> HIDE DEF x, y
<1>6. /\ IsMap(k, [i \in 1..k |-> x(i)]) /\ IsMap(k, [i \in 1..k |-> y(i)])
      /\ \A i \in 1..k : [j \in 1..k |-> x(j)][i] = x(i) /\ [j \in 1..k |-> y(j)][i] = y(i)
  BY DEF IsMap
<1>7. Bound(E, [i \in 1..k |-> x(i)], [i \in 1..k |-> y(i)])
  BY <1>1, <1>4, <1>6, BoundMap
<1> QED
  BY <1>5, <1>7

LEMMA IncreasedBound ==
  ASSUME NEW E, NEW l, NEW r, Bound(E, l, r), NEW n, NEW c, NEW v, Stands(E, c, v),
         ~IsHead(v.type)
  PROVE  Bound(E, [l EXCEPT ![n] = c], Written(r, n, v))
<1> DEFINE x(i) == IF i = n THEN c ELSE l[i]
           y(i) == IF i = n THEN v ELSE r[i]
           k == Len(l)
<1>1. /\ DOMAIN l = 1..k /\ DOMAIN r = 1..k /\ k \in Nat
      /\ l = [i \in 1..k |-> l[i]]
      /\ \A i \in 1..k : Stands(E, l[i], r[i])
  BY ListDomain DEF Bound, Stands, IsList
<1>2. \A i \in 1..k : Stands(E, x(i), y(i))
  BY <1>1
<1>3. /\ [l EXCEPT ![n] = c] = [i \in 1..k |-> x(i)]
      /\ Written(r, n, v) = [i \in 1..k |-> y(i)]
  BY <1>1 DEF Written
<1> HIDE DEF x, y
<1>4. /\ IsMap(k, [i \in 1..k |-> x(i)]) /\ IsMap(k, [i \in 1..k |-> y(i)])
      /\ \A i \in 1..k : [j \in 1..k |-> x(j)][i] = x(i) /\ [j \in 1..k |-> y(j)][i] = y(i)
  BY DEF IsMap
<1>5. Bound(E, [i \in 1..k |-> x(i)], [i \in 1..k |-> y(i)])
  BY <1>1, <1>2, <1>4, BoundMap
<1> QED
  BY <1>3, <1>5

\* An object changes its state, for the machine and in the environment alike.
LEMMA BecomingBound ==
  ASSUME NEW E, NEW l, NEW r, Bound(E, l, r), NEW v, NEW to, NEW b, IsMap(Len(l), b),
         \A i \in 1..Len(l) : b[i].type.kind # "Top" => l[i].type.kind # "Top" /\ b[i].origin = l[i].origin
  PROVE  Bound(Becoming(E, v, to), b, Becoming(r, v, to))
<1> DEFINE k == Len(l)
           y(i) == IF r[i] = v THEN [v EXCEPT !.type = to] ELSE r[i]
           F == Becoming(E, v, to)
<1>1. /\ k \in Nat /\ DOMAIN r = 1..k
      /\ \A i \in 1..k : Stands(E, l[i], r[i])
  BY ListDomain DEF Bound, Stands, IsList
<1>2. ASSUME NEW i \in 1..k, b[i].type.kind # "Top" PROVE Holds(F, b[i].origin, y(i))
  <2>1. Holds(E, b[i].origin, r[i])
    BY <1>1, <1>2 DEF Stands
  <2> QED
    BY <2>1 DEF Holds, Becoming
<1>3. Becoming(r, v, to) = [i \in 1..k |-> y(i)]
  BY <1>1 DEF Becoming
<1> HIDE DEF y, F
<1>4. /\ IsMap(k, [i \in 1..k |-> y(i)])
      /\ \A i \in 1..k : [j \in 1..k |-> y(j)][i] = y(i)
  BY DEF IsMap
<1>5. \A i \in 1..k : Stands(F, b[i], [j \in 1..k |-> y(j)][i])
  BY <1>2, <1>4 DEF Stands
<1>6. Bound(F, b, [i \in 1..k |-> y(i)])
  BY <1>1, <1>4, <1>5, BoundMap
<1> QED
  BY <1>3, <1>6 DEF F

LEMMA ConstructedBound ==
  ASSUME NEW E, NEW l, NEW r, Bound(E, l, r), NEW t, t.kind = "UninitNew", NEW v, NEW to
  PROVE  Bound(Becoming(E, v, to), Initialised(l, t), Becoming(r, v, to))
<1> DEFINE k == Len(l)
           x(i) == IF l[i].type = t THEN Cell(RefOf(t.class), l[i].origin) ELSE l[i]
           b == [i \in 1..k |-> x(i)]
<1>1. k \in Nat /\ DOMAIN l = 1..k
  BY ListDomain DEF Bound, IsList
<1>2. Initialised(l, t) = b
  BY <1>1 DEF Initialised
<1>3. \A i \in 1..k : x(i).type.kind # "Top" => l[i].type.kind # "Top" /\ x(i).origin = l[i].origin
  BY DEF Cell
<1> HIDE DEF x
<1>4. IsMap(k, b) /\ \A i \in 1..k : b[i] = x(i)
  BY DEF IsMap
<1> HIDE DEF b
<1>5. Bound(Becoming(E, v, to), b, Becoming(r, v, to))
  BY <1>3, <1>4, BecomingBound
<1> QED
  BY <1>2, <1>5

\* The cells of an object whose constructor threw.
Losing(l, t) == [i \in DOMAIN l |-> IF l[i].type = t THEN Unusable ELSE l[i]]

LEMMA LostBound ==
  ASSUME NEW E, NEW l, NEW r, Bound(E, l, r), NEW t, NEW v, NEW to
  PROVE  Bound(Becoming(E, v, to), Losing(l, t), Becoming(r, v, to))
<1> DEFINE k == Len(l)
           x(i) == IF l[i].type = t THEN Unusable ELSE l[i]
           b == [i \in 1..k |-> x(i)]
<1>1. k \in Nat /\ DOMAIN l = 1..k
  BY ListDomain DEF Bound, IsList
<1>2. Losing(l, t) = b
  BY <1>1 DEF Losing
<1>3. Unusable.type.kind = "Top"
  BY DEF Unusable, Cell, T
<1>4. \A i \in 1..k : x(i).type.kind # "Top" => l[i].type.kind # "Top" /\ x(i).origin = l[i].origin
  BY <1>3
<1> HIDE DEF x
<1>5. IsMap(k, b) /\ \A i \in 1..k : b[i] = x(i)
  BY DEF IsMap
<1> HIDE DEF b
<1>6. Bound(Becoming(E, v, to), b, Becoming(r, v, to))
  BY <1>4, <1>5, BecomingBound
<1> QED
  BY <1>2, <1>6

\* A value of its own for an origin that no usable cell names.
Anonymous(s, o) == \A i \in 1..Len(s) : s[i].type.kind # "Top" => s[i].origin # o

LEMMA DefinedBound ==
  ASSUME NEW E, NEW l, NEW r, Bound(E, l, r), NEW o, Anonymous(l, o), NEW v
  PROVE  Bound(With(E, o, v), l, r)
<1> DEFINE F == With(E, o, v)
<1>1. \A x : x # o /\ x \in DOMAIN E => x \in DOMAIN F /\ F[x] = E[x]
  BY DEF With
<1> HIDE DEF F
<1>2. ASSUME NEW i \in 1..Len(l), l[i].type.kind # "Top" PROVE Holds(F, l[i].origin, r[i])
  <2>1. Holds(E, l[i].origin, r[i]) /\ l[i].origin # o
    BY <1>2 DEF Bound, Anonymous
  <2> QED
    BY <1>1, <2>1 DEF Holds
<1>3. Bound(F, l, r)
  BY <1>2 DEF Bound
<1> QED
  BY <1>3 DEF F

LEMMA DefinedHolds ==
  ASSUME NEW E, NEW o, NEW v
  PROVE  Holds(With(E, o, v), o, v)
BY DEF Holds, With
-----------------------------------------------------------------------------
\* No usable cell names what the instruction is about to create: the origins
\* of the frame are from before it.
LEMMA NotYet ==
  ASSUME Solid, status = "done", Aged(in), at \in Nat \X Nat, at[1] \in DOMAIN in,
         at[2] \in DOMAIN method.code[at[1]]
  PROVE  \A o \in {Def(at), Thrown(at)} : Anonymous(Here.locals, o) /\ Anonymous(Here.stack, o)
<1> DEFINE b == at[1]
           i == at[2]
           t == Trace(method, b, in[b])
<1>1. PICK k \in Nat : \E depth \in [DOMAIN in -> 0..k] : \A c \in DOMAIN in : AllPlaced(depth, c, 1, in[c])
  BY DEF Aged
<1>2. PICK depth \in [DOMAIN in -> 0..k] : \A c \in DOMAIN in : AllPlaced(depth, c, 1, in[c])
  BY <1>1
<1>3. /\ Runs(method.code[b], b, t) /\ t[1] = in[b]
      /\ \A j \in DOMAIN method.code[b] : IsInstruction(method.code[b][j])
  BY BlockFacts
<1>4. /\ DOMAIN method.code[b] = 1..Len(method.code[b]) /\ Len(method.code[b]) \in Nat
      /\ i \in 1..(Len(method.code[b]) + 1) /\ i \in Nat
  <2>1. /\ DOMAIN method.code[b] = 1..Len(method.code[b]) /\ Len(method.code[b]) \in Nat
        /\ i \in Nat
    BY <1>3 DEF Runs
  <2> QED
    BY <2>1
<1>5. AllPlaced(depth, b, i, Here)
  <2>1. AllPlaced(depth, b, 1, t[1])
    BY <1>2, <1>3
  <2> HIDE DEF t
  <2>2. \A j \in 1..(Len(method.code[b]) + 1) : AllPlaced(depth, b, j, t[j])
    BY <1>3, <1>4, <2>1, WalkPlaced
  <2> QED
    BY <1>4, <2>2 DEF Here, t
<1>6. ASSUME NEW o \in {Def(at), Thrown(at)} PROVE ~Placed(depth, b, i, o)
  <2>1. o.kind \notin {"param", "top"} /\ o.at = at
    BY <1>6 DEF Def, Thrown, Origin
  <2>2. ~(depth[b] < depth[b])
    <3>1. depth[b] \in 0..k
      OBVIOUS
    <3> QED
      BY <3>1
  <2>3. i \notin 0..(i - 1)
    BY <1>4
  <2> QED
    BY <2>1, <2>2, <2>3 DEF Placed, Before
<1> HIDE DEF b, i, t
<1> QED
  BY <1>5, <1>6 DEF AllPlaced, Anonymous

\* The value that the instruction computes is in the environment, and those
\* that usable cells name are still.
LEMMA UpdatedBinds ==
  ASSUME NEW f, NEW s, NEW r, Binds(env, f, s, r), Instruction.op # "init",
         Anonymous(f.locals, Def(at)), Anonymous(f.stack, Def(at)), NEW new
  PROVE  /\ Binds(Updated(new), f, s, r)
         /\ Defines => Holds(Updated(new), Def(at), new)
<1>1. CASE Defines
  <2>1. Updated(new) = With(env, Def(at), new)
    BY <1>1 DEF Updated
  <2>2. Bound(With(env, Def(at), new), f.locals, s) /\ Bound(With(env, Def(at), new), f.stack, r)
    BY DefinedBound DEF Binds
  <2> QED
    BY <2>1, <2>2, DefinedHolds DEF Binds
<1>2. CASE ~Defines
  BY <1>2 DEF Updated
<1> QED
  BY <1>1, <1>2
\* One instruction: what the frame after it names is in the environment
\* after it.
LEMMA RunBinds ==
  ASSUME NEW f, IsTyped(f), NEW u, Describes(u, f, locals, stack), Binds(env, f, locals, stack),
         NEW ins, ins = Instruction, IsInstruction(ins), Fits(f, ins), ins.op # "athrow",
         Anonymous(f.locals, Def(at)), Anonymous(f.stack, Def(at)),
         NEW new, new = Result
  PROVE  Binds(Updated(new), Transfer(f, ins, at), Run(new)[1], Run(new)[2])
<1> DEFINE n == Len(stack)
           top == f.stack[n]
           under == f.stack[n - 1]
           vtop == stack[n]
           vunder == stack[n - 1]
           k == Len(f.locals)
           g == Transfer(f, ins, at)
           E == Updated(new)
<1>1. /\ n \in Nat /\ Len(f.stack) = n /\ k \in Nat /\ IsList(stack) /\ IsList(f.stack)
      /\ DOMAIN f.locals = 1..k /\ DOMAIN locals = 1..k
      /\ \A i \in 1..n : /\ Suits(u, f.stack[i].type, stack[i]) /\ Stands(env, f.stack[i], stack[i])
                         /\ f.stack[i].type \in Types /\ Computational(f.stack[i].type)
      /\ f = Frame(f.locals, f.stack) /\ f.ok
      /\ Bound(env, f.locals, locals) /\ Bound(env, f.stack, stack)
  <2>1. f.ok
    BY DEF IsTyped, Frame
  <2> QED
    BY <2>1, ListDomain DEF IsTyped, Describes, Described, IsList, Binds, Bound, Stands
<1>2. /\ n > 0 => n \in 1..n
      /\ n > 1 => n - 1 \in 1..n
  BY <1>1
<1>3. n > 0 => Suits(u, top.type, vtop) /\ top.type \in Types /\ Computational(top.type)
  BY <1>1, <1>2
<1>4. ASSUME NEW j \in 0..n, NEW x
      PROVE  Restack(f, j, x) = Frame(f.locals, SubSeq(f.stack, 1, n - j) \o x)
  BY <1>1, FrameUpdates DEF Restack
<1>5. ASSUME ins.op # "init"
      PROVE  /\ Bound(E, f.locals, locals) /\ Bound(E, f.stack, stack)
             /\ Defines => Holds(E, Def(at), new)
             /\ \A i \in 1..k : Stands(E, f.locals[i], locals[i])
             /\ n > 0 => Stands(E, top, vtop)
             /\ n > 1 => Stands(E, under, vunder)
  <2> HIDE DEF E, n
  <2>1. /\ Bound(E, f.locals, locals) /\ Bound(E, f.stack, stack)
        /\ Defines => Holds(E, Def(at), new)
    BY <1>5, UpdatedBinds DEF Binds, E
  <2> QED
    BY <1>1, <1>2, <2>1 DEF Bound, Stands
<1>6. ASSUME ins.op # "init", NEW j \in 0..n, NEW x, NEW y, Bound(E, x, y)
      PROVE  Binds(E, Restack(f, j, x), locals, SubSeq(stack, 1, n - j) \o y)
  <2>1. Bound(E, SubSeq(f.stack, 1, n - j) \o x, SubSeq(stack, 1, n - j) \o y)
    <3> HIDE DEF n, E
    <3> QED
      BY <1>1, <1>5, <1>6, BoundStacked DEF n
  <2>2. Restack(f, j, x) = Frame(f.locals, SubSeq(f.stack, 1, n - j) \o x)
    BY <1>4
  <2>3. \A p, q : Frame(p, q).locals = p /\ Frame(p, q).stack = q
    BY DEF Frame
  <2> HIDE DEF E
  <2> QED
    BY <1>5, <1>6, <2>1, <2>2, <2>3 DEF Binds
<1>7. /\ 0 \in 0..n
      /\ n > 0 => 1 \in 0..n
      /\ n > 1 => 2 \in 0..n
  BY <1>1
<1>8. ASSUME NEW j \in 0..n
      PROVE  /\ SubSeq(stack, 1, n - j) \o <<>> = SubSeq(stack, 1, n - j)
             /\ \A v : SubSeq(stack, 1, n - j) \o <<v>> = Append(SubSeq(stack, 1, n - j), v)
             /\ \A v : SubSeq(stack, 1, n - 0) \o <<v>> = Append(stack, v)
  BY <1>1, StackForms
<1>9. SubSeq(stack, 1, n - 0) = stack
  BY <1>1, <1>7, StackForms
<1>10. \A p, q : Cell(p, q).type = p /\ Cell(p, q).origin = q
  BY DEF Cell
<1>11. ASSUME Defines, ins.op # "init", NEW t, NEW j \in 0..n
       PROVE  Binds(E, Restack(f, j, <<Cell(t, Def(at))>>), locals, Append(SubSeq(stack, 1, n - j), new))
  <2>1. Stands(E, Cell(t, Def(at)), new)
    BY <1>5, <1>10, <1>11 DEF Stands
  <2>2. Bound(E, <<Cell(t, Def(at))>>, <<new>>)
    BY <2>1, BoundFew
  <2>3. SubSeq(stack, 1, n - j) \o <<new>> = Append(SubSeq(stack, 1, n - j), new)
    BY <1>8
  <2>4. Binds(E, Restack(f, j, <<Cell(t, Def(at))>>), locals, SubSeq(stack, 1, n - j) \o <<new>>)
    BY <1>6, <1>11, <2>2
  <2> QED
    BY <2>3, <2>4
<1>12. /\ ins.op \in Ops /\ Bound(E, <<>>, <<>>)
       /\ ins.op \in {"const", "invoke", "new", "iinc", "add", "checkcast"} <=> Defines
  BY BoundFew DEF IsInstruction, Defines
<1>13. f.ok /\ Fits(f, ins)
  BY <1>1
<1> HIDE DEF E
<1>20. CASE ins.op \in {"goto", "return"}
  <2>1. g = f /\ Run(new) = <<locals, stack>>
    BY <1>13, <1>20 DEF Transfer, Run
  <2> QED
    BY <1>5, <1>20, <2>1 DEF Binds, E
<1>21. CASE ins.op \in {"const", "invoke", "new"}
  <2>1. \E t : g = Restack(f, 0, <<Cell(t, Def(at))>>)
    BY <1>13, <1>21 DEF Transfer
  <2>2. Run(new) = <<locals, Append(stack, new)>>
    BY <1>21 DEF Run
  <2>3. Binds(E, g, locals, Append(stack, new))
    BY <1>7, <1>9, <1>11, <1>12, <1>21, <2>1
  <2> QED
    BY <2>2, <2>3 DEF E
<1>22. CASE ins.op = "load"
  <2>1. g = Restack(f, 0, <<f.locals[ins.local]>>)
    BY <1>13, <1>22 DEF Transfer
  <2>2. Run(new) = <<locals, Append(stack, locals[ins.local])>>
    BY <1>22 DEF Run
  <2>3. ins.local \in 1..k
    BY <1>1, <1>13, <1>22 DEF Fits
  <2>4. Bound(E, <<f.locals[ins.local]>>, <<locals[ins.local]>>)
    BY <1>5, <1>22, <2>3, BoundFew
  <2>5. Binds(E, g, locals, SubSeq(stack, 1, n - 0) \o <<locals[ins.local]>>)
    BY <1>6, <1>7, <1>22, <2>1, <2>4
  <2>6. Binds(E, g, locals, Append(stack, locals[ins.local]))
    BY <1>7, <1>8, <2>5
  <2> QED
    BY <2>2, <2>6 DEF E
<1>23. CASE ins.op = "store"
  <2> DEFINE p == SubSeq(f.stack, 1, n - 1) \o <<>>
             l == Put(f.locals, ins.local, top)
             r == Written(locals, ins.local, vtop)
             q == SubSeq(stack, 1, n - 1)
  <2>1. n > 0
    BY <1>1, <1>13, <1>23 DEF Fits
  <2>2. g = [Restack(f, 1, <<>>) EXCEPT !.locals = Put(@, ins.local, top)]
    BY <1>1, <1>13, <1>23 DEF Transfer
  <2>3. Run(new) = <<r, q>>
    BY <1>23 DEF Run, Written
  <2>4. Restack(f, 1, <<>>) = Frame(f.locals, p)
    BY <1>4, <1>7, <2>1
  <2>5. Bound(E, p, q)
    <3>1. Binds(E, Restack(f, 1, <<>>), locals, SubSeq(stack, 1, n - 1) \o <<>>)
      BY <1>6, <1>7, <1>12, <1>23, <2>1
    <3>2. SubSeq(stack, 1, n - 1) \o <<>> = q
      BY <1>7, <1>8, <2>1
    <3>3. Restack(f, 1, <<>>).stack = p
      BY <2>4 DEF Frame
    <3> QED
      BY <3>1, <3>2, <3>3 DEF Binds
  <2>6. g = Frame(l, p)
    <3>1. PICK h : h = Frame(f.locals, p)
      OBVIOUS
    <3>2. h.locals = f.locals /\ h.stack = p
      BY <3>1 DEF Frame
    <3>3. Relocated(h, l) = Frame(l, p)
      <4> HIDE DEF p, l
      <4>1. h = Frame(h.locals, h.stack)
        BY <3>1, <3>2
      <4> QED
        BY <3>2, <4>1, Remaking
    <3>4. g = [h EXCEPT !.locals = Put(@, ins.local, top)]
      BY <2>2, <2>4, <3>1
    <3>5. g = [h EXCEPT !.locals = l]
      <4>1. h = [ok |-> TRUE, locals |-> f.locals, stack |-> p]
        BY <3>1 DEF Frame
      <4> HIDE DEF p, l, g
      <4> QED
        BY <3>4, <4>1 DEF l
    <3> QED
      BY <3>3, <3>5 DEF Relocated
  <2>7. IsHead(vtop.type) <=> IsHead(top.type)
    <3>1. top.type.kind \in {"Int", "Long", "Ref", "Null", "UninitNew"}
      BY <1>3, <2>1 DEF Computational, Types, Kinds
    <3>2. Promises(top.type, vtop.type)
      BY <1>3, <2>1 DEF Suits
    <3> HIDE DEF top, vtop
    <3> QED
      BY <3>1, <3>2 DEF Promises, IsHead
  <2>8. Bound(E, l, r)
    <3>1. Bound(E, f.locals, locals) /\ Stands(E, top, vtop) /\ Computational(top.type)
      BY <1>3, <1>5, <1>23, <2>1
    <3> HIDE DEF top, vtop
    <3> QED
      BY <2>7, <3>1, PutBound
  <2>9. Binds(E, g, r, q)
    <3> HIDE DEF l, p, r, q, g
    <3> QED
      BY <2>5, <2>6, <2>8 DEF Binds, Frame
  <2> QED
    BY <2>3, <2>9 DEF E
<1>24. CASE ins.op = "iinc"
  <2> DEFINE c == f.locals[ins.local]
             l == [f.locals EXCEPT ![ins.local] = Increased(c, at)]
             r == Written(locals, ins.local, new)
  <2>1. Run(new) = <<r, stack>>
    BY <1>24 DEF Run, Written
  <2>2. g = Frame(l, f.stack)
    <3>1. g = [f EXCEPT !.locals[ins.local] = Increased(@, at)]
      BY <1>13, <1>24 DEF Transfer
    <3>2. [f EXCEPT !.locals[ins.local] = Increased(@, at)] = Frame(l, f.stack)
      BY <1>1, FrameUpdates
    <3> QED
      BY <3>1, <3>2
  <2>3. ~IsHead(new.type)
    <3>1. new.type = Computed
      BY <1>24, ResultFacts
    <3>2. Computed.kind = "Int"
      BY <1>24 DEF Computed, IntConst
    <3> QED
      BY <3>1, <3>2 DEF IsHead
  <2>4. Stands(E, Increased(c, at), new)
    <3>1. Increased(c, at).origin = Def(at)
      BY <1>10 DEF Increased
    <3> HIDE DEF c
    <3> QED
      BY <1>5, <1>12, <1>24, <3>1 DEF Stands
  <2>5. Bound(E, l, r)
    <3>1. Bound(E, f.locals, locals)
      BY <1>5, <1>24
    <3> HIDE DEF c
    <3> QED
      BY <2>3, <2>4, <3>1, IncreasedBound
  <2>6. Binds(E, g, r, stack)
    <3>1. Bound(E, f.stack, stack)
      BY <1>5, <1>24
    <3> HIDE DEF l, r, g
    <3> QED
      BY <2>2, <2>5, <3>1 DEF Binds, Frame
  <2> QED
    BY <2>1, <2>6 DEF E
<1>25. CASE ins.op \in {"pop", "if"}
  <2>1. n > 0
    BY <1>1, <1>13, <1>25 DEF Fits
  <2>2. g = Restack(f, 1, <<>>)
    BY <1>13, <1>25 DEF Transfer
  <2>3. Run(new) = <<locals, SubSeq(stack, 1, n - 1)>>
    BY <1>25 DEF Run
  <2>4. Binds(E, g, locals, SubSeq(stack, 1, n - 1) \o <<>>)
    BY <1>6, <1>7, <1>12, <1>25, <2>1, <2>2
  <2>5. Binds(E, g, locals, SubSeq(stack, 1, n - 1))
    BY <1>7, <1>8, <2>1, <2>4
  <2> QED
    BY <2>3, <2>5 DEF E
<1>26. CASE ins.op = "dup"
  <2>1. n > 0
    BY <1>1, <1>13, <1>26 DEF Fits
  <2>2. g = Restack(f, 0, <<top>>)
    BY <1>1, <1>13, <1>26 DEF Transfer
  <2>3. Run(new) = <<locals, Append(stack, vtop)>>
    BY <1>26 DEF Run
  <2>4. Bound(E, <<top>>, <<vtop>>)
    BY <1>5, <1>26, <2>1, BoundFew
  <2>5. Binds(E, g, locals, SubSeq(stack, 1, n - 0) \o <<vtop>>)
    BY <1>6, <1>7, <1>26, <2>2, <2>4
  <2>6. Binds(E, g, locals, Append(stack, vtop))
    BY <1>7, <1>8, <2>5
  <2> QED
    BY <2>3, <2>6 DEF E
<1>27. CASE ins.op = "swap"
  <2>1. n > 1 /\ n > 0
    BY <1>1, <1>13, <1>27 DEF Fits
  <2>2. g = Restack(f, 2, <<top, under>>)
    BY <1>1, <1>13, <1>27 DEF Transfer
  <2>3. Run(new) = <<locals, SubSeq(stack, 1, n - 2) \o <<vtop, vunder>>>>
    BY <1>27 DEF Run
  <2>4. Bound(E, <<top, under>>, <<vtop, vunder>>)
    BY <1>5, <1>27, <2>1, BoundFew
  <2>5. Binds(E, g, locals, SubSeq(stack, 1, n - 2) \o <<vtop, vunder>>)
    BY <1>6, <1>7, <1>27, <2>1, <2>2, <2>4
  <2> QED
    BY <2>3, <2>5 DEF E
<1>28. CASE ins.op = "add"
  <2>1. n > 1
    BY <1>1, <1>13, <1>28 DEF Fits
  <2>2. g = Restack(f, 2, <<Cell(T("Int"), Def(at))>>)
    BY <1>13, <1>28 DEF Transfer
  <2>3. Run(new) = <<locals, Append(SubSeq(stack, 1, n - 2), new)>>
    BY <1>28 DEF Run
  <2>4. Binds(E, g, locals, Append(SubSeq(stack, 1, n - 2), new))
    BY <1>7, <1>11, <1>12, <1>28, <2>1, <2>2
  <2> QED
    BY <2>3, <2>4 DEF E
<1>29. CASE ins.op = "checkcast"
  <2>1. n > 0
    BY <1>1, <1>13, <1>29 DEF Fits
  <2>2. g = Restack(f, 1, <<Cell(CastTo(top.type, ins.type.class), Def(at))>>)
    BY <1>1, <1>13, <1>29 DEF Transfer
  <2>3. Run(new) = <<locals, Append(SubSeq(stack, 1, n - 1), new)>>
    BY <1>29 DEF Run
  <2>4. Binds(E, g, locals, Append(SubSeq(stack, 1, n - 1), new))
    BY <1>7, <1>11, <1>12, <1>29, <2>1, <2>2
  <2> QED
    BY <2>3, <2>4 DEF E
<1>30. CASE ins.op = "init"
  <2> DEFINE t == top.type
             p == SubSeq(f.stack, 1, n - 1) \o <<>>
             q == SubSeq(stack, 1, n - 1)
             to == RefOf(ins.type.class)
  <2>1. n > 0 /\ t.kind = "UninitNew"
    BY <1>1, <1>13, <1>30 DEF Fits
  <2>2. Restack(f, 1, <<>>) = Frame(f.locals, p)
    BY <1>4, <1>7, <2>1
  <2>3. g = Frame(Initialised(Restack(f, 1, <<>>).locals, t), Initialised(Restack(f, 1, <<>>).stack, t))
    BY <1>1, <1>13, <1>30 DEF Transfer
  <2>4. \A x, y : Frame(x, y).locals = x /\ Frame(x, y).stack = y
    BY DEF Frame
  <2>5. g = Frame(Initialised(f.locals, t), Initialised(p, t))
    BY <2>2, <2>3, <2>4
  <2>6. Run(new) = <<Becoming(locals, vtop, to), Becoming(q, vtop, to)>>
    BY <1>30 DEF Run
  <2>7. E = Becoming(env, vtop, to)
    <3>1. ~Defines
      BY <1>12, <1>30
    <3> QED
      BY <1>30, <3>1 DEF E, Updated
  <2>8. Bound(env, p, q)
    <3>1. Bound(env, p, SubSeq(stack, 1, n - 1) \o <<>>)
      <4>1. Bound(env, <<>>, <<>>) /\ 1 \in 0..n
        BY <1>7, <2>1, BoundFew
      <4> QED
        BY <1>1, <4>1, BoundStacked
    <3>2. SubSeq(stack, 1, n - 1) \o <<>> = q
      BY <1>7, <1>8, <2>1
    <3> QED
      BY <3>1, <3>2
  <2> HIDE DEF t, p, q, top, vtop, to, n
  <2>9. Bound(E, Initialised(f.locals, t), Becoming(locals, vtop, to))
    BY <1>1, <2>1, <2>7, ConstructedBound
  <2>10. Bound(E, Initialised(p, t), Becoming(q, vtop, to))
    BY <2>1, <2>7, <2>8, ConstructedBound
  <2>11. Binds(E, g, Becoming(locals, vtop, to), Becoming(q, vtop, to))
    <3> HIDE DEF g
    <3> QED
      BY <2>4, <2>5, <2>9, <2>10 DEF Binds
  <2> QED
    BY <2>6, <2>11 DEF E
<1> QED
  BY <1>12, <1>20, <1>21, <1>22, <1>23, <1>24, <1>25, <1>26, <1>27, <1>28, <1>29, <1>30 DEF Ops
\* The machine after an instruction that completes.
LEMMA CompletionBinds ==
  ASSUME Solid, status = "done", Ready(at, locals, stack), Aged(in), Binds(env, Here, locals, stack),
         at[2] \in DOMAIN method.code[at[1]], Instruction.op # "athrow"
  PROVE  Binds(Updated(Result), Trace(method, at[1], in[at[1]])[at[2] + 1], Run(Result)[1], Run(Result)[2])
<1> DEFINE b == at[1]
           i == at[2]
           t == Trace(method, b, in[b])
<1>1. PICK u : Describes(u, Here, locals, stack) /\ Unmade(u)
  BY DEF Ready, Here
<1>2. at \in Nat \X Nat /\ b \in DOMAIN in /\ at = <<b, i>> /\ Here = t[i]
  BY DEF Ready, Here
<1>3. Runs(method.code[b], b, t) /\ IsInstruction(Instruction) /\ Instruction = method.code[b][i]
  BY <1>2, BlockFacts DEF Instruction
<1>4. IsTyped(Here) /\ Fits(Here, Instruction) /\ t[i + 1] = Transfer(Here, Instruction, at)
  <2> HIDE DEF b, i, t
  <2>1. i \in 1..Len(method.code[b]) /\ Len(method.code[b]) \in Nat
    BY <1>3 DEF Runs, b, i
  <2>2. i \in 1..(Len(method.code[b]) + 1)
    BY <2>1
  <2> QED
    BY <1>2, <1>3, <2>1, <2>2 DEF Runs
<1>5. Anonymous(Here.locals, Def(at)) /\ Anonymous(Here.stack, Def(at))
  BY <1>2, NotYet
<1>6. PICK new : new = Result
  OBVIOUS
<1>7. PICK ins : ins = Instruction
  OBVIOUS
<1>8. Binds(Updated(new), Transfer(Here, ins, at), Run(new)[1], Run(new)[2])
  <2>1. PICK f : f = Here
    OBVIOUS
  <2> QED
    BY <1>1, <1>3, <1>4, <1>5, <1>6, <1>7, <2>1, RunBinds
<1> QED
  BY <1>4, <1>6, <1>7, <1>8

\* The machine after an instruction that throws.
LEMMA ThrowBinds ==
  ASSUME NEW f, f.locals = [i \in DOMAIN f.locals |-> f.locals[i]], Binds(env, f, locals, stack),
         Anonymous(f.locals, Thrown(at)), NEW ins, NEW thrown,
         NEW d, d = IF ins.op = "init" THEN Becoming(locals, stack[Len(stack)], T("Top")) ELSE locals,
         NEW E, E = IF ins.op = "init" THEN Becoming(env, stack[Len(stack)], T("Top")) ELSE env
  PROVE  Binds(With(E, Thrown(at), thrown), Exceptional(f, ins, at), d, <<thrown>>)
<1> DEFINE c == Cell(RefOf(Throwable), Thrown(at))
           t == f.stack[Len(f.stack)].type
           lost(x) == ins.op = "init" /\ x = f.stack[Len(f.stack)].type
           l == [i \in DOMAIN f.locals |-> IF lost(f.locals[i].type) THEN Unusable ELSE f.locals[i]]
           F == With(E, Thrown(at), thrown)
<1>1. Bound(env, f.locals, locals)
  BY DEF Binds
<1>2. DOMAIN f.locals = 1..Len(f.locals) /\ Len(f.locals) \in Nat
  BY <1>1, ListDomain DEF Bound, IsList
<1>3. Bound(E, l, d)
  <2>1. CASE ins.op = "init"
    <3>1. l = Losing(f.locals, t)
      BY <2>1 DEF Losing
    <3>2. PICK v : v = stack[Len(stack)]
      OBVIOUS
    <3>3. d = Becoming(locals, v, T("Top")) /\ E = Becoming(env, v, T("Top"))
      BY <2>1, <3>2
    <3> HIDE DEF t, l
    <3> QED
      BY <1>1, <3>1, <3>3, LostBound
  <2>2. CASE ins.op # "init"
    <3>1. \A i \in DOMAIN f.locals : (IF lost(f.locals[i].type) THEN Unusable ELSE f.locals[i]) = f.locals[i]
      BY <2>2
    <3>2. l = [i \in DOMAIN f.locals |-> f.locals[i]]
      <4> HIDE DEF lost
      <4> QED
        BY <3>1
    <3>3. l = f.locals
      BY <3>2, Zenon
    <3> HIDE DEF l
    <3> QED
      BY <1>1, <2>2, <3>3
  <2> QED
    BY <2>1, <2>2
<1>4. Anonymous(l, Thrown(at))
  <2>1. Len(l) = Len(f.locals) /\ Unusable.type.kind = "Top"
    <3>1. l = [i \in 1..Len(f.locals) |-> IF lost(f.locals[i].type) THEN Unusable ELSE f.locals[i]]
      BY <1>2
    <3>2. Len(l) = Len(f.locals)
      BY <1>2, <3>1
    <3> QED
      BY <3>2 DEF Unusable, Cell, T
  <2>2. \A i \in 1..Len(f.locals) : l[i] = Unusable \/ l[i] = f.locals[i]
    BY <1>2
  <2> HIDE DEF l
  <2> QED
    BY <2>1, <2>2 DEF Anonymous
<1>5. c.type = RefOf(Throwable) /\ c.origin = Thrown(at)
  BY DEF Cell
<1>6. Exceptional(f, ins, at) = Frame(l, <<c>>)
  BY DEF Exceptional
<1>7. \A p, q : Frame(p, q).locals = p /\ Frame(p, q).stack = q
  BY DEF Frame
<1> HIDE DEF l, c
<1>8. Bound(F, l, d)
  BY <1>3, <1>4, DefinedBound
<1>9. Bound(F, <<c>>, <<thrown>>)
  <2>1. Holds(F, Thrown(at), thrown)
    BY DefinedHolds
  <2> HIDE DEF F
  <2>2. Stands(F, c, thrown)
    BY <1>5, <2>1 DEF Stands
  <2> QED
    BY <2>2, BoundFew
<1>10. Binds(F, Exceptional(f, ins, at), d, <<thrown>>)
  <2>1. /\ Exceptional(f, ins, at).locals = l /\ Exceptional(f, ins, at).stack = <<c>>
    BY <1>6, <1>7
  <2> HIDE DEF F
  <2> QED
    BY <1>8, <1>9, <2>1 DEF Binds
<1> QED
  BY <1>10

\* An edge is followed: its phis take their operands, all at once.
Moved(P, e, b, base) ==
  LET here == {o \in DOMAIN P : o.at = <<b, 0>>} IN
  [o \in DOMAIN base \cup here |-> IF o \in here THEN base[P[o][e]] ELSE base[o]]

LEMMA MovedHolds ==
  ASSUME NEW P, NEW e, NEW b, NEW base, NEW o, NEW p, Passes(P, e, b, o, p), NEW v, Holds(base, p, v)
  PROVE  Holds(Moved(P, e, b, base), o, v)
<1> DEFINE here == {x \in DOMAIN P : x.at = <<b, 0>>}
<1>1. /\ DOMAIN Moved(P, e, b, base) = DOMAIN base \cup here
      /\ \A x \in DOMAIN base \cup here :
           Moved(P, e, b, base)[x] = IF x \in here THEN base[P[x][e]] ELSE base[x]
  BY DEF Moved
<1>2. CASE o \in here
  <2>1. P[o][e] = p
    BY <1>2 DEF Passes
  <2> QED
    BY <1>1, <1>2, <2>1 DEF Holds
<1>3. CASE o \notin here
  <2>1. o = p
    BY <1>3 DEF Passes
  <2> QED
    BY <1>1, <1>3, <2>1 DEF Holds
<1> QED
  BY <1>2, <1>3

LEMMA MovedBound ==
  ASSUME NEW P, NEW e, NEW b, NEW base, NEW s, NEW t, BelowCells(s, t), DeliversCells(P, e, b, s, t),
         NEW r, Bound(base, s, r)
  PROVE  Bound(Moved(P, e, b, base), t, r)
<1> DEFINE F == Moved(P, e, b, base)
<1>1. /\ IsList(t) /\ Len(t) = Len(s) /\ IsList(r) /\ Len(r) = Len(t)
      /\ \A i \in 1..Len(t) : Below(s[i].type, t[i].type)
  BY DEF BelowCells, Bound
<1>2. ASSUME NEW i \in 1..Len(t), t[i].type.kind # "Top" PROVE Holds(F, t[i].origin, r[i])
  <2>1. s[i].type.kind # "Top"
    BY <1>1, <1>2 DEF Below
  <2>2. Holds(base, s[i].origin, r[i])
    BY <1>1, <2>1 DEF Bound
  <2>3. Passes(P, e, b, t[i].origin, s[i].origin)
    BY <1>2 DEF DeliversCells
  <2> QED
    BY <2>2, <2>3, MovedHolds
<1> HIDE DEF F
<1>3. Bound(F, t, r)
  BY <1>1, <1>2 DEF Bound
<1> QED
  BY <1>3 DEF F
-----------------------------------------------------------------------------
(* The invariant: where the machine is, each usable cell names an origin   *)
(* that the environment has the machine's value for.                       *)
MachineNames == Running => Binds(env, Here, locals, stack)

Named == Solid /\ MachineInv /\ DepthInv /\ NamesInv /\ MachineNames

LEMMA FollowBinds ==
  ASSUME Solid, status = "done", NEW e, NEW b, b = Target(method, e), NEW f, Entered(in, b, f),
         Delivers(phis, e, b, f, in[b]),
         NEW s, NEW r, NEW base, Follow(e, s, r, base), Binds(base, f, s, r)
  PROVE  MachineNames'
<1>1. b \in DOMAIN in /\ Covers(in[b], f)
  BY DEF Entered
<1>2. /\ at' = <<b, 1>> /\ locals' = s /\ stack' = r /\ UNCHANGED vars
      /\ env' = Moved(phis, e, b, base)
  BY DEF Follow, Moved
<1>3. Trace(method, b, in[b])[1] = in[b]
  BY <1>1, BlockFacts
<1>4. Here' = in[b]
  <2>1. method' = method /\ in' = in /\ at'[1] = b /\ at'[2] = 1
    BY <1>2 DEF vars
  <2> QED
    BY <1>3, <2>1 DEF Here
<1>5. Binds(env', in[b], s, r)
  <2>1. /\ BelowCells(f.locals, in[b].locals) /\ BelowCells(f.stack, in[b].stack)
        /\ DeliversCells(phis, e, b, f.locals, in[b].locals) /\ DeliversCells(phis, e, b, f.stack, in[b].stack)
        /\ Bound(base, f.locals, s) /\ Bound(base, f.stack, r)
    BY <1>1 DEF Covers, Delivers, Binds
  <2>2. /\ Bound(Moved(phis, e, b, base), in[b].locals, s)
        /\ Bound(Moved(phis, e, b, base), in[b].stack, r)
    BY <2>1, MovedBound
  <2> QED
    BY <1>2, <2>2 DEF Binds
<1> QED
  BY <1>2, <1>4, <1>5 DEF MachineNames

\* The arguments of the call are in the environment under their slots, that
\* of the head for both slots of a long.
LEMMA ArgumentsBound ==
  ASSUME WellFormed(method)
  PROVE  Binds([o \in Given |-> Arguments[o.slot]], EntryFrame(method), Arguments, <<>>)
<1> DEFINE n == Len(method.locals)
           slot(i) == IF IsTail(method.locals[i]) THEN i - 1 ELSE i
           x(i) == IF method.locals[i].kind = "Top" THEN Unusable
                   ELSE Cell(method.locals[i], Param(slot(i)))
           y(i) == IF method.locals[i].kind = "Top" THEN Garbage
                   ELSE IF IsTail(method.locals[i]) THEN Value(Param(i - 1), 0, method.locals[i - 1])
                   ELSE Value(Param(i), 0, IF method.locals[i].kind = "Int" THEN IntConst(0)
                                           ELSE method.locals[i])
           base == [o \in Given |-> Arguments[o.slot]]
<1>1. /\ n \in Nat /\ DOMAIN method.locals = 1..n
      /\ \A i \in 1..n :
           IsTail(method.locals[i]) => i - 1 \in 1..n /\ IsHead(method.locals[i - 1])
  <2>1. method.locals \in Seq(Types)
    BY DEF WellFormed, LocalsOf
  <2>2. n \in Nat /\ DOMAIN method.locals = 1..n
    BY <2>1
  <2> QED
    BY <2>2 DEF WellFormed, LocalsOf
<1>2. EntryFrame(method) = Frame([i \in 1..n |-> x(i)], <<>>)
  BY <1>1 DEF EntryFrame
<1>3. Arguments = [i \in 1..n |-> y(i)]
  BY <1>1 DEF Arguments
<1>4. ASSUME NEW i \in 1..n, Computational(method.locals[i])
      PROVE  Holds(base, Param(i), y(i))
  <2>1. Param(i) \in Given /\ Param(i).slot = i
    BY <1>1, <1>4 DEF Given, Param, Origin
  <2>2. Arguments[i] = y(i)
    BY <1>3
  <2> HIDE DEF y
  <2> QED
    BY <2>1, <2>2 DEF Holds
<1>5. ASSUME NEW i \in 1..n PROVE Stands(base, x(i), y(i))
  <2> DEFINE t == method.locals[i]
  <2>1. CASE t.kind = "Top"
    <3>1. x(i) = Unusable
      BY <2>1
    <3>2. Unusable.type.kind = "Top"
      BY DEF Unusable, Cell, T
    <3> HIDE DEF x, y, t
    <3> QED
      BY <3>1, <3>2 DEF Stands
  <2>2. CASE t.kind # "Top" /\ IsTail(t)
    <3>1. i - 1 \in 1..n /\ method.locals[i - 1].kind = "Long"
      BY <1>1, <2>2 DEF IsHead
    <3>2. y(i) = y(i - 1)
      BY <2>2, <3>1 DEF IsTail
    <3>3. x(i).origin = Param(i - 1)
      BY <2>2 DEF Cell
    <3>4. Computational(method.locals[i - 1])
      BY <3>1 DEF Computational
    <3> HIDE DEF x, y, t, base
    <3>5. Holds(base, Param(i - 1), y(i - 1))
      BY <1>4, <3>1, <3>4
    <3> QED
      BY <3>2, <3>3, <3>5 DEF Stands
  <2>3. CASE t.kind # "Top" /\ ~IsTail(t)
    <3>1. x(i).origin = Param(i) /\ Computational(t)
      BY <2>3 DEF Cell, Computational, IsTail
    <3> HIDE DEF x, y, base
    <3>2. Holds(base, Param(i), y(i))
      BY <1>4, <3>1
    <3> QED
      BY <3>1, <3>2 DEF Stands
  <2> QED
    BY <2>1, <2>2, <2>3
<1> HIDE DEF x, y, base
<1>6. /\ IsMap(n, [i \in 1..n |-> x(i)]) /\ IsMap(n, [i \in 1..n |-> y(i)])
      /\ \A i \in 1..n : [j \in 1..n |-> x(j)][i] = x(i) /\ [j \in 1..n |-> y(j)][i] = y(i)
  BY DEF IsMap
<1>7. Bound(base, [i \in 1..n |-> x(i)], [i \in 1..n |-> y(i)])
  BY <1>1, <1>5, <1>6, BoundMap
<1>8. Bound(base, <<>>, <<>>)
  BY BoundFew
<1>9. \A p, q : Frame(p, q).locals = p /\ Frame(p, q).stack = q
  BY DEF Frame
<1>10. Binds(base, EntryFrame(method), Arguments, <<>>)
  BY <1>2, <1>3, <1>7, <1>8, <1>9 DEF Binds
<1> QED
  BY <1>10 DEF base

LEMMA CallNames == Named /\ Call => MachineNames'
<1> SUFFICES ASSUME Named, Call PROVE MachineNames'
  OBVIOUS
<1>1. Solid /\ status = "done" /\ WellFormed(method) /\ Target(method, 0) = 1
  BY DEF Named, Call, Solid, SolverInv, TypeInv, Target
<1>2. PICK base : base = [o \in Given |-> Arguments[o.slot]]
  OBVIOUS
<1>3. Follow(0, Arguments, <<>>, base)
  BY <1>2 DEF Call, Arguments
<1>4. Binds(base, EntryFrame(method), Arguments, <<>>)
  BY <1>1, <1>2, ArgumentsBound
<1>5. Entered(in, 1, EntryFrame(method)) /\ Delivers(phis, 0, 1, EntryFrame(method), in[1])
  BY <1>1 DEF Named, Solid, FlowInv, NamesInv
<1>6. PICK s : s = Arguments
  OBVIOUS
<1>7. PICK f : f = EntryFrame(method)
  OBVIOUS
<1> QED
  BY <1>1, <1>3, <1>4, <1>5, <1>6, <1>7, FollowBinds

LEMMA StepNames == Named /\ Step => MachineNames'
<1> SUFFICES ASSUME Named, Step PROVE MachineNames'
  OBVIOUS
<1>1. /\ Solid /\ status = "done" /\ Ready(at, locals, stack) /\ Instruction.op # "athrow"
      /\ Aged(in) /\ Binds(env, Here, locals, stack)
      /\ at[2] < Len(method.code[at[1]]) /\ at' = <<at[1], at[2] + 1>>
      /\ locals' = Run(Result)[1] /\ stack' = Run(Result)[2] /\ env' = Updated(Result) /\ UNCHANGED vars
  BY DEF Step, Named, MachineInv, NamesInv, MachineNames
<1>2. /\ at[1] \in DOMAIN in
      /\ at[2] \in 1..(Len(method.code[at[1]]) + 1)
  BY <1>1 DEF Ready
<1>3. /\ Len(method.code[at[1]]) \in Nat
      /\ DOMAIN method.code[at[1]] = 1..Len(method.code[at[1]])
  BY <1>1, <1>2, BlockFacts DEF Runs
<1>4. at[2] \in DOMAIN method.code[at[1]]
  BY <1>1, <1>2, <1>3
<1>5. Binds(env', Trace(method, at[1], in[at[1]])[at[2] + 1], locals', stack')
  BY <1>1, <1>4, CompletionBinds
<1>6. Here' = Trace(method, at[1], in[at[1]])[at[2] + 1]
  <2>1. method' = method /\ in' = in /\ at'[1] = at[1] /\ at'[2] = at[2] + 1
    BY <1>1 DEF vars
  <2> QED
    BY <2>1 DEF Here
<1> QED
  BY <1>5, <1>6 DEF MachineNames

\* What the edges that leave the instruction deliver.
LEMMA LeaveDelivers ==
  ASSUME Named, status = "done", Ready(at, locals, stack), NEW exc \in BOOLEAN, NEW e \in Leave(exc)
  PROVE  Delivers(phis, e, Target(method, e), Carried(method, e, Trace(method, at[1], in[at[1]])),
                  in[Target(method, e)])
<1>1. e \in Leaving(method, at[1]) /\ at[1] \in DOMAIN in
  BY LeaveFacts DEF Ready, Named
<1> QED
  BY <1>1 DEF Named, NamesInv

LEMMA BranchNames ==
  ASSUME Named, NEW e, Branch(e)
  PROVE  MachineNames'
<1>1. /\ Solid /\ status = "done" /\ Ready(at, locals, stack) /\ Instruction.op # "athrow"
      /\ Aged(in) /\ Binds(env, Here, locals, stack)
      /\ e \in Leave(FALSE) /\ Follow(e, Run(Result)[1], Run(Result)[2], Updated(Result))
  BY DEF Branch, Named, MachineInv, NamesInv, MachineNames
<1>2. PICK b : b = Target(method, e)
  OBVIOUS
<1>3. PICK f : f = Trace(method, at[1], in[at[1]])[at[2] + 1]
  OBVIOUS
<1>4. /\ method.edges[e].from = at /\ at[2] \in DOMAIN method.code[at[1]] /\ ~method.edges[e].exc
      /\ Entered(in, b, Carried(method, e, Trace(method, at[1], in[at[1]])))
  BY <1>1, <1>2, LeaveFacts
<1>5. Carried(method, e, Trace(method, at[1], in[at[1]])) = f
  BY <1>3, <1>4 DEF Carried
<1>6. Delivers(phis, e, b, f, in[b])
  BY <1>1, <1>2, <1>5, LeaveDelivers
<1>7. PICK s : s = Run(Result)[1]
  OBVIOUS
<1>8. PICK r : r = Run(Result)[2]
  OBVIOUS
<1>9. PICK base : base = Updated(Result)
  OBVIOUS
<1>10. Binds(base, f, s, r)
  BY <1>1, <1>3, <1>4, <1>7, <1>8, <1>9, CompletionBinds
<1>11. Entered(in, b, f) /\ Follow(e, s, r, base)
  BY <1>1, <1>4, <1>5, <1>7, <1>8, <1>9
<1> QED
  BY <1>1, <1>2, <1>6, <1>10, <1>11, FollowBinds

LEMMA ThrowNames ==
  ASSUME Named, NEW e, ThrowTo(e)
  PROVE  MachineNames'
<1>1. PICK thrown : thrown = Fresh(Thrown(at), RefOf(Throwable))
  OBVIOUS
<1>2. PICK ins : ins = Instruction
  OBVIOUS
<1>3. PICK d : d = IF ins.op = "init" THEN Becoming(locals, stack[Len(stack)], T("Top")) ELSE locals
  OBVIOUS
<1>4. PICK E : E = IF ins.op = "init" THEN Becoming(env, stack[Len(stack)], T("Top")) ELSE env
  OBVIOUS
<1>5. PICK base : base = With(E, Thrown(at), thrown)
  OBVIOUS
<1>6. /\ Solid /\ status = "done" /\ Ready(at, locals, stack) /\ e \in Leave(TRUE)
      /\ Aged(in) /\ Binds(env, Here, locals, stack)
      /\ Follow(e, d, <<thrown>>, base)
  BY <1>1, <1>2, <1>3, <1>4, <1>5 DEF ThrowTo, Named, MachineInv, NamesInv, MachineNames
<1>7. PICK b : b = Target(method, e)
  OBVIOUS
<1>8. PICK f : f = Here
  OBVIOUS
<1>9. /\ method.edges[e].from = at /\ at[2] \in DOMAIN method.code[at[1]] /\ method.edges[e].exc
      /\ Entered(in, b, Carried(method, e, Trace(method, at[1], in[at[1]])))
  BY <1>6, <1>7, LeaveFacts
<1>10. at \in Nat \X Nat /\ at[1] \in DOMAIN in
  BY <1>6 DEF Ready
<1>11. PICK g : g = Exceptional(f, ins, at)
  OBVIOUS
<1>12. Carried(method, e, Trace(method, at[1], in[at[1]])) = g
  BY <1>2, <1>8, <1>9, <1>11 DEF Carried, Here, Instruction
<1>13. Delivers(phis, e, b, g, in[b])
  BY <1>6, <1>7, <1>12, LeaveDelivers
<1>14. Anonymous(f.locals, Thrown(at))
  BY <1>6, <1>8, <1>9, <1>10, NotYet
<1>15. f.locals = [i \in DOMAIN f.locals |-> f.locals[i]]
  <2>1. IsList(f.locals)
    BY <1>6, <1>8 DEF Binds, Bound
  <2> QED
    BY <2>1, ListDomain DEF IsList
<1>16. Binds(base, g, d, <<thrown>>)
  BY <1>3, <1>4, <1>5, <1>6, <1>8, <1>11, <1>14, <1>15, ThrowBinds
<1> QED
  BY <1>6, <1>7, <1>9, <1>12, <1>13, <1>16, FollowBinds
LEMMA NamedInit == ExecInit => Named
<1>1. Init => Solid /\ DepthInv /\ NamesInv
  <2>1. Init => NamesInv
    BY DEF Init, NamesInv
  <2> QED
    BY <2>1, InitInv, InitSound, InitFlow, InitDepth DEF Solid
<1>2. Idle => MachineInv /\ MachineNames
  BY DEF Idle, MachineInv, MachineNames, Running
<1> QED
  BY <1>1, <1>2 DEF ExecInit, Named

LEMMA NamedNext == Named /\ [ExecNext]_<<vars, machine>> => Named'
<1> SUFFICES ASSUME Named, [ExecNext]_<<vars, machine>> PROVE Named'
  OBVIOUS
<1>1. Solid' /\ MachineInv'
  BY ExecNextInv DEF Named, ExecInv
<1>2. [Next]_vars => DepthInv' /\ NamesInv'
  BY NextDepth, NextNames DEF Named, Solid
<1>3. CASE Build
  <2>1. [Next]_vars
    BY <1>3 DEF Build, Next
  <2>2. status = "run"
    BY <1>3 DEF Build, Visit, Finish
  <2>3. at = <<0, 0>> /\ at' = at
    BY <1>3, <2>2 DEF Named, MachineInv, Running, Build, machine
  <2>4. MachineNames'
    BY <2>3 DEF MachineNames, Running
  <2> QED
    BY <1>1, <1>2, <2>1, <2>4 DEF Named
<1>4. CASE Call
  <2>1. UNCHANGED vars
    BY <1>4 DEF Call, Follow
  <2> QED
    BY <1>1, <1>2, <1>4, <2>1, CallNames DEF Named
<1>5. CASE Step
  <2>1. UNCHANGED vars
    BY <1>5 DEF Step
  <2> QED
    BY <1>1, <1>2, <1>5, <2>1, StepNames DEF Named
<1>6. ASSUME NEW e, Branch(e) PROVE Named'
  <2>1. UNCHANGED vars
    BY <1>6 DEF Branch, Follow
  <2> QED
    BY <1>1, <1>2, <1>6, <2>1, BranchNames DEF Named
<1>7. ASSUME NEW e, ThrowTo(e) PROVE Named'
  <2>1. UNCHANGED vars
    BY <1>7 DEF ThrowTo, Follow
  <2> QED
    BY <1>1, <1>2, <1>7, <2>1, ThrowNames DEF Named
<1>8. CASE UNCHANGED <<vars, machine>>
  <2>1. UNCHANGED vars /\ method' = method /\ in' = in
        /\ at' = at /\ locals' = locals /\ stack' = stack /\ env' = env
    BY <1>8 DEF machine, vars
  <2>2. MachineNames'
    BY <2>1 DEF Named, MachineNames, Running, Here
  <2> QED
    BY <1>1, <1>2, <2>1, <2>2 DEF Named
<1> QED
  BY <1>3, <1>4, <1>5, <1>6, <1>7, <1>8 DEF ExecNext

(* ssabuild's Build, phis and all: wherever the JVM's control is in a      *)
(* solved method, each usable local and each stack entry holds the value   *)
(* that the SSA form has for the name of its cell: the same one, not one   *)
(* of the same type, nor an older one of the same instruction.  No phi is  *)
(* missing, none takes a wrong operand, and none was removed that was not  *)
(* a copy.                                                                 *)
THEOREM Simulation == ExecSpec => []Simulates
<1>1. Named => Simulates
  <2> SUFFICES ASSUME Named, Running PROVE Simulates
    BY DEF Simulates
  <2>1. PICK u : Describes(u, Here, locals, stack)
    BY DEF Named, MachineInv, Ready, Here
  <2>2. Binds(env, Here, locals, stack) /\ IsTyped(Here)
    <3>1. /\ at[1] \in DOMAIN in /\ Solid /\ status = "done"
          /\ at[2] \in 1..(Len(method.code[at[1]]) + 1)
      BY DEF Named, MachineInv, Ready
    <3>2. Runs(method.code[at[1]], at[1], Trace(method, at[1], in[at[1]]))
      BY <3>1, BlockFacts
    <3> QED
      BY <3>1, <3>2 DEF Named, MachineNames, Runs, Here
  <2>3. /\ DOMAIN stack = 1..Len(Here.stack) /\ DOMAIN locals = 1..Len(Here.locals)
        /\ Len(stack) = Len(Here.stack)
    BY <2>1, ListDomain DEF Describes, Described
  <2>4. \A i \in 1..Len(Here.stack) : Here.stack[i].type.kind # "Top"
    BY <2>2 DEF IsTyped, Computational
  <2>5. /\ \A i \in 1..Len(Here.stack) : Holds(env, Here.stack[i].origin, stack[i])
        /\ \A i \in 1..Len(Here.locals) :
             Here.locals[i].type.kind = "Top" \/ Holds(env, Here.locals[i].origin, locals[i])
    BY <2>2, <2>4 DEF Binds, Bound
  <2> QED
    BY <2>3, <2>5 DEF Simulates, Holds
<1> QED
  BY NamedInit, NamedNext, <1>1, PTL DEF ExecSpec
=============================================================================
