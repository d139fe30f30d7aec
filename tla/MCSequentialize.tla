-------------------------- MODULE MCSequentialize --------------------------
(***************************************************************************)
(* Every copy group over four of six registered variables, as the sorted   *)
(* list phiCopiesChecked hands over (at most one copy per destination,     *)
(* self copies included), every permutation of the six (up to three        *)
(* cycles), and the malformed lists the checks must refuse.  Two           *)
(* temporaries are left in the registry, so a third cycle exhausts it.     *)
(***************************************************************************)
EXTENDS Sequentialize

Few == 1..4

Permutation == {f \in [Vars -> Vars] : \A v \in Vars : \E u \in Vars : f[u] = v}

\* A copy group as a function from its destinations to their sources.
GroupOf(f) ==
  [i \in 1..Cardinality(DOMAIN f) |->
     LET d == CHOOSE d \in DOMAIN f : Cardinality({e \in DOMAIN f : e <= d}) = i
     IN  [dst |-> d, src |-> f[d]]]

WellFormed ==
  {GroupOf(f) : f \in UNION {[D -> Few] : D \in SUBSET Few} \cup Permutation}

Malformed ==
  { <<[dst |-> 1, src |-> 2], [dst |-> 1, src |-> 3]>>,
    <<[dst |-> 2, src |-> 2], [dst |-> 2, src |-> 2]>>,
    <<[dst |-> 0, src |-> 1]>>,
    <<[dst |-> 1, src |-> Reserved + 1]>> }

MCGroups == WellFormed \cup Malformed

Typed(k) == [kind |-> k, id |-> 0]
New(pc) == [kind |-> "UninitNew", id |-> pc]

\* One registry of like values, one with a wide pair, one where null enters
\* references, one with two NEW sites.
MCInfos ==
  { [v \in Vars |-> Typed("Int")],
    [v \in Vars |-> Typed(IF v \in {1, 2} THEN "Long" ELSE "LongTail")],
    [v \in Vars |-> Typed(IF v = 4 THEN "Null" ELSE "Ref")],
    [v \in Vars |-> New(IF v \in {1, 4} THEN 7 ELSE 9)] }
=============================================================================
