----------------------------- MODULE MCAnalyses -----------------------------
(***************************************************************************)
(* Graphs of four nodes, at most two successors each: nested, overlapping  *)
(* and two-entry loops, infinite components, several exits, unreachable    *)
(* parts; and handlers inside, outside and shared by loops.                *)
(***************************************************************************)
EXTENDS Analyses

Lists == {SetToSortSeq(s, <) : s \in {t \in SUBSET (0..3) : Cardinality(t) <= 2}}

ToEdges(lists, thrown) ==
  LET Normal(u) == [i \in 1..Len(lists[u]) |->
                      [from |-> u, to |-> lists[u][i], exception |-> FALSE]]
  IN Normal(0) \o Normal(1) \o Normal(2) \o Normal(3)
     \o [i \in 1..Len(thrown) |->
           [from |-> thrown[i][1], to |-> thrown[i][2], exception |-> TRUE]]

Graph(lists, thrown) == [n |-> 4, edges |-> ToEdges(lists, thrown)]

\* The names of nodes 1, 2 and 3 do not matter, but the order of successors
\* does: both orders at the entry.
WithoutHandlers ==
  {Graph([u \in 0..3 |-> IF u = 0 THEN first ELSE rest[u]], <<>>) :
     first \in { <<1>>, <<1, 2>>, <<2, 1>>, <<0, 1>> }, rest \in [1..3 -> Lists]}

WithHandlers ==
  {Graph([u \in 0..3 |-> IF u = 0 THEN <<1>> ELSE lists[u]], thrown) :
     lists \in {l \in [1..3 -> Lists] : Len(l[3]) <= 1},
     thrown \in { << <<2, 3>> >>, << <<1, 3>>, <<2, 1>> >> }}

MCGraphs == WithoutHandlers \cup WithHandlers

MCDomains == {<<0>>, <<2, 1>>}
=============================================================================
