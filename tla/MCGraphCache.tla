---------------------------- MODULE MCGraphCache ----------------------------
(***************************************************************************)
(* Two graphs that share one cache, one of them edited, with the real      *)
(* dominators of Dominance.                                                *)
(***************************************************************************)
EXTENDS GraphCache, Dominance

MCQueries ==
  { [kind |-> "dominators", exceptions |-> FALSE, roots |-> {0}],
    [kind |-> "dominators", exceptions |-> TRUE, roots |-> {1}] }

MCAnalyse(graph, q) ==
  ImmediateDominators(graph.n, Successors(graph, q.exceptions), SetToSortSeq(q.roots, <))

MCEdge(u, v, thrown) == [from |-> u, to |-> v, exception |-> thrown]

MCEdges == {MCEdge(0, 1, FALSE)}

\* Both graphs start alike; the second edge dangles until there is a third node.
MCFirstGraphs ==
  {[id \in GraphIds |->
     [n |-> 2, edges |-> <<MCEdge(0, 1, FALSE), MCEdge(1, 2, FALSE), MCEdge(1, 0, TRUE)>>]]}

\* The second graph is only asked about: what the edits of the first must not disturb.
MCMaxEpoch == <<2, 0>>

MCCapacities == {0, 2}
=============================================================================
