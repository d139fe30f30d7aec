--------------------------- MODULE AnalysisOracle ---------------------------
(***************************************************************************)
(* What a caller of GetOrCompute relies on: graphs are edited, and every   *)
(* query is answered from the graph as it is at that moment.  There is no  *)
(* cache here, no epoch and no eviction.                                   *)
(***************************************************************************)
CONSTANTS
  GraphIds,        \* the graphs
  Queries,         \* what can be asked of a graph
  Analyse(_, _)    \* the answer a graph gives to a query

VARIABLES graphs, answer

vars == <<graphs, answer>>

Init == answer = [kind |-> "none"]

Edit ==
  /\ \E id \in GraphIds : \A other \in GraphIds \ {id} : graphs'[other] = graphs[other]
  /\ UNCHANGED answer

Query ==
  \E id \in GraphIds, q \in Queries :
    /\ answer' = [kind |-> "answer", id |-> id, query |-> q, value |-> Analyse(graphs[id], q)]
    /\ UNCHANGED graphs

Next == Edit \/ Query

Spec == Init /\ [][Next]_vars
=============================================================================
