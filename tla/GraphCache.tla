----------------------------- MODULE GraphCache -----------------------------
(***************************************************************************)
(* core/t26_graph_cache.go: the LRU cache of graph analyses, with the      *)
(* mutable graphs that use it (MutableAnalysisGraph).  An immutable        *)
(* SemanticCFG has a cache of its own and is the special case without      *)
(* edits.  The cache's mutex covers the whole of getOrCompute, the         *)
(* analysis included, and a mutable graph belongs to one goroutine; so a   *)
(* call is one step.                                                       *)
(*                                                                         *)
(* What the analyses compute is the module Analyses' subject; here an      *)
(* answer is Analyse(graph, query), with the roots of a query as a set,    *)
(* which is all an answer depends on.                                      *)
(***************************************************************************)
EXTENDS Integers, Sequences, FiniteSets

CONSTANTS
  GraphIds,        \* analysis graph ids, drawn from nextAnalysisGraphID
  Queries,         \* kind, whether exceptions count, roots: see cacheKey
  Analyse(_, _),   \* the analysis a graph and a query determine
  FirstGraphs,     \* the graphs at the start: id -> [n, edges]
  Edges,           \* the edges callers add and delete, dangling ones included
  Capacities,      \* the capacities callers ask for, zero and less included
  MaxNodes,        \* bound: nodes of a graph
  MaxEpoch,        \* bound: edits of each graph
  MaxRecent        \* bound: keys in the history

ASSUME FirstGraphsAssumption == \A g \in FirstGraphs : g = [id \in GraphIds |-> g[id]]
ASSUME CapacitiesAssumption == Capacities \subseteq Int

VARIABLES
  graphs,     \* MutableAnalysisGraph.n and .edges
  epoch,      \* MutableAnalysisGraph.epoch
  capacity,   \* GraphAnalysisCache.capacity
  entries,    \* GraphAnalysisCache.entries: key -> analysis
  lru,        \* GraphAnalysisCache.lru, most recently used first
  answer,     \* what the last query returned
  recent      \* history: every key ever asked for, latest first

vars == <<graphs, epoch, capacity, entries, lru, answer, recent>>
cacheVars == <<capacity, entries, lru>>

Keys == [id : GraphIds, epoch : Nat, query : Queries]

\* NewGraphAnalysisCache and SetCapacity: at least one entry.
AtLeastOne(c) == IF c < 1 THEN 1 ELSE c

Listed(list) == {list[i] : i \in 1..Len(list)}

Init ==
  /\ graphs \in FirstGraphs
  /\ epoch = [id \in GraphIds |-> 0]
  /\ \E c \in Capacities : capacity = AtLeastOne(c)
  /\ entries = [k \in {} |-> 0]
  /\ lru = <<>>
  /\ answer = [kind |-> "none"]
  /\ recent = <<>>
-----------------------------------------------------------------------------
(* Edits.  Each one bumps the epoch of its graph, whether or not it        *)
(* changed anything.                                                       *)

\* Mutant: the edit keeps the epoch.
Unbumped(id) == epoch

Bump(id) == [epoch EXCEPT ![id] = @ + 1]

Edited(id, graph) ==
  /\ epoch[id] < MaxEpoch[id]
  /\ graphs' = [graphs EXCEPT ![id] = graph]
  /\ epoch' = Bump(id)
  /\ UNCHANGED <<cacheVars, answer, recent>>

AddNode(id) ==
  /\ graphs[id].n < MaxNodes
  /\ Edited(id, [graphs[id] EXCEPT !.n = @ + 1])

AddEdge(id, e) == Edited(id, [graphs[id] EXCEPT !.edges = Append(@, e)])

\* Every copy of the edge goes.
DeleteEdge(id, e) ==
  Edited(id, [graphs[id] EXCEPT !.edges = SelectSeq(@, LAMBDA x : x # e)])

\* The node is retired: its edges move to a fresh one.
ReplaceNode(id, node) ==
  LET fresh == graphs[id].n
      Moved(x) == IF x = node THEN fresh ELSE x
  IN /\ fresh < MaxNodes
     /\ Edited(id, [n |-> fresh + 1,
                    edges |-> [i \in DOMAIN graphs[id].edges |->
                                 [graphs[id].edges[i] EXCEPT !.from = Moved(@), !.to = Moved(@)]]])

Edit ==
  \E id \in GraphIds :
    \/ AddNode(id)
    \/ \E e \in Edges : AddEdge(id, e) \/ DeleteEdge(id, e)
    \/ \E node \in 0..(graphs[id].n - 1) : ReplaceNode(id, node)
-----------------------------------------------------------------------------
(* The list and the map.                                                   *)

\* lru.MoveToFront: the element at position i becomes the first.
MoveToFront(list, i) ==
  [j \in 1..Len(list) |-> IF j = 1 THEN list[i] ELSE IF j <= i THEN list[j - 1] ELSE list[j]]

\* lru.PushFront.
PushFront(list, key) ==
  [j \in 1..(Len(list) + 1) |-> IF j = 1 THEN key ELSE list[j - 1]]

\* evictTailLocked until at most size elements are left.
Trimmed(list, size) == [j \in 1..(IF Len(list) > size THEN size ELSE Len(list)) |-> list[j]]

\* Mutant: the evicted key stays in the map.
Everything(map, list) == map

\* delete(c.entries, key) for what is no longer in the list.
Kept(map, list) == [k \in DOMAIN map \cap Listed(list) |-> map[k]]

Position(list, key) == CHOOSE i \in 1..Len(list) : list[i] = key

\* Mutant: only insertion counts as a use.
Unmoved(list, key) == IF key \in Listed(list) THEN list ELSE PushFront(list, key)

\* A use of a key: it becomes the first of the list.
Used(list, key) ==
  IF key \in Listed(list) THEN MoveToFront(list, Position(list, key)) ELSE PushFront(list, key)

History(list, key) ==
  IF key \in Listed(list) THEN MoveToFront(list, Position(list, key)) ELSE PushFront(list, key)

KeyOf(id, q) == [id |-> id, epoch |-> epoch[id], query |-> q]

Answered(id, q, value) ==
  /\ answer' = [kind |-> "answer", id |-> id, query |-> q, value |-> value]
  /\ recent' = History(recent, KeyOf(id, q))
  /\ Len(recent') <= MaxRecent

\* getOrCompute of a key in the map.
Hit(id, q) ==
  LET key == KeyOf(id, q)
  IN /\ key \in DOMAIN entries
     /\ lru' = Used(lru, key)
     /\ Answered(id, q, entries[key])
     /\ UNCHANGED <<graphs, epoch, capacity, entries>>

\* getOrCompute of a key not in the map: compute, insert, evict.
Miss(id, q) ==
  LET key == KeyOf(id, q)
      value == Analyse(graphs[id], q)
      map == [k \in DOMAIN entries \cup {key} |-> IF k = key THEN value ELSE entries[k]]
  IN /\ key \notin DOMAIN entries
     /\ lru' = Trimmed(Used(lru, key), capacity)
     /\ entries' = Kept(map, lru')
     /\ Answered(id, q, value)
     /\ UNCHANGED <<graphs, epoch, capacity>>

SetCapacity(c) ==
  /\ capacity' = AtLeastOne(c)
  /\ lru' = Trimmed(lru, capacity')
  /\ entries' = Kept(entries, lru')
  /\ UNCHANGED <<graphs, epoch, answer, recent>>

Next ==
  \/ Edit
  \/ \E id \in GraphIds, q \in Queries : Hit(id, q) \/ Miss(id, q)
  \/ \E c \in Capacities : SetCapacity(c)

Spec == Init /\ [][Next]_vars
-----------------------------------------------------------------------------
(* Properties.                                                             *)

\* The map and the list name the same keys, each once, and never more than the
\* capacity: no key is left behind by an eviction, on a hit, a miss or when
\* the capacity is lowered (getOrCompute, evictTailLocked, SetCapacity).
MapMatchesList ==
  /\ DOMAIN entries = Listed(lru)
  /\ \A i, j \in 1..Len(lru) : lru[i] = lru[j] => i = j
  /\ Len(lru) <= capacity

\* What the cache holds is what was asked for last: whatever is evicted was
\* used longer ago than everything that stays, over any sequence of hits,
\* misses and resizings (MoveToFront, evictTailLocked).
LeastRecentLeaves ==
  /\ Len(lru) <= Len(recent)
  /\ \A i \in 1..Len(lru) : lru[i] = recent[i]

Oracle == INSTANCE AnalysisOracle

\* A cached answer is never of an earlier state of the graph, nor of another
\* graph that shares the cache: every query is answered as if it were computed
\* then and there (cacheKey, bump).
AnswersAreCurrent == Oracle!Spec
=============================================================================
