------------------------------ MODULE Analyses ------------------------------
(***************************************************************************)
(* What the analyses of Dominance promise, stated by paths instead of by   *)
(* the iterations that compute them.  A behaviour asks one query of one    *)
(* graph; the properties are about the answer.                             *)
(***************************************************************************)
EXTENDS Dominance

CONSTANTS
  Graphs,    \* the graphs asked about
  Domains    \* the root lists of the queries

VARIABLES graph, query, answer

vars == <<graph, query, answer>>

\* Asking for exception edges is a query of its own only if there are some.
Asked ==
  [kind : {"dominators", "postdominators", "loops"}, roots : Domains,
   exceptions : {FALSE} \cup {graph.edges[i].exception : i \in DOMAIN graph.edges}]

NotAsked == [kind |-> "none"]

Init == graph \in Graphs /\ query = NotAsked /\ answer = NotAsked

\* getOrCompute on a cache miss.
Compute(kind, succs, roots) ==
  LET idom == ImmediateDominators(graph.n, succs, roots)
  IN CASE kind = "dominators" -> idom
       [] kind = "postdominators" -> ImmediatePostDominators(graph.n, succs, roots)
       [] kind = "loops" -> LoopForest(graph.n, succs, idom)

Ask ==
  \E q \in Asked :
    /\ query = NotAsked
    /\ query' = q
    /\ answer' = Compute(q.kind, Successors(graph, q.exceptions), q.roots)
    /\ UNCHANGED graph

\* ValidateReducible of a method's flow graph.
Validate ==
  /\ query = NotAsked
  /\ query' = [kind |-> "reducible"]
  /\ answer' = Reducible(graph)
  /\ UNCHANGED graph

\* The rewriter's tree of the statement graph, which has no exception edges.
Tree ==
  /\ query = NotAsked
  /\ query' = [kind |-> "tree"]
  /\ answer' = DominatorTree(graph.n, Successors(graph, FALSE), 0)
  /\ UNCHANGED graph

Next == Ask \/ Validate \/ Tree

Spec == Init /\ [][Next]_vars
-----------------------------------------------------------------------------
(* The same notions, by paths.                                             *)

Next1(exceptions) ==
  [u \in Nodes(graph) |-> ToSet(Successors(graph, exceptions)[u])]

\* What can be reached from a set without entering a node.
Avoiding(next, from, d) ==
  Closure([u \in Nodes(graph) |-> next[u] \ {d}], from \ {d})

Reached(next, roots) == Closure(next, roots)

\* The pairs <<d, u>> such that d is on every path from the roots to u.
OnEveryPath(next, roots) ==
  LET reach == Reached(next, roots)
  IN UNION {{<<d, u>> : u \in reach \ Avoiding(next, roots, d)} : d \in Nodes(graph)}

\* The nodes at which a run may end: exits, and nodes no exit is reachable from.
Ends(next, roots) ==
  LET reach == Reached(next, roots)
      exits == {u \in reach : next[u] = {}}
  IN {u \in reach : u \in exits \/ Reached(next, {u}) \cap exits = {}}

\* The pairs <<p, u>> such that p is on every path from u to an end.
OnEveryWayOut(next, roots) ==
  LET ends == Ends(next, roots)
  IN {q \in Nodes(graph) \X Reached(next, roots) :
        Avoiding(next, {q[2]}, q[1]) \cap ends = {}}

Kind(k) == query.kind = k
Following == Next1(query.exceptions)
Roots == ToSet(query.roots)

\* The cached dominators are those of all paths: d dominates u in the snapshot
\* exactly when every path from the domain's roots to u, in a graph of any
\* shape, goes through d (computeImmediateDominators, Dominates).  The tree of
\* the statement graph, computed by another algorithm, agrees.
DominatorsExact ==
  /\ Kind("dominators") =>
       OnEveryPath(Following, Roots) =
         {p \in Nodes(graph) \X Nodes(graph) : Dominates(answer, p[1], p[2])}
  /\ Kind("tree") =>
       LET dominated == OnEveryPath(Next1(FALSE), {0})
       IN \A d, u \in Nodes(graph) :
            d # u => (d \in Chain(answer, u) <=> <<d, u>> \in dominated)

\* A node postdominates another exactly when every way out of the method, or
\* into a part it never leaves, goes through it; no node postdominates into an
\* infinite component (computeImmediatePostDominators, PostDominates).
PostDominatorsExact ==
  Kind("postdominators") =>
    OnEveryWayOut(Following, Roots) =
      {p \in Nodes(graph) \X Nodes(graph) : Dominates(answer, p[1], p[2])}

\* The loops form a forest of regions that Java loops can express: two loops
\* are disjoint or nested, a loop is entered through its header only, and each
\* of its nodes can go round (computeLoopForest).
LoopsNest ==
  Kind("loops") =>
    /\ \A a, b \in answer :
         \/ a = b
         \/ a.nodes \cap b.nodes = {}
         \/ a.nodes \subseteq b.nodes
         \/ b.nodes \subseteq a.nodes
    /\ LET next == Following
           reach == Reached(next, Roots)
       IN \A a \in answer :
            /\ \A u \in reach \ a.nodes : next[u] \cap a.nodes \subseteq {a.header}
            /\ \A u \in a.nodes :
                 a.header \in
                   Closure([x \in Nodes(graph) |-> next[x] \cap a.nodes], next[u] \cap a.nodes)

\* The cycles of a graph, each as the sequence of its nodes.
Cycles(next) ==
  {c \in UNION {[1..k -> Nodes(graph)] : k \in 1..graph.n} :
     /\ IsInjective(c)
     /\ \A i \in DOMAIN c : c[1 + (i % Len(c))] \in next[c[i]]}

\* A method is accepted exactly when every cycle that an entry or a handler
\* reaches has a header: a node that was passed before any other node of the
\* cycle, since that entry or, for a handler, since the method began
\* (ValidateReducible).
ReducibleExact ==
  Kind("reducible") =>
    LET normal == Next1(FALSE)
        all == Next1(TRUE)
        cycles == Cycles(normal)
        inMethod == OnEveryPath(all, {0})
        Headed(c, dominated) == \E h \in ToSet(c) : {h} \X ToSet(c) \subseteq dominated
    IN answer <=>
         \A root \in ToSet(NormalFlowRoots(graph)) :
           LET reach == Reached(normal, {root})
               inDomain == OnEveryPath(normal, {root})
           IN \A c \in cycles :
                ToSet(c) \subseteq reach =>
                  \/ Headed(c, inDomain)
                  \/ root # 0 /\ root \in Reached(all, {0}) /\ Headed(c, inMethod)
=============================================================================
