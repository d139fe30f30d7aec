----------------------------- MODULE Dominance ------------------------------
(***************************************************************************)
(* The graph analyses of core/t26_graph_cache.go and t09_reducibility.go,  *)
(* and the dominator tree of rewriter/dominator-tree.go.                   *)
(*                                                                         *)
(* Nodes are 0..n-1.  A graph is a record [n, edges]; an edge is a record  *)
(* [from, to, exception].  The algorithms run on successor lists, in the   *)
(* order of the edges, which decides the order of the depth-first walks.   *)
(***************************************************************************)
EXTENDS Integers, Sequences, FiniteSets, SequencesExt

NoNode == -1        \* "no immediate dominator": the node is outside the domain
VirtualExit == -2   \* VirtualExitSentinel

Nodes(g) == 0..(g.n - 1)

\* successorIndexLists: the live edges, without duplicates, in order.
Successors(g, withExceptions) ==
  [u \in Nodes(g) |->
    LET Mine(e) == /\ e.from = u
                   /\ e.to \in Nodes(g)
                   /\ withExceptions \/ ~e.exception
        found == SelectSeq(g.edges, Mine)
    IN FoldLeft(LAMBDA list, e : IF Contains(list, e.to) THEN list ELSE Append(list, e.to),
                <<>>, found)]

\* Every node reachable from a set by following a set-valued function.
RECURSIVE Closure(_, _)
Closure(next, from) ==
  LET more == from \cup UNION {next[u] : u \in from}
  IN IF more = from THEN from ELSE Closure(next, more)

ReachableFrom(n, succs, roots) ==
  Closure([u \in 0..(n - 1) |-> ToSet(succs[u])], ToSet(roots) \cap 0..(n - 1))
-----------------------------------------------------------------------------
(* Dominators: Cooper, Harvey and Kennedy's iteration.                     *)

\* One depth-first walk; nodes are marked when first met and listed when left.
RECURSIVE Postorder(_, _, _)
Postorder(succs, u, walk) ==
  LET below == FoldLeft(LAMBDA w, v : IF v \in w.met THEN w ELSE Postorder(succs, v, w),
                        [walk EXCEPT !.met = @ \cup {u}], succs[u])
  IN [below EXCEPT !.post = Append(@, u)]

ReversePostorder(succs, source) ==
  Reverse(Postorder(succs, source, [met |-> {}, post |-> <<>>]).post)

\* The closest common ancestor of two processed nodes, by position in the order.
RECURSIVE Intersect(_, _, _, _)
Intersect(idom, position, a, b) ==
  CASE a = b -> a
    [] position[a] > position[b] ->
         IF idom[a] = NoNode THEN b ELSE Intersect(idom, position, idom[a], b)
    [] OTHER ->
         IF idom[b] = NoNode THEN a ELSE Intersect(idom, position, a, idom[b])

\* One node of a round: its processed predecessors, folded.
Processed(idom, position, preds, b) ==
  LET known == SelectSeq(preds[b], LAMBDA p : idom[p] # NoNode)
  IN IF known = <<>> THEN idom
     ELSE [idom EXCEPT ![b] =
             FoldLeft(LAMBDA new, p : Intersect(idom, position, p, new), Head(known), Tail(known))]

\* Mutant: one round only, as if the graph had no irreducible part.
RoundsOnce(idom, position, preds, order) ==
  FoldLeft(LAMBDA d, b : Processed(d, position, preds, b), idom, order)

RECURSIVE Rounds(_, _, _, _)
Rounds(idom, position, preds, order) ==
  LET next == FoldLeft(LAMBDA d, b : Processed(d, position, preds, b), idom, order)
  IN IF next = idom THEN idom ELSE Rounds(next, position, preds, order)

Predecessors(nodes, succs) ==
  LET ascending == SetToSortSeq(nodes, <)
  IN [v \in nodes |-> SelectSeq(ascending, LAMBDA u : Contains(succs[u], v))]

\* computeImmediateDominators: n itself is the virtual source above the roots.
ImmediateDominators(n, succs, roots) ==
  LET reach == ReachableFrom(n, succs, roots)
      source == n
      inside == [u \in 0..n |->
                  CASE u = source -> SelectSeq(roots, LAMBDA r : r \in reach)
                    [] u \in reach -> SelectSeq(succs[u], LAMBDA v : v \in reach)
                    [] OTHER -> <<>>]
      order == ReversePostorder(inside, source)
      position == [u \in reach \cup {source} |-> CHOOSE i \in 1..Len(order) : order[i] = u]
      start == [u \in 0..n |-> IF u = source THEN source ELSE NoNode]
      idom == Rounds(start, position, Predecessors(0..n, inside), Tail(order))
  IN [u \in 0..(n - 1) |->
       CASE u \notin reach -> NoNode
         [] idom[u] = source -> u
         [] OTHER -> idom[u]]

\* The nodes met by walking a parent relation upwards.
RECURSIVE Chain(_, _)
Chain(parent, u) ==
  IF u < 0 THEN {}
  ELSE {u} \cup (IF parent[u] = u THEN {} ELSE Chain(parent, parent[u]))

\* GraphAnalysis.Dominates and PostDominates.
Dominates(parent, d, u) == parent[u] # NoNode /\ d >= 0 /\ d \in Chain(parent, u)
-----------------------------------------------------------------------------
(* Postdominators and natural loops.                                       *)

\* The nodes without a way out: exits, and infinite components.
Exits(n, succs, reach) == {u \in reach : \A v \in ToSet(succs[u]) : v \notin reach}

CanReachExit(n, succs, reach) ==
  Closure([u \in reach |-> {p \in reach : u \in ToSet(succs[p])}], Exits(n, succs, reach))

\* Mutant: infinite components are left without a way to the virtual exit.
EndsInRealExit(n, succs, reach, u) == u \in Exits(n, succs, reach)

\* Which nodes are given an edge to the virtual exit.
EndsInVirtualExit(n, succs, reach, u) ==
  u \in Exits(n, succs, reach) \/ u \notin CanReachExit(n, succs, reach)

\* computeImmediatePostDominators: dominators of the reversed graph.
ImmediatePostDominators(n, succs, roots) ==
  LET reach == ReachableFrom(n, succs, roots)
      exit == n
      forward == [u \in 0..n |->
                   IF u \notin reach THEN <<>>
                   ELSE SelectSeq(succs[u], LAMBDA v : v \in reach)
                        \o (IF EndsInVirtualExit(n, succs, reach, u) THEN <<exit>> ELSE <<>>)]
      idom == ImmediateDominators(n + 1, Predecessors(0..n, forward), <<exit>>)
  IN [u \in 0..(n - 1) |->
       CASE u \notin reach -> NoNode
         [] idom[u] = exit -> VirtualExit
         [] OTHER -> idom[u]]

\* The edges whose target dominates their source.
BackEdges(n, succs, idom) ==
  {e \in (0..(n - 1)) \X (0..(n - 1)) :
     /\ Contains(succs[e[1]], e[2])
     /\ Dominates(idom, e[2], e[1])}

\* Mutant: the walk backwards does not stop at the header.
LoopBodyThroughHeader(n, succs, idom, header, tails) ==
  Closure([u \in 0..(n - 1) |->
            {p \in 0..(n - 1) : Contains(succs[p], u) /\ idom[p] # NoNode}],
          {header} \cup tails)
\* The nodes that reach the tail of a back edge without passing the header.
LoopBody(n, succs, idom, header, tails) ==
  {header} \cup
    Closure([u \in 0..(n - 1) |->
              IF u = header THEN {}
              ELSE {p \in 0..(n - 1) : Contains(succs[p], u) /\ idom[p] # NoNode /\ p # header}],
            tails)

\* computeLoopForest: loops that share a header are one loop.
LoopForest(n, succs, idom) ==
  LET back == BackEdges(n, succs, idom)
  IN {[header |-> h,
       tails |-> {e[1] : e \in {b \in back : b[2] = h}},
       nodes |-> LoopBody(n, succs, idom, h, {e[1] : e \in {b \in back : b[2] = h}})]
        : h \in {e[2] : e \in back}}

-----------------------------------------------------------------------------
(* Reducibility.                                                           *)

\* normalFlowRoots: the method's entry and every distinct handler.
NormalFlowRoots(g) ==
  FoldLeft(LAMBDA roots, e : IF e.exception /\ ~Contains(roots, e.to)
                             THEN Append(roots, e.to) ELSE roots,
           <<0>>, g.edges)

\* Mutant: a handler accepts its own dominance proofs only.
NoContext(g, context, v, u) == FALSE

\* A header entered before the exception was thrown: it dominates the node in
\* the whole method, exceptions included.
HeaderInMethod(g, context, v, u) == context /\
  Dominates(ImmediateDominators(g.n, Successors(g, TRUE), <<0>>), v, u)

\* validateDomainReducible: without its back edges the domain has no cycle.
DomainReducible(g, root, context) ==
  LET succs == Successors(g, FALSE)
      idom == ImmediateDominators(g.n, succs, <<root>>)
      forward == [u \in Nodes(g) |->
                   IF idom[u] = NoNode THEN {}
                   ELSE {v \in ToSet(succs[u]) : /\ ~Dominates(idom, v, u)
                                                 /\ ~HeaderInMethod(g, context, v, u)}]
  IN \A u \in Nodes(g) : u \notin Closure(forward, forward[u])

\* ValidateReducible, up to the check of protected ranges.
Reducible(g) ==
  \A root \in ToSet(NormalFlowRoots(g)) :
    \/ DomainReducible(g, root, FALSE)
    \/ /\ root # 0
       /\ Dominates(ImmediateDominators(g.n, Successors(g, TRUE), <<0>>), 0, root)
       /\ DomainReducible(g, root, TRUE)
-----------------------------------------------------------------------------
(* The dominator tree of the statement graph: sets of dominators.          *)

\* WalkGraph: the order in which a stack of pending nodes is visited.
RECURSIVE WalkGraph(_, _, _)
WalkGraph(succs, stack, visited) ==
  IF stack = <<>> THEN visited
  ELSE LET u == Last(stack)
           rest == Front(stack)
       IN IF Contains(visited, u) THEN WalkGraph(succs, rest, visited)
          ELSE WalkGraph(succs, rest \o succs[u], Append(visited, u))

\* A round of the data flow, in place and in the order of the walk.
DominatorSets(dom, walk, preds) ==
  FoldLeft(LAMBDA d, u :
             [d EXCEPT ![u] = {u} \cup {x \in d[u] : \A p \in preds[u] : x \in d[p]}],
           dom, walk)

RECURSIVE FixedSets(_, _, _)
FixedSets(dom, walk, preds) ==
  LET next == DominatorSets(dom, walk, preds)
  IN IF next = dom THEN dom ELSE FixedSets(next, walk, preds)

\* GenerateDominatorTree: a node hangs below its strict dominator that was
\* visited last; the root hangs nowhere.
DominatorTree(n, succs, root) ==
  LET walk == WalkGraph(succs, <<root>>, <<>>)
      seen == ToSet(walk)
      start == [u \in seen |-> IF u = root THEN {root} ELSE seen]
      preds == [u \in seen |-> {p \in seen : Contains(succs[p], u)}]
      dom == FixedSets(start, walk, preds)
      id == [u \in seen |-> CHOOSE i \in 1..Len(walk) : walk[i] = u]
  IN [u \in 0..(n - 1) |->
       IF u \notin seen \/ u = root THEN NoNode
       ELSE CHOOSE d \in dom[u] \ {u} : \A x \in dom[u] \ {u} : id[x] <= id[d]]
=============================================================================
