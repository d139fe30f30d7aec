------------------------------- MODULE Solver -------------------------------
(***************************************************************************)
(* ssabuild.Build: solve the frame and origin equations of a method over a *)
(* worklist of blocks, then name the phis and remove the copying ones.     *)
(* The work counter is abstracted to the possibility of running out while  *)
(* it is charged; max_stack is never reached.                              *)
(***************************************************************************)
EXTENDS Equations

CONSTANTS
  Methods,    \* the methods considered
  Policies    \* the worklist options considered: "fifo", "lifo", "shuffle"

ASSUME MethodsAssumption == \A m \in Methods : WellFormed(m)

ASSUME PoliciesAssumption == Policies \subseteq {"fifo", "lifo", "shuffle"}

VARIABLES
  method,   \* the method being built
  policy,   \* Options.LIFO and Options.Shuffle
  edges,    \* edgeFrames: the edges that carry a frame, and the frame
  in,       \* the blocks reached, and their BlockFrame.In and InOrig
  pending,  \* the worklist
  phis,     \* Function.Phis, once solved: phi -> incoming edge -> operand
  status    \* "run", "done", "rejected" or "budget"

vars == <<method, policy, edges, in, pending, phis, status>>
-----------------------------------------------------------------------------
Init ==
  /\ method \in Methods
  /\ policy \in Policies
  /\ edges = [e \in {0} |-> EntryFrame(method)]
  /\ in = <<>>
  /\ pending = <<1>>
  /\ phis = <<>>
  /\ status = "run"

\* The positions of the worklist the option may pick.
Picks ==
  CASE policy = "fifo" -> {1}
    [] policy = "lifo" -> {Len(pending)}
    [] policy = "shuffle" -> DOMAIN pending

\* Mutant: an edge that carries other values of the same types is not changed.
ChangedTypes(b, t) ==
  LET types(f) == [i \in DOMAIN Cells(f) |-> Cells(f)[i].type] IN
  {e \in Leaving(method, b) : e \notin DOMAIN edges \/ types(edges[e]) # types(Carried(method, e, t))}

Changed(b, t) ==
  {e \in Leaving(method, b) : e \notin DOMAIN edges \/ edges[e] # Carried(method, e, t)}

\* Mutant: a block that waits already is put on the worklist again.
EnqueueAgain(rest, es) ==
  rest \o [i \in 1..Cardinality(es) |->
             Target(method, SelectSeq([j \in DOMAIN method.edges |-> j], LAMBDA e : e \in es)[i])]

\* Mutant: a block that was visited before is not visited again.
EnqueueUnvisited(rest, es) ==
  rest \o SelectSeq([i \in Blocks(method) |-> i], LAMBDA b :
            b \in {Target(method, e) : e \in es} \ (DOMAIN in \cup ToSet(rest)))

\* The worklist with the targets of es appended, in the order of the edges
\* and each once, but for those that are on it already.
Enqueue(rest, es) ==
  LET first == {e \in es : /\ Target(method, e) \notin ToSet(rest)
                           /\ \A d \in es : Target(method, d) = Target(method, e) => e <= d}
      nth(i) == CHOOSE e \in first : Cardinality({d \in first : d <= e}) = i
  IN  rest \o [i \in 1..Cardinality(first) |-> Target(method, nth(i))]

Reject ==
  /\ status' = "rejected"
  /\ UNCHANGED <<method, policy, edges, in, pending, phis>>

\* The block was entered with this frame before: nothing to do.
Skip(b, f, rest) ==
  /\ b \in DOMAIN in /\ in[b] = f
  /\ pending' = rest
  /\ UNCHANGED <<method, policy, edges, in, phis, status>>

\* Walk the block and propagate what changed.
Propagate(b, f, rest) ==
  LET t == Trace(method, b, f)
      es == Changed(b, t)
  IN
  /\ ~(b \in DOMAIN in /\ in[b] = f)
  /\ IF Last(t).ok
     THEN /\ in' = [c \in DOMAIN in \cup {b} |-> IF c = b THEN f ELSE in[c]]
          /\ edges' = [e \in DOMAIN edges \cup es |->
                         IF e \in es THEN Carried(method, e, t) ELSE edges[e]]
          /\ pending' = Enqueue(rest, es)
          /\ UNCHANGED <<method, policy, phis, status>>
     ELSE Reject

\* One turn of the loop.
Visit ==
  /\ status = "run"
  /\ pending # <<>>
  /\ \E q \in Picks :
       LET b == pending[q]
           rest == RemoveAt(pending, q)
           f == Merge(method, edges, b)
       IN  IF f.ok THEN Skip(b, f, rest) \/ Propagate(b, f, rest) ELSE Reject

\* analysis_budget_exceeded.
OutOfWork ==
  /\ status = "run"
  /\ status' = "budget"
  /\ UNCHANGED <<method, policy, edges, in, pending, phis>>
-----------------------------------------------------------------------------
(* The end: assignPhis and simplifyPhiCopies.                              *)

\* assignPhis: the phis that head a value, with the operand of each edge.
Equations ==
  LET heads == UNION {{Cells(in[b])[s].origin : s \in
                 {s \in DOMAIN Cells(in[b]) : Cells(in[b])[s].origin = Phi(b, s)}}
                   : b \in DOMAIN in}
  IN  [o \in heads |-> [e \in DOMAIN Incoming(method, edges, o.at[1]) |-> Cells(edges[e])[o.slot].origin]]

Operands(eqs, o) == {eqs[o][e] : e \in DOMAIN eqs[o]}

\* The phis o is computed from, directly or through others.
Inputs(eqs, o) ==
  LET grow(S) == S \cup ((UNION {Operands(eqs, u) : u \in S}) \cap DOMAIN eqs)
      upto[k \in 0..Cardinality(DOMAIN eqs)] ==
        IF k = 0 THEN Operands(eqs, o) \cap DOMAIN eqs ELSE grow(upto[k - 1])
  IN  upto[Cardinality(DOMAIN eqs)]

\* The strongly connected component of o.
Component(eqs, o) == {o} \cup {u \in Inputs(eqs, o) : o \in Inputs(eqs, u)}

\* The values that enter the component of o from outside.
External(eqs, o) ==
  LET c == Component(eqs, o) IN (UNION {Operands(eqs, u) : u \in c}) \ c

\* Mutant: a component is compared before its inputs have been replaced.
RepresentativeUnresolved(eqs) ==
  [o \in DOMAIN eqs |->
     LET ext == External(eqs, o) IN
     IF Cardinality(ext) = 1 THEN CHOOSE x \in ext : TRUE ELSE o]

\* A component with one external input denotes it; inputs are replaced first.
Representative(eqs) ==
  LET c == [o \in DOMAIN eqs |-> External(eqs, o)]
      rep[o \in DOMAIN eqs] ==
        LET ext == {IF x \in DOMAIN eqs THEN rep[x] ELSE x : x \in c[o]} IN
        IF Cardinality(ext) = 1 THEN CHOOSE x \in ext : TRUE ELSE o
  IN  rep

\* rewrite: every origin list names the representatives.
Renamed(f, rep) ==
  LET name(c) == IF c.origin \in DOMAIN rep THEN Cell(c.type, rep[c.origin]) ELSE c IN
  [f EXCEPT !.locals = [i \in DOMAIN @ |-> name(@[i])],
            !.stack = [i \in DOMAIN @ |-> name(@[i])]]

Finish ==
  /\ status = "run"
  /\ pending = <<>>
  /\ LET eqs == Equations
         rep == Representative(eqs)
         name(o) == IF o \in DOMAIN rep THEN rep[o] ELSE o
         kept == {o \in DOMAIN eqs : rep[o] = o}
     IN
     IF \E o \in DOMAIN eqs :
          \/ External(eqs, o) = {}   \* "phi cycle has no incoming value"
          \/ \E x \in Operands(eqs, o) : x.kind = "phi" /\ x \notin DOMAIN eqs
     THEN Reject
     ELSE /\ phis' = [o \in kept |-> [e \in DOMAIN eqs[o] |-> name(eqs[o][e])]]
          /\ in' = [b \in DOMAIN in |-> Renamed(in[b], rep)]
          /\ edges' = [e \in DOMAIN edges |-> Renamed(edges[e], rep)]
          /\ status' = "done"
          /\ UNCHANGED <<method, policy, pending>>

Next == OutOfWork \/ Visit \/ Finish

\* One goroutine runs the loop and never stops between two turns.  OutOfWork
\* is owed nothing: behaviours that never run out must end as well.
Spec == Init /\ [][Next]_vars /\ WF_vars(Next)
-----------------------------------------------------------------------------
\* The worklist has each block once, and frames in use are no errors.
TypeOK ==
  /\ method \in Methods
  /\ policy \in Policies
  /\ DOMAIN edges \subseteq {0} \cup DOMAIN method.edges
  /\ DOMAIN in \subseteq Blocks(method)
  /\ pending \in Seq(Blocks(method)) /\ IsInjective(pending)
  /\ status \in {"run", "done", "rejected", "budget"}
  /\ \A e \in DOMAIN edges : edges[e].ok
  /\ \A b \in DOMAIN in : in[b].ok

(* No update is lost: a block that some edge reaches and that is not on    *)
(* the worklist was last walked with the join of what its edges carry now, *)
(* and its own edges carry what that walk gives.  With an empty worklist   *)
(* the frames therefore solve the equations.                               *)
Settled ==
  status = "run" =>
    \A b \in Blocks(method) : ~Contains(pending, b) /\ DOMAIN Incoming(method, edges, b) # {} =>
      /\ b \in DOMAIN in
      /\ in[b] = Merge(method, edges, b)
      /\ \A e \in Leaving(method, b) :
           e \in DOMAIN edges /\ edges[e] = Carried(method, e, Trace(method, b, in[b]))

(* Neither a store, a join, a handler nor the renaming of phis ever leaves *)
(* half of a wide local behind, or lets its halves name different values.  *)
PairsWhole ==
  /\ \A e \in DOMAIN edges : Whole(edges[e].locals)
  /\ \A b \in DOMAIN in : Whole(in[b].locals)

\* The frames on the edges solve the equations.
Solved == Round(method, edges) = edges

(* FIFO, LIFO and shuffled worklists reach the same facts: the least       *)
(* solution of the equations.                                              *)
OrderIndependent ==
  status = "run" /\ pending = <<>> => edges = Solution(method) /\ Solved

(* A legal method is never refused, whatever frames the order of the       *)
(* worklist goes through on the way.                                       *)
AcceptsLegal == status = "rejected" => ~method.legal

(* Every phi that is kept merges at least two values that reach it from    *)
(* outside its cycle, and none of its operands names a phi that was not.   *)
PhisNeeded ==
  status = "done" =>
    \A o \in DOMAIN phis :
      /\ Cardinality(External(phis, o)) > 1
      /\ \A x \in Operands(phis, o) : x.kind = "phi" => x \in DOMAIN phis

(* The loop stabilises in any order, without help from the work limit.     *)
Terminates == <>(status # "run")
=============================================================================
