----------------------------- MODULE Equations -----------------------------
(***************************************************************************)
(* The frame equations ssabuild.Build solves, as functions of the method   *)
(* and of the frames its edges carry.  A method is a record                *)
(*   [code   : block -> sequence of instructions (block 1 is the entry),   *)
(*    edges  : edge -> [from : <<b, i>>, to : block, exc : BOOLEAN],       *)
(*    order  : edge -> the place of its id among the ids, as strings,      *)
(*    locals : the verifier types of the locals at method entry,           *)
(*    legal  : does it pass the JVM's verifier?]                           *)
(* with the edges in the order of ir.Edges, which is the order of their    *)
(* instructions; their ids are sorted as strings, "12>40" before "7>40".   *)
(* Edge 0 is the permanent edge into the method.  E is a function from     *)
(* edges to frames: an edge that carries no frame yet is absent, which is  *)
(* not the same as carrying Top.                                           *)
(***************************************************************************)
EXTENDS Frames, FiniteSets, SequencesExt

Blocks(m) == DOMAIN m.code
Target(m, e) == IF e = 0 THEN 1 ELSE m.edges[e].to
Leaving(m, b) == {e \in DOMAIN m.edges : m.edges[e].from[1] = b}

\* What MethodIR hands over: blocks of instructions, edges from instructions
\* to blocks, and the declared locals, where a head and its tail are adjacent;
\* a descriptor names neither a constant nor a new object.
CodeOf(m) ==
  \A b \in Blocks(m) :
    /\ m.code[b] \in Seq(Range(m.code[b]))
    /\ \A i \in DOMAIN m.code[b] : IsInstruction(m.code[b][i])

GraphOf(m) ==
  /\ m.code \in Seq(Range(m.code))
  /\ 1 \in Blocks(m)
  /\ m.edges \in Seq(Range(m.edges))
  /\ \A e \in DOMAIN m.edges : m.edges[e].from[1] \in Blocks(m) /\ m.edges[e].to \in Blocks(m)

LeavingAt(m) ==
  \A e \in DOMAIN m.edges :
    /\ m.edges[e].from \in Nat \X Nat
    /\ m.edges[e].from[2] \in DOMAIN m.code[m.edges[e].from[1]]

LocalsOf(m) ==
  /\ m.locals \in Seq(Types)
  /\ \A i \in DOMAIN m.locals :
       /\ IsHead(m.locals[i]) => i + 1 \in DOMAIN m.locals /\ m.locals[i + 1] = T("LongTail")
       /\ IsTail(m.locals[i]) => i - 1 \in DOMAIN m.locals /\ IsHead(m.locals[i - 1])
       /\ m.locals[i].kind # "UninitNew"
       /\ m.locals[i].kind \in {"Int", "Long"} => m.locals[i].val = NoVal

OrderOf(m) ==
  /\ m.order \in [0..Len(m.edges) -> Nat]
  /\ \A d, e \in 0..Len(m.edges) : m.order[d] = m.order[e] => d = e

WellFormed(m) == GraphOf(m) /\ CodeOf(m) /\ LeavingAt(m) /\ LocalsOf(m) /\ OrderOf(m)

\* initialFrame and paramOrigins: both halves of a parameter are one value.
EntryFrame(m) ==
  LET slot(i) == IF IsTail(m.locals[i]) THEN i - 1 ELSE i IN
  Frame([i \in DOMAIN m.locals |->
           IF m.locals[i].kind = "Top" THEN Unusable
           ELSE Cell(m.locals[i], Param(slot(i)))], <<>>)

\* The frames on the edges into b, those there are.
Incoming(m, E, b) == [e \in {x \in DOMAIN E : Target(m, x) = b} |-> E[e]]

\* Such frames in the order of the edge ids.
InOrder(m, F) ==
  LET place(e) == Cardinality({d \in DOMAIN F : m.order[d] <= m.order[e]})
      nth(i) == CHOOSE e \in DOMAIN F : place(e) = i
  IN  [i \in 1..Cardinality(DOMAIN F) |-> F[nth(i)]]

\* normalizeOrigins of a joined frame: one phi for each usable value.
WithPhis(f, b) ==
  LET n == Len(f.locals)
      slot(i) == IF IsTail(f.locals[i].type) THEN i - 1 ELSE i
      named(i) == IF f.locals[i].type.kind = "Top" THEN Unusable
                  ELSE Cell(f.locals[i].type, Phi(b, slot(i)))
  IN  [f EXCEPT !.locals = Listed([i \in 1..n |-> named(i)]),
                !.stack = Listed([i \in DOMAIN @ |-> Cell(@[i].type, Phi(b, n + i))])]

\* The join of a sequence of frames, from the first to the last.
JoinAll(fs) ==
  LET upto[k \in DOMAIN fs] == IF k = 1 THEN fs[1] ELSE JoinFrames(upto[k - 1], fs[k])
  IN  upto[Len(fs)]

\* Mutant: a value whose operands agree is no phi, already while solving.
JoinedCollapsing(fs, b) ==
  LET f == WithPhis(JoinAll(fs), b)
      operands(i) == {Cells(fs[k])[i].origin : k \in DOMAIN fs} \ {Cells(f)[i].origin}
      keep(s, d) == Listed([i \in DOMAIN s |->
        IF s[i].type.kind # "Top" /\ Cardinality(operands(d + i)) = 1
        THEN Cell(s[i].type, CHOOSE o \in operands(d + i) : TRUE) ELSE s[i]])
  IN  IF Len(fs) = 1 THEN Head(fs)
      ELSE Frame(keep(f.locals, 0), keep(f.stack, Len(f.locals)))

\* Every value joined from several edges is a phi of its own, even if the
\* operands agree for the time being.
Joined(fs, b) ==
  LET f == JoinAll(fs) IN
  IF Len(fs) = 1 \/ ~f.ok THEN f ELSE WithPhis(f, b)

\* The frame b is entered with.
Merge(m, E, b) == Joined(InOrder(m, Incoming(m, E, b)), b)

\* The frames before each instruction of b and after the last, entered with f.
Trace(m, b, f) ==
  LET code == m.code[b]
      listed(g) == [g EXCEPT !.locals = Listed(@), !.stack = Listed(@)]
      before[i \in 1..(Len(code) + 1)] ==
        IF i = 1 THEN f
        ELSE listed(Transfer(before[i - 1], code[i - 1], <<b, i - 1>>))
  IN  before

\* What edge e out of a block carries, t being the frames of the block.
Carried(m, e, t) ==
  LET at == m.edges[e].from IN
  IF m.edges[e].exc
  THEN Exceptional(t[at[2]], m.code[at[1]][at[2]], at)
  ELSE t[at[2] + 1]
-----------------------------------------------------------------------------
\* All blocks that some edge reaches, walked at once.
Round(m, E) ==
  LET reached == {Target(m, e) : e \in DOMAIN E}
      trace == [b \in reached |-> Trace(m, b, Merge(m, E, b))]
  IN  [e \in {0} \cup UNION {Leaving(m, b) : b \in reached} |->
         IF e = 0 THEN EntryFrame(m) ELSE Carried(m, e, trace[m.edges[e].from[1]])]

\* The least solution, by such rounds.
Solution(m) ==
  LET n == 4 * Len(m.code) + 4
      start == [e \in {0} |-> EntryFrame(m)]
      next(E) == LET N == Round(m, E) IN IF N = E THEN E ELSE N
      round[k \in Nat] == IF k = 0 THEN start ELSE next(round[k - 1])
  IN  round[n]
=============================================================================
