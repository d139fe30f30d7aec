----------------------------- MODULE Destruction -----------------------------
(***************************************************************************)
(* ssalower.DestroyWithWorkCounter: a solved method is given a plan that   *)
(* does without phis, and the program that follows the plan runs beside    *)
(* the JVM.  There is one variable for each value the solver named; a phi  *)
(* is a variable that copies write on the way into its block, and that     *)
(* spills write before an instruction that may throw to its handler.       *)
(*                                                                         *)
(* The copies of an edge happen at once: that the serial moves of the plan *)
(* do the same is what Sequentialize shows.  They stand in a block of      *)
(* their own if the plan splits the edge, or else where blocks have room:  *)
(* at the end of the source if it has no other way out, or at the head of  *)
(* the target.  The work counter and the limit on spills, which refuse a   *)
(* plan as a whole, are left out.                                          *)
(***************************************************************************)
EXTENDS Execution, TLC

VARIABLES
  plan,    \* Lowered: nothing, a refusal, or the plan
  store    \* the variables of the emitted program

lowered == <<plan, store>>

NotLowered == [status |-> "none"]
-----------------------------------------------------------------------------
(* The registry.                                                           *)

Before(pc) == Trace(method, pc[1], in[pc[1]])[pc[2]]

\* Function.Instructions, in the order of their addresses.
Points ==
  FoldLeft(LAMBDA s, b : s \o [i \in DOMAIN method.code[b] |-> <<b, i>>], <<>>,
           SelectSeq([b \in DOMAIN method.code |-> b], LAMBDA b : b \in DOMAIN in))

Named(o, cells) == SelectSeq(cells, LAMBDA c : c.origin = o /\ Computational(c.type))

\* ValueRegistry.Info: a phi has the type it has in its block, any other value
\* the one it was last met with before an instruction or else on an edge.
Info(o) ==
  LET met == FoldLeft(LAMBDA s, pc : s \o Named(o, Cells(Before(pc))), <<>>, Points)
      carried == UNION {ToSet(Named(o, Cells(edges[e]))) : e \in DOMAIN edges}
  IN  IF o \in DOMAIN phis THEN Cells(in[o.at[1]])[o.slot].type
      ELSE IF met # <<>> THEN Last(met).type
      ELSE (CHOOSE c \in carried : TRUE).type

\* DropValue.
Dropped(t) == IF t.kind \in {"Int", "Long"} THEN T(t.kind) ELSE t

\* Mutant: null is a category of its own.
CompatibleSame(d, s) == IF d.kind = "UninitNew" THEN d = s ELSE d.kind = s.kind

\* What the scheduler accepts as a copy: no conversion, no initialisation.
Compatible(d, s) ==
  IF d.kind = "UninitNew" THEN d = s
  ELSE d.kind = s.kind \/ (d.kind = "Ref" /\ s.kind = "Null")

Typed(copies) == \A o \in DOMAIN copies : Compatible(Info(o), Info(copies[o]))
-----------------------------------------------------------------------------
(* Edges.                                                                  *)

Throws(e) == e # 0 /\ method.edges[e].exc
PhisAt(b) == {o \in DOMAIN phis : o.at = <<b, 0>>}

\* phiCopiesChecked: the phis of the target, each with its operand.
Copies(e) == [o \in PhisAt(Target(method, e)) |-> phis[o][e]]

Moving(copies) == \E o \in DOMAIN copies : copies[o] # o

\* No way out beside e, and no other way in; the way into the method is not
\* counted.
Alone(e) == ~\E d \in DOMAIN edges \ {0, e} : method.edges[d].from = method.edges[e].from
Only(e) == ~\E d \in DOMAIN edges \ {0, e} : Target(method, d) = Target(method, e)

\* The critical edges that have moves.
Splits ==
  {e \in DOMAIN edges \ {0} : ~Throws(e) /\ ~Alone(e) /\ ~Only(e) /\ Moving(Copies(e))}

-----------------------------------------------------------------------------
(* Exceptions: exceptionPlan.                                              *)

Handlers == {Target(method, e) : e \in {x \in DOMAIN edges : Throws(x)}}

LocalPhis(b) == {o \in PhisAt(b) : o.slot <= Len(method.locals)}

SpillType(t) == Computational(t) /\ t.kind # "UninitNew"

\* A handler the plan can serve: only thrown to, with one caught object, and
\* its local phis of the very type the locals have where it is thrown from.
HandlerFits(b) ==
  /\ \A e \in DOMAIN edges : Target(method, e) = b => Throws(e)
  /\ Len(in[b].stack) = 1 /\ in[b].stack[1].type.kind = "Ref"
  /\ \A o \in LocalPhis(b) :
       /\ SpillType(in[b].locals[o.slot].type)
       /\ \A e \in DOMAIN phis[o] :
            LET t == Before(method.edges[e].from).locals[o.slot].type
            IN  Dropped(t) = Dropped(in[b].locals[o.slot].type)

\* Mutant: a site serves the first of its handlers only.
SpillsFirst(pc) ==
  LET out == {e \in DOMAIN edges : Throws(e) /\ method.edges[e].from = pc}
      first == {e \in out : \A d \in out : e <= d}
  IN  [o \in UNION {LocalPhis(Target(method, e)) : e \in first} |->
         phis[o][CHOOSE e \in first : Target(method, e) = o.at[1]]]

\* SpillSite: the local phis of all the handlers the instruction throws to,
\* each with the local it takes.
Spills(pc) ==
  LET out == {e \in DOMAIN edges : Throws(e) /\ method.edges[e].from = pc}
  IN  [o \in UNION {LocalPhis(Target(method, e)) : e \in out} |->
         phis[o][CHOOSE e \in out : Target(method, e) = o.at[1]]]

ThrowSites == {method.edges[e].from : e \in {x \in DOMAIN edges : Throws(x)}}

\* CatchBinding: the variable the caught object is bound to.
Caught(b) == in[b].stack[1].origin
-----------------------------------------------------------------------------
(* The plan.                                                               *)

Normal == {e \in DOMAIN edges : ~Throws(e)}

\* Every phi that is used is registered: no value names a phi that is gone.
Registered ==
  \A b \in DOMAIN in : \A i \in DOMAIN Cells(in[b]) :
    Cells(in[b])[i].origin.kind = "phi" => Cells(in[b])[i].origin \in DOMAIN phis

Refusal ==
  CASE ~Registered -> "registry"
    [] \E b \in Handlers : ~HandlerFits(b) -> "handler"
    [] \/ \E pc \in ThrowSites : ~Typed(Spills(pc))
       \/ \E e \in Normal : ~Typed(Copies(e)) -> "category"
    [] OTHER -> "none"

Lower ==
  /\ status = "done"
  /\ plan = NotLowered
  /\ plan' =
       IF Refusal = "none"
       THEN [status |-> "ready",
             moves |-> [e \in Normal |-> Copies(e)],
             splits |-> Splits,
             sites |-> [pc \in ThrowSites |-> Spills(pc)],
             catch |-> [b \in Handlers |-> Caught(b)]]
       ELSE [status |-> "refused", why |-> Refusal]
  /\ UNCHANGED <<vars, machine, store>>
-----------------------------------------------------------------------------
(* The emitted program, beside the JVM.                                    *)

Held(s, o) == IF o \in DOMAIN s THEN s[o] ELSE Garbage

\* Copies that happen at once: ParallelCopy.
Assign(s, copies) ==
  [o \in DOMAIN s \cup DOMAIN copies |->
     IF o \in DOMAIN copies THEN Held(s, copies[o]) ELSE s[o]]

\* The copies at the head of b: those of its only edge, if the source of that
\* edge has other ways out.
Heading(b) ==
  LET es == {e \in DOMAIN plan.moves \ {0} : Target(method, e) = b /\ e \notin plan.splits /\ ~Alone(e)}
  IN  IF es = {} THEN <<>> ELSE plan.moves[CHOOSE e \in es : TRUE]

\* Control goes along e, which the program does with variables s.
Along(s, e) ==
  LET head == Heading(Target(method, e)) IN
  Assign(IF e = 0 \/ e \in plan.splits \/ Alone(e) THEN Assign(s, plan.moves[e]) ELSE s, head)

\* Before the instruction: the locals wanted by its handlers are read, where
\* the JVM keeps them, and the handlers' phis take them.
Spilled ==
  IF at \in DOMAIN plan.sites
  THEN LET copies == plan.sites[at]
           read == [o \in {copies[d] : d \in DOMAIN copies} |->
                      locals[(CHOOSE d \in DOMAIN copies : copies[d] = o).slot]]
       IN  Assign(read @@ store, copies)
  ELSE store

\* The variable of the value the instruction computes, if it computes one.
Computes(s) ==
  IF Defines THEN With(s, Def(at), env'[Def(at)])
  ELSE IF Instruction.op = "init"
  THEN Becoming(s, stack[Len(stack)], RefOf(Instruction.type.class)) ELSE s

Emit == status = "done" /\ plan.status = "ready" /\ UNCHANGED plan

LoweredCall == Emit /\ Call /\ store' = Along([o \in Given |-> env'[o]], 0)

LoweredStep == Emit /\ Step /\ store' = Computes(Spilled)

LoweredBranch ==
  \E e \in Leave(FALSE) :
    Emit /\ Branch(e) /\ store' = Along(Computes(Spilled), e)

\* The caught object exists only now.
LoweredThrow ==
  \E e \in Leave(TRUE) :
    /\ Emit
    /\ ThrowTo(e)
    /\ LET dead == IF Instruction.op = "init"
                   THEN Becoming(Spilled, stack[Len(stack)], T("Top")) ELSE Spilled
       IN  store' = With(dead, plan.catch[Target(method, e)], env'[Thrown(at)])

LowerInit == ExecInit /\ plan = NotLowered /\ store = <<>>
LowerNext ==
  \/ Build /\ UNCHANGED lowered
  \/ Lower
  \/ LoweredCall \/ LoweredStep \/ LoweredBranch \/ LoweredThrow
LowerSpec == LowerInit /\ [][LowerNext]_<<vars, machine, lowered>>
-----------------------------------------------------------------------------
(* Properties.                                                             *)

\* A spill writes the variable of a value that is in use where it spills.
Overwrites(pc) ==
  \E o \in DOMAIN Spills(pc) :
    /\ Spills(pc)[o] # o
    /\ \E c \in ToSet(Cells(Before(pc))) : c.origin = o

\* Copies at the head of the first block, where the method is entered too.
Shared(e) == e \notin Splits /\ ~Alone(e) /\ Target(method, e) = 1 /\ Moving(Copies(e))

Interference == (\E pc \in ThrowSites : Overwrites(pc)) \/ (\E e \in Normal \ {0} : Shared(e))

(* The emitted program computes what the method computes.                  *)
Emits ==
  LET same(c, v) == c.type.kind = "Top" \/ Held(store, c.origin) = v IN
  /\ \A i \in DOMAIN stack : same(Here.stack[i], stack[i])
  /\ \A i \in DOMAIN locals : same(Here.locals[i], locals[i])

(* The emitted program computes what the method computes: wherever control *)
(* is, on every path, exceptions included, the variable of each usable     *)
(* local and of each stack entry holds its value.  The copies of edges,    *)
(* wherever they stand, those of the entry, the spills for several         *)
(* handlers and the binding of what was caught add up to the phis          *)
(* (DestroyWithWorkCounter, exceptionPlan).  Left out are a handler that   *)
(* guards code where its phis are in use and a loop at the very start of   *)
(* the method: they interfere.                                             *)
EmitsSame == Running /\ ~Interference => Emits

(* R04_R05_EVIDENCE.md says it without exception: this is the module's     *)
(* complete emission plan.                                                 *)
PlanComplete == Running => Emits

\* The copy of phi o on edge e converts what that edge carries.
Converts(o, e) ==
  LET carried == Cells(edges[e])[o.slot].type.kind IN
  /\ carried # Info(o).kind
  /\ ~(carried = "Null" /\ Info(o).kind = "Ref")

Refused(why) == plan.status = "refused" /\ plan.why = why

\* An object the registry takes for uninitialised: it has met it only before
\* the constructor ran, which is the last instruction of its block.
Outdated(x) == Info(x).kind = "UninitNew"

(* A plan is refused for its copies only if one of them converts a value,  *)
(* or takes an object whose constructor is the last instruction of a block *)
(* (registryForWithCounter, sequentializeWithCounter).                     *)
RefusesConversions ==
  Refused("category") =>
    \E o \in DOMAIN phis : \E e \in DOMAIN phis[o] : Converts(o, e) \/ Outdated(phis[o][e])

(* identity.go says of the refusal: a copy performs no numeric conversion  *)
(* or initialization, null may enter an initialized reference.  A copy of  *)
(* an initialized object into an initialized reference is no such copy.    *)
CopiesInitialised ==
  Refused("category") => \E o \in DOMAIN phis : \E e \in DOMAIN phis[o] : Converts(o, e)
=============================================================================
