----------------------------- MODULE Execution -----------------------------
(***************************************************************************)
(* What a solved method is for: running its SSA form must give every local *)
(* and every stack value the JVM gives.  After Build, the JVM and the SSA  *)
(* form run side by side along the same edges.  The JVM moves values       *)
(* through locals and stack; the SSA form has an environment that each     *)
(* defining instruction updates under its own identity and each edge       *)
(* updates under the phis of its target, all at once.                      *)
(***************************************************************************)
EXTENDS Solver

VARIABLES
  at,       \* the instruction to run, <<b, i>>; <<0, 0>> before and after
  locals,   \* the JVM's locals; both slots of a wide value hold it
  stack,    \* the JVM's operand stack, one entry per value
  env       \* the SSA environment: origin -> value

machine == <<at, locals, stack, env>>

\* A value: what created it, the parity of its creation (an older value of
\* the same instruction may still be about) and its dynamic type.
Value(o, age, t) == [origin |-> o, age |-> age, type |-> t]
Garbage == Value(NoOrigin, 0, T("Top"))

\* A new value with origin o.
Fresh(o, t) == Value(o, IF o \in DOMAIN env THEN 1 - env[o].age ELSE 0, t)

Idle ==
  /\ at = <<0, 0>>
  /\ locals = <<>>
  /\ stack = <<>>
  /\ env = <<>>

\* E with v for o: an instruction defines its value anew.
With(E, o, v) == [x \in DOMAIN E \cup {o} |-> IF x = o THEN v ELSE E[x]]

\* Control follows e into its target, where the phis take their operands.
Follow(e, s, r, base) ==
  LET b == Target(method, e)
      here == {o \in DOMAIN phis : o.at = <<b, 0>>}
  IN
  /\ at' = <<b, 1>>
  /\ locals' = s
  /\ stack' = r
  /\ env' = [o \in DOMAIN base \cup here |-> IF o \in here THEN base[phis[o][e]] ELSE base[o]]
  /\ UNCHANGED vars

\* The arguments there are: the tail of a long comes with its head.
Given == {Param(i) : i \in {j \in DOMAIN method.locals : Computational(method.locals[j])}}

\* The method is called: arguments of the declared kinds.
Call ==
  /\ status = "done"
  /\ env = <<>>
  /\ LET argument(i) ==
           LET t == method.locals[i] IN
           IF t.kind = "Top" THEN Garbage
           ELSE IF IsTail(t) THEN Value(Param(i - 1), 0, method.locals[i - 1])
           ELSE Value(Param(i), 0, IF t.kind = "Int" THEN IntConst(0) ELSE t)
         s == [i \in DOMAIN method.locals |-> argument(i)]
     IN  Follow(0, s, <<>>, [o \in Given |-> s[o.slot]])

Instruction == method.code[at[1]][at[2]]
Running == at # <<0, 0>>
Leave(exc) ==
  {e \in DOMAIN method.edges : method.edges[e].from = at /\ method.edges[e].exc = exc}
-----------------------------------------------------------------------------
(* The JVM.                                                                *)

\* What the instruction computes: at most one new value.
Computed ==
  LET top == stack[Len(stack)].type
      under == stack[Len(stack) - 1].type
      ins == Instruction
  IN
  CASE ins.op \in {"const", "invoke"} ->
         IF ins.type = T("Int") THEN IntConst(0) ELSE ins.type
    [] ins.op = "new" -> UninitAt(at, ins.type.class)
    [] ins.op = "iinc" -> IntConst((locals[ins.local].type.val + 1) % IntSize)
    [] ins.op = "add" -> IntConst((top.val + under.val) % IntSize)
    [] ins.op = "checkcast" -> IF top.kind = "Null" THEN top ELSE RefOf(ins.type.class)

Defines == Instruction.op \in {"const", "invoke", "new", "iinc", "add", "checkcast"}

\* The object t has been constructed, or lost by its constructor.
Becoming(s, v, t) == [i \in DOMAIN s |-> IF s[i] = v THEN [v EXCEPT !.type = t] ELSE s[i]]

\* Locals and stack after the instruction, new being the value it computes.
Run(new) ==
  LET n == Len(stack)
      ins == Instruction
      top == stack[n]
      drop(k) == SubSeq(stack, 1, n - k)
      constructed == RefOf(ins.type.class)
      written(k, v) == [i \in DOMAIN locals |->
        IF i = k \/ (IsHead(v.type) /\ i = k + 1) THEN v ELSE locals[i]]
  IN
  CASE ins.op \in {"goto", "return"} -> <<locals, stack>>
    [] ins.op \in {"const", "invoke", "new"} -> <<locals, Append(stack, new)>>
    [] ins.op = "load" -> <<locals, Append(stack, locals[ins.local])>>
    [] ins.op = "store" -> <<written(ins.local, top), drop(1)>>
    [] ins.op = "iinc" -> <<written(ins.local, new), stack>>
    [] ins.op \in {"pop", "if"} -> <<locals, drop(1)>>
    [] ins.op = "dup" -> <<locals, Append(stack, top)>>
    [] ins.op = "swap" -> <<locals, drop(2) \o <<top, stack[n - 1]>>>>
    [] ins.op = "add" -> <<locals, Append(drop(2), new)>>
    [] ins.op = "checkcast" -> <<locals, Append(drop(1), new)>>
    [] ins.op = "init" ->
         <<Becoming(locals, top, constructed), Becoming(drop(1), top, constructed)>>

\* The environment after the instruction.
Updated(new) ==
  IF Defines THEN With(env, Def(at), new)
  ELSE IF Instruction.op = "init"
  THEN Becoming(env, stack[Len(stack)], RefOf(Instruction.type.class))
  ELSE env

\* The value the instruction computes, and locals and stack after it.
Result == IF Defines THEN Fresh(Def(at), Computed) ELSE Garbage

\* The instruction completes within its block.
Step ==
  /\ Running
  /\ Instruction.op # "athrow"
  /\ at[2] < Len(method.code[at[1]])
  /\ at' = <<at[1], at[2] + 1>>
  /\ LET new == Result IN
       /\ locals' = Run(new)[1]
       /\ stack' = Run(new)[2]
       /\ env' = Updated(new)
  /\ UNCHANGED vars

\* The last instruction of its block completes; control goes on along e.
Branch(e) ==
  /\ Running
  /\ Instruction.op # "athrow"
  /\ at[2] = Len(method.code[at[1]])
  /\ e \in Leave(FALSE)
  /\ LET new == Result IN Follow(e, Run(new)[1], Run(new)[2], Updated(new))

\* The instruction throws to the handler of e; its locals are as they were,
\* but an object whose constructor threw is lost.
ThrowTo(e) ==
  /\ Running
  /\ e \in Leave(TRUE)
  /\ LET thrown == Fresh(Thrown(at), RefOf(Throwable))
         dead(s) == IF Instruction.op = "init"
                    THEN Becoming(s, stack[Len(stack)], T("Top")) ELSE s
     IN  Follow(e, dead(locals), <<thrown>>, With(dead(env), Thrown(at), thrown))

\* Build runs with the machine idle; then the machine runs.
Build == (Visit \/ Finish) /\ UNCHANGED machine

ExecInit == Init /\ Idle
ExecNext ==
  \/ Build \/ Call \/ Step
  \/ \E e \in DOMAIN method.edges : Branch(e) \/ ThrowTo(e)
ExecSpec == ExecInit /\ [][ExecNext]_<<vars, machine>>
-----------------------------------------------------------------------------
\* What the solver says of the point the machine is at.
Here == Trace(method, at[1], in[at[1]])[at[2]]

(* SSA construction and phi simplification are right: wherever control is, *)
(* every usable local and every stack entry is, in the SSA environment,    *)
(* the value of the origin the solver gave it; not merely a value of the   *)
(* same type, and not an older one of the same instruction.                *)
Simulates ==
  Running =>
    LET same(c, v) == c.origin \in DOMAIN env /\ env[c.origin] = v IN
    /\ Len(stack) = Len(Here.stack)
    /\ \A i \in DOMAIN stack : same(Here.stack[i], stack[i])
    /\ \A i \in DOMAIN locals :
         Here.locals[i].type.kind = "Top" \/ same(Here.locals[i], locals[i])

\* A value of dynamic type t is one the frame's type promises.
Promises(type, t) ==
  CASE type.kind = "Top" -> TRUE
    [] type.kind = "LongTail" -> t.kind = "Long"
    [] type.kind \in {"Int", "Long"} -> t.kind = type.kind /\ type.val \in {NoVal, t.val}
    [] type.kind = "Ref" ->
         t.kind = "Null" \/ (t.kind = "Ref" /\ type.class \in {Object, t.class})
    [] type.kind = "Null" -> t.kind = "Null"
    [] type.kind = "UninitNew" -> t = type

(* The frames describe the machine: kinds, halves of wide values, folded   *)
(* constants, classes, and which objects are initialised or lost.          *)
FramesSound ==
  Running =>
    /\ \A i \in DOMAIN stack : Promises(Here.stack[i].type, stack[i].type)
    /\ \A i \in DOMAIN locals : Promises(Here.locals[i].type, locals[i].type)

=============================================================================
