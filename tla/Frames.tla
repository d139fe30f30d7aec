------------------------------- MODULE Frames -------------------------------
(***************************************************************************)
(* Abstract frames of the SSA builder: frametransfer (the verifier types   *)
(* of locals and operand stack, their transfer and their join) with, in    *)
(* each cell, the origin ssabuild/origins.go tracks beside the type.       *)
(*                                                                         *)
(* Locals keep the JVM's expanded slots: a long is a head and a tail.  The *)
(* operand stack holds one cell per value, because the code moves both     *)
(* slots of a wide value together everywhere.  Of the primitive types, Int *)
(* stands for the one-slot kinds and Long for the two-slot kinds.          *)
(***************************************************************************)
EXTENDS Integers, Sequences

CONSTANTS
  ClassNames, \* the names of the classes the methods use
  IntSize     \* the number of values of an int: arithmetic wraps there

Object == "java/lang/Object"
Throwable == "java/lang/Throwable"

ASSUME ClassNamesAssumption == {Object, Throwable} \subseteq ClassNames

ASSUME IntSizeAssumption == IntSize \in Nat \ {0}

\* What tells two values of a kind apart: the class of a reference (for null
\* the class of its last cast), the constant of a number or the site of a new.
NoVal == -1
T(kind) == [kind |-> kind, class |-> "", val |-> NoVal]
RefOf(class) == [kind |-> "Ref", class |-> class, val |-> NoVal]
IntConst(v) == [kind |-> "Int", class |-> "", val |-> v]
\* The pc of the instruction at <<b, i>>: a number no other instruction has.
PC(at) == LET n == at[1] + at[2] IN n * n + at[1]
UninitAt(at, class) == [kind |-> "UninitNew", class |-> class, val |-> PC(at)]

Kinds == {"Top", "Int", "Long", "LongTail", "Ref", "Null", "UninitNew"}
Types == [kind : Kinds, class : ClassNames \cup {""}, val : Int]

IsHead(t) == t.kind = "Long"
IsTail(t) == t.kind = "LongTail"
Computational(t) == t.kind \notin {"Top", "LongTail"}
ReferenceLike(t) == t.kind \in {"Ref", "Null", "UninitNew"}

\* The value in a cell: a parameter, the result of the instruction at <<b, i>>,
\* what that instruction threw, or the phi of slot s of block b.
Origin(kind, at, slot) == [kind |-> kind, at |-> at, slot |-> slot]
NoOrigin == Origin("top", <<0, 0>>, 0)
Param(slot) == Origin("param", <<0, 0>>, slot)
Def(at) == Origin("def", at, 0)
Thrown(at) == Origin("thrown", at, 0)
Phi(b, slot) == Origin("phi", <<b, 0>>, slot)

Cell(t, o) == [type |-> t, origin |-> o]
Unusable == Cell(T("Top"), NoOrigin)

\* A frame, or the error a failing transfer or join returns instead of one.
Frame(locals, stack) == [ok |-> TRUE, locals |-> locals, stack |-> stack]
Invalid == [ok |-> FALSE, locals |-> <<>>, stack |-> <<>>]

Cells(f) == f.locals \o f.stack

\* s itself; written so that TLC computes each cell once, not at each use.
Listed(s) == SubSeq(s, 1, Len(s))

\* Each half of a wide local is beside the other and names the same value.
Whole(locals) ==
  \A i \in DOMAIN locals :
    /\ IsHead(locals[i].type) =>
         /\ i + 1 \in DOMAIN locals
         /\ locals[i + 1] = Cell(T("LongTail"), locals[i].origin)
    /\ IsTail(locals[i].type) =>
         /\ i - 1 \in DOMAIN locals
         /\ IsHead(locals[i - 1].type)
         /\ locals[i - 1].origin = locals[i].origin
-----------------------------------------------------------------------------
(* Transfer of one instruction [op, type, local] at <<b, i>>.  The type is *)
(* the kind it wants, the class it names or the value it pushes.           *)

\* The instructions of the model.
Ops == {"goto", "return", "const", "invoke", "new", "load", "store", "iinc", "pop", "if",
        "dup", "swap", "add", "checkcast", "athrow", "init"}

\* Constants, results and what a load asks for are values, not halves of one;
\* only new makes an object that is not initialised.
IsInstruction(ins) ==
  /\ ins.op \in Ops
  /\ ins.type \in Types
  /\ ins.op \in {"const", "invoke", "load"} => Computational(ins.type)
  /\ ins.op \in {"const", "invoke"} => ins.type.kind # "UninitNew"

\* Mutant: a store into one half of a long leaves the other half behind.
PutHalf(locals, n, c) ==
  [i \in DOMAIN locals |->
     IF i = n THEN c
     ELSE IF IsHead(c.type) /\ i = n + 1 THEN Cell(T("LongTail"), c.origin)
     ELSE IF i = n - 1 /\ IsHead(locals[i].type) THEN Unusable
     ELSE locals[i]]

\* storeLocal: both halves of a pair the written slots cut are unusable.
Put(locals, n, c) ==
  LET last == IF IsHead(c.type) THEN n + 1 ELSE n IN
  [i \in DOMAIN locals |->
     IF i = n THEN c
     ELSE IF i = last THEN Cell(T("LongTail"), c.origin)
     ELSE IF \/ i = n - 1 /\ IsHead(locals[i].type)
             \/ i = last + 1 /\ IsTail(locals[i].type)
     THEN Unusable
     ELSE locals[i]]

\* Mutant: objects that are not initialised cannot be moved either.
MovesInitialised(t, kind) == IF kind = "Ref" THEN t.kind \in {"Ref", "Null"} ELSE t.kind = kind

\* popKind and loadLocal: a reference may be null; only moves accept new
\* objects that are not initialised yet.
Pops(t, kind) == IF kind = "Ref" THEN t.kind \in {"Ref", "Null"} ELSE t.kind = kind
Moves(t, kind) == IF kind = "Ref" THEN ReferenceLike(t) ELSE t.kind = kind

\* What the operand stack and the locals must hold for the instruction.
Fits(f, ins) ==
  LET n == Len(f.stack)
      top == f.stack[n].type
      under == f.stack[n - 1].type
  IN
  CASE ins.op \in {"const", "new", "invoke", "goto", "return"} -> TRUE
    [] ins.op = "load" ->
         /\ ins.local \in DOMAIN f.locals
         /\ Moves(f.locals[ins.local].type, ins.type.kind)
         /\ ins.type.kind = "Long" => ins.local + 1 \in DOMAIN f.locals
    [] ins.op = "store" ->
         /\ n > 0 /\ Moves(top, ins.type.kind)
         /\ ins.local \in DOMAIN f.locals
         /\ IsHead(top) => ins.local + 1 \in DOMAIN f.locals
    [] ins.op = "iinc" ->
         ins.local \in DOMAIN f.locals /\ f.locals[ins.local].type.kind = "Int"
    [] ins.op = "pop" -> n > 0 /\ ~IsHead(top)
    [] ins.op = "dup" -> n > 0 /\ ~IsHead(top)
    [] ins.op = "swap" -> n > 1 /\ ~IsHead(top) /\ ~IsHead(under)
    [] ins.op = "add" -> n > 1 /\ top.kind = "Int" /\ under.kind = "Int"
    [] ins.op = "if" -> n > 0 /\ Pops(top, ins.type.kind)
    [] ins.op \in {"checkcast", "athrow"} -> n > 0 /\ Pops(top, "Ref")
    [] ins.op = "init" ->
         n > 0 /\ top.kind = "UninitNew" /\ top.class = ins.type.class

\* initialize: every copy of the object a constructor returned from.
Initialised(cells, t) ==
  [i \in DOMAIN cells |->
     IF cells[i].type = t THEN Cell(RefOf(t.class), cells[i].origin) ELSE cells[i]]

\* checkcast: null stays null, and keeps the name of the class.
CastTo(t, class) ==
  IF t.kind = "Null" THEN [t EXCEPT !.class = class] ELSE RefOf(class)

\* doIinc: a known constant is folded, in the range of an int.
Incremented(t) ==
  IF t.val = NoVal THEN T("Int") ELSE IntConst((t.val + 1) % IntSize)

\* Mutant: the new value of an incremented local keeps the old identity.
IncreasedAlias(c, at) == Cell(Incremented(c.type), c.origin)

Increased(c, at) == Cell(Incremented(c.type), Def(at))

\* The stack of f with its last n values replaced by s.
Restack(f, n, s) ==
  [f EXCEPT !.stack = SubSeq(f.stack, 1, Len(f.stack) - n) \o s]

\* The frame after the instruction completes normally.
Transfer(f, ins, at) ==
  LET top == f.stack[Len(f.stack)]
      under == f.stack[Len(f.stack) - 1]
      result(t) == <<Cell(t, Def(at))>>
  IN
  IF ~f.ok \/ ~Fits(f, ins) THEN Invalid ELSE
  CASE ins.op \in {"goto", "return"} -> f
    [] ins.op \in {"const", "invoke"} -> Restack(f, 0, result(ins.type))
    [] ins.op = "new" -> Restack(f, 0, result(UninitAt(at, ins.type.class)))
    [] ins.op = "load" -> Restack(f, 0, <<f.locals[ins.local]>>)
    [] ins.op = "store" ->
         [Restack(f, 1, <<>>) EXCEPT !.locals = Put(@, ins.local, top)]
    [] ins.op = "iinc" ->
         [f EXCEPT !.locals[ins.local] = Increased(@, at)]
    [] ins.op \in {"pop", "if"} -> Restack(f, 1, <<>>)
    [] ins.op = "dup" -> Restack(f, 0, <<top>>)
    [] ins.op = "swap" -> Restack(f, 2, <<top, under>>)
    [] ins.op = "add" -> Restack(f, 2, result(T("Int")))
    [] ins.op = "checkcast" -> Restack(f, 1, result(CastTo(top.type, ins.type.class)))
    [] ins.op = "athrow" -> [f EXCEPT !.stack = <<top>>]
    [] ins.op = "init" ->
         LET rest == Restack(f, 1, <<>>) IN
         Frame(Initialised(rest.locals, top.type), Initialised(rest.stack, top.type))

\* Mutant: the handler may still use the object whose constructor threw.
ExceptionalReusable(f, ins, at) ==
  Frame(f.locals, <<Cell(RefOf(Throwable), Thrown(at))>>)

\* mkEx: the frame a handler is entered with.  It has the locals from before
\* the instruction; the copies of an object whose constructor threw are lost.
Exceptional(f, ins, at) ==
  LET lost(t) == ins.op = "init" /\ t = f.stack[Len(f.stack)].type IN
  Frame([i \in DOMAIN f.locals |->
           IF lost(f.locals[i].type) THEN Unusable ELSE f.locals[i]],
        <<Cell(RefOf(Throwable), Thrown(at))>>)
-----------------------------------------------------------------------------
(* Joins.                                                                  *)

\* JoinTypes.  Its second result is dropped: JoinFrames treats "no join" as
\* Top, in the locals as a dead cell and on the stack as an error.
JoinTypes(a, b) ==
  CASE a.kind = "Null" /\ b.kind \in {"Ref", "Null"} -> b
    [] a.kind = "Ref" /\ b.kind = "Null" -> a
    [] a.kind = "Ref" /\ b.kind = "Ref" -> IF a.class = b.class THEN a ELSE RefOf(Object)
    [] a.kind \in {"Int", "Long"} /\ b.kind = a.kind -> IF a = b THEN a ELSE T(a.kind)
    [] a.kind \in {"Top", "LongTail", "UninitNew"} /\ b = a -> a
    [] OTHER -> T("Top")

JoinCells(s, r) == [i \in DOMAIN s |-> Cell(JoinTypes(s[i].type, r[i].type), s[i].origin)]

\* A merge may kill one half of a pair: its other half is unusable too.
KillHalves(s) ==
  [i \in DOMAIN s |->
     IF \/ s[i].type.kind = "Top"
        \/ IsHead(s[i].type) /\ (i + 1 \notin DOMAIN s \/ ~IsTail(s[i + 1].type))
        \/ IsTail(s[i].type) /\ (i - 1 \notin DOMAIN s \/ ~IsHead(s[i - 1].type))
     THEN Unusable ELSE s[i]]

JoinFrames(f, g) ==
  IF \/ ~f.ok \/ ~g.ok \/ Len(f.stack) # Len(g.stack)
     \/ \E i \in DOMAIN f.stack : ~Computational(JoinTypes(f.stack[i].type, g.stack[i].type))
  THEN Invalid
  ELSE Frame(Listed(KillHalves(Listed(JoinCells(f.locals, g.locals)))),
             Listed(JoinCells(f.stack, g.stack)))
=============================================================================
