----------------------------- MODULE MCMethods -----------------------------
(***************************************************************************)
(* The methods the solver is checked on.  Locals are numbered from 1.      *)
(***************************************************************************)
EXTENDS Frames, Functions

MCClassNames == {Object, Throwable, "A", "B", "C"}

Ins(op, type, local) == [op |-> op, type |-> type, local |-> local]
IConst(v) == Ins("const", IntConst(v), 0)
LConst == Ins("const", [T("Long") EXCEPT !.val = 0], 0)
Null == Ins("const", T("Null"), 0)
Load(kind, n) == Ins("load", T(kind), n)
Store(kind, n) == Ins("store", T(kind), n)
Inc(n) == Ins("iinc", T("Int"), n)
If == Ins("if", T("Int"), 0)
IfNull == Ins("if", T("Ref"), 0)
Invoke(class) == Ins("invoke", RefOf(class), 0)
Cast(class) == Ins("checkcast", RefOf(class), 0)
New(class) == Ins("new", RefOf(class), 0)
Construct(class) == Ins("init", RefOf(class), 0)
Op(op) == Ins(op, T("Top"), 0)
Goto == Op("goto")
Return == Op("return")

Edge(b, i, to) == [from |-> <<b, i>>, to |-> to, exc |-> FALSE]
Handler(b, i, to) == [from |-> <<b, i>>, to |-> to, exc |-> TRUE]

\* Every instruction takes one byte.  The id of an edge begins with the pcs it
\* leaves and enters, and Digits orders numbers up to 99 as their decimals with
\* a '>' or a ':' behind them, which come after all digits.
Digits(n) == IF n < 10 THEN 11 * n + 10 ELSE n + n \div 10

ByName(code, edges) ==
  LET pc(b, i) == SumFunctionOnSet([c \in 1..(b - 1) |-> Len(code[c])], 1..(b - 1)) + i - 1
      name(e) == 10000 * Digits(pc(edges[e].from[1], edges[e].from[2]))
                   + 100 * Digits(pc(edges[e].to, 1)) + e
  IN  [e \in 0..Len(edges) |-> IF e = 0 THEN 0 ELSE name(e)]

Method(locals, code, edges, legal) ==
  [locals |-> locals, code |-> code, edges |-> edges, order |-> ByName(code, edges),
   legal |-> legal]

AnInt == T("Int")
Nothing == T("Top")
-----------------------------------------------------------------------------
(* A loop whose header switches to one of two arms or leaves, each arm     *)
(* working on locals 1 and 2: every way two such arms can exchange, copy,  *)
(* redefine and count.                                                     *)
Arms ==
  { <<Goto>>,
    <<Load("Int", 1), Load("Int", 2), Store("Int", 1), Store("Int", 2), Goto>>,
    <<Load("Int", 1), Store("Int", 2), Goto>>,
    <<Load("Int", 2), Store("Int", 1), Goto>>,
    <<Inc(1), Goto>>,
    <<IConst(1), Store("Int", 2), Goto>> }

Loop(one, two) ==
  Method(<<AnInt, AnInt, AnInt>>,
    << <<Goto>>, <<Load("Int", 3), If>>, one, two, <<Load("Int", 1), Op("pop"), Return>> >>,
    << Edge(1, 1, 2), Edge(2, 2, 3), Edge(2, 2, 4), Edge(2, 2, 5),
       Edge(3, Len(one), 2), Edge(4, Len(two), 2) >>, TRUE)

Loops == {Loop(one, two) : one, two \in Arms}

\* The same arms reached from each other as well as from the entry: a loop
\* with two entries.
Irreducible(one, two) ==
  Method(<<AnInt, AnInt, AnInt>>,
    << <<Load("Int", 3), If>>,
       SubSeq(one, 1, Len(one) - 1) \o <<Load("Int", 3), If>>,
       SubSeq(two, 1, Len(two) - 1) \o <<Load("Int", 3), If>>,
       <<Load("Int", 2), Op("pop"), Return>> >>,
    << Edge(1, 2, 2), Edge(1, 2, 3),
       Edge(2, Len(one) + 1, 3), Edge(2, Len(one) + 1, 4),
       Edge(3, Len(two) + 1, 2), Edge(3, Len(two) + 1, 4) >>, TRUE)

Irreducibles == {Irreducible(one, two) : one, two \in Arms}
-----------------------------------------------------------------------------
\* The entry block is its own loop: the entry edge stays beside the back edge.
EntryLoop ==
  Method(<<AnInt>>, << <<Inc(1), Load("Int", 1), If>>, <<Return>> >>,
         << Edge(1, 3, 1), Edge(1, 3, 2) >>, TRUE)

\* A long selected by a branch is carried unchanged through a counting loop
\* whose body has two paths.
WideLoop ==
  Method(<<AnInt, T("Long"), T("LongTail"), T("Long"), T("LongTail"), Nothing, Nothing>>,
    << <<Load("Int", 1), If>>,
       <<Load("Long", 2), Store("Long", 6), Goto>>,
       <<Load("Long", 4), Store("Long", 6), Goto>>,
       <<Goto>>,
       <<Load("Int", 1), If>>,
       <<Load("Int", 1), If>>,
       <<Goto>>,
       <<Inc(1), Goto>>,
       <<Load("Long", 6), Store("Long", 2), Return>> >>,
    << Edge(1, 2, 2), Edge(1, 2, 3), Edge(2, 3, 4), Edge(3, 3, 4), Edge(4, 1, 5),
       Edge(5, 2, 6), Edge(5, 2, 9), Edge(6, 2, 7), Edge(6, 2, 8), Edge(7, 1, 8),
       Edge(8, 2, 5) >>, TRUE)

\* An int is stored into the first or the second half of a long, or beside it.
Overlap(n) ==
  Method(<<AnInt, T("Long"), T("LongTail"), Nothing>>,
    << <<Load("Int", 1), If>>,
       <<IConst(1), Store("Int", n), LConst, Store("Long", 3), Goto>>,
       <<IConst(2), Store("Int", n), Goto>>,
       <<Load("Int", n), Op("pop"), Return>> >>,
    << Edge(1, 2, 2), Edge(1, 2, 3), Edge(2, 5, 4), Edge(3, 3, 4) >>, n < 3)

\* A value is left on the stack by both arms of a conditional expression.
Ternary(one, two, legal) ==
  Method(<<AnInt, Nothing>>,
    << <<Load("Int", 1), If>>, <<one, Goto>>, <<two, Goto>>,
       <<Op("dup"), Store(one.type.kind, 2), Op("pop"), Return>> >>,
    << Edge(1, 2, 2), Edge(1, 2, 3), Edge(2, 2, 4), Edge(3, 2, 4) >>,
    legal)

\* Null, a class and another class meet in a loop; the cast may throw.
Classes ==
  Method(<<AnInt, Nothing>>,
    << <<Null, Store("Ref", 2), Goto>>,
       <<Load("Int", 1), If>>,
       <<Invoke("A"), Store("Ref", 2), Goto>>,
       <<Invoke("B"), Store("Ref", 2), Goto>>,
       <<Load("Ref", 2), Cast("A"), Store("Ref", 2), Return>>,
       <<Store("Ref", 2), Goto>> >>,
    << Edge(1, 3, 2), Edge(2, 2, 3), Edge(2, 2, 4), Edge(2, 2, 5),
       Edge(3, 3, 2), Edge(4, 3, 2), Handler(5, 2, 6), Edge(6, 2, 2) >>, TRUE)

\* A guarded block writes a local between two calls that may throw.
Guarded ==
  Method(<<AnInt, T("Ref")>>,
    << <<IConst(0), Store("Int", 1), Invoke("A"), Store("Ref", 2),
         IConst(1), Store("Int", 1), Invoke("B"), Op("pop"), IConst(2), Store("Int", 1), Return>>,
       <<Op("pop"), Load("Int", 1), If>>,
       <<Load("Ref", 2), Op("pop"), Return>> >>,
    << Handler(1, 3, 2), Handler(1, 7, 2), Edge(2, 3, 1), Edge(2, 3, 3) >>, TRUE)

\* An object is copied before its constructor returns or throws.
Constructor ==
  Method(<<AnInt, Nothing, Nothing>>,
    << <<New("A"), Op("dup"), Store("Ref", 2), Construct("A"), Load("Ref", 2),
         Store("Ref", 3), Load("Int", 1), If>>,
       <<Op("athrow")>>,
       <<Load("Ref", 3), Op("pop"), Return>> >>,
    << Handler(1, 4, 2), Edge(1, 8, 1), Edge(1, 8, 3), Handler(2, 1, 3) >>, FALSE)

\* The handler ignores the lost object; the loop builds another.
Rebuilt ==
  Method(<<AnInt, Nothing>>,
    << <<New("A"), Op("dup"), Store("Ref", 2), Construct("A"), Load("Int", 1), If>>,
       <<Op("pop"), Goto>>,
       <<Load("Int", 1), Load("Int", 1), Op("swap"), Op("add"), Op("pop"), Return>> >>,
    << Handler(1, 4, 2), Edge(1, 6, 1), Edge(1, 6, 3), Edge(2, 2, 1) >>, TRUE)

\* Two paths with different stack heights meet.
Heights ==
  Method(<<AnInt>>,
    << <<Load("Int", 1), If>>, <<IConst(0), Goto>>, <<Return>> >>,
    << Edge(1, 2, 2), Edge(1, 2, 3), Edge(2, 2, 3) >>, FALSE)

Singles ==
  { EntryLoop, WideLoop, Overlap(1), Overlap(2), Overlap(3), Classes, Guarded,
    Constructor, Rebuilt, Heights,
    Ternary(IConst(1), IConst(1), TRUE), Ternary(IConst(1), IConst(2), TRUE),
    Ternary(Invoke("A"), Null, TRUE), Ternary(Invoke("A"), Invoke("B"), TRUE),
    Ternary(LConst, LConst, FALSE), Ternary(IConst(1), Null, FALSE) }
=============================================================================
