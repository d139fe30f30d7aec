--------------------------- MODULE MCDestruction ---------------------------
(***************************************************************************)
(* Loops whose body calls, works on locals 1 and 2, calls again, works on  *)
(* them again and calls a third time, each call guarded: by one handler,   *)
(* or by two, the first of which is guarded by the second.                 *)
(***************************************************************************)
EXTENDS Destruction, MCMethods

Work(arm) == SubSeq(arm, 1, Len(arm) - 1)
Try(one, two) ==
  <<Invoke("A"), Op("pop")>> \o Work(one) \o <<Invoke("A"), Op("pop")>> \o Work(two)
    \o <<Invoke("A"), Op("pop"), Goto>>
Calls(body) == SelectSeq([i \in DOMAIN body |-> i], LAMBDA i : body[i].op = "invoke")

Retry(one, two) ==
  LET body == Try(one, two)
      calls == Calls(body)
  IN
  Method(<<AnInt, AnInt, AnInt>>,
    << <<Goto>>, <<Load("Int", 3), If>>, body, <<Op("pop"), Goto>>,
       <<Load("Int", 1), Load("Int", 2), Op("add"), Op("pop"), Return>> >>,
    << Edge(1, 1, 2), Edge(2, 2, 3), Edge(2, 2, 5) >>
      \o [i \in DOMAIN calls |-> Handler(3, calls[i], 4)]
      \o << Edge(3, Len(body), 2), Edge(4, 2, 2) >>, TRUE)

Nested(one, two) ==
  LET body == Try(one, two)
      calls == Calls(body)
  IN
  Method(<<AnInt, AnInt, AnInt>>,
    << <<Goto>>, <<Load("Int", 3), If>>, body,
       <<Op("pop"), Inc(1), Invoke("A"), Op("pop"), Goto>>,
       <<Op("pop"), Goto>>,
       <<Load("Int", 1), Load("Int", 2), Op("add"), Op("pop"), Return>> >>,
    << Edge(1, 1, 2), Edge(2, 2, 3), Edge(2, 2, 6) >>
      \o [i \in 1..(2 * Len(calls)) |-> Handler(3, calls[(i + 1) \div 2], 5 - (i % 2))]
      \o << Edge(3, Len(body), 2), Handler(4, 3, 5), Edge(4, 5, 2), Edge(5, 2, 6) >>, TRUE)

\* A handler that guards itself, as the one javac writes to leave a monitor:
\* what it changes between its entry and its own call.
OwnHandler(work) ==
  Method(<<AnInt, AnInt, AnInt>>,
    << <<IConst(0), Store("Int", 1), Invoke("A"), Op("pop"),
         IConst(1), Store("Int", 1), Invoke("A"), Op("pop"), Return>>,
       <<Op("pop")>> \o work \o
         <<Invoke("A"), Op("pop"), Load("Int", 1), Load("Int", 2), Op("add"), Op("pop"), Return>> >>,
    << Handler(1, 3, 2), Handler(1, 7, 2), Handler(2, Len(work) + 2, 2) >>, TRUE)

\* A long is chosen by a branch and changed between two guarded calls.
WideGuarded ==
  Method(<<AnInt, T("Long"), T("LongTail"), T("Long"), T("LongTail")>>,
    << <<Load("Int", 1), If>>,
       <<Load("Long", 2), Store("Long", 4), Goto>>,
       <<Invoke("A"), Op("pop"), LConst, Store("Long", 4), Invoke("A"), Op("pop"), Return>>,
       <<Op("pop"), Load("Long", 4), Store("Long", 2), Return>> >>,
    << Edge(1, 2, 2), Edge(1, 2, 3), Edge(2, 3, 3), Handler(3, 1, 4), Handler(3, 5, 4) >>, TRUE)

\* One object or another, each constructed by the last instruction of its arm.
Choice ==
  Method(<<AnInt, Nothing>>,
    << <<Load("Int", 1), If>>,
       <<New("A"), Op("dup"), Construct("A"), Goto>>,
       <<New("B"), Op("dup"), Construct("B")>>,
       <<Store("Ref", 2), Return>> >>,
    << Edge(1, 2, 2), Edge(1, 2, 3), Edge(2, 4, 4), Edge(3, 3, 4) >>, TRUE)

\* Arms that copy and redefine.
Some == {<<Load("Int", 2), Store("Int", 1), Goto>>, <<Inc(1), Goto>>,
         <<IConst(1), Store("Int", 2), Goto>>}
Swap == <<Load("Int", 1), Load("Int", 2), Store("Int", 1), Store("Int", 2), Goto>>

SelfGuarded == {OwnHandler(Work(arm)) : arm \in Some \cup {Swap}}

\* For the runs that show what the plan leaves out.
StartsWithLoop == {EntryLoop}
EndsWithConstructor == {Choice}

MCMethodSet ==
  {Retry(one, two) : one, two \in Some} \cup {Retry(Swap, <<Goto>>)}
    \cup {Nested(<<Load("Int", 2), Store("Int", 1), Goto>>, <<Inc(2), Goto>>)}
    \cup SelfGuarded \cup {WideGuarded, Choice}
    \cup Loops \cup Singles
MCPolicies == {"fifo"}
==============================================================================
