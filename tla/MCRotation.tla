----------------------------- MODULE MCRotation -----------------------------
(***************************************************************************)
(* A switch enters a cycle of three blocks at each of them, each time with *)
(* a null that has been cast to another class.  javac does not write such  *)
(* a loop, but it is a legal method.                                       *)
(***************************************************************************)
EXTENDS Solver, MCMethods

Enter(class) == <<Null, Cast(class), Store("Ref", 2), Goto>>
Turn == <<Load("Int", 1), If>>

\* 1 switches to 2, 3, 4, which enter the cycle 5, 6, 7 at 7, 6 and 5.  The
\* switch takes more than 20 bytes, so that all pcs after it have two digits.
Switched ==
  Method(<<AnInt, Nothing>>,
    << Turn, Enter("C"), Enter("B"), Enter("A"), Turn, Turn, Turn, <<Return>> >>,
    << Edge(1, 2, 2), Edge(1, 2, 3), Edge(1, 2, 4),
       Edge(2, 4, 7), Edge(3, 4, 6), Edge(4, 4, 5),
       Edge(5, 2, 6), Edge(5, 2, 8), Edge(6, 2, 7), Edge(7, 2, 5) >>, TRUE)

Carousel == [Switched EXCEPT !.order = [e \in 0..Len(Switched.edges) |-> e]]

MCMethodSet == {Carousel}
MCPolicies == {"fifo", "lifo", "shuffle"}
=============================================================================
