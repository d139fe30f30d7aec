--------------------------- MODULE MCNativeMembers ---------------------------
(* Three families: cycles with and without a way out, families that share  *)
(* a dependency, a protected class used elsewhere; one family at most is   *)
(* refused or cannot be proved.                                            *)
EXTENDS NativeMembers

Inner(f) == [to |-> f, static |-> FALSE]
St(f) == [to |-> f, static |-> TRUE]

Archive(shape, refused, unclosed, limit, shared) ==
  [families |-> 1..3, refs |-> shape[1], users |-> shape[2], refused |-> refused,
   unclosed |-> unclosed, limit |-> limit, shared |-> shared]

None == << {}, {}, {} >>

\* The references of the three families and who uses their protected classes.
Shapes == {
  << << <<St(2)>>, <<St(1), Inner(3)>>, <<>> >>, None >>,         \* a cycle that needs a third
  << << <<Inner(2)>>, <<St(1)>>, <<St(1)>> >>, None >>,           \* a cycle a third names
  << << <<Inner(2)>>, <<St(3)>>, <<St(1)>> >>, None >>,           \* all three in a cycle
  << << <<St(2), St(3)>>, <<St(1)>>, <<St(2)>> >>, None >>,       \* cut or not, as 2 has a plan
  << << <<St(3)>>, <<St(3), Inner(1)>>, <<>> >>, None >>,         \* one that two share
  << << <<>>, <<Inner(1)>>, <<St(2)>> >>, << {2}, {}, {} >> >> }  \* 2 uses what 1 protects

Roomy == {Archive(shape, faults[1], faults[2], 10, FALSE) :
            shape \in Shapes,
            faults \in {<<{}, {}>>} \cup {<<{f}, {}>> : f \in 1..3} \cup {<<{}, {f}>> : f \in 1..3}}

Tight == {Archive(shape, {}, {}, 2, TRUE) : shape \in {s \in Shapes : s[1][3] # <<>>}}

MCWorlds == Roomy \cup Tight
=============================================================================
