---------------------------- MODULE RequestMeter ----------------------------
(***************************************************************************)
(* What a request budget promises its callers, whatever operations they    *)
(* mix and however many of them run at once: the aggregate work granted    *)
(* never passes the request's bound, and once anything has been refused    *)
(* nothing is granted any more.                                            *)
(***************************************************************************)
EXTENDS Naturals

VARIABLES
  bound,   \* the most work the request may ever be granted
  spent,   \* the work granted so far
  closed   \* has anything been refused?

vars == <<bound, spent, closed>>

Init ==
  /\ bound \in Nat
  /\ spent = 0
  /\ closed = FALSE

Grant ==
  /\ ~closed
  /\ spent' \in Nat
  /\ spent <= spent'
  /\ spent' <= bound
  /\ UNCHANGED <<bound, closed>>

Close ==
  /\ closed' = TRUE
  /\ UNCHANGED <<bound, spent>>

Next == Grant \/ Close

Spec == Init /\ [][Next]_vars
=============================================================================
