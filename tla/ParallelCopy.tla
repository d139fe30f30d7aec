---------------------------- MODULE ParallelCopy ----------------------------
(***************************************************************************)
(* What a copy group promises: every destination of the group receives the *)
(* value its source had BEFORE the group, all at once, and nothing else    *)
(* changes; or the group is refused and nothing changes at all.  This is   *)
(* ParallelEval of ssalower/copy.go together with the all-or-nothing error *)
(* convention of SequentializeChecked.                                     *)
(*                                                                         *)
(* Values are symbolic: vals[v] is the name of the variable whose old      *)
(* value v holds, so one behaviour stands for every initial store.         *)
(***************************************************************************)
CONSTANT Vars

VARIABLES
  assign,  \* the group: assign[v] is the variable v copies from (v = none)
  vals,    \* the symbolic contents of the variables
  result   \* "none" until the group is done or refused

vars == <<assign, vals, result>>

Init ==
  /\ assign \in [Vars -> Vars]
  /\ vals = [v \in Vars |-> v]
  /\ result = "none"

Commit ==
  /\ result = "none"
  /\ vals' = [v \in Vars |-> vals[assign[v]]]
  /\ result' = "done"
  /\ UNCHANGED assign

Refuse ==
  /\ result = "none"
  /\ result' = "error"
  /\ UNCHANGED <<assign, vals>>

Next == Commit \/ Refuse

Safety == Init /\ [][Next]_vars

Spec == Safety /\ WF_vars(Next)
=============================================================================
