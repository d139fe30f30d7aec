--------------------------- MODULE Sequentialize ---------------------------
(***************************************************************************)
(* ValueRegistry.sequentialize and sequentializeChecked (ssalower): turn a *)
(* group of simultaneous phi copies into an ordered list of moves.  A      *)
(* destination nobody still reads is written at once; when only cycles     *)
(* are left, the smallest pending destination is saved to a fresh          *)
(* temporary and its readers are redirected to it.                         *)
(*                                                                         *)
(* Variables of the method are the ids 1..Reserved the registry has handed *)
(* out (values, phis and the temporaries of earlier groups).  The moves    *)
(* are executed as they are emitted (SerialEval) on symbolic values: the   *)
(* old value of variable v is v itself.  The work counter is abstracted to *)
(* the possibility of running out at any point where the code charges it.  *)
(***************************************************************************)
EXTENDS Integers, Sequences, FiniteSets

CONSTANTS
  Reserved,   \* ValueRegistry.next - 1 when the group is scheduled
  MaxVarID,   \* the id at which Fresh reports "value identity exhausted"
  Groups,     \* the copy groups considered, sequences of [dst, src]
  Infos       \* the registries considered: the type of each id

Copy == [dst : Int, src : Int]
Vars == 1..Reserved

\* Value types, kind and identity: the kinds that name a class of JVM values
\* and, for NEW, the allocation site that must not be confused with another.
Kinds == {"Int", "Long", "Ref", "Null", "UninitNew", "LongTail"}
Type == [kind : Kinds, id : Nat]

ASSUME ReservedAssumption == Reserved \in Nat \ {0}
ASSUME MaxVarIDAssumption == MaxVarID \in Nat /\ Reserved < MaxVarID
ASSUME GroupsAssumption == \A g \in Groups : g \in Seq(Copy)
ASSUME InfosAssumption == \A f \in Infos : f \in [Vars -> Type]

VARIABLES
  copies,   \* the group being scheduled
  info,     \* ValueRegistry.Info: id -> type, grows with each temporary
  pending,  \* destination -> where its value is now, for copies still to do
  readers,  \* id -> the pending destinations that read it
  ready,    \* the ready heap, as a set (popped smallest first)
  all,      \* the victim heap, as a set (popped smallest first)
  next,     \* ValueRegistry.next
  store,    \* symbolic contents of 1..next-1 after the moves emitted so far
  out,      \* the moves emitted so far
  status    \* "scan", "run", "done" or "error"

vars == <<copies, info, pending, readers, ready, all, next, store, out, status>>

Smallest(S) == CHOOSE x \in S : \A y \in S : x <= y
-----------------------------------------------------------------------------
(* Checks made before anything is scheduled.                               *)

Computational(t) == t.kind # "LongTail"

\* A copy converts and initialises nothing: same kind, or null into a
\* reference; an uninitialised object only into the same NEW identity.
Compatible(d, s) ==
  /\ Computational(d)
  /\ Computational(s)
  /\ IF d.kind = "UninitNew" THEN d = s
     ELSE d.kind = s.kind \/ (d.kind = "Ref" /\ s.kind = "Null")

\* Mutant: any two computational categories are taken to agree.
WellTypedBySlot(c, f) ==
  \A i \in DOMAIN c :
    /\ c[i].dst \in DOMAIN f
    /\ c[i].src \in DOMAIN f
    /\ Computational(f[c[i].dst])
    /\ Computational(f[c[i].src])

WellTyped(c, f) ==
  \A i \in DOMAIN c :
    /\ c[i].dst \in DOMAIN f
    /\ c[i].src \in DOMAIN f
    /\ Compatible(f[c[i].dst], f[c[i].src])

UniqueDestinations(c) ==
  \A i, j \in DOMAIN c : c[i].dst = c[j].dst => i = j

Dests(c) == {c[i].dst : i \in DOMAIN c}
Source(c, d) == c[CHOOSE i \in DOMAIN c : c[i].dst = d].src
Moved(c) == {d \in Dests(c) : Source(c, d) # d}

\* ParallelEval: what each variable of the method must hold at the end.
Target(c, v) == IF v \in Dests(c) THEN Source(c, v) ELSE v
-----------------------------------------------------------------------------
Init ==
  /\ copies \in Groups
  /\ info \in Infos
  /\ pending = <<>>
  /\ readers = <<>>
  /\ ready = {}
  /\ all = {}
  /\ next = Reserved + 1
  /\ store = [v \in Vars |-> v]
  /\ out = <<>>
  /\ status = "scan"

\* Mutant: the index is one entry short.
ReadersOfShort(p, n) == [s \in 1..(n - 1) |-> {d \in DOMAIN p : p[d] = s}]

\* The reverse index: id -> the pending destinations copying from it.
ReadersOf(p, n) == [s \in 1..n |-> {d \in DOMAIN p : p[d] = s}]

Accept ==
  /\ WellTyped(copies, info)
  /\ UniqueDestinations(copies)

\* The linear scan: every check, then the two indexes and the two heaps.
Scan ==
  /\ status = "scan"
  /\ Accept
  /\ pending' = [d \in Moved(copies) |-> Source(copies, d)]
  /\ readers' = ReadersOf(pending', Reserved)
  /\ all' = DOMAIN pending'
  /\ ready' = {d \in DOMAIN pending' : readers'[d] = {}}
  /\ status' = "run"
  /\ UNCHANGED <<copies, info, next, store, out>>

\* Invalid input, or the work counter refused a charge: no plan is returned.
Fail ==
  /\ status' = "error"
  /\ out' = <<>>
  /\ UNCHANGED <<copies, info, pending, readers, ready, all, next, store>>

Reject == status = "scan" /\ ~Accept /\ Fail

OutOfWork == status \in {"scan", "run"} /\ Fail

\* Mutant: the old source is released although others still read it.
ReleasedAlways(d, s) == IF s \in DOMAIN pending THEN {s} ELSE {}

\* After writing d, its old source s may have lost its last reader.
Released(d, s) ==
  IF s \in DOMAIN pending /\ readers[s] = {d} THEN {s} ELSE {}

Emit(d) ==
  LET s == pending[d] IN
  /\ out' = Append(out, [dst |-> d, src |-> s, tmp |-> FALSE])
  /\ store' = [store EXCEPT ![d] = store[s]]
  /\ pending' = [e \in DOMAIN pending \ {d} |-> pending[e]]
  /\ readers' = [readers EXCEPT ![s] = @ \ {d}]
  /\ ready' = (ready \ {d}) \cup Released(d, s)

\* One iteration of the inner loop; a stale heap entry is skipped.
PopReady ==
  /\ status = "run"
  /\ ready # {}
  /\ LET d == Smallest(ready) IN
       IF d \in DOMAIN pending /\ readers[d] = {}
       THEN Emit(d)
       ELSE /\ ready' = ready \ {d}
            /\ UNCHANGED <<pending, readers, store, out>>
  /\ UNCHANGED <<copies, info, all, next, status>>

\* Mutant: a cycle is broken although something is still ready.
StillReady == status = "run" /\ DOMAIN pending # {}

OnlyCyclesLeft == status = "run" /\ ready = {} /\ DOMAIN pending # {}

Victims == {v \in all : v \in DOMAIN pending}

\* Mutant: the victim is saved but its readers stay on it.
RedirectNone(victim, tmp) == pending

\* Every reader of the victim reads the saved copy from now on.
Redirect(victim, tmp) ==
  [d \in DOMAIN pending |-> IF d \in readers[victim] THEN tmp ELSE pending[d]]

\* Save the smallest victim's old value and point its readers at the copy.
BreakCycle ==
  /\ OnlyCyclesLeft
  /\ Victims # {}
  /\ next < MaxVarID
  /\ LET victim == Smallest(Victims) IN
       /\ all' = {v \in all : v > victim}
       /\ out' = Append(out, [dst |-> next, src |-> victim, tmp |-> TRUE])
       /\ store' = [v \in 1..next |-> IF v = next THEN store[victim] ELSE store[v]]
       /\ pending' = Redirect(victim, next)
       /\ readers' = [s \in 1..next |->
                        IF s = next THEN readers[victim]
                        ELSE IF s = victim THEN {} ELSE readers[s]]
       /\ ready' = {victim}
  /\ next' = next + 1
  /\ UNCHANGED <<copies, info, status>>

\* "cycle requires fresh temporary" or Fresh's "value identity exhausted".
NoTemporary ==
  /\ OnlyCyclesLeft
  /\ Victims = {} \/ next = MaxVarID
  /\ Fail

\* A temporary's registry entry: the type of the variable it saves.
SavedType(tmp) ==
  info[out[CHOOSE i \in DOMAIN out : out[i].dst = tmp].src]

\* The registry with the temporaries up to id k entered, each with its type.
Registered(k) ==
  [v \in 1..k |-> IF v \in Vars THEN info[v] ELSE SavedType(v)]

\* The plan is complete: the temporaries enter the registry.
Finish ==
  /\ status = "run"
  /\ DOMAIN pending = {}
  /\ info' = Registered(next - 1)
  /\ status' = "done"
  /\ UNCHANGED <<copies, pending, readers, ready, all, next, store, out>>

\* Work runs out while they do: those entered so far stay in the registry.
RegistrationCut ==
  /\ status = "run"
  /\ DOMAIN pending = {}
  /\ \E k \in Reserved..(next - 1) : info' = Registered(k)
  /\ status' = "error"
  /\ out' = <<>>
  /\ UNCHANGED <<copies, pending, readers, ready, all, next, store>>

Work == Scan \/ Reject \/ PopReady \/ BreakCycle \/ NoTemporary \/ Finish

Next == Work \/ OutOfWork \/ RegistrationCut

\* One goroutine runs the loop to its end: it never stops between two steps.
Spec == Init /\ [][Next]_vars /\ WF_vars(Work)
-----------------------------------------------------------------------------
Move == [dst : Nat, src : Nat, tmp : BOOLEAN]

TypeOK ==
  /\ copies \in Groups
  /\ next \in (Reserved + 1)..MaxVarID
  /\ status \in {"scan", "run", "done", "error"}
  /\ DOMAIN pending \subseteq Vars
  /\ \A d \in DOMAIN pending : pending[d] \in 1..(next - 1)
  /\ status \in {"run", "done"} =>
       readers \in [1..(next - 1) -> SUBSET Vars]
  /\ ready \subseteq Vars
  /\ all \subseteq Vars
  /\ store \in [1..(next - 1) -> Vars]
  /\ out \in Seq(Move)
  /\ Vars \subseteq DOMAIN info
  /\ DOMAIN info \subseteq 1..(next - 1)
  /\ status \in {"scan", "run"} => DOMAIN info = Vars
  /\ status = "done" => DOMAIN info = 1..(next - 1)

(* The reverse index kept across redirections and deletions never drifts   *)
(* from the pending copies it indexes: readers of copy.go is maintained in *)
(* four places.                                                            *)
ReadersInverse ==
  status \in {"run", "done"} => readers = ReadersOf(pending, next - 1)

(* The ready heap holds exactly the destinations that may be written: none *)
(* that is still read (it would be clobbered), and all the others, so that *)
(* a temporary is spent only when nothing but cycles is left; and the      *)
(* victim heap, popped for good, still holds every other destination, so   *)
(* that "cycle requires fresh temporary" only ever means no id is left.    *)
HeapsExact ==
  status = "run" =>
    /\ ready = {d \in DOMAIN pending : readers[d] = {}}
    /\ DOMAIN pending \subseteq all \cup ready

(* Lost-copy and swap freedom, during the schedule and at its end: a       *)
(* pending destination still holds its own old value, its old source value *)
(* is where pending says, and every other variable is already final.       *)
NoValueLost ==
  status \in {"run", "done"} =>
    /\ \A d \in DOMAIN pending :
         /\ store[d] = d
         /\ store[pending[d]] = Source(copies, d)
    /\ \A v \in Vars \ DOMAIN pending : store[v] = Target(copies, v)

\* The variables v's value is chased through, following Target.
Chase(v) ==
  LET at[k \in 0..Reserved] == IF k = 0 THEN v ELSE Target(copies, at[k - 1])
  IN  {at[k] : k \in 1..Reserved}

Cycles == {Chase(v) : v \in {d \in Moved(copies) : d \in Chase(d)}}

(* The plan is no longer than it has to be: one move per real copy and one *)
(* temporary per cycle of the group, however many readers hang off it.     *)
OneTemporaryPerCycle ==
  status = "done" =>
    /\ next - 1 - Reserved = Cardinality(Cycles)
    /\ Len(out) = Cardinality(Moved(copies)) + Cardinality(Cycles)

(* No move of a finished plan changes the computational category of a      *)
(* value or mixes two NEW identities, the moves through temporaries        *)
(* included: the code checks the copies, never the moves.                  *)
MovesKeepTypes ==
  status = "done" =>
    \A i \in DOMAIN out : Compatible(info[out[i].dst], info[out[i].src])

(* SequentializeChecked implements the simultaneous assignment: what its   *)
(* caller sees is nothing, then the whole group or an error.               *)
Abstract == INSTANCE ParallelCopy WITH
  Vars <- Vars,
  assign <- [v \in Vars |-> IF Accept THEN Target(copies, v) ELSE v],
  vals <- [v \in Vars |-> IF status = "done" THEN store[v] ELSE v],
  result <- IF status \in {"done", "error"} THEN status ELSE "none"

ImplementsParallelCopy == Abstract!Spec
=============================================================================
