------------------------ MODULE SequentializeProofs ------------------------
(***************************************************************************)
(* Proofs about Sequentialize, for every number of variables, every copy   *)
(* group and every registry:                                               *)
(*   Typing       Spec => []TypeOK                                         *)
(*   Correctness  Spec => []NoValueLost                                    *)
(*   IndexExact   Spec => []ReadersInverse                                 *)
(*   Heaps        Spec => []HeapsExact                                     *)
(*   Categories   Spec => []MovesKeepTypes                                 *)
(*   Shortest     Spec => []OneTemporaryPerCycle                           *)
(*   Refinement   Spec => Abstract!Safety                                  *)
(***************************************************************************)
EXTENDS Sequentialize, OrderLemmas

USE ReservedAssumption, MaxVarIDAssumption, GroupsAssumption, InfosAssumption

(* The minimum the two heaps pop exists and belongs to the heap.           *)
LEMMA SmallestIsLeast ==
  ASSUME NEW S \in SUBSET Vars, S # {}
  PROVE  Smallest(S) \in S /\ \A y \in S : Smallest(S) <= y
<1>1. IsFiniteSet(1..Reserved)
  BY FS_Interval
<1>2. IsFiniteSet(Vars) /\ Vars \subseteq Nat
  BY <1>1 DEF Vars
<1>3. IsFiniteSet(S) /\ S \in SUBSET Nat
  BY <1>2, FS_Subset
<1> QED
  BY <1>3, LeastElement DEF Smallest

(* A copy group every registry check has let through.                      *)
GoodGroup(c) ==
  /\ UniqueDestinations(c)
  /\ \A i \in DOMAIN c : c[i].dst \in Vars /\ c[i].src \in Vars

(* Every destination has one source, and all of them are variables.        *)
LEMMA SourceType ==
  ASSUME NEW c, GoodGroup(c)
  PROVE  /\ Dests(c) \subseteq Vars
         /\ \A d \in Dests(c) : Source(c, d) \in Vars
         /\ Moved(c) \subseteq Dests(c)
         /\ \A v \in Vars : Target(c, v) \in Vars
  BY DEF GoodGroup, Dests, Source, Moved, Target

-----------------------------------------------------------------------------
(* Type correctness.                                                       *)

TypeInv ==
  /\ TypeOK
  /\ status = "scan" => next = Reserved + 1
  /\ status \in {"run", "done"} => GoodGroup(copies)

(* The registry and the untouched group are well typed.                    *)
LEMMA TypeInit == Init => TypeInv
<1> SUFFICES ASSUME Init PROVE TypeInv
  OBVIOUS
<1>1. store \in [1..(next - 1) -> Vars]
  BY DEF Init, Vars
<1>2. DOMAIN info = Vars
  BY DEF Init
<1>3. pending = <<>> /\ DOMAIN pending = {} /\ out \in Seq(Move)
  BY DEF Init
<1> QED
  BY <1>1, <1>2, <1>3 DEF Init, TypeInv, TypeOK

(* The ids below the next one.                                             *)
LEMMA Ids ==
  ASSUME NEW n \in Nat, Reserved < n
  PROVE  /\ Vars \subseteq 1..(n - 1) /\ Vars \subseteq 1..n
         /\ 1..(n - 1) \subseteq 1..n /\ n \in 1..n
         /\ \A i \in 1..n : i = n \/ i \in 1..(n - 1)
  BY DEF Vars

(* A move between known ids can be added to the plan.                      *)
LEMMA MoveAdded ==
  ASSUME NEW s \in Seq(Move), NEW d \in Nat, NEW v \in Nat, NEW t \in BOOLEAN, NEW s2,
         s2 = Append(s, [dst |-> d, src |-> v, tmp |-> t])
  PROVE  s2 \in Seq(Move)
<1>1. PICK m \in Move : m = [dst |-> d, src |-> v, tmp |-> t]
  BY DEF Move
<1> QED
  BY <1>1

(* Every step, a temporary and its registry entry included, keeps types.   *)
LEMMA TypeStep == TypeInv /\ [Next]_vars => TypeInv'
<1> SUFFICES ASSUME TypeInv, [Next]_vars PROVE TypeInv'
  OBVIOUS
<1> USE DEF TypeInv, TypeOK
<1>1. CASE Scan
  <2>1. GoodGroup(copies)
    BY <1>1 DEF Scan, Accept, WellTyped, GoodGroup
  <2>2. GoodGroup(copies')
    BY <1>1, <2>1 DEF Scan
  <2>3. /\ DOMAIN pending' \subseteq Vars
        /\ \A d \in DOMAIN pending' : pending'[d] \in Vars
    BY <1>1, <2>1, SourceType DEF Scan, Moved
  <2>4. Vars = 1..(next' - 1)
    BY <1>1 DEF Scan, Vars
  <2>5. readers' \in [1..(next' - 1) -> SUBSET Vars]
    BY <1>1, <2>3, <2>4 DEF Scan, ReadersOf, Vars
  <2>6. ready' \subseteq Vars /\ all' \subseteq Vars
    BY <1>1, <2>3 DEF Scan
  <2> QED
    BY <1>1, <2>2, <2>3, <2>4, <2>5, <2>6 DEF Scan
<1>2. CASE Fail /\ status \in {"scan", "run"}
  BY <1>2 DEF Fail
<1>3. CASE PopReady
  <2>1. Smallest(ready) \in ready
    BY <1>3, SmallestIsLeast DEF PopReady
  <2>2. GoodGroup(copies')
    BY <1>3 DEF PopReady
  <2> DEFINE d == Smallest(ready)
             s == pending[d]
  <2>3. CASE ~(d \in DOMAIN pending /\ readers[d] = {})
    BY <1>3, <2>1, <2>2, <2>3 DEF PopReady
  <2>4. CASE d \in DOMAIN pending /\ readers[d] = {}
    <3>1. Emit(d) /\ UNCHANGED <<copies, info, all, next, status>>
      BY <1>3, <2>4 DEF PopReady
    <3>2. d \in Vars /\ s \in 1..(next - 1) /\ d \in 1..(next - 1)
      BY <2>4 DEF Vars
    <3>3. out' \in Seq(Move)
      <4>1. out \in Seq(Move) /\ d \in Nat /\ s \in Nat
        BY <3>2
      <4>2. out' = Append(out, [dst |-> d, src |-> s, tmp |-> FALSE])
        BY <3>1 DEF Emit
      <4> QED
        BY <4>1, <4>2, MoveAdded
    <3>4. store' \in [1..(next' - 1) -> Vars]
      BY <3>1, <3>2 DEF Emit
    <3>5. readers' \in [1..(next' - 1) -> SUBSET Vars]
      <4>1. readers \in [1..(next - 1) -> SUBSET Vars] /\ next' = next
        BY <1>3, <3>1 DEF PopReady
      <4>2. readers' = [readers EXCEPT ![s] = @ \ {d}]
        BY <3>1 DEF Emit
      <4> HIDE DEF TypeInv, TypeOK, d, s
      <4> QED
        BY <4>1, <4>2
    <3>6. ready' \subseteq Vars
      BY <3>1 DEF Emit, Released
    <3>7. /\ DOMAIN pending' \subseteq Vars
          /\ \A e \in DOMAIN pending' : pending'[e] \in 1..(next' - 1)
      BY <3>1 DEF Emit
    <3> QED
      BY <2>2, <3>1, <3>3, <3>4, <3>5, <3>6, <3>7
  <2> QED
    BY <2>3, <2>4
<1>4. CASE BreakCycle
  <2> DEFINE victim == Smallest(Victims)
  <2>1. victim \in Victims /\ Victims \subseteq Vars
    BY <1>4, SmallestIsLeast DEF BreakCycle, Victims
  <2>2. victim \in Vars /\ victim \in 1..(next - 1) /\ victim \in Nat
    <3>1. \A v \in Vars : v \in 1..(next - 1) /\ v \in Nat
      BY DEF Vars
    <3> QED
      BY <2>1, <3>1
  <2>3. GoodGroup(copies')
    BY <1>4 DEF BreakCycle, OnlyCyclesLeft
  <2>4. next' \in (Reserved + 1)..MaxVarID /\ next' - 1 = next /\ next \in Nat
    BY <1>4 DEF BreakCycle
  <2>4a. /\ Vars \subseteq 1..(next' - 1) /\ 1..(next - 1) \subseteq 1..(next' - 1)
         /\ next \in 1..(next' - 1) /\ \A i \in 1..next : i = next \/ i \in 1..(next - 1)
    <3>1. Reserved < next
      OBVIOUS
    <3> HIDE DEF TypeInv, TypeOK
    <3> QED
      BY <2>4, <3>1, Ids
  <2>5. out' \in Seq(Move)
    <3>1. out \in Seq(Move) /\ out' = Append(out, [dst |-> next, src |-> victim, tmp |-> TRUE])
      BY <1>4 DEF BreakCycle
    <3> QED
      BY <2>2, <2>4, <3>1, MoveAdded
  <2>6. store' \in [1..(next' - 1) -> Vars]
    BY <1>4, <2>2, <2>4 DEF BreakCycle
  <2>7. readers' \in [1..(next' - 1) -> SUBSET Vars]
    <3>1. readers \in [1..(next - 1) -> SUBSET Vars]
      BY <1>4 DEF BreakCycle, OnlyCyclesLeft
    <3>2. readers' = [x \in 1..next |->
                        IF x = next THEN readers[victim] ELSE IF x = victim THEN {} ELSE readers[x]]
      BY <1>4 DEF BreakCycle
    <3> HIDE DEF TypeInv, TypeOK, victim
    <3> QED
      BY <2>2, <2>4, <2>4a, <3>1, <3>2
  <2>8. /\ DOMAIN pending' \subseteq Vars
        /\ \A e \in DOMAIN pending' : pending'[e] \in 1..(next' - 1)
    <3>1. pending' = [e \in DOMAIN pending |-> IF e \in readers[victim] THEN next ELSE pending[e]]
      BY <1>4 DEF BreakCycle, Redirect
    <3>2. DOMAIN pending \subseteq Vars /\ \A e \in DOMAIN pending : pending[e] \in 1..(next - 1)
      OBVIOUS
    <3> HIDE DEF TypeInv, TypeOK, victim
    <3> QED
      BY <2>4, <2>4a, <3>1, <3>2
  <2>9. ready' \subseteq Vars /\ all' \subseteq Vars
    BY <1>4, <2>2 DEF BreakCycle
  <2>10. /\ UNCHANGED <<copies, info, status>> /\ status = "run" /\ copies \in Groups
         /\ DOMAIN info = Vars
    BY <1>4 DEF BreakCycle, OnlyCyclesLeft
  <2> QED
    BY <2>3, <2>4, <2>5, <2>6, <2>7, <2>8, <2>9, <2>10, <2>4a
<1>5. CASE Finish
  <2>1. GoodGroup(copies')
    BY <1>5 DEF Finish
  <2>2. DOMAIN info' = 1..(next' - 1)
    BY <1>5 DEF Finish, Registered
  <2>3. Vars \subseteq 1..(next - 1)
    BY DEF Vars
  <2> QED
    BY <1>5, <2>1, <2>2, <2>3 DEF Finish
<1>6. CASE RegistrationCut
  <2>1. PICK k \in Reserved..(next - 1) : DOMAIN info' = 1..k
    BY <1>6 DEF RegistrationCut, Registered
  <2>2. Vars \subseteq 1..k /\ 1..k \subseteq 1..(next - 1)
    <3>1. next \in Nat /\ k \in Reserved..(next - 1)
      OBVIOUS
    <3> HIDE DEF TypeInv, TypeOK
    <3> QED
      BY <3>1 DEF Vars
  <2>3. /\ Vars \subseteq DOMAIN info'
        /\ DOMAIN info' \subseteq 1..(next' - 1)
    BY <1>6, <2>1, <2>2 DEF RegistrationCut
  <2> QED
    BY <1>6, <2>3 DEF RegistrationCut
<1>7. CASE UNCHANGED vars
  BY <1>7 DEF vars
<1> QED
  BY <1>1, <1>2, <1>3, <1>4, <1>5, <1>6, <1>7
     DEF Next, Work, Reject, NoTemporary, OutOfWork, OnlyCyclesLeft

(* Every reachable state is well typed, whatever the group and registry.   *)
THEOREM Typing == Spec => []TypeOK
<1>1. Spec => []TypeInv
  BY TypeInit, TypeStep, PTL DEF Spec
<1>2. TypeInv => TypeOK
  BY DEF TypeInv
<1> QED
  BY <1>1, <1>2, PTL

-----------------------------------------------------------------------------
(* Correctness of the schedule.                                            *)

(* The inductive invariant: the three properties need, besides the types,  *)
(* that only real copies are ever pending and that the scan starts from    *)
(* the old store.                                                          *)
ScheduleInv ==
  /\ NoValueLost
  /\ ReadersInverse
  /\ HeapsExact
  /\ status \in {"run", "done"} => DOMAIN pending \subseteq Moved(copies)
  /\ status = "scan" => store = [v \in Vars |-> v]

(* Before the scan there is nothing to index or to lose.                   *)
LEMMA ScheduleInit == Init => ScheduleInv
  BY DEF Init, ScheduleInv, NoValueLost, ReadersInverse, HeapsExact

(* The scan builds exact indexes over every real copy of the group.        *)
LEMMA ScanStep == TypeInv /\ ScheduleInv /\ Scan => ScheduleInv'
<1> SUFFICES ASSUME TypeInv, ScheduleInv, Scan PROVE ScheduleInv'
  OBVIOUS
<1>1. GoodGroup(copies) /\ next = Reserved + 1 /\ store = [v \in Vars |-> v]
  BY DEF TypeInv, TypeOK, ScheduleInv, Scan, Accept, WellTyped, GoodGroup
<1>2. /\ DOMAIN pending' = Moved(copies)
      /\ \A d \in Moved(copies) : pending'[d] = Source(copies, d)
      /\ copies' = copies /\ next' = next /\ store' = store /\ status' = "run"
  BY DEF Scan
<1>3. NoValueLost'
  BY <1>1, <1>2, SourceType DEF NoValueLost, Target, Moved
<1>4. ReadersInverse'
  BY <1>1, <1>2 DEF Scan, ReadersInverse
<1>5. HeapsExact'
  BY <1>2 DEF Scan, HeapsExact
<1> QED
  BY <1>2, <1>3, <1>4, <1>5 DEF ScheduleInv

(* What the exact reverse index says of one id.                            *)
LEMMA ReaderOf ==
  ASSUME TypeInv, ScheduleInv, status = "run", NEW s \in 1..(next - 1)
  PROVE  readers[s] = {d \in DOMAIN pending : pending[d] = s}
  BY DEF ScheduleInv, ReadersInverse, ReadersOf

(* Writing a destination nobody reads loses no value.                      *)
LEMMA EmitStep ==
  ASSUME TypeInv, ScheduleInv, status = "run",
         NEW d \in DOMAIN pending, readers[d] = {}, Emit(d),
         UNCHANGED <<copies, info, all, next, status>>
  PROVE  ScheduleInv'
<1> DEFINE s == pending[d]
<1>1. /\ d \in Vars /\ DOMAIN pending \subseteq Vars
      /\ Vars \subseteq 1..(next - 1)
      /\ \A e \in DOMAIN pending : pending[e] \in 1..(next - 1)
      /\ store \in [1..(next - 1) -> Vars]
      /\ readers \in [1..(next - 1) -> SUBSET Vars]
  BY DEF TypeInv, TypeOK, Vars
<1>2. \A e \in DOMAIN pending : pending[e] # d
  BY <1>1, ReaderOf
<1>3. /\ DOMAIN pending' = DOMAIN pending \ {d}
      /\ \A e \in DOMAIN pending' : pending'[e] = pending[e]
      /\ store'[d] = store[s]
      /\ \A v \in 1..(next - 1) : v # d => store'[v] = store[v]
      /\ readers' = [readers EXCEPT ![s] = @ \ {d}]
      /\ ready' = (ready \ {d}) \cup Released(d, s)
  BY <1>1 DEF Emit
<1>4. d \in Moved(copies) /\ store[s] = Source(copies, d) /\ d \in Dests(copies)
  BY DEF ScheduleInv, NoValueLost, Moved
<1>5. NoValueLost'
  <2>1. ASSUME NEW e \in DOMAIN pending'
        PROVE  store'[e] = e /\ store'[pending'[e]] = Source(copies, e)
    BY <1>1, <1>2, <1>3 DEF ScheduleInv, NoValueLost
  <2>2. ASSUME NEW v \in Vars \ DOMAIN pending'
        PROVE  store'[v] = Target(copies, v)
    <3>1. CASE v = d
      BY <1>3, <1>4, <3>1 DEF Target
    <3>2. CASE v # d
      BY <1>1, <1>3, <3>2 DEF ScheduleInv, NoValueLost
    <3> QED
      BY <3>1, <3>2
  <2> QED
    BY <2>1, <2>2 DEF NoValueLost
<1>6. \A t \in 1..(next - 1) : readers'[t] = {e \in DOMAIN pending' : pending'[e] = t}
  <2> TAKE t \in 1..(next - 1)
  <2>1. readers[t] = {e \in DOMAIN pending : pending[e] = t}
    BY ReaderOf
  <2>2. readers'[t] = IF t = s THEN readers[t] \ {d} ELSE readers[t]
    BY <1>1, <1>3
  <2> QED
    BY <1>3, <2>1, <2>2
<1>7. ReadersInverse'
  <2>1. readers' \in [1..(next - 1) -> SUBSET Vars]
    BY <1>1, <1>3
  <2> QED
    BY <1>6, <2>1 DEF ReadersInverse, ReadersOf
<1>8. HeapsExact'
  <2>1. /\ ready = {e \in DOMAIN pending : readers[e] = {}}
        /\ DOMAIN pending \subseteq all \cup ready
    BY DEF ScheduleInv, HeapsExact
  <2>2. ASSUME NEW e \in DOMAIN pending'
        PROVE  e \in ready' <=> readers'[e] = {}
    <3>1. e \in 1..(next - 1) /\ e # d /\ e \in DOMAIN pending
      BY <1>1, <1>3
    <3>2. CASE e = s
      <4>1. d \in readers[s] /\ readers'[s] = readers[s] \ {d}
        BY <1>1, <1>3, ReaderOf
      <4> QED
        BY <1>3, <2>1, <3>1, <3>2, <4>1 DEF Released
    <3>3. CASE e # s
      BY <1>1, <1>3, <2>1, <3>1, <3>3 DEF Released
    <3> QED
      BY <3>2, <3>3
  <2>3. ready' \subseteq DOMAIN pending'
    BY <1>1, <1>2, <1>3, <2>1 DEF Released
  <2>4. DOMAIN pending' \subseteq all \cup ready'
    BY <1>3, <2>1
  <2> QED
    BY <2>2, <2>3, <2>4 DEF HeapsExact
<1> QED
  BY <1>3, <1>5, <1>7, <1>8 DEF ScheduleInv

(* Popping the ready heap writes a variable nobody reads.                  *)
LEMMA PopReadyStep == TypeInv /\ ScheduleInv /\ PopReady => ScheduleInv'
<1> SUFFICES ASSUME TypeInv, ScheduleInv, PopReady PROVE ScheduleInv'
  OBVIOUS
<1> DEFINE d == Smallest(ready)
<1>1. d \in ready /\ status = "run"
  BY SmallestIsLeast DEF PopReady, TypeInv, TypeOK
<1>2. d \in DOMAIN pending /\ readers[d] = {}
  BY <1>1 DEF ScheduleInv, HeapsExact
<1>3. Emit(d) /\ UNCHANGED <<copies, info, all, next, status>>
  BY <1>2 DEF PopReady
<1> HIDE DEF d
<1> QED
  BY <1>1, <1>2, <1>3, EmitStep

(* Saving a victim of a cycle and redirecting its readers loses no value.  *)
LEMMA BreakCycleStep == TypeInv /\ ScheduleInv /\ BreakCycle => ScheduleInv'
<1> SUFFICES ASSUME TypeInv, ScheduleInv, BreakCycle PROVE ScheduleInv'
  OBVIOUS
<1> DEFINE v == Smallest(Victims)
<1>1. v \in Victims /\ \A u \in Victims : v <= u
  BY SmallestIsLeast DEF BreakCycle, TypeInv, TypeOK, Victims
<1>2. /\ status = "run" /\ ready = {} /\ status' = "run"
      /\ copies' = copies /\ next' = next + 1 /\ next \in Nat /\ next' - 1 = next
      /\ DOMAIN pending \subseteq Vars
      /\ Vars \subseteq 1..(next - 1)
      /\ \A e \in DOMAIN pending : pending[e] \in 1..(next - 1)
  <2>1. /\ status = "run" /\ ready = {} /\ status' = "run"
        /\ copies' = copies /\ next' = next + 1
    BY DEF BreakCycle, OnlyCyclesLeft
  <2>2. next \in (Reserved + 1)..MaxVarID /\ DOMAIN pending \subseteq Vars
    BY DEF TypeInv, TypeOK
  <2>3. \A e \in DOMAIN pending : pending[e] \in 1..(next - 1)
    BY DEF TypeInv, TypeOK
  <2>4. next \in Nat /\ next' - 1 = next /\ Vars \subseteq 1..(next - 1)
    BY <2>1, <2>2 DEF Vars
  <2> QED
    BY <2>1, <2>2, <2>3, <2>4
<1>3. /\ store' = [u \in 1..next |-> IF u = next THEN store[v] ELSE store[u]]
      /\ pending' = [e \in DOMAIN pending |->
                       IF e \in readers[v] THEN next ELSE pending[e]]
      /\ readers' = [u \in 1..next |-> IF u = next THEN readers[v]
                                       ELSE IF u = v THEN {} ELSE readers[u]]
      /\ ready' = {v}
      /\ all' = {u \in all : u > v}
  BY DEF BreakCycle, Redirect
<1>4. v \in DOMAIN pending /\ v \in Vars /\ v \in 1..(next - 1)
  BY <1>1, <1>2 DEF Victims
<1> HIDE DEF v
<1>5. \A e \in DOMAIN pending : e \in readers[v] <=> pending[e] = v
  BY <1>2, <1>4, ReaderOf
<1>6. /\ \A u \in 1..(next - 1) : store'[u] = store[u]
      /\ store'[next] = v
      /\ DOMAIN pending' = DOMAIN pending
  BY <1>2, <1>3, <1>4 DEF ScheduleInv, NoValueLost
<1>7. NoValueLost'
  <2>1. ASSUME NEW e \in DOMAIN pending'
        PROVE  store'[e] = e /\ store'[pending'[e]] = Source(copies, e)
    <3>1. store[e] = e /\ store[pending[e]] = Source(copies, e) /\ store[v] = v
      BY <1>2, <1>4, <1>6, <2>1 DEF ScheduleInv, NoValueLost
    <3>2. store'[e] = e
      BY <1>2, <1>6, <2>1, <3>1
    <3>3. CASE pending[e] = v
      <4>1. e \in DOMAIN pending /\ e \in readers[v]
        BY <1>5, <1>6, <2>1, <3>3
      <4>2. pending'[e] = next
        BY <1>3, <4>1
      <4> QED
        BY <1>6, <3>1, <3>2, <3>3, <4>2
    <3>4. CASE pending[e] # v
      BY <1>2, <1>3, <1>5, <1>6, <2>1, <3>1, <3>4
    <3> QED
      BY <3>2, <3>3, <3>4
  <2>2. ASSUME NEW u \in Vars \ DOMAIN pending'
        PROVE  store'[u] = Target(copies, u)
    BY <1>2, <1>6 DEF ScheduleInv, NoValueLost
  <2> QED
    BY <1>2, <2>1, <2>2 DEF NoValueLost
<1>8. ReadersInverse'
  <2>1. ASSUME NEW u \in 1..next
        PROVE  readers'[u] = {e \in DOMAIN pending' : pending'[e] = u}
    <3>1. CASE u = next
      BY <1>2, <1>3, <1>4, <1>5, <3>1, ReaderOf
    <3>2. CASE u # next
      <4>1. u \in 1..(next - 1)
        BY <1>2, <2>1, <3>2
      <4>2. readers[u] = {e \in DOMAIN pending : pending[e] = u}
        BY <1>2, <4>1, ReaderOf
      <4> QED
        BY <1>2, <1>3, <1>5, <2>1, <3>2, <4>1, <4>2
    <3> QED
      BY <3>1, <3>2
  <2>2. readers' = [u \in 1..next |-> readers'[u]]
    BY <1>3
  <2>3. readers' = [u \in 1..next |-> {e \in DOMAIN pending' : pending'[e] = u}]
    BY <2>1, <2>2
  <2> QED
    BY <1>2, <2>3 DEF ReadersInverse, ReadersOf
<1>9. HeapsExact'
  <2>1. /\ \A e \in DOMAIN pending : readers[e] # {}
        /\ DOMAIN pending \subseteq all
    BY <1>2 DEF ScheduleInv, HeapsExact
  <2>2. \A e \in DOMAIN pending : readers'[e] = {} <=> e = v
    <3> TAKE e \in DOMAIN pending
    <3>1. e \in 1..(next - 1) /\ e \in 1..next /\ e # next
      <4>1. e \in 1..(next - 1)
        BY <1>2
      <4> QED
        BY <1>2, <4>1
    <3>2. readers'[e] = IF e = v THEN {} ELSE readers[e]
      BY <1>3, <3>1
    <3> QED
      BY <2>1, <3>2
  <2>3. ready' = {e \in DOMAIN pending' : readers'[e] = {}}
    BY <1>3, <1>4, <1>6, <2>2
  <2>4. \A e \in DOMAIN pending : e = v \/ e > v
    BY <1>1, <1>2, <1>4, <2>1 DEF Victims, Vars
  <2>5. DOMAIN pending' \subseteq all' \cup ready'
    BY <1>3, <1>6, <2>1, <2>4
  <2> QED
    BY <2>3, <2>5 DEF HeapsExact
<1> QED
  BY <1>2, <1>6, <1>7, <1>8, <1>9 DEF ScheduleInv

(* No step of the scheduler breaks the schedule invariant.                 *)
LEMMA ScheduleStep == TypeInv /\ ScheduleInv /\ [Next]_vars => ScheduleInv'
<1> SUFFICES ASSUME TypeInv, ScheduleInv, [Next]_vars PROVE ScheduleInv'
  OBVIOUS
<1>1. CASE Scan
  BY <1>1, ScanStep
<1>2. CASE Fail
  BY <1>2 DEF Fail, ScheduleInv, NoValueLost, ReadersInverse, HeapsExact
<1>3. CASE PopReady
  BY <1>3, PopReadyStep
<1>4. CASE BreakCycle
  BY <1>4, BreakCycleStep
<1>5. CASE Finish
  BY <1>5 DEF Finish, ScheduleInv, NoValueLost, ReadersInverse, HeapsExact
<1>6. CASE RegistrationCut
  BY <1>6 DEF RegistrationCut, ScheduleInv, NoValueLost, ReadersInverse, HeapsExact
<1>7. CASE UNCHANGED vars
  BY <1>7 DEF vars, ScheduleInv, NoValueLost, ReadersInverse, HeapsExact
<1> QED
  BY <1>1, <1>2, <1>3, <1>4, <1>5, <1>6, <1>7
     DEF Next, Work, Reject, NoTemporary, OutOfWork

(* Both halves of the inductive invariant hold of every behaviour.         *)
LEMMA Invariance == Spec => [](TypeInv /\ ScheduleInv)
<1>1. Init => TypeInv /\ ScheduleInv
  BY TypeInit, ScheduleInit
<1>2. TypeInv /\ ScheduleInv /\ [Next]_vars => (TypeInv /\ ScheduleInv)'
  BY TypeStep, ScheduleStep
<1> QED
  BY <1>1, <1>2, PTL DEF Spec

(* No copy of any group is ever lost: at every step of every schedule a    *)
(* pending destination keeps its own old value and can still reach its     *)
(* source's, and what is no longer pending is final.                       *)
THEOREM Correctness == Spec => []NoValueLost
<1>1. ScheduleInv => NoValueLost
  BY DEF ScheduleInv
<1> QED
  BY <1>1, Invariance, PTL

(* The reverse index never drifts from the pending copies it indexes.      *)
THEOREM IndexExact == Spec => []ReadersInverse
<1>1. ScheduleInv => ReadersInverse
  BY DEF ScheduleInv
<1> QED
  BY <1>1, Invariance, PTL

(* What is ready is exactly what may be written, so that a schedule never  *)
(* clobbers a value that is still read, nor spends a temporary too soon.   *)
THEOREM Heaps == Spec => []HeapsExact
<1>1. ScheduleInv => HeapsExact
  BY DEF ScheduleInv
<1> QED
  BY <1>1, Invariance, PTL

(* A schedule never runs out of victims: the only failure left once a      *)
(* group has been accepted is the exhaustion of ids or of work.            *)
THEOREM NeverStuck == Spec => [](OnlyCyclesLeft => Victims # {})
<1>1. TypeInv /\ ScheduleInv => (OnlyCyclesLeft => Victims # {})
  BY DEF ScheduleInv, HeapsExact, OnlyCyclesLeft, Victims
<1> QED
  BY <1>1, Invariance, PTL

-----------------------------------------------------------------------------
(* The schedule implements the simultaneous assignment.                    *)

Assign(v) == IF Accept THEN Target(copies, v) ELSE v

(* The verdict of the checks does not change while a group is run.         *)
LEMMA AcceptStable ==
  TypeInv /\ ScheduleInv /\ [Next]_vars => (Accept <=> Accept')
<1> SUFFICES ASSUME TypeInv, ScheduleInv, [Next]_vars PROVE Accept <=> Accept'
  OBVIOUS
<1>1. copies' = copies
  BY DEF Next, Work, Scan, Reject, Fail, OutOfWork, PopReady, Emit, BreakCycle,
         NoTemporary, Finish, RegistrationCut, vars
<1>2. CASE ~Finish /\ ~RegistrationCut
  <2>1. info' = info
    BY <1>2 DEF Next, Work, Scan, Reject, Fail, OutOfWork, PopReady, Emit,
                BreakCycle, NoTemporary, vars
  <2> QED
    BY <1>1, <2>1 DEF Accept, WellTyped, UniqueDestinations
<1>3. CASE Finish \/ RegistrationCut
  <2>1. GoodGroup(copies) /\ DOMAIN info = Vars
    BY <1>3 DEF Finish, RegistrationCut, TypeInv, TypeOK
  <2>2. PICK k \in Reserved..(next - 1) : info' = Registered(k)
    BY <1>3 DEF Finish, RegistrationCut, TypeInv, TypeOK
  <2>3. Vars \subseteq 1..k
    BY <2>2 DEF Vars
  <2>4. \A v \in Vars : v \in DOMAIN info' /\ info'[v] = info[v]
    BY <2>2, <2>3 DEF Registered
  <2> QED
    BY <1>1, <2>1, <2>4 DEF Accept, WellTyped, GoodGroup
<1> QED
  BY <1>2, <1>3

(* A group being scheduled is one the checks accepted.                     *)
AcceptedInv == status \in {"run", "done"} => Accept

(* A schedule is run only for a group the checks accepted.                 *)
LEMMA AcceptedStep ==
  TypeInv /\ ScheduleInv /\ AcceptedInv /\ [Next]_vars => AcceptedInv'
<1> SUFFICES ASSUME TypeInv, ScheduleInv, AcceptedInv, [Next]_vars,
                    status' \in {"run", "done"}
             PROVE  Accept'
  BY DEF AcceptedInv
<1>1. Accept
  BY DEF AcceptedInv, Next, Work, Scan, Reject, Fail, OutOfWork, PopReady,
         BreakCycle, OnlyCyclesLeft, NoTemporary, Finish,
         RegistrationCut, vars
<1> QED
  BY <1>1, AcceptStable

(* The initial states are initial states of the simultaneous copy.         *)
LEMMA AbstractInit == Init => Abstract!Init
<1> SUFFICES ASSUME Init PROVE Abstract!Init
  OBVIOUS
<1>1. ASSUME Accept, NEW v \in Vars PROVE Target(copies, v) \in Vars
  BY <1>1, SourceType DEF Init, Accept, WellTyped, GoodGroup
<1> QED
  BY <1>1 DEF Init, Abstract!Init

(* A step commits the whole group, refuses it, or is invisible.            *)
LEMMA AbstractStep ==
  TypeInv /\ ScheduleInv /\ AcceptedInv /\ [Next]_vars
    => [Abstract!Next]_Abstract!vars
<1> SUFFICES ASSUME TypeInv, ScheduleInv, AcceptedInv, [Next]_vars
             PROVE  [Abstract!Next]_Abstract!vars
  OBVIOUS
<1> DEFINE assign == [v \in Vars |-> Assign(v)]
           vals == [v \in Vars |-> IF status = "done" THEN store[v] ELSE v]
           result == IF status \in {"done", "error"} THEN status ELSE "none"
<1>1. assign' = assign
  <2>1. copies' = copies /\ (Accept <=> Accept')
    BY AcceptStable
       DEF Next, Work, Scan, Reject, Fail, OutOfWork, PopReady, Emit,
           BreakCycle, NoTemporary, Finish, RegistrationCut, vars
  <2> QED
    BY <2>1 DEF Assign
<1>2. CASE Finish
  <2>1. result = "none" /\ result' = "done"
    BY <1>2 DEF Finish
  <2>2. ASSUME NEW v \in Vars PROVE vals'[v] = vals[assign[v]]
    <3>1. Accept /\ GoodGroup(copies) /\ status = "run"
      BY <1>2 DEF Finish, AcceptedInv, TypeInv
    <3>2. assign[v] = Target(copies, v) /\ Target(copies, v) \in Vars
      BY <3>1, SourceType DEF Assign
    <3>3. store[v] = Target(copies, v)
      BY <1>2, <3>1 DEF Finish, ScheduleInv, NoValueLost
    <3>4. vals'[v] = store[v] /\ vals[assign[v]] = assign[v]
      BY <1>2, <3>1, <3>2 DEF Finish
    <3> QED
      BY <3>2, <3>3, <3>4
  <2>3. vals' = [v \in Vars |-> vals[assign[v]]]
    BY <2>2
  <2> QED
    BY <1>1, <2>1, <2>3 DEF Abstract!Next, Abstract!Commit, Assign
<1>3. CASE Fail /\ status \in {"scan", "run"}
  <2>1. result = "none" /\ result' = "error" /\ vals' = vals
    BY <1>3 DEF Fail
  <2> QED
    BY <1>1, <2>1 DEF Abstract!Next, Abstract!Refuse, Assign
<1>4. CASE RegistrationCut
  <2>1. result = "none" /\ result' = "error" /\ vals' = vals
    BY <1>4 DEF RegistrationCut
  <2> QED
    BY <1>1, <2>1 DEF Abstract!Next, Abstract!Refuse, Assign
<1>5. CASE Scan \/ PopReady \/ BreakCycle \/ UNCHANGED vars
  <2>1. result' = result /\ vals' = vals
    BY <1>5 DEF Scan, PopReady, BreakCycle, OnlyCyclesLeft, vars
  <2> QED
    BY <1>1, <2>1 DEF Abstract!vars, Assign
<1> QED
  BY <1>2, <1>3, <1>4, <1>5
     DEF Next, Work, Reject, OutOfWork, NoTemporary, OnlyCyclesLeft

(* The caller of the schedule sees nothing, then either the simultaneous   *)
(* assignment of the whole group or an error and the old values.           *)
THEOREM Refinement == Spec => Abstract!Safety
<1>1. Init => AcceptedInv
  BY DEF Init, AcceptedInv
<1>2. Spec => [](TypeInv /\ ScheduleInv /\ AcceptedInv)
  <2>1. TypeInv /\ ScheduleInv /\ AcceptedInv /\ [Next]_vars => AcceptedInv'
    BY AcceptedStep
  <2> QED
    BY <1>1, <2>1, Invariance, PTL DEF Spec
<1> QED
  BY <1>2, AbstractInit, AbstractStep, PTL DEF Spec, Abstract!Safety

-----------------------------------------------------------------------------
(* The types of the moves.                                                 *)

(* The type an id has, or will have once the temporaries are registered.   *)
TypeOf(v) == IF v \in Vars THEN info[v] ELSE SavedType(v)

(* Every temporary is written by one move, which saves a variable; a       *)
(* pending copy reads a value of the type of its old source; and the moves *)
(* emitted so far are compatible, by the types the temporaries will have.  *)
MovesInv ==
  /\ status = "scan" => out = <<>>
  /\ status = "run" =>
       /\ Accept
       /\ \A i \in DOMAIN out : out[i].dst \in 1..(next - 1) /\ out[i].src \in 1..(next - 1)
       /\ \A i, j \in DOMAIN out : out[i].dst = out[j].dst /\ out[i].dst \notin Vars => i = j
       /\ \A t \in (1..(next - 1)) \ Vars : \E i \in DOMAIN out : out[i].dst = t
       /\ \A d \in DOMAIN pending : TypeOf(pending[d]) = info[Source(copies, d)]
       /\ \A i \in DOMAIN out : Compatible(TypeOf(out[i].dst), TypeOf(out[i].src))

(* Adding a move at the end keeps the moves and their places.              *)
LEMMA OneMore ==
  ASSUME NEW S, NEW s \in Seq(S), NEW x, NEW t, t = Append(s, x)
  PROVE  /\ \A i \in DOMAIN s : i \in DOMAIN t /\ t[i] = s[i] /\ i # Len(s) + 1
         /\ \A i \in DOMAIN t : i \in DOMAIN s \/ i = Len(s) + 1
         /\ Len(s) + 1 \in DOMAIN t /\ t[Len(s) + 1] = x
  OBVIOUS

(* The type of a temporary does not change when moves are added.           *)
LEMMA TypeKept ==
  ASSUME TypeInv, MovesInv, status = "run", info' = info,
         NEW m, out' = Append(out, m),
         \A i, j \in DOMAIN out' : out'[i].dst = out'[j].dst /\ out'[i].dst \notin Vars => i = j,
         NEW v \in 1..(next - 1)
  PROVE  TypeOf(v)' = TypeOf(v)
<1>1. CASE v \in Vars
  BY <1>1 DEF TypeOf
<1>2. CASE v \notin Vars
  <2>1. out \in Seq(Move)
    BY DEF TypeInv, TypeOK
  <2>2. PICK k \in DOMAIN out : out[k].dst = v
    BY <1>2 DEF MovesInv
  <2>3. k \in DOMAIN out' /\ out'[k] = out[k]
    BY <2>1, OneMore
  <2>4. \A i \in DOMAIN out : out[i].dst = v => i = k
    BY <1>2, <2>2 DEF MovesInv
  <2>5. \A i \in DOMAIN out' : out'[i].dst = v => i = k
    BY <1>2, <2>2, <2>3
  <2>6. (CHOOSE i \in DOMAIN out : out[i].dst = v) = k
    BY <2>2, <2>4
  <2>7. (CHOOSE i \in DOMAIN out' : out'[i].dst = v) = k
    BY <2>2, <2>3, <2>5
  <2>8. SavedType(v) = info[out[k].src] /\ SavedType(v)' = info[out[k].src]
    BY <2>3, <2>6, <2>7 DEF SavedType
  <2> QED
    BY <1>2, <2>8 DEF TypeOf
<1> QED
  BY <1>1, <1>2

(* The checks make the source of every copy compatible with its target.    *)
LEMMA CopyCompatible ==
  ASSUME Accept, NEW d \in Moved(copies)
  PROVE  Compatible(info[d], info[Source(copies, d)]) /\ Computational(info[d])
<1>1. PICK i \in DOMAIN copies : copies[i].dst = d
  BY DEF Moved, Dests
<1> DEFINE j == CHOOSE j \in DOMAIN copies : copies[j].dst = d
<1>2. j \in DOMAIN copies /\ copies[j].dst = d
  BY <1>1
<1> QED
  BY <1>2 DEF Accept, WellTyped, Source, Compatible

(* A written destination takes a value of the type of its source.          *)
LEMMA EmitMoves ==
  ASSUME TypeInv, ScheduleInv, MovesInv, status = "run",
         NEW d \in DOMAIN pending, Emit(d), UNCHANGED <<copies, info, all, next, status>>
  PROVE  MovesInv'
<1> DEFINE m == [dst |-> d, src |-> pending[d], tmp |-> FALSE]
<1>1. /\ d \in Vars /\ d \in 1..(next - 1) /\ pending[d] \in 1..(next - 1)
      /\ d \in Moved(copies) /\ out \in Seq(Move)
  BY DEF TypeInv, TypeOK, ScheduleInv, Vars
<1>2. /\ out' = Append(out, m)
      /\ DOMAIN pending' \subseteq DOMAIN pending
      /\ \A e \in DOMAIN pending' : pending'[e] = pending[e]
  BY DEF Emit
<1>3. /\ \A i \in DOMAIN out : i \in DOMAIN out' /\ out'[i] = out[i]
      /\ \A i \in DOMAIN out' :
           i \in DOMAIN out \/ (i = Len(out) + 1 /\ out'[i].dst = d /\ out'[i].src = pending[d])
  BY <1>1, <1>2, OneMore
<1>4. \A i, j \in DOMAIN out' : out'[i].dst = out'[j].dst /\ out'[i].dst \notin Vars => i = j
  BY <1>1, <1>3 DEF MovesInv
<1> HIDE DEF m
<1>5. \A v \in 1..(next - 1) : TypeOf(v)' = TypeOf(v)
  BY <1>2, <1>4, TypeKept
<1>6. Accept'
  BY DEF MovesInv, Accept, WellTyped
<1>7. \A e \in DOMAIN pending' : TypeOf(pending[e])' = info[Source(copies, e)]
  <2> TAKE e \in DOMAIN pending'
  <2>1. PICK v \in 1..(next - 1) : v = pending'[e] /\ v = pending[e]
    BY <1>2 DEF TypeInv, TypeOK
  <2>2. TypeOf(v)' = info[Source(copies, e)]
    BY <1>2, <1>5, <2>1 DEF MovesInv
  <2> QED
    BY <2>1, <2>2 DEF TypeOf, SavedType
<1>8. ASSUME NEW i \in DOMAIN out'
      PROVE  Compatible(TypeOf(out[i].dst), TypeOf(out[i].src))'
  <2>1. PICK a \in 1..(next - 1), b \in 1..(next - 1) :
          a = out'[i].dst /\ b = out'[i].src /\ Compatible(TypeOf(a), TypeOf(b))
    <3>1. CASE i \in DOMAIN out
      BY <1>3, <3>1 DEF MovesInv
    <3>2. CASE out'[i].dst = d /\ out'[i].src = pending[d]
      <4>1. TypeOf(d) = info[d] /\ TypeOf(pending[d]) = info[Source(copies, d)]
        BY <1>1 DEF MovesInv, TypeOf
      <4>2. Compatible(info[d], info[Source(copies, d)])
        BY <1>1, CopyCompatible DEF MovesInv
      <4> QED
        BY <1>1, <3>2, <4>1, <4>2
    <3> QED
      BY <1>3, <1>8, <3>1, <3>2
  <2>2. TypeOf(a)' = TypeOf(a) /\ TypeOf(b)' = TypeOf(b)
    BY <1>5
  <2>3. TypeOf(out[i].dst)' = TypeOf(a) /\ TypeOf(out[i].src)' = TypeOf(b)
    BY <2>1, <2>2 DEF TypeOf, SavedType
  <2> QED
    BY <2>1, <2>3 DEF Compatible, Computational
<1> QED
  BY <1>1, <1>3, <1>4, <1>6, <1>7, <1>8 DEF MovesInv

(* A temporary has the type of the variable it saves.                      *)
LEMMA BreakMoves ==
  ASSUME TypeInv, ScheduleInv, MovesInv, BreakCycle
  PROVE  MovesInv'
<1>0. PICK w : w = Smallest(Victims)
  OBVIOUS
<1>1. /\ w \in DOMAIN pending /\ w \in Vars /\ w \in 1..(next - 1) /\ w \in Moved(copies)
      /\ out \in Seq(Move)
  <2>1. w \in Victims
    BY <1>0, SmallestIsLeast DEF BreakCycle, TypeInv, TypeOK, Victims
  <2>2. Vars \subseteq 1..(next - 1)
    BY DEF TypeInv, TypeOK, Vars
  <2> QED
    BY <2>1, <2>2 DEF Victims, TypeInv, TypeOK, ScheduleInv, BreakCycle, OnlyCyclesLeft
<1>2. /\ status = "run" /\ status' = "run" /\ copies' = copies /\ info' = info
      /\ next' = next + 1 /\ next' - 1 = next /\ next \in Nat /\ next \notin Vars
      /\ 1..next = 1..(next - 1) \cup {next} /\ next \notin 1..(next - 1)
  <2>1. next \in (Reserved + 1)..MaxVarID /\ next' = next + 1
    BY DEF TypeInv, TypeOK, BreakCycle
  <2>2. next' - 1 = next /\ next \in Nat /\ next \notin Vars /\ next \notin 1..(next - 1)
    BY <2>1 DEF Vars
  <2>3. 1..next = 1..(next - 1) \cup {next}
    BY <2>1
  <2> QED
    BY <2>1, <2>2, <2>3 DEF BreakCycle, OnlyCyclesLeft
<1>3. PICK m : m = [dst |-> next, src |-> w, tmp |-> TRUE]
  OBVIOUS
<1>4. /\ out' = Append(out, m) /\ m.dst = next /\ m.src = w
      /\ pending' = [e \in DOMAIN pending |-> IF e \in readers[w] THEN next ELSE pending[e]]
  BY <1>0, <1>3 DEF BreakCycle, Redirect
<1>5. /\ \A i \in DOMAIN out : i \in DOMAIN out' /\ out'[i] = out[i] /\ i # Len(out) + 1
      /\ \A i \in DOMAIN out' : i \in DOMAIN out \/ i = Len(out) + 1
      /\ Len(out) + 1 \in DOMAIN out' /\ out'[Len(out) + 1] = m
  BY <1>1, <1>4, OneMore
<1>6. \A i, j \in DOMAIN out' : out'[i].dst = out'[j].dst /\ out'[i].dst \notin Vars => i = j
  <2>1. \A i \in DOMAIN out : out[i].dst # next
    BY <1>2 DEF MovesInv
  <2> QED
    BY <1>2, <1>4, <1>5, <2>1 DEF MovesInv
<1>7. \A v \in 1..(next - 1) : TypeOf(v)' = TypeOf(v)
  BY <1>2, <1>4, <1>6, TypeKept
<1>8. PICK t : t = next
  OBVIOUS
<1>9. TypeOf(t)' = info[w]
  <2>1. \A i \in DOMAIN out' : out'[i].dst = t => i = Len(out) + 1
    <3>1. out'[Len(out) + 1].dst = t /\ t \notin Vars
      BY <1>2, <1>4, <1>5, <1>8
    <3> QED
      BY <1>5, <1>6, <3>1
  <2>2. (CHOOSE i \in DOMAIN out' : out'[i].dst = t) = Len(out) + 1
    BY <1>4, <1>5, <1>8, <2>1
  <2>3. SavedType(t)' = info[w]
    BY <1>2, <1>4, <1>5, <2>2 DEF SavedType
  <2> QED
    BY <1>2, <1>8, <2>3 DEF TypeOf
<1>10. TypeOf(w) = info[w] /\ Computational(info[w]) /\ Compatible(info[w], info[w])
  BY <1>1, <1>2, CopyCompatible DEF MovesInv, TypeOf, Compatible
<1>11. Accept'
  BY <1>2 DEF MovesInv, Accept, WellTyped
<1>12. ASSUME NEW e \in DOMAIN pending'
       PROVE  TypeOf(pending[e])' = info[Source(copies, e)]
  <2>1. e \in DOMAIN pending /\ pending[e] \in 1..(next - 1)
        /\ TypeOf(pending[e]) = info[Source(copies, e)]
    BY <1>2, <1>4, <1>12 DEF MovesInv, TypeInv, TypeOK
  <2>2. CASE pending[e] = w
    <3>1. e \in readers[w]
      BY <1>1, <1>2, <2>1, <2>2, ReaderOf
    <3>2. pending'[e] = t
      BY <1>4, <1>8, <2>1, <3>1
    <3> QED
      BY <1>9, <1>10, <2>1, <2>2, <3>2 DEF TypeOf, SavedType
  <2>3. CASE pending[e] # w
    <3>1. e \notin readers[w]
      BY <1>1, <1>2, <2>3, ReaderOf
    <3>2. PICK v \in 1..(next - 1) : v = pending[e] /\ v = pending'[e]
      BY <1>4, <2>1, <3>1
    <3>3. TypeOf(v)' = info[Source(copies, e)]
      BY <1>7, <2>1, <3>2
    <3> QED
      BY <3>2, <3>3 DEF TypeOf, SavedType
  <2> QED
    BY <2>2, <2>3
<1>13. ASSUME NEW i \in DOMAIN out'
       PROVE  Compatible(TypeOf(out[i].dst), TypeOf(out[i].src))'
  <2>1. CASE i \in DOMAIN out
    <3>1. PICK a \in 1..(next - 1), b \in 1..(next - 1) :
            a = out'[i].dst /\ b = out'[i].src /\ Compatible(TypeOf(a), TypeOf(b))
      BY <1>2, <1>5, <2>1 DEF MovesInv
    <3>2. TypeOf(a)' = TypeOf(a) /\ TypeOf(b)' = TypeOf(b)
      BY <1>7
    <3>3. TypeOf(out[i].dst)' = TypeOf(a) /\ TypeOf(out[i].src)' = TypeOf(b)
      BY <3>1, <3>2 DEF TypeOf, SavedType
    <3> QED
      BY <3>1, <3>3 DEF Compatible, Computational
  <2>2. CASE i = Len(out) + 1
    <3>1. out'[i].dst = t /\ out'[i].src = w
      BY <1>4, <1>5, <1>8, <2>2
    <3>2. TypeOf(w)' = info[w]
      BY <1>1, <1>7, <1>10
    <3> QED
      BY <1>9, <1>10, <3>1, <3>2 DEF TypeOf, SavedType, Compatible, Computational
  <2> QED
    BY <1>5, <1>13, <2>1, <2>2
<1>14. \A i \in DOMAIN out' : out'[i].dst \in 1..next /\ out'[i].src \in 1..next
  BY <1>1, <1>2, <1>4, <1>5 DEF MovesInv
<1>15. \A u \in (1..next) \ Vars : \E i \in DOMAIN out' : out'[i].dst = u
  <2> TAKE u \in (1..next) \ Vars
  <2>1. CASE u = next
    BY <1>4, <1>5, <2>1
  <2>2. CASE u \in 1..(next - 1)
    <3>1. PICK i \in DOMAIN out : out[i].dst = u
      BY <1>2, <2>2 DEF MovesInv
    <3> QED
      BY <1>5, <3>1
  <2> QED
    BY <1>2, <2>1, <2>2
<1> QED
  BY <1>2, <1>6, <1>11, <1>12, <1>13, <1>14, <1>15 DEF MovesInv

(* The plan is finished: the registry enters the types of the temporaries. *)
LEMMA FinishMoves ==
  ASSUME TypeInv, MovesInv, Finish
  PROVE  MovesKeepTypes'
<1>1. /\ status = "run" /\ out' = out
      /\ \A v \in 1..(next - 1) : info'[v] = TypeOf(v)
  BY DEF Finish, Registered, TypeOf
<1> QED
  BY <1>1 DEF MovesInv, MovesKeepTypes, Compatible, Computational

(* No step of the scheduler breaks the types of its moves.                 *)
LEMMA MovesStep ==
  TypeInv /\ ScheduleInv /\ MovesInv /\ MovesKeepTypes /\ [Next]_vars
    => MovesInv' /\ MovesKeepTypes'
<1> SUFFICES ASSUME TypeInv, ScheduleInv, MovesInv, MovesKeepTypes, [Next]_vars
             PROVE  MovesInv' /\ MovesKeepTypes'
  OBVIOUS
<1>1. CASE Scan
  <2>1. /\ out' = <<>> /\ next' = Reserved + 1 /\ Accept /\ GoodGroup(copies)
        /\ UNCHANGED <<copies, info>> /\ status' = "run" /\ DOMAIN out' = {}
        /\ DOMAIN pending' = Moved(copies)
        /\ \A d \in Moved(copies) : pending'[d] = Source(copies, d)
    BY <1>1 DEF Scan, Accept, WellTyped, GoodGroup, TypeInv, TypeOK, MovesInv
  <2>2. Accept'
    BY <2>1 DEF Accept, WellTyped
  <2>3. (1..(next' - 1)) \ Vars = {}
    BY <2>1 DEF Vars
  <2>4. \A d \in DOMAIN pending' : TypeOf(pending[d])' = info[Source(copies, d)]
    BY <2>1, SourceType DEF TypeOf
  <2> QED
    BY <2>1, <2>2, <2>3, <2>4 DEF MovesInv, MovesKeepTypes
<1>2. CASE Fail \/ RegistrationCut
  BY <1>2 DEF Fail, RegistrationCut, MovesInv, MovesKeepTypes
<1>3. CASE PopReady
  <2>1. PICK d \in DOMAIN pending :
          Emit(d) /\ UNCHANGED <<copies, info, all, next, status>> /\ status = "run"
    BY <1>3, SmallestIsLeast DEF PopReady, ScheduleInv, HeapsExact, TypeInv, TypeOK
  <2> QED
    BY <2>1, EmitMoves DEF MovesKeepTypes
<1>4. CASE BreakCycle
  BY <1>4, BreakMoves DEF BreakCycle, OnlyCyclesLeft, MovesKeepTypes
<1>5. CASE Finish
  BY <1>5, FinishMoves DEF Finish, MovesInv
<1>6. CASE UNCHANGED vars
  <2>1. /\ out' = out /\ info' = info /\ next' = next /\ status' = status
        /\ copies' = copies /\ pending' = pending
    BY <1>6 DEF vars
  <2>2. \A v : TypeOf(v)' = TypeOf(v)
    BY <2>1 DEF TypeOf, SavedType
  <2>3. Accept' = Accept
    BY <2>1 DEF Accept, WellTyped
  <2>4. ASSUME NEW i \in DOMAIN out, status = "run"
        PROVE  Compatible(TypeOf(out[i].dst), TypeOf(out[i].src))'
    <3>1. PICK a, b : a = out[i].dst /\ b = out[i].src
      OBVIOUS
    <3>2. TypeOf(out[i].dst)' = TypeOf(a) /\ TypeOf(out[i].src)' = TypeOf(b)
      BY <2>1, <2>2, <3>1 DEF TypeOf, SavedType
    <3>3. Compatible(TypeOf(a), TypeOf(b))
      BY <2>4, <3>1 DEF MovesInv
    <3> QED
      BY <3>2, <3>3 DEF Compatible, Computational
  <2>5. ASSUME NEW d \in DOMAIN pending, status = "run"
        PROVE  TypeOf(pending[d])' = info[Source(copies, d)]
    <3>1. PICK a : a = pending[d]
      OBVIOUS
    <3>2. TypeOf(pending[d])' = TypeOf(a)
      BY <2>1, <2>2, <3>1 DEF TypeOf, SavedType
    <3>3. TypeOf(a) = info[Source(copies, d)]
      BY <2>5, <3>1 DEF MovesInv
    <3> QED
      BY <3>2, <3>3
  <2>6. MovesInv'
    BY <2>1, <2>3, <2>4, <2>5 DEF MovesInv
  <2>7. MovesKeepTypes'
    BY <2>1 DEF MovesKeepTypes, Compatible, Computational
  <2> QED
    BY <2>6, <2>7
<1> QED
  BY <1>1, <1>2, <1>3, <1>4, <1>5, <1>6
     DEF Next, Work, Reject, NoTemporary, OutOfWork

(* No move of a finished plan, through a temporary or not, changes the     *)
(* computational category of a value or mixes two allocation sites: the    *)
(* code checks the copies of the group, and that is enough.                *)
THEOREM Categories == Spec => []MovesKeepTypes
<1>1. Init => MovesInv /\ MovesKeepTypes
  BY DEF Init, MovesInv, MovesKeepTypes
<1> QED
  BY <1>1, MovesStep, Invariance, PTL DEF Spec
-----------------------------------------------------------------------------
(* The length of the plan.                                                 *)

\* One step of the recursion of Chase.
ChaseStep(v, at, k) == IF k = 0 THEN v ELSE Target(copies, at[k - 1])

\* The recursion has a solution: the shortest prefix without one would have one.
LEMMA ChaseExists ==
  ASSUME NEW v
  PROVE  \E at : at = [k \in 0..Reserved |-> ChaseStep(v, at, k)]
<1> DEFINE solved(n) == \E at : at = [k \in 0..n |-> ChaseStep(v, at, k)]
           B == {n \in 0..Reserved : ~solved(n)}
<1>1. SUFFICES solved(Reserved)
  OBVIOUS
<1>2. SUFFICES ASSUME B # {} PROVE FALSE
  OBVIOUS
<1>3. PICK n \in B : \A j \in B : n <= j
  <2>1. B \in SUBSET (0..Reserved) /\ Reserved \in Nat
    OBVIOUS
  <2> HIDE DEF B
  <2> QED
    BY <1>2, <2>1, LeastUpTo
<1>4. CASE n = 0
  <2> DEFINE at == [k \in 0..0 |-> v]
  <2>1. at = [k \in 0..0 |-> ChaseStep(v, at, k)]
    BY DEF ChaseStep
  <2>2. solved(0)
    <3> HIDE DEF at
    <3> QED
      BY <2>1
  <2> QED
    BY <1>3, <1>4, <2>2
<1>5. CASE n # 0
  <2>1. n \in Nat /\ n - 1 \in 0..Reserved /\ n - 1 \notin B
    <3>1. n \in 0..Reserved
      BY <1>3
    <3>2. n - 1 \in 0..Reserved /\ ~(n <= n - 1)
      BY <1>5, <3>1
    <3> HIDE DEF B
    <3> QED
      BY <1>3, <3>1, <3>2
  <2>2. PICK h : h = [k \in 0..(n - 1) |-> ChaseStep(v, h, k)]
    BY <2>1
  <2> DEFINE g == [k \in 0..n |-> IF k < n THEN h[k] ELSE ChaseStep(v, h, n)]
  <2>3. ASSUME NEW k \in 0..n PROVE g[k] = ChaseStep(v, g, k)
    <3>1. k \in Nat /\ (k # 0 => k - 1 \in 0..n /\ k - 1 < n)
      BY <2>1
    <3>2. ChaseStep(v, g, k) = ChaseStep(v, h, k)
      <4>1. k # 0 => g[k - 1] = h[k - 1]
        BY <3>1
      <4> HIDE DEF g
      <4> QED
        BY <4>1 DEF ChaseStep
    <3>3. CASE k < n
      <4>1. k \in 0..(n - 1)
        BY <2>1, <3>1, <3>3
      <4>2. h[k] = ChaseStep(v, h, k)
        BY <2>2, <4>1
      <4>3. g[k] = h[k]
        BY <3>3
      <4> QED
        BY <3>2, <4>2, <4>3
    <3>4. CASE ~(k < n)
      <4>1. k = n
        BY <2>1, <3>1, <3>4
      <4>2. g[k] = ChaseStep(v, h, n)
        BY <3>4
      <4> QED
        BY <3>2, <4>1, <4>2
    <3> QED
      BY <3>3, <3>4
  <2>4. g = [k \in 0..n |-> g[k]]
    OBVIOUS
  <2>5. g = [k \in 0..n |-> ChaseStep(v, g, k)]
    <3> HIDE DEF g
    <3> QED
      BY <2>3, <2>4
  <2>6. solved(n)
    <3> HIDE DEF g
    <3> QED
      BY <2>5
  <2> QED
    BY <1>3, <2>6
<1> QED
  BY <1>4, <1>5

\* Chase collects the first steps of the walk from v along the copies.
LEMMA ChaseIsWalk ==
  ASSUME GoodGroup(copies), NEW v \in Vars
  PROVE  \E at \in [0..Reserved -> Vars] :
           /\ Chase(v) = {at[k] : k \in 1..Reserved}
           /\ at[0] = v
           /\ \A k \in 1..Reserved : at[k] = Target(copies, at[k - 1])
<1> DEFINE h == CHOOSE at : at = [k \in 0..Reserved |-> ChaseStep(v, at, k)]
           B == {k \in 0..Reserved : h[k] \notin Vars}
<1>1. Chase(v) = {h[k] : k \in 1..Reserved}
  BY DEF Chase, ChaseStep
<1>2. h = [k \in 0..Reserved |-> ChaseStep(v, h, k)]
  BY ChaseExists
<1> HIDE DEF h
<1>3. \A k \in 0..Reserved : h[k] = ChaseStep(v, h, k)
  BY <1>2
<1>4. h[0] = v /\ \A k \in 1..Reserved : h[k] = Target(copies, h[k - 1])
  BY <1>3 DEF ChaseStep
<1>5. B = {}
  <2> SUFFICES ASSUME B # {} PROVE FALSE
    OBVIOUS
  <2>1. PICK n \in B : \A j \in B : n <= j
    <3>1. B \in SUBSET (0..Reserved) /\ Reserved \in Nat
      OBVIOUS
    <3> HIDE DEF B
    <3> QED
      BY <3>1, LeastUpTo
  <2>2. n \in 1..Reserved /\ n - 1 \in 0..Reserved /\ ~(n <= n - 1)
    BY <1>4, <2>1
  <2>3. h[n - 1] \in Vars
    BY <2>1, <2>2
  <2> QED
    BY <1>4, <2>1, <2>2, <2>3, SourceType
<1>6. h \in [0..Reserved -> Vars]
  <2>1. h = [k \in 0..Reserved |-> h[k]]
    BY <1>2
  <2> QED
    BY <1>5, <2>1
<1> QED
  BY <1>1, <1>4, <1>6

\* So it is the least set with the source of v that is closed under the copies:
\* the walk takes as many steps as there are variables, and meets one twice.
LEMMA ChaseFacts ==
  ASSUME GoodGroup(copies), NEW v \in Vars
  PROVE  /\ Chase(v) \subseteq Vars
         /\ Target(copies, v) \in Chase(v)
         /\ \A w \in Chase(v) : Target(copies, w) \in Chase(v)
         /\ \A S : /\ Target(copies, v) \in S
                   /\ \A w \in S : Target(copies, w) \in S
                   => Chase(v) \subseteq S
<1>1. PICK at \in [0..Reserved -> Vars] :
        /\ Chase(v) = {at[k] : k \in 1..Reserved}
        /\ at[0] = v
        /\ \A k \in 1..Reserved : at[k] = Target(copies, at[k - 1])
  BY ChaseIsWalk
<1>2. Chase(v) \subseteq Vars /\ Target(copies, v) \in Chase(v)
  <2>1. 1 \in 1..Reserved /\ 1 - 1 = 0 /\ \A k \in 1..Reserved : k \in 0..Reserved
    OBVIOUS
  <2> QED
    BY <1>1, <2>1
<1>3. ASSUME NEW w \in Chase(v) PROVE Target(copies, w) \in Chase(v)
  <2>1. PICK n \in 1..Reserved : w = at[n]
    BY <1>1
  <2>2. \A k \in 0..(Reserved - 1) : Target(copies, at[k]) \in Chase(v)
    <3>1. \A k \in 0..(Reserved - 1) : k + 1 \in 1..Reserved /\ (k + 1) - 1 = k
      OBVIOUS
    <3> QED
      BY <1>1, <3>1
  <2>3. CASE n # Reserved
    <3>1. n \in 0..(Reserved - 1)
      BY <2>3
    <3> QED
      BY <2>1, <2>2, <3>1
  <2>4. CASE n = Reserved
    <3>1. PICK i \in 0..Reserved, j \in 0..Reserved : i < j /\ at[i] = at[j]
      <4>1. /\ IsFiniteSet(0..Reserved) /\ Cardinality(0..Reserved) = Reserved + 1
            /\ IsFiniteSet(Vars) /\ Cardinality(Vars) = Reserved
        BY FS_Interval DEF Vars
      <4>2. PICK i \in 0..Reserved, j \in 0..Reserved : i # j /\ at[i] = at[j]
        <5>1. Cardinality(Vars) < Cardinality(0..Reserved)
          BY <4>1
        <5> QED
          BY <1>1, <4>1, <5>1, FS_PigeonHole
      <4>3. i < j \/ j < i
        BY <4>2
      <4> QED
        BY <4>2, <4>3
    <3> DEFINE B == {m \in 0..(Reserved - j) : at[i + m] # at[j + m]}
    <3>2. B = {}
      <4> SUFFICES ASSUME B # {} PROVE FALSE
        OBVIOUS
      <4>1. PICK m \in B : \A l \in B : m <= l
        <5>1. B \in SUBSET (0..(Reserved - j)) /\ Reserved - j \in Nat
          OBVIOUS
        <5> HIDE DEF B
        <5> QED
          BY <5>1, LeastUpTo
      <4>2. m # 0
        BY <3>1, <4>1
      <4>3. /\ m - 1 \in 0..(Reserved - j) /\ ~(m <= m - 1)
            /\ i + m \in 1..Reserved /\ j + m \in 1..Reserved
            /\ (i + m) - 1 = i + (m - 1) /\ (j + m) - 1 = j + (m - 1)
        BY <3>1, <4>1, <4>2
      <4>4. at[i + (m - 1)] = at[j + (m - 1)]
        BY <4>1, <4>3
      <4>5. at[i + m] = at[j + m]
        BY <1>1, <4>3, <4>4
      <4> QED
        BY <4>1, <4>5
    <3> DEFINE u == i + (Reserved - j)
    <3>3. Reserved - j \in 0..(Reserved - j) /\ j + (Reserved - j) = Reserved
          /\ u \in 0..(Reserved - 1)
      BY <3>1
    <3>4. at[u] = at[Reserved]
      BY <3>2, <3>3
    <3> HIDE DEF u
    <3> QED
      BY <2>1, <2>2, <2>4, <3>3, <3>4
  <2> QED
    BY <2>3, <2>4
<1>4. ASSUME NEW S, Target(copies, v) \in S, \A w \in S : Target(copies, w) \in S
      PROVE  Chase(v) \subseteq S
  <2> DEFINE B == {k \in 1..Reserved : at[k] \notin S}
  <2> SUFFICES ASSUME B # {} PROVE FALSE
    BY <1>1
  <2>1. PICK n \in B : \A j \in B : n <= j
    <3>1. B \in SUBSET (0..Reserved) /\ Reserved \in Nat
      OBVIOUS
    <3> HIDE DEF B
    <3> QED
      BY <3>1, LeastUpTo
  <2>2. n # 1
    BY <1>1, <1>4, <2>1
  <2>3. n - 1 \in 1..Reserved /\ ~(n <= n - 1) /\ n \in 1..Reserved
    BY <2>1, <2>2
  <2>4. at[n - 1] \in S
    BY <2>1, <2>3
  <2> QED
    BY <1>1, <1>4, <2>1, <2>3, <2>4
<1> QED
  BY <1>2, <1>3, <1>4

\* Whoever is on a cycle chases through it, and nothing else.
LEMMA CycleShared ==
  ASSUME GoodGroup(copies), NEW v \in Vars, v \in Chase(v), NEW w \in Chase(v)
  PROVE  w \in Vars /\ w \in Chase(w) /\ Chase(w) = Chase(v)
<1> DEFINE S == {x \in Chase(v) : v \in Chase(x)}
<1>1. /\ Chase(v) \subseteq Vars /\ Target(copies, v) \in Chase(v)
      /\ \A x \in Chase(v) : Target(copies, x) \in Chase(v)
  BY ChaseFacts
<1>2. ASSUME NEW x \in Chase(v), v \in Chase(x)
      PROVE  v \in Chase(Target(copies, x))
  <2> DEFINE y == Target(copies, x)
  <2>1. x \in Vars /\ y \in Vars
    BY <1>1
  <2>2. CASE y = v
    BY <2>2
  <2>3. CASE y # v
    <3>1. Chase(x) \subseteq {y} \cup Chase(y)
      <4>1. \A z \in {y} \cup Chase(y) : Target(copies, z) \in {y} \cup Chase(y)
        BY <2>1, ChaseFacts
      <4> QED
        BY <2>1, <4>1, ChaseFacts
    <3> QED
      BY <1>2, <2>3, <3>1
  <2> QED
    BY <2>2, <2>3
<1>3. Chase(v) \subseteq S
  <2>1. Target(copies, v) \in S
    BY <1>1, <1>2
  <2>2. \A x \in S : Target(copies, x) \in S
    BY <1>1, <1>2
  <2> HIDE DEF S
  <2> QED
    BY <2>1, <2>2, ChaseFacts
<1>4. w \in Vars /\ v \in Chase(w)
  BY <1>1, <1>3
<1>5. Chase(w) \subseteq Chase(v)
  BY <1>1, <1>4, ChaseFacts
<1>6. Chase(v) \subseteq Chase(w)
  <2>1. /\ Target(copies, v) \in Chase(w)
        /\ \A x \in Chase(w) : Target(copies, x) \in Chase(w)
    BY <1>4, ChaseFacts
  <2> QED
    BY <2>1, ChaseFacts
<1> QED
  BY <1>4, <1>5, <1>6

\* A cycle is a set of real copies, each the source of one of the cycle, and no
\* two cycles share one.
LEMMA CycleFacts ==
  ASSUME GoodGroup(copies), NEW K \in Cycles
  PROVE  /\ K \subseteq Moved(copies) /\ K # {}
         /\ \A d \in K : Source(copies, d) \in K /\ Chase(d) = K
         /\ \A d \in K : \E e \in K : Source(copies, e) = d
<1>1. PICK v \in Moved(copies) : v \in Chase(v) /\ K = Chase(v)
  BY DEF Cycles
<1>2. v \in Vars
  BY SourceType
<1>3. /\ K \subseteq Vars /\ Target(copies, v) \in K
      /\ \A x \in K : Target(copies, x) \in K
      /\ \A S : /\ Target(copies, v) \in S
                /\ \A w \in S : Target(copies, w) \in S
                => K \subseteq S
  BY <1>1, <1>2, ChaseFacts
<1>4. ASSUME NEW d \in K PROVE d \in Moved(copies) /\ Chase(d) = K
  <2>1. d \in Vars /\ Chase(d) = K
    BY <1>1, <1>2, CycleShared
  <2>2. Target(copies, d) # d
    <3> SUFFICES ASSUME Target(copies, d) = d PROVE FALSE
      OBVIOUS
    <3>1. \A w \in {d} : Target(copies, w) \in {d}
      OBVIOUS
    <3>2. Chase(d) \subseteq {d}
      BY <2>1, <3>1, ChaseFacts
    <3>3. v = d
      BY <1>1, <2>1, <3>2
    <3> QED
      BY <3>3 DEF Moved, Target
  <2> QED
    BY <2>1, <2>2 DEF Moved, Target
<1>5. \A d \in K : Source(copies, d) = Target(copies, d)
  BY <1>4 DEF Moved, Target
<1>6. ASSUME NEW d \in K PROVE \E e \in K : Source(copies, e) = d
  <2> DEFINE S == {Target(copies, e) : e \in K}
  <2>1. Target(copies, v) \in S /\ \A w \in S : Target(copies, w) \in S
    BY <1>1, <1>3
  <2>2. K \subseteq S
    <3> HIDE DEF S
    <3> QED
      BY <1>3, <2>1
  <2> QED
    BY <1>5, <2>2
<1> QED
  BY <1>1, <1>3, <1>4, <1>5, <1>6

\* A finite set whose elements all are values of p on it is permuted by p.
LEMMA OntoPermutes ==
  ASSUME NEW D, IsFiniteSet(D), NEW p, \A d \in D : \E e \in D : p[e] = d
  PROVE  \A d \in D : p[d] \in D /\ \A e \in D : p[d] = p[e] => d = e
<1>1. ASSUME NEW a \in D, \A d \in D : \E e \in D \ {a} : p[e] = d
      PROVE  FALSE
  <2> DEFINE g == [d \in D |-> CHOOSE e \in D \ {a} : p[e] = d]
  <2>1. \A d \in D : g[d] \in D \ {a} /\ p[g[d]] = d
    BY <1>1
  <2>2. g \in [D -> D \ {a}]
    <3>1. g = [d \in D |-> g[d]]
      OBVIOUS
    <3> HIDE DEF g
    <3> QED
      BY <2>1, <3>1
  <2>3. IsFiniteSet(D \ {a}) /\ Cardinality(D \ {a}) < Cardinality(D)
    <3>1. Cardinality(D \ {a}) = Cardinality(D) - 1 /\ IsFiniteSet(D \ {a})
      BY <1>1, FS_RemoveElement
    <3>2. Cardinality(D) \in Nat
      BY FS_CardinalityType
    <3> QED
      BY <3>1, <3>2
  <2> HIDE DEF g
  <2>4. PICK x \in D, y \in D : x # y /\ g[x] = g[y]
    BY <2>2, <2>3, FS_PigeonHole
  <2> QED
    BY <2>1, <2>4
<1>2. ASSUME NEW d \in D, p[d] \notin D PROVE FALSE
  <2>1. \A c \in D : \E e \in D \ {d} : p[e] = c
    BY <1>2
  <2> QED
    BY <1>1, <2>1
<1>3. ASSUME NEW d \in D, NEW e \in D, p[d] = p[e], d # e PROVE FALSE
  <2>1. \A c \in D : \E x \in D \ {d} : p[x] = c
    BY <1>3
  <2> QED
    BY <1>1, <2>1
<1> QED
  BY <1>2, <1>3

\* In a set of copies that permutes its destinations each is on a cycle.
LEMMA PermutedIsCyclic ==
  ASSUME GoodGroup(copies), NEW D \in SUBSET Moved(copies),
         \A d \in D : Source(copies, d) \in D,
         \A d, e \in D : Source(copies, d) = Source(copies, e) => d = e,
         NEW v \in D
  PROVE  v \in Chase(v) /\ Chase(v) \subseteq D
<1> DEFINE A == Chase(v)
           f == [x \in A \cup {v} |-> Target(copies, x)]
<1>1. D \subseteq Vars /\ \A d \in D : Source(copies, d) = Target(copies, d)
  BY SourceType DEF Moved, Target
<1>2. A \subseteq D
  BY <1>1, ChaseFacts
<1>3. SUFFICES ASSUME v \notin A PROVE FALSE
  BY <1>2
<1>4. f \in [A \cup {v} -> A]
  BY <1>1, ChaseFacts
<1>5. /\ IsFiniteSet(A) /\ IsFiniteSet(A \cup {v})
      /\ Cardinality(A) < Cardinality(A \cup {v})
  <2>1. IsFiniteSet(A)
    <3>1. IsFiniteSet(Vars)
      BY FS_Interval DEF Vars
    <3>2. A \in SUBSET Vars
      BY <1>1, <1>2
    <3> HIDE DEF A
    <3> QED
      BY <3>1, <3>2, FS_Subset
  <2> HIDE DEF A
  <2>2. Cardinality(A) \in Nat
    BY <2>1, FS_CardinalityType
  <2>3. IsFiniteSet(A \cup {v}) /\ Cardinality(A \cup {v}) = Cardinality(A) + 1
    BY <1>3, <2>1, FS_AddElement
  <2> QED
    BY <2>1, <2>2, <2>3
<1>6. PICK x \in A \cup {v}, y \in A \cup {v} : x # y /\ f[x] = f[y]
  <2> HIDE DEF A, f
  <2> QED
    BY <1>4, <1>5, FS_PigeonHole
<1> QED
  BY <1>1, <1>2, <1>6

\* What is left of a cycle: all its copies, as they were in the group.
Intact(K) ==
  K \subseteq DOMAIN pending /\ \A d \in K : pending[d] = Source(copies, d)

Broken == {K \in Cycles : ~Intact(K)}

(* One temporary for each cycle that is no longer intact, and one move for *)
(* each temporary and each copy that is no longer pending.                 *)
CountInv ==
  /\ status = "scan" => out = <<>>
  /\ status = "run" =>
       /\ next - 1 - Reserved = Cardinality(Broken)
       /\ Len(out) = Cardinality(Moved(copies)) - Cardinality(DOMAIN pending)
                     + Cardinality(Broken)

LEMMA FiniteCounts ==
  ASSUME TypeInv, GoodGroup(copies)
  PROVE  /\ IsFiniteSet(Moved(copies)) /\ Cardinality(Moved(copies)) \in Nat
         /\ IsFiniteSet(DOMAIN pending) /\ Cardinality(DOMAIN pending) \in Nat
         /\ IsFiniteSet(Broken) /\ Cardinality(Broken) \in Nat
<1>1. IsFiniteSet(Vars)
  BY FS_Interval DEF Vars
<1>2. Moved(copies) \in SUBSET Vars /\ DOMAIN pending \in SUBSET Vars
  BY SourceType DEF TypeInv, TypeOK
<1>3. Broken \in SUBSET (SUBSET Vars)
  BY <1>2, CycleFacts DEF Broken
<1>4. IsFiniteSet(SUBSET Vars)
  BY <1>1, FS_SUBSET
<1>5. IsFiniteSet(Moved(copies)) /\ IsFiniteSet(DOMAIN pending) /\ IsFiniteSet(Broken)
  BY <1>1, <1>2, <1>3, <1>4, FS_Subset
<1> QED
  BY <1>5, FS_CardinalityType

\* The cycles are those of the group, whatever the schedule does.
LEMMA CyclesKept ==
  copies' = copies => Cycles' = Cycles /\ Moved(copies)' = Moved(copies)
BY DEF Cycles, Chase, Moved, Dests, Source, Target

\* A copy that nobody reads is on no cycle that is intact.
LEMMA EmitCounts ==
  ASSUME TypeInv, ScheduleInv, CountInv, status = "run", NEW d \in DOMAIN pending,
         readers[d] = {}, Emit(d), UNCHANGED <<copies, next, status>>
  PROVE  CountInv'
<1>1. GoodGroup(copies) /\ Cycles' = Cycles /\ Moved(copies)' = Moved(copies)
  BY CyclesKept DEF TypeInv
<1>2. /\ DOMAIN pending' = DOMAIN pending \ {d}
      /\ \A e \in DOMAIN pending' : pending'[e] = pending[e]
      /\ Len(out') = Len(out) + 1 /\ Len(out) \in Nat
  BY DEF Emit, TypeInv, TypeOK
<1>3. \A e \in DOMAIN pending : pending[e] # d
  <2>1. d \in 1..(next - 1)
    BY DEF TypeInv, TypeOK, Vars
  <2> QED
    BY <2>1 DEF ScheduleInv, ReadersInverse, ReadersOf
<1>4. ASSUME NEW K \in Cycles PROVE Intact(K)' <=> Intact(K)
  <2>1. ASSUME Intact(K) PROVE Intact(K)'
    <3>1. d \notin K
      BY <1>1, <1>3, <2>1, CycleFacts DEF Intact
    <3> QED
      BY <1>2, <2>1, <3>1 DEF Intact
  <2>2. ASSUME Intact(K)' PROVE Intact(K)
    BY <1>2, <2>2 DEF Intact
  <2> QED
    BY <2>1, <2>2
<1>5. Broken' = Broken
  BY <1>1, <1>4 DEF Broken
<1>6. /\ Cardinality(DOMAIN pending') = Cardinality(DOMAIN pending) - 1
      /\ Cardinality(DOMAIN pending) \in Nat /\ Cardinality(Moved(copies)) \in Nat
      /\ Cardinality(Broken) \in Nat
  <2>1. /\ IsFiniteSet(DOMAIN pending) /\ Cardinality(DOMAIN pending) \in Nat
        /\ Cardinality(Moved(copies)) \in Nat /\ Cardinality(Broken) \in Nat
    BY <1>1, FiniteCounts
  <2>2. Cardinality(DOMAIN pending \ {d}) = Cardinality(DOMAIN pending) - 1
    BY <2>1, FS_RemoveElement
  <2> QED
    BY <1>2, <2>1, <2>2
<1>7. Len(out') = Cardinality(Moved(copies)) - Cardinality(DOMAIN pending')
                  + Cardinality(Broken)
  BY <1>2, <1>6 DEF CountInv
<1> QED
  BY <1>1, <1>5, <1>7 DEF CountInv

\* The saved variable is on a cycle that was intact, and on no other.
LEMMA BreakCounts ==
  ASSUME TypeInv, ScheduleInv, CountInv, BreakCycle
  PROVE  CountInv'
<1> DEFINE D == DOMAIN pending
<1>0. PICK w : w = Smallest(Victims)
  OBVIOUS
<1>1. /\ GoodGroup(copies) /\ Cycles' = Cycles /\ Moved(copies)' = Moved(copies)
      /\ status = "run" /\ copies' = copies /\ status' = status
      /\ D \subseteq Moved(copies) /\ D \subseteq Vars
  BY CyclesKept DEF TypeInv, TypeOK, BreakCycle, OnlyCyclesLeft, ScheduleInv
<1>2. w \in D
  <2>1. Victims \in SUBSET Vars /\ Victims # {} /\ Victims \subseteq D
    BY DEF Victims, TypeInv, TypeOK, BreakCycle
  <2> QED
    BY <1>0, <2>1, SmallestIsLeast
<1>3. /\ next' = next + 1 /\ next \in Nat /\ next \notin Vars
      /\ DOMAIN pending' = D
      /\ \A d \in D : pending'[d] = IF d \in readers[w] THEN next ELSE pending[d]
      /\ Len(out') = Len(out) + 1 /\ Len(out) \in Nat
  BY <1>0 DEF BreakCycle, Redirect, TypeInv, TypeOK, Vars
<1>4. \A s \in D : readers[s] = {d \in D : pending[d] = s} /\ readers[s] # {}
  <2>1. D \subseteq 1..(next - 1)
    BY <1>1 DEF TypeInv, TypeOK, Vars
  <2>2. \A s \in D : readers[s] = {d \in D : pending[d] = s}
    BY <1>1, <2>1 DEF ScheduleInv, ReadersInverse, ReadersOf
  <2>3. \A s \in D : readers[s] # {}
    BY <1>1 DEF ScheduleInv, HeapsExact, BreakCycle, OnlyCyclesLeft
  <2> QED
    BY <2>2, <2>3
<1>5. \A d \in D : pending[d] \in D /\ \A e \in D : pending[d] = pending[e] => d = e
  <2>1. \A s \in D : \E d \in D : pending[d] = s
    BY <1>4
  <2>2. IsFiniteSet(D)
    BY <1>1, FiniteCounts
  <2> HIDE DEF D
  <2> QED
    BY <2>1, <2>2, OntoPermutes
<1>6. \A d \in D : pending[d] = Source(copies, d)
  BY <1>1, <1>5 DEF ScheduleInv, NoValueLost
<1>7. PICK K : K = Chase(w) /\ w \in K /\ K \subseteq D /\ K \in Cycles
  <2>1. w \in Chase(w) /\ Chase(w) \subseteq D
    <3>1. /\ \A d \in D : Source(copies, d) \in D
          /\ \A d, e \in D : Source(copies, d) = Source(copies, e) => d = e
      BY <1>5, <1>6
    <3> HIDE DEF D
    <3> QED
      BY <1>1, <1>2, <3>1, PermutedIsCyclic
  <2> QED
    BY <1>1, <1>2, <2>1 DEF Cycles
<1>8. Intact(K)
  BY <1>6, <1>7 DEF Intact
<1>9. ~Intact(K)'
  <2>1. PICK d \in K : Source(copies, d) = w
    BY <1>1, <1>7, CycleFacts
  <2>2. d \in readers[w]
    BY <1>2, <1>4, <1>6, <1>7, <2>1
  <2>3. pending'[d] = next
    BY <1>3, <1>7, <2>2
  <2>4. w \in Vars
    BY <1>1, <1>2
  <2>5. Intact(K)' => pending'[d] = Source(copies', d)
    BY DEF Intact
  <2>6. Source(copies', d) = w
    BY <1>1, <2>1
  <2> QED
    BY <1>3, <2>3, <2>4, <2>5, <2>6
<1>10. ASSUME NEW L \in Cycles, L # K PROVE Intact(L)' <=> Intact(L)
  <2>1. \A d \in L : /\ d \in Moved(copies) /\ Source(copies, d) \in Vars
                     /\ Source(copies, d) \in L /\ Chase(d) = L
    BY <1>1, CycleFacts, SourceType
  <2>2. w \notin L
    BY <1>7, <1>10, <2>1
  <2>3. ASSUME Intact(L) PROVE Intact(L)'
    <3>1. \A d \in L : d \in D /\ d \notin readers[w]
      BY <1>2, <1>4, <2>1, <2>2, <2>3 DEF Intact
    <3> QED
      BY <1>1, <1>3, <2>3, <3>1 DEF Intact
  <2>4. ASSUME Intact(L)' PROVE Intact(L)
    <3>1. L \subseteq D /\ \A d \in L : pending'[d] = Source(copies, d)
      BY <1>1, <1>3, <2>4 DEF Intact
    <3>2. \A d \in L : pending'[d] # next
      BY <1>3, <2>1, <3>1
    <3> QED
      BY <1>3, <3>1, <3>2 DEF Intact
  <2> QED
    BY <2>3, <2>4
<1>11. Broken' = Broken \cup {K} /\ K \notin Broken
  <2>1. \A L : L \in Broken' <=> L \in Cycles /\ ~Intact(L)'
    BY <1>1 DEF Broken
  <2>2. \A L : L \in Broken <=> L \in Cycles /\ ~Intact(L)
    BY DEF Broken
  <2>3. K \in Broken' /\ K \notin Broken
    BY <1>7, <1>8, <1>9, <2>1, <2>2
  <2>4. \A L : L # K => (L \in Broken' <=> L \in Broken)
    BY <1>10, <2>1, <2>2
  <2> QED
    BY <2>3, <2>4
<1>12. /\ Cardinality(Broken') = Cardinality(Broken) + 1 /\ Cardinality(Broken) \in Nat
       /\ Cardinality(D) \in Nat /\ Cardinality(Moved(copies)) \in Nat
  BY <1>1, <1>11, FiniteCounts, FS_AddElement
<1>13. /\ next - 1 - Reserved = Cardinality(Broken)
       /\ Len(out) = Cardinality(Moved(copies)) - Cardinality(D) + Cardinality(Broken)
  BY <1>1 DEF CountInv
<1>14. /\ next' - 1 - Reserved = Cardinality(Broken')
       /\ Len(out') = Cardinality(Moved(copies)) - Cardinality(DOMAIN pending')
                      + Cardinality(Broken')
  <2> HIDE DEF D
  <2>1. PICK b \in Nat, c \in Nat, m \in Nat :
          b = Cardinality(Broken) /\ c = Cardinality(D) /\ m = Cardinality(Moved(copies))
    BY <1>12
  <2>2. Cardinality(Broken') = b + 1 /\ next - 1 - Reserved = b /\ Len(out) = m - c + b
    BY <1>12, <1>13, <2>1
  <2>3. Len(out') = Len(out) + 1 /\ next' = next + 1 /\ DOMAIN pending' = D
        /\ copies' = copies /\ Moved(copies)' = Moved(copies)
    BY <1>1, <1>3
  <2>4. next \in Nat /\ Len(out) \in Nat
    BY <1>3 DEF TypeInv, TypeOK
  <2>5. next' - 1 - Reserved = b + 1 /\ Len(out') = m - c + (b + 1)
    BY <2>2, <2>3, <2>4
  <2> QED
    BY <2>1, <2>2, <2>3, <2>5
<1> QED
  BY <1>1, <1>14 DEF CountInv

LEMMA CountStep ==
  TypeInv /\ ScheduleInv /\ CountInv /\ OneTemporaryPerCycle /\ [Next]_vars
    => CountInv' /\ OneTemporaryPerCycle'
<1> SUFFICES ASSUME TypeInv, ScheduleInv, CountInv, OneTemporaryPerCycle, [Next]_vars
             PROVE  CountInv' /\ OneTemporaryPerCycle'
  OBVIOUS
<1>1. CASE Scan
  <2>1. /\ GoodGroup(copies) /\ copies' = copies /\ status' = "run" /\ out' = <<>>
        /\ next' = Reserved + 1 /\ DOMAIN pending' = Moved(copies)
        /\ \A d \in Moved(copies) : pending'[d] = Source(copies, d)
    BY <1>1 DEF Scan, Accept, WellTyped, GoodGroup, TypeInv, TypeOK, CountInv
  <2>2. Cycles' = Cycles /\ Moved(copies)' = Moved(copies)
    BY <2>1, CyclesKept
  <2>3. Broken' = {}
    BY <2>1, <2>2, CycleFacts DEF Broken, Intact
  <2>4. Cardinality(Moved(copies)) \in Nat /\ Cardinality({}) = 0 /\ Len(<<>>) = 0
    BY <2>1, FiniteCounts, FS_EmptySet
  <2> QED
    BY <2>1, <2>2, <2>3, <2>4 DEF CountInv, OneTemporaryPerCycle
<1>2. CASE Fail \/ RegistrationCut
  BY <1>2 DEF Fail, RegistrationCut, CountInv, OneTemporaryPerCycle
<1>3. CASE PopReady
  <2>1. PICK d \in DOMAIN pending :
          /\ Emit(d) /\ UNCHANGED <<copies, info, all, next, status>> /\ status = "run"
          /\ readers[d] = {}
    BY <1>3, SmallestIsLeast DEF PopReady, ScheduleInv, HeapsExact, TypeInv, TypeOK
  <2> QED
    BY <2>1, EmitCounts DEF OneTemporaryPerCycle
<1>4. CASE BreakCycle
  BY <1>4, BreakCounts DEF BreakCycle, OnlyCyclesLeft, OneTemporaryPerCycle
<1>5. CASE Finish
  <2>1. /\ GoodGroup(copies) /\ status = "run" /\ DOMAIN pending = {}
        /\ UNCHANGED <<copies, next, out>> /\ status' = "done"
    BY <1>5 DEF Finish, TypeInv
  <2>2. Cycles' = Cycles /\ Moved(copies)' = Moved(copies)
    BY <2>1, CyclesKept
  <2>3. Broken = Cycles
    BY <2>1, CycleFacts DEF Broken, Intact
  <2>4. Cardinality(Moved(copies)) \in Nat /\ Cardinality(Cycles) \in Nat
    BY <2>1, <2>3, FiniteCounts
  <2>5. Cardinality({}) = 0
    BY FS_EmptySet
  <2>6. /\ next - 1 - Reserved = Cardinality(Cycles)
        /\ Len(out) = Cardinality(Moved(copies)) + Cardinality(Cycles)
    BY <2>1, <2>3, <2>4, <2>5 DEF CountInv
  <2> QED
    BY <2>1, <2>2, <2>6 DEF CountInv, OneTemporaryPerCycle
<1>6. CASE UNCHANGED vars
  <2>1. UNCHANGED <<copies, pending, next, out, status>>
    BY <1>6 DEF vars
  <2>2. Cycles' = Cycles /\ Moved(copies)' = Moved(copies)
    BY <2>1, CyclesKept
  <2>3. Broken' = Broken
    BY <2>1, <2>2 DEF Broken, Intact
  <2> QED
    BY <2>1, <2>2, <2>3 DEF CountInv, OneTemporaryPerCycle
<1> QED
  BY <1>1, <1>2, <1>3, <1>4, <1>5, <1>6
     DEF Next, Work, Reject, NoTemporary, OutOfWork

(* The plan is no longer than it has to be: a temporary is spent only when *)
(* nothing but whole cycles is left, and each cycle is broken once.        *)
THEOREM Shortest == Spec => []OneTemporaryPerCycle
<1>1. Init => CountInv /\ OneTemporaryPerCycle
  BY DEF Init, CountInv, OneTemporaryPerCycle
<1> QED
  BY <1>1, CountStep, Invariance, PTL DEF Spec
=============================================================================
