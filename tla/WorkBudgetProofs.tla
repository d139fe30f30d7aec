-------------------------- MODULE WorkBudgetProofs --------------------------
(***************************************************************************)
(* Proofs about WorkBudget, for any number of goroutines, any limits, any  *)
(* integer range and any costs.  The argument: whatever critical section   *)
(* runs, it has one of the few effects of Effect on the budget (StepHas-   *)
(* Effect), and each property follows from Effect alone.                   *)
(***************************************************************************)
EXTENDS WorkBudget, OrderLemmas

USE MaxIntAssumption, FactorAssumption, LimitsAssumption, CostsAssumption,
    SizesAssumption, ChunksAssumption, HeldAssumption, MaxDepthAssumption

(* The total a charge adds to request_work is the sum of its five costs.   *)
LEMMA TotalIsSum ==
  ASSUME NEW cost \in [Billed -> 0..MaxInt]
  PROVE  /\ Total(cost) = cost["archive_total_bytes"] + cost["output_bytes"]
              + cost["read_bytes"] + cost["read_ops"] + cost["request_work"]
         /\ Total(cost) \in Nat
<1>1. /\ Sorted[1] = "archive_total_bytes" /\ Sorted[2] = "output_bytes"
      /\ Sorted[3] = "read_bytes" /\ Sorted[4] = "read_ops"
      /\ Sorted[5] = "request_work"
  BY DEF Sorted
<1>2. \A i \in 1..5 : Sorted[i] \in Billed
  BY DEF Billed
<1>3. \A i \in 1..5 : cost[Sorted[i]] \in Nat
  BY <1>2
<1>4. \A i \in 1..5 : Part(cost, 5, i) = cost[Sorted[i]]
  BY DEF Part
<1>5. Total(cost) = cost[Sorted[1]] + cost[Sorted[2]] + cost[Sorted[3]]
                      + cost[Sorted[4]] + cost[Sorted[5]]
  BY <1>4 DEF Total, Upto
<1> QED
  BY <1>1, <1>3, <1>5

(* The counters by name.                                                   *)
LEMMA BilledNames ==
  /\ Billed = {"archive_total_bytes", "output_bytes", "read_bytes", "read_ops",
               "request_work"}
  /\ \A i \in 1..5 : Sorted[i] \in Billed
  /\ \A c \in Billed : \E i \in 1..5 : Sorted[i] = c
<1>1. Billed = {Sorted[1], Sorted[2], Sorted[3], Sorted[4], Sorted[5]}
  BY DEF Billed
<1> QED
  BY <1>1 DEF Billed, Sorted

(* If nothing is blamed, no single counter and not the aggregate would     *)
(* pass its limit or the integer range.                                    *)
LEMMA NoneBlamed ==
  ASSUME NEW cost \in [Billed -> 0..MaxInt], Blamed(cost) = "none"
  PROVE  /\ \A c \in Billed : ~Over(used[c], cost[c], limits[c])
         /\ ~Over(used["request_work"], Total(cost), limits["request_work"])
<1> DEFINE bad == {i \in 1..5 : Refused(cost, i)}
           first == CHOOSE i \in bad : \A j \in bad : i <= j
<1>1. ASSUME bad # {} PROVE FALSE
  <2>1. \E i \in bad : \A j \in bad : i <= j
    <3>1. bad \subseteq 1..5
      OBVIOUS
    <3>2. \/ 1 \in bad
          \/ 1 \notin bad /\ 2 \in bad
          \/ 1 \notin bad /\ 2 \notin bad /\ 3 \in bad
          \/ 1 \notin bad /\ 2 \notin bad /\ 3 \notin bad /\ 4 \in bad
          \/ bad = {5}
      BY <1>1, <3>1
    <3> HIDE DEF bad
    <3> QED
      BY <3>1, <3>2
  <2>2. first \in 1..5
    BY <2>1
  <2>3. Sorted[first] # "none"
    BY <2>2, BilledNames
  <2> QED
    BY <1>1, <2>3 DEF Blamed
<1>2. \A i \in 1..5 : ~Over(used[Sorted[i]], cost[Sorted[i]], limits[Sorted[i]])
  BY <1>1 DEF Refused
<1>3. ~Over(used["request_work"], Total(cost), limits["request_work"])
  BY <1>1 DEF Blamed
<1> QED
  BY <1>2, <1>3, BilledNames

(* Whatever is blamed is a counter.                                        *)
LEMMA BlameIsError ==
  ASSUME NEW cost, Blamed(cost) # "none"
  PROVE  Exceeded(Blamed(cost)) \in Errors \ {NoError}
<1> DEFINE bad == {i \in 1..5 : Refused(cost, i)}
           first == CHOOSE i \in bad : \A j \in bad : i <= j
<1>1. Blamed(cost) \in Counters
  <2>1. CASE bad = {}
    BY <2>1, BilledNames DEF Blamed, Counters
  <2>2. CASE bad # {}
    <3>1. \E i \in bad : \A j \in bad : i <= j
      <4>1. bad \subseteq 1..5
        OBVIOUS
      <4>2. \/ 1 \in bad
            \/ 1 \notin bad /\ 2 \in bad
            \/ 1 \notin bad /\ 2 \notin bad /\ 3 \in bad
            \/ 1 \notin bad /\ 2 \notin bad /\ 3 \notin bad /\ 4 \in bad
            \/ bad = {5}
        BY <2>2, <4>1
      <4> HIDE DEF bad
      <4> QED
        BY <4>1, <4>2
    <3>2. first \in 1..5
      BY <3>1
    <3> QED
      BY <2>2, <3>2, BilledNames DEF Blamed, Counters
  <2> QED
    BY <2>1, <2>2
<1> QED
  BY <1>1 DEF Errors, Exceeded, NoError
-----------------------------------------------------------------------------
(* What one critical section may do to the budget.                         *)
Kept == UNCHANGED <<used, direct>>

Granted ==
  /\ err = NoError /\ err' = NoError /\ ~canceled
  /\ used' \in [Counters -> 0..MaxInt]
  /\ direct' \in Nat
  /\ \A c \in Counters :
       /\ used[c] <= used'[c]
       /\ used'[c] = used[c] \/ (limits[c] > 0 => used'[c] <= limits[c])
  /\ \/ used'["intermediate_bytes"] = used["intermediate_bytes"]
     \/ IntermediateLimit > 0 => used'["intermediate_bytes"] <= IntermediateLimit
  /\ used'["request_work"] - used["request_work"] =
       (direct' - direct)
       + (used'["archive_total_bytes"] - used["archive_total_bytes"])
       + (used'["output_bytes"] - used["output_bytes"])
       + (used'["read_bytes"] - used["read_bytes"])
       + (used'["read_ops"] - used["read_ops"])

Effect ==
  /\ err' \in Errors
  /\ err # NoError => err' = err
  /\ nesting' \in 0..MaxInt
  /\ Kept \/ Granted

(* The derived intermediate cap is a natural number.                       *)
LEMMA IntermediateLimitType ==
  ASSUME limits \in LimitSets
  PROVE  IntermediateLimit \in Nat
<1>1. limits["output_bytes"] \in 0..MaxInt
  BY BilledNames DEF Counters
<1>2. limits["output_bytes"] * Factor \in Nat
  BY <1>1
<1> QED
  BY <1>1, <1>2 DEF IntermediateLimit

(* A refusal or a dead budget only records an error.                       *)
LEMMA FailHasEffect ==
  ASSUME TypeOK, NEW e \in Errors, Fail(e), err # NoError => e = err
  PROVE  Effect
BY DEF Fail, Effect, Kept, TypeOK

(* A dead budget repeats its first error, or records the cancellation.     *)
LEMMA DenyHasEffect ==
  ASSUME TypeOK, Deny
  PROVE  Effect
<1>1. (IF err # NoError THEN err ELSE Canceled) \in Errors
  BY DEF TypeOK, Errors
<1> QED
  BY <1>1, FailHasEffect DEF Deny

(* A check that finds nothing wrong changes nothing.                       *)
LEMMA PassHasEffect ==
  ASSUME TypeOK, Pass
  PROVE  Effect
BY DEF Pass, budget, Effect, Kept, TypeOK

(* A transactional charge has an effect, granted or refused.               *)
LEMMA BillHasEffect ==
  ASSUME TypeOK, Live, NEW cost \in [Billed -> 0..MaxInt], Bill(cost)
  PROVE  Effect
<1>1. CASE Blamed(cost) # "none"
  BY <1>1, BlameIsError, FailHasEffect DEF Bill, Live
<1>2. CASE Blamed(cost) = "none"
  <2>1. /\ \A c \in Billed : ~Over(used[c], cost[c], limits[c])
        /\ ~Over(used["request_work"], Total(cost), limits["request_work"])
    BY <1>2, NoneBlamed
  <2>2. /\ used' = [c \in Counters |->
              IF c \notin Billed THEN used[c]
              ELSE IF c = "request_work" THEN used[c] + Total(cost)
              ELSE used[c] + cost[c]]
        /\ direct' = direct + cost["request_work"]
        /\ UNCHANGED <<err, nesting>>
    BY <1>2 DEF Bill
  <2>3. /\ used \in [Counters -> 0..MaxInt] /\ limits \in [Counters -> 0..MaxInt]
        /\ direct \in Nat
    BY DEF TypeOK
  <2>4. Billed \subseteq Counters /\ "request_work" \in Billed
    BY BilledNames DEF Counters
  <2>5. ASSUME NEW c \in Counters
        PROVE  /\ used'[c] \in 0..MaxInt
               /\ used[c] <= used'[c]
               /\ used'[c] = used[c] \/ (limits[c] > 0 => used'[c] <= limits[c])
    <3>1. CASE c \notin Billed
      BY <2>2, <2>3, <3>1
    <3>2. CASE c = "request_work"
      BY <2>1, <2>2, <2>3, <2>4, <3>2, TotalIsSum DEF Over
    <3>3. CASE c \in Billed /\ c # "request_work"
      BY <2>1, <2>2, <2>3, <3>3 DEF Over
    <3> QED
      BY <3>1, <3>2, <3>3
  <2>6. used' \in [Counters -> 0..MaxInt]
    BY <2>2, <2>5
  <2>7. used'["intermediate_bytes"] = used["intermediate_bytes"]
    BY <2>2, BilledNames DEF Counters, Gauges
  <2>8. used'["request_work"] - used["request_work"] =
          (direct' - direct)
          + (used'["archive_total_bytes"] - used["archive_total_bytes"])
          + (used'["output_bytes"] - used["output_bytes"])
          + (used'["read_bytes"] - used["read_bytes"])
          + (used'["read_ops"] - used["read_ops"])
    <3>1. \A c \in Billed : cost[c] \in Nat /\ used[c] \in Nat
      BY <2>3, <2>4
    <3>2. \A c \in Billed \ {"request_work"} : used'[c] = used[c] + cost[c]
      BY <2>2, <2>4
    <3>3. used'["request_work"] = used["request_work"] + Total(cost)
      BY <2>2, <2>4
    <3> QED
      BY <2>2, <2>3, <3>1, <3>2, <3>3, TotalIsSum, BilledNames
  <2>9. direct' \in Nat
    BY <2>2, <2>3, <2>4
  <2>10. Granted
    BY <2>2, <2>5, <2>6, <2>7, <2>8, <2>9 DEF Granted, Live
  <2> QED
    BY <2>2, <2>10 DEF Effect, TypeOK
<1> QED
  BY <1>1, <1>2

(* A high-water gauge kept below its limit is no work at all.              *)
LEMMA GaugeGranted ==
  ASSUME TypeOK, Live, NEW c \in Gauges, NEW n \in 0..MaxInt,
         used' = [used EXCEPT ![c] = IF n > @ THEN n ELSE @],
         UNCHANGED <<err, direct>>,
         limits[c] > 0 => n <= limits[c],
         c = "intermediate_bytes" /\ IntermediateLimit > 0 => n <= IntermediateLimit
  PROVE  Granted
<1>1. c \in Counters
  BY DEF Counters
<1>2. used \in [Counters -> 0..MaxInt] /\ limits \in [Counters -> 0..MaxInt]
  BY DEF TypeOK
<1>3. \A d \in Counters \ {c} : used'[d] = used[d]
  BY <1>2
<1>4. used'[c] = IF n > used[c] THEN n ELSE used[c]
  BY <1>1, <1>2
<1>5. used[c] \in 0..MaxInt /\ limits[c] \in 0..MaxInt
  BY <1>1, <1>2
<1>6. /\ used[c] <= used'[c]
      /\ used'[c] \in 0..MaxInt
      /\ used'[c] = used[c] \/ (limits[c] > 0 => used'[c] <= limits[c])
  BY <1>4, <1>5
<1>7. \/ used'["intermediate_bytes"] = used["intermediate_bytes"]
      \/ IntermediateLimit > 0 => used'["intermediate_bytes"] <= IntermediateLimit
  BY <1>3, <1>4 DEF Counters, Gauges
<1>8. \A d \in Billed : used'[d] = used[d] /\ d \in Counters
  BY <1>3, BilledNames DEF Counters, Gauges
<1>9. used' \in [Counters -> 0..MaxInt]
  BY <1>2, <1>3, <1>6
<1>10. \A d \in Counters : used[d] \in Int
  BY <1>2
<1>11. direct \in Nat /\ direct' = direct
  BY DEF TypeOK
<1>12. used'["request_work"] - used["request_work"] =
        (direct' - direct)
        + (used'["archive_total_bytes"] - used["archive_total_bytes"])
        + (used'["output_bytes"] - used["output_bytes"])
        + (used'["read_bytes"] - used["read_bytes"])
        + (used'["read_ops"] - used["read_ops"])
  BY <1>8, <1>10, <1>11, BilledNames
<1>13. \A d \in Counters :
         /\ used[d] <= used'[d]
         /\ used'[d] = used[d] \/ (limits[d] > 0 => used'[d] <= limits[d])
  BY <1>3, <1>6, <1>10
<1> QED
  BY <1>7, <1>9, <1>11, <1>12, <1>13 DEF Granted, Live

(* CheckDepth, CheckAlloc and the entry cap: refused, or a kept gauge.     *)
LEMMA RaiseHasEffect ==
  ASSUME TypeOK, Live, NEW c \in Gauges, NEW n \in 0..MaxInt,
         NEW limit \in Nat, Raise(c, n, limit),
         limits[c] > 0 => limit = limits[c],
         c = "intermediate_bytes" => limit = IntermediateLimit
  PROVE  Effect
<1>1. Exceeded(c) \in Errors
  BY DEF Counters, Errors
<1>2. CASE Over(0, n, limit)
  BY <1>1, <1>2, FailHasEffect DEF Raise, Live
<1>3. CASE ~Over(0, n, limit)
  <2>1. /\ used' = [used EXCEPT ![c] = IF n > @ THEN n ELSE @]
        /\ UNCHANGED <<err, nesting, direct>>
    BY <1>3 DEF Raise
  <2>2. limit > 0 => n <= limit
    BY <1>3 DEF Over
  <2>3. Granted
    BY <2>1, <2>2, GaugeGranted
  <2> QED
    BY <2>1, <2>3 DEF Effect, TypeOK
<1> QED
  BY <1>2, <1>3

(* Entering a level is a gauge too: ast_depth follows the nesting.         *)
LEMMA EnterHasEffect ==
  ASSUME TypeOK, NEW t \in Threads, Enter(t)
  PROVE  Effect
<1>1. "ast_depth" \in Gauges /\ Exceeded("ast_depth") \in Errors
  BY DEF Gauges, Counters, Errors
<1>2. limits["ast_depth"] \in Nat /\ nesting \in Nat
  BY DEF TypeOK, Counters, Gauges
<1>3. CASE ~Live
  BY <1>3, DenyHasEffect DEF Enter
<1>4. CASE Live /\ limits["ast_depth"] > 0 /\ nesting + 1 > limits["ast_depth"]
  BY <1>1, <1>4, FailHasEffect DEF Enter, Live
<1>5. CASE Live /\ ~(limits["ast_depth"] > 0 /\ nesting + 1 > limits["ast_depth"])
  <2>1. /\ nesting' = nesting + 1
        /\ used' = [used EXCEPT !["ast_depth"] = IF nesting' > @ THEN nesting' ELSE @]
        /\ UNCHANGED <<err, direct>>
    BY <1>5 DEF Enter
  <2>2. nesting' \in 0..MaxInt
    BY <1>2, <2>1 DEF Enter
  <2>3. limits["ast_depth"] > 0 => nesting' <= limits["ast_depth"]
    BY <1>2, <1>5, <2>1
  <2>4. Granted
    BY <1>1, <1>5, <2>1, <2>2, <2>3, GaugeGranted
  <2> QED
    BY <2>1, <2>2, <2>4 DEF Effect, TypeOK
<1> QED
  BY <1>3, <1>4, <1>5
-----------------------------------------------------------------------------
(* Every step of every goroutine has an effect, and fixes the limits.      *)
LEMMA StepHasEffect ==
  ASSUME TypeOK, Next
  PROVE  Effect /\ limits' = limits /\ (canceled => canceled')
<1> USE DEF Idle, Resume
<1>0. limits \in LimitSets /\ limits \in [Counters -> 0..MaxInt]
      /\ limits["intermediate_bytes"] = 0
  BY DEF TypeOK
<1>1. CASE Cancel
  BY <1>1, PassHasEffect DEF Cancel, Pass
<1>2. ASSUME NEW t \in Threads, Method(t) PROVE Effect /\ limits' = limits /\ (canceled => canceled')
  <2>0. limits' = limits /\ canceled' = canceled
    BY <1>2 DEF Method, Charge, CheckContext, EnsureOutput, CheckDepth, RejectRender,
         Enter, Leave, WriteAlloc, WriteOutput, EntryCheck, EntryBytes, EntryTotal,
         EntryDone
  <2> SUFFICES Effect
    BY <2>0
  <2>a. arg[t] \in 0..MaxInt /\ due[t] \in 0..MaxInt
    BY DEF TypeOK
  <2>b. \A c \in Counters : Exceeded(c) \in Errors
    BY DEF Errors
  <2>c. "output_bytes" \in Counters /\ "ast_depth" \in Counters
    BY BilledNames DEF Counters, Gauges
  <2>d. Canceled \in Errors
    BY DEF Errors
  <2>1. CASE Charge(t)
    BY <2>1, BillHasEffect, DenyHasEffect DEF Charge
  <2>2. CASE CheckContext(t)
    BY <2>2, <2>d, FailHasEffect, PassHasEffect, DenyHasEffect DEF CheckContext, Live
  <2>3. CASE EnsureOutput(t)
    <3>1. PICK total \in Sizes :
            IF ~Live THEN Deny
            ELSE IF total <= used["output_bytes"] THEN Pass
            ELSE Bill(Only("output_bytes", total - used["output_bytes"]))
      BY <2>3 DEF EnsureOutput
    <3>2. used["output_bytes"] \in 0..MaxInt
      BY <2>c DEF TypeOK
    <3>3. CASE Live /\ ~(total <= used["output_bytes"])
      <4>1. Only("output_bytes", total - used["output_bytes"]) \in [Billed -> 0..MaxInt]
        BY <3>2, <3>3 DEF Only
      <4> QED
        BY <3>1, <3>3, <4>1, BillHasEffect
    <3> QED
      BY <3>1, <3>3, DenyHasEffect, PassHasEffect
  <2>4. CASE CheckDepth(t)
    <3>1. "archive_depth" \in Gauges /\ limits["archive_depth"] \in Nat
      BY <1>0 DEF Gauges, Counters
    <3> QED
      BY <2>4, <3>1, RaiseHasEffect, DenyHasEffect DEF CheckDepth
  <2>5. CASE RejectRender(t)
    BY <2>5, <2>b, <2>c, FailHasEffect, DenyHasEffect DEF RejectRender, Live
  <2>6. CASE Enter(t)
    BY <2>6, EnterHasEffect
  <2>7. CASE Leave(t)
    BY <2>7 DEF Leave, Effect, Kept, TypeOK
  <2>8. CASE WriteAlloc(t)
    <3>1. "intermediate_bytes" \in Gauges
      BY DEF Gauges
    <3>2. PICK n \in Sizes :
            IF Live THEN Raise("intermediate_bytes", n, IntermediateLimit) ELSE Deny
      BY <2>8 DEF WriteAlloc
    <3> QED
      BY <1>0, <3>1, <3>2, RaiseHasEffect, DenyHasEffect, IntermediateLimitType
  <2>9. CASE WriteOutput(t)
    BY <2>9, <2>b, <2>c, FailHasEffect, PassHasEffect, DenyHasEffect DEF WriteOutput, Live
  <2>10. CASE EntryCheck(t)
    BY <2>10, PassHasEffect, DenyHasEffect DEF EntryCheck
  <2>11. CASE EntryBytes(t)
    <3>1. "archive_entry_bytes" \in Gauges /\ limits["archive_entry_bytes"] \in Nat
      BY <1>0 DEF Gauges, Counters
    <3> QED
      BY <2>a, <2>11, <3>1, RaiseHasEffect, DenyHasEffect DEF EntryBytes
  <2>12. CASE EntryTotal(t)
    <3>1. Only("archive_total_bytes", due[t]) \in [Billed -> 0..MaxInt]
      BY <2>a DEF Only
    <3> QED
      BY <2>12, <3>1, BillHasEffect, DenyHasEffect DEF EntryTotal
  <2>13. CASE EntryDone(t)
    BY <2>13, PassHasEffect DEF EntryDone, Pass
  <2> QED
    BY <1>2, <2>1, <2>2, <2>3, <2>4, <2>5, <2>6, <2>7, <2>8, <2>9, <2>10, <2>11, <2>12,
       <2>13
       DEF Method
<1> QED
  BY <1>1, <1>2 DEF Next, Cancel
-----------------------------------------------------------------------------
(* The counters start at zero, inside every limit.                         *)
LEMMA InitHolds ==
  ASSUME Init
  PROVE  TypeOK /\ LimitsHold /\ WorkAccounted /\ WriterBounded
<1>1. \A c \in Counters : used[c] = 0
  BY DEF Init
<1>2. limits \in [Counters -> 0..MaxInt]
  BY DEF Init
<1>3. /\ Billed \subseteq Counters /\ Gauges \subseteq Counters
      /\ "intermediate_bytes" \in Counters
  BY DEF Counters, Gauges
<1>4. TypeOK
  <2>1. used \in [Counters -> 0..MaxInt] /\ nesting \in 0..MaxInt /\ direct \in Nat /\ gone \in Nat
    BY DEF Init
  <2>2. /\ arg \in [Threads -> 0..MaxInt] /\ due \in [Threads -> 0..MaxInt]
        /\ kept \in [Threads -> Nat] /\ written \in [Threads -> Nat]
        /\ depth \in [Threads -> 0..MaxDepth]
    BY DEF Init
  <2>3. err \in Errors /\ canceled \in BOOLEAN
        /\ pc \in [Threads -> {"idle", "output", "entry", "total", "reading"}]
    BY DEF Init, Errors
  <2> QED
    BY <2>1, <2>2, <2>3 DEF Init, TypeOK
<1>5. LimitsHold
  BY <1>1, <1>2, <1>3, <1>4, IntermediateLimitType DEF LimitsHold, TypeOK
<1>6. WorkAccounted
  BY <1>1, <1>3, BilledNames DEF Init, WorkAccounted
<1> QED
  BY <1>4, <1>5, <1>6 DEF Init, WriterBounded

\* The part of TypeOK that no charge touches.
LocalTypeOK ==
  /\ canceled \in BOOLEAN
  /\ pc \in [Threads -> {"idle", "output", "entry", "total", "reading"}]
  /\ arg \in [Threads -> 0..MaxInt]
  /\ due \in [Threads -> 0..MaxInt]
  /\ kept \in [Threads -> Nat]
  /\ written \in [Threads -> Nat]
  /\ depth \in [Threads -> 0..MaxDepth]
  /\ gone \in Nat

(* A goroutine's own state keeps its type.                                 *)
LEMMA TypeStep ==
  ASSUME TypeOK, [Next]_vars
  PROVE  TypeOK'
<1>1. CASE UNCHANGED vars
  BY <1>1 DEF vars, TypeOK
<1>2. CASE Next
  <2>1. Effect /\ limits' = limits
    BY <1>2, StepHasEffect
  <2>2. /\ used' \in [Counters -> 0..MaxInt] /\ direct' \in Nat
        /\ err' \in Errors /\ nesting' \in 0..MaxInt
    BY <2>1 DEF Effect, Kept, Granted, TypeOK
  <2>3. LocalTypeOK'
    <3>1. CASE Cancel
      BY <3>1 DEF Cancel, local, TypeOK, LocalTypeOK
    <3>2. ASSUME NEW t \in Threads, Method(t) PROVE LocalTypeOK'
      <4> USE DEF TypeOK, LocalTypeOK
      <4>1. CASE \/ Charge(t) \/ CheckContext(t) \/ EnsureOutput(t) \/ CheckDepth(t)
                 \/ RejectRender(t)
        BY <4>1, BilledNames DEF Charge, CheckContext, EnsureOutput, CheckDepth, RejectRender, Idle, local
      <4>2. CASE Enter(t) \/ Leave(t)
        BY <4>2 DEF Enter, Leave
      <4>3. CASE WriteAlloc(t)
        BY <4>3 DEF WriteAlloc
      <4>4. CASE WriteOutput(t)
        BY <4>4 DEF WriteOutput, Resume, Return
      <4>5. CASE EntryCheck(t)
        <5>1. CASE Drop(t)
          BY <4>5, <5>1 DEF EntryCheck, Drop, Return
        <5>2. CASE ~Drop(t)
          <6>1. PICK n \in Chunks : \E bill \in {0, n} :
                  /\ Seen(t, n) <= MaxInt
                  /\ pc' = [pc EXCEPT ![t] = "entry"]
                  /\ arg' = [arg EXCEPT ![t] = Seen(t, n)]
                  /\ due' = [due EXCEPT ![t] = bill]
                  /\ UNCHANGED <<kept, gone>>
            BY <4>5, <5>2 DEF EntryCheck
          <6>2. PICK bill \in {0, n} : due' = [due EXCEPT ![t] = bill]
            BY <6>1
          <6>3. /\ n \in 1..MaxInt /\ kept[t] \in Nat
                /\ Seen(t, n) \in 0..MaxInt /\ bill \in 0..MaxInt
            BY <6>1, <6>2, ChunksAssumption, MaxIntAssumption DEF Seen
          <6> QED
            BY <4>5, <6>1, <6>2, <6>3 DEF EntryCheck
        <5> QED
          BY <5>1, <5>2
      <4>6. CASE EntryBytes(t) \/ EntryTotal(t) \/ EntryDone(t)
        BY <4>6 DEF EntryBytes, EntryTotal, EntryDone, Drop, Resume, Return
      <4> QED
        BY <3>2, <4>1, <4>2, <4>3, <4>4, <4>5, <4>6 DEF Method
    <3> QED
      BY <1>2, <3>1, <3>2 DEF Next
  <2> QED
    BY <2>1, <2>2, <2>3 DEF TypeOK, LocalTypeOK
<1> QED
  BY <1>1, <1>2

(* The two invariants over the counters follow from the effect alone.      *)
LEMMA CountersStep ==
  ASSUME TypeOK, LimitsHold, WorkAccounted, [Next]_vars
  PROVE  LimitsHold' /\ WorkAccounted'
<1>1. CASE UNCHANGED vars
  BY <1>1 DEF vars, LimitsHold, WorkAccounted, IntermediateLimit
<1>2. CASE Next
  <2>1. Effect /\ limits' = limits /\ IntermediateLimit' = IntermediateLimit
    BY <1>2, StepHasEffect DEF IntermediateLimit
  <2>2. CASE Kept
    BY <2>1, <2>2 DEF Kept, LimitsHold, WorkAccounted
  <2>3. CASE Granted
    <3>1. \A c \in Counters : used[c] \in Int /\ used'[c] \in Int
      BY <2>3 DEF Granted, TypeOK
    <3>2. direct \in Int /\ direct' \in Int
      BY <2>3 DEF Granted, TypeOK
    <3>3. LimitsHold'
      BY <2>1, <2>3 DEF Granted, LimitsHold
    <3>4. \A c \in Billed : c \in Counters
      BY DEF Counters
    <3>5. WorkAccounted'
      <4>1. \A c \in {"archive_total_bytes", "output_bytes", "read_bytes", "read_ops",
                     "request_work"} : used[c] \in Int /\ used'[c] \in Int
        BY <3>1, <3>4, BilledNames
      <4>2. used'["request_work"] - used["request_work"] =
              (direct' - direct)
              + (used'["archive_total_bytes"] - used["archive_total_bytes"])
              + (used'["output_bytes"] - used["output_bytes"])
              + (used'["read_bytes"] - used["read_bytes"])
              + (used'["read_ops"] - used["read_ops"])
        BY <2>3 DEF Granted
      <4> QED
        BY <3>2, <4>1, <4>2 DEF WorkAccounted
    <3> QED
      BY <3>3, <3>5
  <2> QED
    BY <2>1, <2>2, <2>3 DEF Effect
<1> QED
  BY <1>1, <1>2

(* Only WriteOutput appends, and it has checked the length it appends to.  *)
LEMMA WriterStep ==
  ASSUME TypeOK, WriterBounded, [Next]_vars
  PROVE  WriterBounded'
<1>1. CASE UNCHANGED vars
  BY <1>1 DEF vars, WriterBounded
<1>2. CASE Next
  <2>1. limits' = limits
    BY <1>2, StepHasEffect
  <2>2. CASE written' = written
    BY <2>1, <2>2 DEF WriterBounded
  <2>3. ASSUME NEW t \in Threads, WriteOutput(t), written' # written
        PROVE  WriterBounded'
    <3>1. /\ err' = NoError
          /\ written' = [written EXCEPT ![t] = @ + arg[t]]
      BY <2>3 DEF WriteOutput
    <3>2. /\ ~(RetainedLength(t) > MaxInt)
          /\ ~Over(0, RetainedLength(t), limits["output_bytes"])
      BY <3>1, <2>3 DEF WriteOutput, Deny, Fail, Live, Exceeded, Canceled, NoError
    <3>3. /\ written \in [Threads -> Nat] /\ arg[t] \in Nat
          /\ limits["output_bytes"] \in Nat
      BY BilledNames DEF TypeOK, Counters
    <3>4. written'[t] = written[t] + arg[t]
          /\ \A u \in Threads \ {t} : written'[u] = written[u]
      BY <3>1, <3>3
    <3>5. RetainedLength(t) = Held + written'[t] /\ RetainedLength(t) \in Nat
      BY <3>3, <3>4 DEF RetainedLength
    <3>6. /\ Held + written'[t] <= MaxInt
          /\ limits["output_bytes"] > 0 => Held + written'[t] <= limits["output_bytes"]
      BY <3>2, <3>3, <3>5 DEF Over
    <3> QED
      BY <2>1, <3>4, <3>6 DEF WriterBounded
  <2>4. written' = written \/ \E t \in Threads : WriteOutput(t)
    BY <1>2 DEF Next, Cancel, Method, Charge, CheckContext, EnsureOutput, CheckDepth,
       RejectRender, Enter, Leave, WriteAlloc, EntryCheck, EntryBytes, EntryTotal,
       EntryDone, Idle, Resume, local
  <2> QED
    BY <2>2, <2>3, <2>4
<1> QED
  BY <1>1, <1>2

(* What a reader knows of the entry it is reading: the bytes it has, and   *)
(* those it is about to bill, are within what the cap has admitted.        *)
Reader(t) ==
  /\ kept[t] <= used["archive_entry_bytes"]
  /\ pc[t] = "entry" => due[t] = 0 \/ arg[t] = kept[t] + due[t]
  /\ pc[t] = "total" => kept[t] + due[t] <= used["archive_entry_bytes"]

EntryInv == EntriesBilledOnce /\ \A t \in Threads : Reader(t)

(* The two counters of archive bytes, by the kind of critical section.     *)
LEMMA BytesBilled ==
  ASSUME TypeOK, err = NoError, NEW cost \in [Billed -> 0..MaxInt], Bill(cost)
  PROVE  /\ used'["archive_entry_bytes"] = used["archive_entry_bytes"]
         /\ used'["archive_total_bytes"] =
              used["archive_total_bytes"]
                + (IF err' = NoError THEN cost["archive_total_bytes"] ELSE 0)
<1>1. /\ used \in [Counters -> 0..MaxInt] /\ "archive_total_bytes" \in Billed
      /\ "archive_total_bytes" \in Counters /\ "archive_entry_bytes" \in Counters
      /\ "archive_entry_bytes" \notin Billed
  BY BilledNames DEF TypeOK, Counters, Gauges
<1>2. CASE Blamed(cost) # "none"
  BY <1>1, <1>2 DEF Bill, Fail, Exceeded, NoError
<1>3. CASE Blamed(cost) = "none"
  BY <1>1, <1>3 DEF Bill
<1> QED
  BY <1>2, <1>3

LEMMA BytesRaised ==
  ASSUME TypeOK, NEW c \in Gauges, NEW n, NEW limit, Raise(c, n, limit)
  PROVE  used'["archive_total_bytes"] = used["archive_total_bytes"]
<1>1. /\ used \in [Counters -> 0..MaxInt] /\ "archive_total_bytes" \in Counters
      /\ c # "archive_total_bytes"
  BY BilledNames DEF TypeOK, Counters, Gauges
<1> QED
  BY <1>1 DEF Raise, Fail

LEMMA BytesSame ==
  ASSUME Deny \/ Pass
  PROVE  used' = used
BY DEF Deny, Fail, Pass, budget

(* The high-water of the entries never falls.                              *)
LEMMA EntryGrows ==
  ASSUME TypeOK, Next
  PROVE  /\ used["archive_entry_bytes"] \in Nat /\ used'["archive_entry_bytes"] \in Nat
         /\ used["archive_entry_bytes"] <= used'["archive_entry_bytes"]
<1>1. "archive_entry_bytes" \in Counters
  BY DEF Counters, Gauges
<1>2. Effect
  BY StepHasEffect
<1> QED
  BY <1>1, <1>2 DEF Effect, Kept, Granted, TypeOK

(* What t's entry has more, and what is charged otherwise, is what the     *)
(* total has more.                                                         *)
LEMMA TotalStep ==
  ASSUME TypeOK, EntriesBilledOnce, NEW t \in Threads, NEW n \in Nat,
         kept' = [kept EXCEPT ![t] = n],
         used'["archive_total_bytes"] - used["archive_total_bytes"] =
           (gone' - gone) + (n - kept[t]),
         gone' \in Nat, used'["archive_total_bytes"] \in Nat
  PROVE  used'["archive_total_bytes"] = gone' + SumFunctionOnSet(kept', Threads)
<1>1. /\ \A u \in Threads : kept[u] \in Nat /\ kept'[u] \in Nat
      /\ \A u \in Threads \ {t} : kept[u] = kept'[u]
      /\ kept'[t] = n /\ IsFiniteSet(Threads) /\ gone \in Nat /\ kept[t] \in Nat
      /\ used["archive_total_bytes"] \in Nat
  BY ThreadsAssumption, BilledNames DEF TypeOK, Counters
<1>2. /\ SumFunctionOnSet(kept, Threads) \in Nat /\ SumFunctionOnSet(kept', Threads) \in Nat
      /\ SumFunctionOnSet(kept', Threads) - n = SumFunctionOnSet(kept, Threads) - kept[t]
  <2> DEFINE before == kept
             after == kept'
  <2>1. /\ \A u \in Threads : before[u] \in Nat /\ after[u] \in Nat
        /\ \A u \in Threads \ {t} : before[u] = after[u]
    BY <1>1
  <2> HIDE DEF before, after
  <2>2. /\ SumFunctionOnSet(before, Threads) \in Nat /\ SumFunctionOnSet(after, Threads) \in Nat
        /\ SumFunctionOnSet(after, Threads) - after[t] = SumFunctionOnSet(before, Threads) - before[t]
    BY <1>1, <2>1, SumChanged
  <2> QED
    BY <1>1, <2>2 DEF before, after
<1>3. used["archive_total_bytes"] = gone + SumFunctionOnSet(kept, Threads)
  BY DEF EntriesBilledOnce
<1> QED
  BY <1>1, <1>2, <1>3

(* A goroutine that reads no entry, or a section that keeps nothing.       *)
LEMMA ReadersSame ==
  ASSUME TypeOK, EntryInv, Next, NEW t \in Threads,
         \A u \in Threads \ {t} :
           pc'[u] = pc[u] /\ arg'[u] = arg[u] /\ due'[u] = due[u] /\ kept'[u] = kept[u],
         Reader(t)'
  PROVE  \A u \in Threads : Reader(u)'
<1>1. ASSUME NEW u \in Threads \ {t} PROVE Reader(u)'
  <2>1. Reader(u) /\ kept[u] \in Nat /\ due[u] \in Nat
    BY DEF EntryInv, TypeOK
  <2> QED
    BY <2>1, EntryGrows DEF Reader
<1> QED
  BY <1>1

(* An entry that is given up leaves what was billed for it billed.         *)
LEMMA DropStep ==
  ASSUME TypeOK, EntryInv, Next, NEW t \in Threads, Drop(t),
         used'["archive_total_bytes"] = used["archive_total_bytes"]
  PROVE  EntryInv'
<1>1. /\ pc \in [Threads -> {"idle", "output", "entry", "total", "reading"}]
      /\ arg \in [Threads -> 0..MaxInt] /\ due \in [Threads -> 0..MaxInt]
      /\ kept \in [Threads -> Nat] /\ gone \in Nat /\ kept[t] \in Nat
      /\ used["archive_total_bytes"] \in Nat
  BY BilledNames DEF TypeOK, Counters
<1>2. /\ pc'[t] = "idle" /\ kept'[t] = 0
      /\ \A u \in Threads \ {t} :
           pc'[u] = pc[u] /\ arg'[u] = arg[u] /\ due'[u] = due[u] /\ kept'[u] = kept[u]
      /\ kept' = [kept EXCEPT ![t] = 0] /\ gone' = gone + kept[t]
  BY <1>1 DEF Drop, Return
<1>3. \A u \in Threads : Reader(u)'
  <2>1. Reader(t)'
    BY <1>2, EntryGrows DEF Reader
  <2> QED
    BY <1>2, <2>1, ReadersSame
<1>4. used'["archive_total_bytes"] = gone' + SumFunctionOnSet(kept', Threads)
  <2>1. /\ used'["archive_total_bytes"] - used["archive_total_bytes"] =
             (gone' - gone) + (0 - kept[t])
        /\ gone' \in Nat /\ used'["archive_total_bytes"] \in Nat
    BY <1>1, <1>2
  <2>2. EntriesBilledOnce /\ 0 \in Nat
    BY DEF EntryInv
  <2>3. kept' = [kept EXCEPT ![t] = 0]
    BY <1>2
  <2> QED
    BY <2>1, <2>2, <2>3, TotalStep
<1> QED
  BY <1>3, <1>4 DEF EntryInv, EntriesBilledOnce, Reader

(* A section that has nothing to do with the entries.                      *)
LEMMA OtherStep ==
  ASSUME TypeOK, EntryInv, Next, NEW t \in Threads, UNCHANGED <<due, kept>>,
         \A u \in Threads \ {t} : pc'[u] = pc[u] /\ arg'[u] = arg[u],
         pc'[t] \in {"idle", "output"} \/ (pc'[t] = pc[t] /\ arg'[t] = arg[t]),
         gone' \in Nat,
         used'["archive_total_bytes"] - used["archive_total_bytes"] = gone' - gone
  PROVE  EntryInv'
<1>1. /\ Reader(t) /\ kept[t] \in Nat /\ due[t] \in Nat /\ gone \in Nat
      /\ used["archive_total_bytes"] \in Nat /\ used'["archive_total_bytes"] \in Nat
  <2>1. TypeOK'
    BY TypeStep
  <2> QED
    BY <2>1, BilledNames DEF EntryInv, TypeOK, Counters
<1>2. Reader(t)'
  BY <1>1, EntryGrows DEF Reader
<1>3. \A u \in Threads : Reader(u)'
  BY <1>2, ReadersSame
<1>4. used'["archive_total_bytes"] = gone' + SumFunctionOnSet(kept', Threads)
  <2>1. used["archive_total_bytes"] = gone + SumFunctionOnSet(kept, Threads)
    BY DEF EntryInv, EntriesBilledOnce
  <2>2. SumFunctionOnSet(kept', Threads) = SumFunctionOnSet(kept, Threads)
    OBVIOUS
  <2>3. SumFunctionOnSet(kept, Threads) \in Nat
    BY ThreadsAssumption, SumType DEF TypeOK
  <2> QED
    BY <1>1, <2>1, <2>2, <2>3
<1> QED
  BY <1>3, <1>4 DEF EntryInv, EntriesBilledOnce, Reader

(* The sections of a chunk.                                                *)
LEMMA EntryCheckStep ==
  ASSUME TypeOK, EntryInv, Next, NEW t \in Threads, EntryCheck(t)
  PROVE  EntryInv'
<1>1. CASE ~Live
  <2>1. Deny /\ Drop(t)
    BY <1>1 DEF EntryCheck
  <2> QED
    BY <2>1, BytesSame, DropStep
<1>2. CASE Live
  <2>0. PICK n \in Chunks : \E b \in {0, n} :
          /\ Pass
          /\ pc' = [pc EXCEPT ![t] = "entry"]
          /\ arg' = [arg EXCEPT ![t] = Seen(t, n)]
          /\ due' = [due EXCEPT ![t] = b]
          /\ UNCHANGED <<kept, gone>>
    BY <1>2 DEF EntryCheck
  <2>1. PICK bill \in {0, n} :
          /\ Pass
          /\ pc' = [pc EXCEPT ![t] = "entry"]
          /\ arg' = [arg EXCEPT ![t] = Seen(t, n)]
          /\ due' = [due EXCEPT ![t] = bill]
          /\ UNCHANGED <<kept, gone>>
    BY <2>0
  <2>2. /\ pc \in [Threads -> {"idle", "output", "entry", "total", "reading"}]
        /\ arg \in [Threads -> 0..MaxInt] /\ due \in [Threads -> 0..MaxInt]
        /\ Reader(t) /\ kept[t] \in Nat /\ gone \in Nat
    BY DEF EntryInv, TypeOK
  <2>3. used' = used
    BY <2>1, BytesSame
  <2>4. Reader(t)'
    BY <2>1, <2>2, <2>3 DEF Reader, Seen
  <2>5. \A u \in Threads : Reader(u)'
    <3>1. \A u \in Threads \ {t} :
            pc'[u] = pc[u] /\ arg'[u] = arg[u] /\ due'[u] = due[u] /\ kept'[u] = kept[u]
      BY <2>1, <2>2
    <3> QED
      BY <2>4, <3>1, ReadersSame
  <2> QED
    BY <2>1, <2>3, <2>5 DEF EntryInv, EntriesBilledOnce, Reader
<1> QED
  BY <1>1, <1>2

LEMMA EntryBytesStep ==
  ASSUME TypeOK, EntryInv, Next, NEW t \in Threads, EntryBytes(t)
  PROVE  EntryInv'
<1>1. used'["archive_total_bytes"] = used["archive_total_bytes"]
  <2>1. "archive_entry_bytes" \in Gauges
    BY DEF Gauges
  <2> QED
    BY <2>1, BytesSame, BytesRaised DEF EntryBytes
<1>2. CASE Drop(t)
  BY <1>1, <1>2, DropStep
<1>3. CASE ~Drop(t)
  <2>1. /\ err' = NoError /\ due[t] > 0 /\ pc[t] = "entry"
        /\ pc' = [pc EXCEPT ![t] = "total"] /\ UNCHANGED <<arg, due, kept, gone>>
    BY <1>3 DEF EntryBytes, Resume
  <2>2. ~Deny
    <3>1. SUFFICES ASSUME Deny PROVE FALSE
      OBVIOUS
    <3>2. Effect
      BY StepHasEffect
    <3> QED
      BY <2>1, <3>1, <3>2 DEF Deny, Fail, Effect, Canceled, NoError
  <2>3. /\ pc \in [Threads -> {"idle", "output", "entry", "total", "reading"}]
        /\ used \in [Counters -> 0..MaxInt] /\ "archive_entry_bytes" \in Counters
        /\ Reader(t) /\ kept[t] \in Nat /\ due[t] \in Nat /\ arg[t] \in Nat
    BY DEF EntryInv, TypeOK, Counters, Gauges
  <2>4. used' = [used EXCEPT !["archive_entry_bytes"] = IF arg[t] > @ THEN arg[t] ELSE @]
    BY <2>1, <2>2 DEF EntryBytes, Raise, Fail, Exceeded, NoError
  <2>5. arg[t] <= used'["archive_entry_bytes"]
    BY <2>3, <2>4
  <2>6. arg[t] = kept[t] + due[t]
    BY <2>1, <2>3 DEF Reader
  <2>7. Reader(t)'
    BY <2>1, <2>3, <2>5, <2>6, EntryGrows DEF Reader
  <2>8. \A u \in Threads : Reader(u)'
    <3>1. \A u \in Threads \ {t} :
            pc'[u] = pc[u] /\ arg'[u] = arg[u] /\ due'[u] = due[u] /\ kept'[u] = kept[u]
      BY <2>1, <2>3
    <3> QED
      BY <2>7, <3>1, ReadersSame
  <2> QED
    BY <1>1, <2>1, <2>8 DEF EntryInv, EntriesBilledOnce, Reader
<1> QED
  BY <1>2, <1>3

LEMMA EntryTotalStep ==
  ASSUME TypeOK, EntryInv, Next, NEW t \in Threads, EntryTotal(t)
  PROVE  EntryInv'
<1>1. /\ pc \in [Threads -> {"idle", "output", "entry", "total", "reading"}]
      /\ arg \in [Threads -> 0..MaxInt] /\ due \in [Threads -> 0..MaxInt]
      /\ kept \in [Threads -> Nat] /\ due[t] \in 0..MaxInt /\ kept[t] \in Nat
      /\ Reader(t) /\ gone \in Nat
  BY DEF EntryInv, TypeOK
<1>2. "archive_total_bytes" \in Counters /\ used["archive_total_bytes"] \in Nat
      /\ "archive_total_bytes" \in Billed
  BY BilledNames DEF TypeOK, Counters
<1>3. /\ Only("archive_total_bytes", due[t]) \in [Billed -> 0..MaxInt]
      /\ Only("archive_total_bytes", due[t])["archive_total_bytes"] = due[t]
  BY <1>1, <1>2 DEF Only
<1>4. CASE err' # NoError
  <2>1. Drop(t)
    BY <1>4 DEF EntryTotal
  <2>2. used'["archive_total_bytes"] = used["archive_total_bytes"]
    BY <1>2, <1>3, <1>4, BytesSame, BytesBilled DEF EntryTotal, Live
  <2> QED
    BY <2>1, <2>2, DropStep
<1>5. CASE err' = NoError
  <2>1. /\ pc[t] = "total" /\ pc' = [pc EXCEPT ![t] = "reading"]
        /\ kept' = [kept EXCEPT ![t] = @ + due[t]]
        /\ arg' = [arg EXCEPT ![t] = 0] /\ due' = [due EXCEPT ![t] = 0]
        /\ gone' = gone
    BY <1>5 DEF EntryTotal, Resume
  <2>2. Live
    BY <1>5 DEF EntryTotal, Deny, Fail, Live, Canceled, NoError
  <2>3. used'["archive_total_bytes"] = used["archive_total_bytes"] + due[t]
    BY <1>3, <1>5, <2>2, BytesBilled DEF EntryTotal, Live
  <2>4. /\ kept'[t] = kept[t] + due[t] /\ pc'[t] = "reading"
        /\ kept' = [kept EXCEPT ![t] = kept[t] + due[t]] /\ kept[t] + due[t] \in Nat
    BY <1>1, <2>1
  <2>5. Reader(t)'
    BY <1>1, <2>1, <2>4, EntryGrows DEF Reader
  <2>6. \A u \in Threads : Reader(u)'
    <3>1. \A u \in Threads \ {t} :
            pc'[u] = pc[u] /\ arg'[u] = arg[u] /\ due'[u] = due[u] /\ kept'[u] = kept[u]
      BY <1>1, <2>1
    <3> QED
      BY <2>5, <3>1, ReadersSame
  <2>7. used'["archive_total_bytes"] = gone' + SumFunctionOnSet(kept', Threads)
    <3>1. /\ used'["archive_total_bytes"] - used["archive_total_bytes"] =
               (gone' - gone) + ((kept[t] + due[t]) - kept[t])
          /\ used'["archive_total_bytes"] \in Nat /\ gone' \in Nat
      BY <1>1, <1>2, <2>1, <2>3
    <3> QED
      BY <2>4, <3>1, TotalStep DEF EntryInv
  <2> QED
    BY <2>6, <2>7 DEF EntryInv, EntriesBilledOnce, Reader
<1> QED
  BY <1>4, <1>5

(* The other methods charge no archive bytes but by name.                  *)
LEMMA NamedStep ==
  ASSUME TypeOK, EntryInv, Next, NEW t \in Threads, Charge(t)
  PROVE  EntryInv'
<1>1. PICK cost \in Costs :
        /\ IF Live THEN Bill(cost) ELSE Deny
        /\ gone' = IF err' = NoError THEN gone + cost["archive_total_bytes"] ELSE gone
  BY DEF Charge
<1>2. /\ cost \in [Billed -> 0..MaxInt] /\ cost["archive_total_bytes"] \in Nat
      /\ gone \in Nat /\ used["archive_total_bytes"] \in Nat
  BY BilledNames DEF TypeOK, Counters
<1>3. used'["archive_total_bytes"] - used["archive_total_bytes"] = gone' - gone
  <2>1. CASE Live
    BY <1>1, <1>2, <2>1, BytesBilled DEF Live
  <2>2. CASE ~Live
    <3>1. used' = used /\ err' # NoError
      BY <1>1, <2>2, BytesSame DEF Deny, Fail, Canceled, NoError
    <3> QED
      BY <1>1, <1>2, <3>1
  <2> QED
    BY <2>1, <2>2
<1>4. gone' \in Nat
  BY <1>1, <1>2
<1> QED
  BY <1>3, <1>4, OtherStep DEF Charge, Idle, local

LEMMA EntryStep ==
  ASSUME TypeOK, EntryInv, [Next]_vars
  PROVE  EntryInv'
<1>1. CASE UNCHANGED vars
  BY <1>1 DEF vars, EntryInv, EntriesBilledOnce, Reader
<1>2. CASE Next
  <2>0. gone \in Nat /\ used["archive_total_bytes"] \in Nat
        /\ pc \in [Threads -> {"idle", "output", "entry", "total", "reading"}]
        /\ arg \in [Threads -> 0..MaxInt]
        /\ "archive_total_bytes" \in Counters
        /\ used \in [Counters -> 0..MaxInt]
    BY BilledNames DEF TypeOK, Counters
  <2>1. CASE Cancel
    BY <2>1 DEF Cancel, budget, local, EntryInv, EntriesBilledOnce, Reader
  <2>2. ASSUME NEW t \in Threads, Method(t) PROVE EntryInv'
    <3>0. /\ "archive_depth" \in Gauges /\ "intermediate_bytes" \in Gauges
          /\ "archive_total_bytes" # "ast_depth"
      BY DEF Gauges
    <3>1. CASE Charge(t)
      BY <1>2, <3>1, NamedStep
    <3>2. CASE CheckContext(t) \/ RejectRender(t)
      <4>1. used' = used /\ UNCHANGED <<local, gone>>
        BY <3>2, BytesSame DEF CheckContext, RejectRender, Idle, Fail
      <4> QED
        BY <1>2, <2>0, <4>1, OtherStep DEF local
    <3>3. CASE EnsureOutput(t)
      <4>1. used'["archive_total_bytes"] = used["archive_total_bytes"]
        <5>1. PICK total \in Sizes :
                IF ~Live THEN Deny
                ELSE IF total <= used["output_bytes"] THEN Pass
                ELSE Bill(Only("output_bytes", total - used["output_bytes"]))
          BY <3>3 DEF EnsureOutput
        <5>2. CASE Live /\ ~(total <= used["output_bytes"])
          <6>1. used["output_bytes"] \in 0..MaxInt
            BY BilledNames DEF TypeOK, Counters
          <6>2. /\ Only("output_bytes", total - used["output_bytes"]) \in [Billed -> 0..MaxInt]
                /\ Only("output_bytes", total - used["output_bytes"])["archive_total_bytes"] = 0
            BY <5>2, <6>1, BilledNames DEF Only
          <6> QED
            BY <2>0, <5>1, <5>2, <6>2, BytesBilled DEF Live
        <5> QED
          BY <5>1, <5>2, BytesSame
      <4> QED
        BY <1>2, <2>0, <3>3, <4>1, OtherStep DEF EnsureOutput, Idle, local
    <3>4. CASE CheckDepth(t)
      <4>1. used'["archive_total_bytes"] = used["archive_total_bytes"]
        BY <3>0, <3>4, BytesSame, BytesRaised DEF CheckDepth
      <4> QED
        BY <1>2, <2>0, <3>4, <4>1, OtherStep DEF CheckDepth, Idle, local
    <3>5. CASE Enter(t) \/ Leave(t)
      <4>1. used'["archive_total_bytes"] = used["archive_total_bytes"]
        BY <2>0, <3>0, <3>5, BytesSame DEF Enter, Leave, Fail
      <4> QED
        BY <1>2, <2>0, <3>5, <4>1, OtherStep DEF Enter, Leave
    <3>6. CASE WriteAlloc(t)
      <4>1. used'["archive_total_bytes"] = used["archive_total_bytes"]
        BY <3>0, <3>6, BytesSame, BytesRaised DEF WriteAlloc
      <4>2. /\ \A u \in Threads \ {t} : pc'[u] = pc[u] /\ arg'[u] = arg[u]
            /\ pc'[t] \in {"idle", "output"} /\ UNCHANGED <<due, kept, gone>>
        BY <2>0, <3>6 DEF WriteAlloc
      <4> QED
        BY <1>2, <2>0, <4>1, <4>2, OtherStep
    <3>7. CASE WriteOutput(t)
      <4>1. used' = used
        BY <3>7, BytesSame DEF WriteOutput, Fail
      <4>2. /\ \A u \in Threads \ {t} : pc'[u] = pc[u] /\ arg'[u] = arg[u]
            /\ pc'[t] \in {"idle", "output"} /\ UNCHANGED <<due, kept, gone>>
        BY <2>0, <3>7 DEF WriteOutput, Return
      <4> QED
        BY <1>2, <2>0, <4>1, <4>2, OtherStep
    <3>8. CASE EntryCheck(t)
      BY <1>2, <3>8, EntryCheckStep
    <3>9. CASE EntryBytes(t)
      BY <1>2, <3>9, EntryBytesStep
    <3>10. CASE EntryTotal(t)
      BY <1>2, <3>10, EntryTotalStep
    <3>11. CASE EntryDone(t)
      <4>1. Drop(t) /\ used' = used
        BY <3>11 DEF EntryDone, budget
      <4> QED
        BY <1>2, <4>1, DropStep
    <3> QED
      BY <2>2, <3>1, <3>2, <3>3, <3>4, <3>5, <3>6, <3>7, <3>8, <3>9, <3>10, <3>11 DEF Method
  <2> QED
    BY <1>2, <2>1, <2>2 DEF Next
<1> QED
  BY <1>1, <1>2
-----------------------------------------------------------------------------
(* The levels of one goroutine, entered or left, are the only change of    *)
(* the gauge: it stays their sum, and a Leave finds it above zero.         *)
LEMMA DepthStep ==
  ASSUME TypeOK, DepthExact, [Next]_vars
  PROVE  DepthExact'
<1> DEFINE levels == SumFunctionOnSet(depth, Threads)
<1>1. CASE UNCHANGED vars
  BY <1>1 DEF vars, DepthExact
<1>2. /\ used \in [Counters -> 0..MaxInt] /\ "ast_depth" \in Counters
      /\ depth \in [Threads -> 0..MaxDepth] /\ nesting \in Nat
      /\ nesting = levels /\ nesting <= used["ast_depth"]
      /\ IsFiniteSet(Threads)
  BY ThreadsAssumption DEF TypeOK, DepthExact, Counters, Gauges
<1>3. ASSUME NEW t \in Threads, NEW n \in Nat, depth' = [depth EXCEPT ![t] = n]
      PROVE  /\ levels' - n = levels - depth[t] /\ depth[t] <= levels
             /\ levels' \in Nat /\ levels \in Nat
  <2>1. /\ \A u \in Threads : depth[u] \in Nat /\ depth'[u] \in Nat
        /\ \A u \in Threads \ {t} : depth[u] = depth'[u]
        /\ depth'[t] = n
    BY <1>2, <1>3
  <2> QED
    BY <1>2, <2>1, SumChanged
<1>4. ASSUME NEW t \in Threads, Leave(t) PROVE DepthExact'
  <2>1. /\ depth[t] - 1 \in Nat /\ depth[t] \in Nat /\ depth[t] > 0
        /\ depth' = [depth EXCEPT ![t] = depth[t] - 1]
    BY <1>2, <1>4 DEF Leave
  <2>2. /\ levels' - (depth[t] - 1) = levels - depth[t] /\ depth[t] <= levels
        /\ levels \in Nat /\ levels' \in Nat
    <3> HIDE DEF levels
    <3> QED BY <1>3, <2>1
  <2>3. levels' = levels - 1 /\ levels > 0
    <3> HIDE DEF levels
    <3> QED BY <2>1, <2>2
  <2>4. nesting' = nesting - 1 /\ used' = used
    BY <1>2, <1>4, <2>3 DEF Leave
  <2> QED
    BY <1>2, <2>3, <2>4 DEF DepthExact
<1>5. ASSUME NEW t \in Threads, Enter(t) PROVE DepthExact'
  <2>1. CASE depth' = depth /\ nesting' = nesting /\ used' = used
    BY <2>1 DEF DepthExact
  <2>2. CASE /\ nesting' = nesting + 1
             /\ used' = [used EXCEPT !["ast_depth"] = IF nesting' > @ THEN nesting' ELSE @]
             /\ depth' = [depth EXCEPT ![t] = @ + 1]
    <3>1. /\ depth[t] + 1 \in Nat /\ depth[t] \in Nat
          /\ depth' = [depth EXCEPT ![t] = depth[t] + 1]
      BY <1>2, <2>2
    <3>2. /\ levels' - (depth[t] + 1) = levels - depth[t]
          /\ levels \in Nat /\ levels' \in Nat
      <4> HIDE DEF levels
      <4> QED BY <1>3, <3>1
    <3>3. levels' = levels + 1
      <4> HIDE DEF levels
      <4> QED BY <3>1, <3>2
    <3>4. nesting' <= used'["ast_depth"]
      BY <1>2, <2>2
    <3> QED
      BY <1>2, <2>2, <3>4, <3>3 DEF DepthExact
  <2> QED
    BY <1>5, <2>1, <2>2 DEF Enter, Deny, Fail
<1>6. CASE Next /\ ~ \E t \in Threads : Enter(t) \/ Leave(t)
  <2>1. depth' = depth /\ nesting' = nesting
    BY <1>6 DEF Next, Cancel, Method, Charge, CheckContext, EnsureOutput, CheckDepth,
       RejectRender, WriteAlloc, WriteOutput, EntryCheck, EntryBytes, EntryTotal,
       EntryDone, Idle, Resume, Bill, Raise, Deny, Fail, Pass, budget, local
  <2>2. used["ast_depth"] <= used'["ast_depth"] /\ used'["ast_depth"] \in Nat
    <3>1. Effect
      BY <1>6, StepHasEffect
    <3> QED
      BY <1>2, <3>1 DEF Effect, Kept, Granted
  <2> QED
    BY <1>2, <2>1, <2>2 DEF DepthExact
<1> QED
  BY <1>1, <1>4, <1>5, <1>6
-----------------------------------------------------------------------------
(* The types hold: in particular no counter ever leaves 0..MaxInt, also    *)
(* when its limit is zero.                                                 *)
THEOREM Typing == Spec => []TypeOK
<1>1. Init => TypeOK
  BY InitHolds
<1>2. TypeOK /\ [Next]_vars => TypeOK'
  BY TypeStep
<1> QED
  BY <1>1, <1>2, PTL DEF Spec

(* No interleaving of methods takes a counter past its limit.              *)
THEOREM Limits == Spec => []LimitsHold
<1>1. Init => LimitsHold /\ WorkAccounted
  BY InitHolds
<1>2. TypeOK /\ LimitsHold /\ WorkAccounted /\ [Next]_vars => (LimitsHold /\ WorkAccounted)'
  BY CountersStep
<1> QED
  BY <1>1, <1>2, Typing, PTL DEF Spec

(* request_work is the sum of what was charged, each unit once.            *)
THEOREM Accounting == Spec => []WorkAccounted
<1>1. Init => LimitsHold /\ WorkAccounted
  BY InitHolds
<1>2. TypeOK /\ LimitsHold /\ WorkAccounted /\ [Next]_vars => (LimitsHold /\ WorkAccounted)'
  BY CountersStep
<1> QED
  BY <1>1, <1>2, Typing, PTL DEF Spec

(* A Writer's text never passes the output cap.                            *)
THEOREM Writers == Spec => []WriterBounded
<1>1. Init => WriterBounded
  BY InitHolds
<1>2. TypeOK /\ WriterBounded /\ [Next]_vars => WriterBounded'
  BY WriterStep
<1> QED
  BY <1>1, <1>2, Typing, PTL DEF Spec

(* The archive total counts every byte read of an entry once, whatever any *)
(* number of readers check, bill and give up between each other's sections *)
(* and no reader holds more of an entry than its cap has admitted.         *)
THEOREM Entries == Spec => []EntriesBilledOnce
<1>1. Init => EntryInv
  <2> SUFFICES ASSUME Init PROVE EntryInv
    OBVIOUS
  <2>1. /\ used["archive_entry_bytes"] = 0 /\ used["archive_total_bytes"] = 0 /\ gone = 0
        /\ \A t \in Threads : kept[t] = 0 /\ pc[t] = "idle"
    BY BilledNames DEF Init, Counters, Gauges
  <2>2. SumFunctionOnSet(kept, Threads) = 0
    BY <2>1, SumZero, ThreadsAssumption
  <2> QED
    BY <2>1, <2>2 DEF EntryInv, EntriesBilledOnce, Reader
<1>2. TypeOK /\ EntryInv /\ [Next]_vars => EntryInv'
  BY EntryStep
<1>3. EntryInv => EntriesBilledOnce
  BY DEF EntryInv
<1> QED
  BY <1>1, <1>2, <1>3, Typing, PTL DEF Spec

(* The depth gauge counts the levels every goroutine is in, summed over    *)
(* any finite number of them, whichever of their Enters were refused.      *)
THEOREM Levels == Spec => []DepthExact
<1>1. Init => DepthExact
  <2> SUFFICES ASSUME Init PROVE DepthExact
    OBVIOUS
  <2>1. /\ nesting = 0 /\ used["ast_depth"] = 0
        /\ \A t \in Threads : depth[t] = 0
    BY DEF Init, Counters, Gauges
  <2>2. SumFunctionOnSet(depth, Threads) = 0
    BY <2>1, SumZero, ThreadsAssumption
  <2> QED
    BY <2>1, <2>2 DEF DepthExact
<1>2. TypeOK /\ DepthExact /\ [Next]_vars => DepthExact'
  BY DepthStep
<1> QED
  BY <1>1, <1>2, Typing, PTL DEF Spec

(* Nothing is granted after a failure or a cancellation, and the first     *)
(* failure stays.                                                          *)
THEOREM Closing == Spec => FailClosed
<1>1. TypeOK /\ [Next]_vars =>
        [/\ err' # NoError \/ canceled => UNCHANGED used
         /\ err # NoError => UNCHANGED err]_vars
  <2> SUFFICES ASSUME TypeOK, Next
               PROVE  /\ err' # NoError \/ canceled => UNCHANGED used
                      /\ err # NoError => UNCHANGED err
    OBVIOUS
  <2> QED
    BY StepHasEffect DEF Effect, Kept, Granted
<1> QED
  BY <1>1, Typing, PTL DEF Spec, FailClosed
-----------------------------------------------------------------------------
(* Implementation of RequestMeter.                                         *)
THEOREM MeterRefinement == Spec => ImplementsMeter
<1> DEFINE cap == IF limits["request_work"] = 0 THEN MaxInt ELSE limits["request_work"]
<1>0. "request_work" \in Counters
  BY BilledNames DEF Counters
<1>1. Init => Meter!Init
  <2> SUFFICES ASSUME Init PROVE Meter!Init
    OBVIOUS
  <2>1. cap \in Nat
    BY <1>0 DEF Init
  <2> QED
    BY <1>0, <2>1 DEF Init, Meter!Init, Counters
<1>2. TypeOK /\ LimitsHold /\ LimitsHold' /\ [Next]_vars => [Meter!Next]_(Meter!vars)
  <2> SUFFICES ASSUME TypeOK, LimitsHold, LimitsHold', [Next]_vars
               PROVE  [Meter!Next]_(Meter!vars)
    OBVIOUS
  <2>1. CASE UNCHANGED vars
    BY <2>1 DEF vars, Meter!vars
  <2>2. CASE Next
    <3>1. Effect /\ limits' = limits
      BY <2>2, StepHasEffect
    <3>2. CASE Kept
      BY <3>1, <3>2 DEF Effect, Kept, Meter!Next, Meter!Close, Meter!vars
    <3>3. CASE Granted
      <4>1. /\ err = NoError /\ err' = NoError
            /\ used["request_work"] <= used'["request_work"]
            /\ used'["request_work"] \in 0..MaxInt
        BY <1>0, <3>3 DEF Granted
      <4>2. used'["request_work"] <= cap
        BY <1>0, <3>1, <4>1 DEF LimitsHold, TypeOK
      <4>3. Meter!Grant
        BY <3>1, <4>1, <4>2 DEF Meter!Grant
      <4> QED
        BY <4>3 DEF Meter!Next
    <3> QED
      BY <3>1, <3>2, <3>3 DEF Effect
  <2> QED
    BY <2>1, <2>2
<1> QED
  BY <1>1, <1>2, Typing, Limits, PTL DEF Spec, ImplementsMeter, Meter!Spec
=============================================================================
