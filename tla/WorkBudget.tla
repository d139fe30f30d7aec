----------------------------- MODULE WorkBudget -----------------------------
(***************************************************************************)
(* internal/workbudget: the request-scoped Budget that every decompiler,   *)
(* archive and rendering stage of a request charges, shared by the         *)
(* request's goroutines.  Every method body between Lock and Unlock is one *)
(* action; a method with several critical sections (WriteString, the       *)
(* archive entry calls) is several actions of the calling goroutine, with  *)
(* any other goroutine's actions in between.  Archive entries are read as  *)
(* ReadArchiveStream reads them, chunk by chunk.                           *)
(***************************************************************************)
EXTENDS Integers, Sequences, FiniteSets, Functions

CONSTANTS
  Threads,      \* the goroutines sharing the budget
  MaxInt,       \* math.MaxInt64
  Factor,       \* intermediateOutputFactor
  LimitSets,    \* the Limits considered: counter -> limit, 0 = unlimited
  Costs,        \* the cost maps passed to Charge and ChargeMany
  Sizes,        \* the sizes, totals and depths passed to the other methods
  Chunks,       \* the bytes one Read of an archive entry returns
  Held,         \* the base (SetBase) of every Writer
  MaxDepth      \* bound of the exploration: the deepest Enter of a goroutine
                \* (Enter itself is also bounded by nesting < MaxInt: 2^63
                \* levels are out of any stack's reach, and it never checks)

\* The counters ChargeMany bills and adds to request_work, in name order.
Sorted ==
  <<"archive_total_bytes", "output_bytes", "read_bytes", "read_ops", "request_work">>
Billed == {Sorted[i] : i \in 1..5}

\* The counters that hold a high-water mark and never add to request_work.
Gauges == {"archive_depth", "archive_entry_bytes", "ast_depth", "intermediate_bytes"}
Counters == Billed \cup Gauges

NoError == [kind |-> "none", counter |-> "none"]
Canceled == [kind |-> "canceled", counter |-> "none"]
Exceeded(c) == [kind |-> "resource_limit", counter |-> c]
Errors == {NoError, Canceled} \cup {Exceeded(c) : c \in Counters}

ASSUME ThreadsAssumption == IsFiniteSet(Threads)
ASSUME MaxIntAssumption == MaxInt \in Nat \ {0}
ASSUME FactorAssumption == Factor \in Nat \ {0}
\* limitFor has no case for the two counters a caller cannot configure.
ASSUME LimitsAssumption ==
  \A l \in LimitSets :
    /\ l \in [Counters -> 0..MaxInt]
    /\ l["read_ops"] = 0 /\ l["intermediate_bytes"] = 0
ASSUME CostsAssumption == \A k \in Costs : k \in [Billed -> 0..MaxInt]
ASSUME SizesAssumption == Sizes \subseteq 0..MaxInt
ASSUME ChunksAssumption == Chunks \subseteq 1..MaxInt
ASSUME HeldAssumption == Held \in 0..MaxInt
ASSUME MaxDepthAssumption == MaxDepth \in Nat

VARIABLES
  limits,    \* Budget.limits, fixed at New
  canceled,  \* whether the budget's context is done
  err,       \* Budget.err, the first failure
  used,      \* Budget.used
  nesting,   \* Budget.nesting["ast_depth"]
  pc,        \* where each goroutine is inside a multi-section method
  arg,       \* that method's size argument
  due,       \* what its caller bills once that size is admitted
  kept,      \* the bytes read of the archive entry each goroutine is reading
  written,   \* the length of each goroutine's Writer
  depth,     \* history: the Enters each goroutine has not left yet
  direct,    \* history: work charged to request_work by name
  gone       \* history: archive bytes charged by name, or for entries that
             \* are read no more

budget == <<err, used, nesting, direct>>
local == <<pc, arg, due, kept, written, depth>>
vars ==
  <<limits, canceled, err, used, nesting, pc, arg, due, kept, written, depth, direct, gone>>

Init ==
  /\ limits \in LimitSets
  /\ canceled = FALSE
  /\ err = NoError
  /\ used = [c \in Counters |-> 0]
  /\ nesting = 0
  /\ pc = [t \in Threads |-> "idle"]
  /\ arg = [t \in Threads |-> 0]
  /\ due = [t \in Threads |-> 0]
  /\ kept = [t \in Threads |-> 0]
  /\ written = [t \in Threads |-> 0]
  /\ depth = [t \in Threads |-> 0]
  /\ direct = 0
  /\ gone = 0
-----------------------------------------------------------------------------
(* Arithmetic of one charge.                                               *)

\* Mutant: the comparison lets a counter pass its limit by one.
OffByOne(u, n, limit) ==
  n > 0 /\ (u > MaxInt - n \/ (limit > 0 /\ u + n > limit + 1))

\* Mutant: only a configured limit is checked, not the integer range.
NoOverflow(u, n, limit) == n > 0 /\ limit > 0 /\ u + n > limit

\* overflowOrExceed: the sum wraps, or passes a limit that is not zero.
Over(u, n, limit) ==
  n > 0 /\ (u > MaxInt - n \/ (limit > 0 /\ u + n > limit))

\* The running total after the i-th counter in name order.
Part(cost, i, j) == IF j <= i THEN cost[Sorted[j]] ELSE 0
Upto(cost, i) ==
  Part(cost, i, 1) + Part(cost, i, 2) + Part(cost, i, 3) + Part(cost, i, 4)
    + Part(cost, i, 5)
Total(cost) == Upto(cost, 5)

Refused(cost, i) ==
  \/ Over(used[Sorted[i]], cost[Sorted[i]], limits[Sorted[i]])
  \/ cost[Sorted[i]] > 0 /\ Upto(cost, i) > MaxInt

\* Mutant: the aggregate request_work is never compared with its limit.
BlamedByName(cost) ==
  LET bad == {i \in 1..5 : Refused(cost, i)} IN
  IF bad = {} THEN "none" ELSE Sorted[CHOOSE i \in bad : \A j \in bad : i <= j]

\* The counter the first failing check names, "none" if the charge is granted.
Blamed(cost) ==
  LET bad == {i \in 1..5 : Refused(cost, i)} IN
  IF bad # {} THEN
    LET first == CHOOSE i \in bad : \A j \in bad : i <= j IN
    IF Over(used[Sorted[first]], cost[Sorted[first]], limits[Sorted[first]])
    THEN Sorted[first] ELSE "request_work"
  ELSE IF Over(used["request_work"], Total(cost), limits["request_work"])
       THEN "request_work" ELSE "none"
-----------------------------------------------------------------------------
(* One critical section: checkCancelLocked, then the method's own work.    *)

Live == err = NoError /\ ~canceled

Fail(e) == err' = e /\ UNCHANGED <<used, nesting, direct>>
Pass == UNCHANGED budget

\* A dead budget answers every method with its first error.
Deny == Fail(IF err # NoError THEN err ELSE Canceled)

\* Mutant: counters are committed while later ones are still being checked.
BillEagerly(cost) ==
  /\ err' = IF Blamed(cost) = "none" THEN err ELSE Exceeded(Blamed(cost))
  /\ used' = [c \in Counters |->
       IF c \in Billed /\ c # "request_work"
       THEN IF Over(used[c], cost[c], limits[c]) THEN used[c] ELSE used[c] + cost[c]
       ELSE IF c = "request_work" /\ Blamed(cost) = "none"
            THEN used[c] + Total(cost) ELSE used[c]]
  /\ direct' = direct + cost["request_work"]
  /\ UNCHANGED nesting

\* Mutant: work charged by name is added to request_work twice.
BillTwice(cost) ==
  IF Blamed(cost) # "none" THEN Fail(Exceeded(Blamed(cost)))
  ELSE /\ used' = [c \in Counters |->
            IF c \notin Billed THEN used[c]
            ELSE IF c = "request_work" THEN used[c] + cost[c] + Total(cost)
            ELSE used[c] + cost[c]]
       /\ direct' = direct + cost["request_work"]
       /\ UNCHANGED <<err, nesting>>

\* chargeManyLocked: every counter and the aggregate are checked, then all
\* of them are committed; request_work is not billed for itself twice.
Bill(cost) ==
  IF Blamed(cost) # "none" THEN Fail(Exceeded(Blamed(cost)))
  ELSE /\ used' = [c \in Counters |->
            IF c \notin Billed THEN used[c]
            ELSE IF c = "request_work" THEN used[c] + Total(cost)
            ELSE used[c] + cost[c]]
       /\ direct' = direct + cost["request_work"]
       /\ UNCHANGED <<err, nesting>>

Only(c, n) == [d \in Billed |-> IF d = c THEN n ELSE 0]

\* A high-water gauge: refuse n above its limit, else remember the largest.
Raise(c, n, limit) ==
  IF Over(0, n, limit) THEN Fail(Exceeded(c))
  ELSE /\ used' = [used EXCEPT ![c] = IF n > @ THEN n ELSE @]
       /\ UNCHANGED <<err, nesting, direct>>

\* intermediateLimit, saturating.
IntermediateLimit ==
  LET max == limits["output_bytes"] IN
  IF max = 0 THEN 0
  ELSE IF max > MaxInt \div Factor THEN MaxInt ELSE max * Factor
-----------------------------------------------------------------------------
(* Methods with one critical section.                                      *)

Idle(t) == pc[t] = "idle" /\ UNCHANGED <<limits, canceled, local>>

\* Charge and ChargeMany.
Charge(t) ==
  /\ Idle(t)
  /\ \E cost \in Costs :
       /\ IF Live THEN Bill(cost) ELSE Deny
       /\ gone' = IF err' = NoError THEN gone + cost["archive_total_bytes"] ELSE gone

\* CheckContext: the caller's own context may be done too.
CheckContext(t) ==
  /\ Idle(t)
  /\ UNCHANGED gone
  /\ \E done \in BOOLEAN :
       IF ~Live THEN Deny ELSE IF done THEN Fail(Canceled) ELSE Pass

EnsureOutput(t) ==
  /\ Idle(t)
  /\ UNCHANGED gone
  /\ \E total \in Sizes :
       IF ~Live THEN Deny
       ELSE IF total <= used["output_bytes"] THEN Pass
       ELSE Bill(Only("output_bytes", total - used["output_bytes"]))

CheckDepth(t) ==
  /\ Idle(t)
  /\ UNCHANGED gone
  /\ \E d \in Sizes :
       IF Live THEN Raise("archive_depth", d, limits["archive_depth"]) ELSE Deny

\* RejectUnboundedRender, FailRender.
RejectRender(t) ==
  /\ Idle(t)
  /\ UNCHANGED gone
  /\ IF Live THEN Fail(Exceeded("output_bytes")) ELSE Deny

\* Enter on the ast_depth gauge; the caller leaves only what it entered.
Enter(t) ==
  /\ pc[t] = "idle"
  /\ depth[t] < MaxDepth
  /\ nesting < MaxInt
  /\ IF ~Live THEN Deny /\ UNCHANGED depth
     ELSE IF limits["ast_depth"] > 0 /\ nesting + 1 > limits["ast_depth"]
     THEN Fail(Exceeded("ast_depth")) /\ UNCHANGED depth
     ELSE /\ nesting' = nesting + 1
          /\ used' = [used EXCEPT !["ast_depth"] = IF nesting' > @ THEN nesting' ELSE @]
          /\ depth' = [depth EXCEPT ![t] = @ + 1]
          /\ UNCHANGED <<err, direct>>
  /\ UNCHANGED <<limits, canceled, pc, arg, due, kept, written, gone>>

\* Mutant: a failed budget no longer lets its callers leave.
LeaveLive(t) ==
  /\ pc[t] = "idle"
  /\ depth[t] > 0
  /\ depth' = [depth EXCEPT ![t] = @ - 1]
  /\ nesting' = IF nesting > 0 /\ err = NoError THEN nesting - 1 ELSE nesting
  /\ UNCHANGED <<limits, canceled, err, used, direct, pc, arg, due, kept, written, gone>>

Leave(t) ==
  /\ pc[t] = "idle"
  /\ depth[t] > 0
  /\ depth' = [depth EXCEPT ![t] = @ - 1]
  /\ nesting' = IF nesting > 0 THEN nesting - 1 ELSE nesting
  /\ UNCHANGED <<limits, canceled, err, used, direct, pc, arg, due, kept, written, gone>>
-----------------------------------------------------------------------------
(* Methods with several critical sections.                                 *)

Resume(t, from) ==
  /\ pc[t] = from
  /\ UNCHANGED <<limits, canceled, depth>>

Return(t) ==
  /\ pc' = [pc EXCEPT ![t] = "idle"]
  /\ arg' = [arg EXCEPT ![t] = 0]

\* WriteString, first section: CheckAlloc of the fragment.
WriteAlloc(t) ==
  /\ pc[t] = "idle"
  /\ \E n \in Sizes :
       /\ IF Live THEN Raise("intermediate_bytes", n, IntermediateLimit) ELSE Deny
       /\ IF err' = NoError
          THEN pc' = [pc EXCEPT ![t] = "output"] /\ arg' = [arg EXCEPT ![t] = n]
          ELSE UNCHANGED <<pc, arg>>
  /\ UNCHANGED <<limits, canceled, due, kept, written, depth, gone>>

\* Mutant: the length checked is the fragment's, not the buffer's.
FragmentOnly(t) == Held + arg[t]

RetainedLength(t) == Held + written[t] + arg[t]

\* WriteString, second section: FailOutputOverflow or CheckOutput, then the
\* append to the goroutine's own buffer.
WriteOutput(t) ==
  /\ Resume(t, "output")
  /\ IF ~Live THEN Deny
     ELSE IF RetainedLength(t) > MaxInt \/ Over(0, RetainedLength(t), limits["output_bytes"])
     THEN Fail(Exceeded("output_bytes"))
     ELSE Pass
  /\ written' = IF err' = NoError THEN [written EXCEPT ![t] = @ + arg[t]] ELSE written
  /\ Return(t)
  /\ UNCHANGED <<due, kept, gone>>

\* The entry is read no more: at its end, or since something was refused,
\* which leaves what was billed billed.
Drop(t) ==
  /\ Return(t)
  /\ due' = [due EXCEPT ![t] = 0]
  /\ kept' = [kept EXCEPT ![t] = 0]
  /\ gone' = gone + kept[t]

\* The bytes read of the entry, with n more.
Seen(t, n) == kept[t] + n

\* CheckArchiveEntryBytes, first section: Check.  It is called with the bytes
\* read of an entry up to now.  Its caller then bills the new ones; or none,
\* if the entry's header or these bytes are past its own limit, which may be
\* narrower than the budget's.  ChargeArchiveEntryBytes, which bills a whole
\* entry, is the case of one chunk.
EntryCheck(t) ==
  /\ pc[t] \in {"idle", "reading"}
  /\ \E n \in Chunks : \E bill \in {0, n} :
       /\ Seen(t, n) <= MaxInt
       /\ IF Live
          THEN /\ Pass
               /\ pc' = [pc EXCEPT ![t] = "entry"]
               /\ arg' = [arg EXCEPT ![t] = Seen(t, n)]
               /\ due' = [due EXCEPT ![t] = bill]
               /\ UNCHANGED <<kept, gone>>
          ELSE Deny /\ Drop(t)
  /\ UNCHANGED <<limits, canceled, written, depth>>

\* Second section: the per-entry cap and its high-water mark.
EntryBytes(t) ==
  /\ Resume(t, "entry")
  /\ IF ~Live THEN Deny
     ELSE Raise("archive_entry_bytes", arg[t], limits["archive_entry_bytes"])
  /\ IF err' = NoError /\ due[t] > 0
     THEN pc' = [pc EXCEPT ![t] = "total"] /\ UNCHANGED <<arg, due, kept, gone>>
     ELSE Drop(t)
  /\ UNCHANGED written

\* Mutant: with each chunk all that was read is billed again.
RunningBilled(t) ==
  /\ Resume(t, "total")
  /\ IF Live THEN Bill(Only("archive_total_bytes", arg[t])) ELSE Deny
  /\ IF err' = NoError
     THEN /\ pc' = [pc EXCEPT ![t] = "reading"]
          /\ kept' = [kept EXCEPT ![t] = @ + due[t]]
          /\ arg' = [arg EXCEPT ![t] = 0] /\ due' = [due EXCEPT ![t] = 0]
          /\ UNCHANGED gone
     ELSE Drop(t)
  /\ UNCHANGED written

\* Third section, Charge of the aggregate: the chunk is kept if it is granted.
EntryTotal(t) ==
  /\ Resume(t, "total")
  /\ IF Live THEN Bill(Only("archive_total_bytes", due[t])) ELSE Deny
  /\ IF err' = NoError
     THEN /\ pc' = [pc EXCEPT ![t] = "reading"]
          /\ kept' = [kept EXCEPT ![t] = @ + due[t]]
          /\ arg' = [arg EXCEPT ![t] = 0] /\ due' = [due EXCEPT ![t] = 0]
          /\ UNCHANGED gone
     ELSE Drop(t)
  /\ UNCHANGED written

\* The end of the stream, an error in it, or the context.
EntryDone(t) ==
  /\ Resume(t, "reading")
  /\ Drop(t)
  /\ UNCHANGED <<budget, written>>
-----------------------------------------------------------------------------
\* The budget's context is canceled or times out, at any moment.
Cancel ==
  /\ ~canceled
  /\ canceled' = TRUE
  /\ UNCHANGED <<limits, budget, local, gone>>

Method(t) ==
  \/ Charge(t) \/ CheckContext(t) \/ EnsureOutput(t) \/ CheckDepth(t)
  \/ RejectRender(t) \/ Enter(t) \/ Leave(t)
  \/ WriteAlloc(t) \/ WriteOutput(t)
  \/ EntryCheck(t) \/ EntryBytes(t) \/ EntryTotal(t) \/ EntryDone(t)

Next == Cancel \/ \E t \in Threads : Method(t)

\* A traversal that entered a level returns from it: Leave is deferred.  The
\* loop over a stream ends: at a refusal at the latest.
Unwinding(t) ==
  WriteOutput(t) \/ EntryBytes(t) \/ EntryTotal(t) \/ EntryDone(t) \/ Leave(t)

Spec == Init /\ [][Next]_vars /\ \A t \in Threads : WF_vars(Unwinding(t))
-----------------------------------------------------------------------------
TypeOK ==
  /\ limits \in LimitSets
  /\ canceled \in BOOLEAN
  /\ err \in Errors
  /\ used \in [Counters -> 0..MaxInt]
  /\ nesting \in 0..MaxInt
  /\ pc \in [Threads -> {"idle", "output", "entry", "total", "reading"}]
  /\ arg \in [Threads -> 0..MaxInt]
  /\ due \in [Threads -> 0..MaxInt]
  /\ kept \in [Threads -> Nat]
  /\ written \in [Threads -> Nat]
  /\ depth \in [Threads -> 0..MaxDepth]
  /\ direct \in Nat
  /\ gone \in Nat

(* No interleaving of methods takes a counter past its limit, nor the      *)
(* intermediate high-water past the cap derived from the output limit.     *)
LimitsHold ==
  /\ \A c \in Counters : limits[c] > 0 => used[c] <= limits[c]
  /\ IntermediateLimit > 0 => used["intermediate_bytes"] <= IntermediateLimit

(* request_work is the whole bill of the request: what every goroutine     *)
(* charged to any counter, each unit once, and nothing else.  A refused    *)
(* ChargeMany that had committed some counters would break it.             *)
WorkAccounted ==
  used["request_work"] =
    direct + used["archive_total_bytes"] + used["output_bytes"]
      + used["read_bytes"] + used["read_ops"]

(* Once anything failed, or the budget's context is done, no goroutine is  *)
(* granted anything, and every later call reports that first failure.      *)
FailClosed ==
  [][/\ err' # NoError \/ canceled => UNCHANGED used
     /\ err # NoError => UNCHANGED err]_vars

(* The shared depth gauge counts exactly the levels the goroutines are in, *)
(* whichever of their Enters were refused: Leave never has to clamp.       *)
DepthExact ==
  /\ nesting = SumFunctionOnSet(depth, Threads)
  /\ nesting <= used["ast_depth"]

(* A Writer's text and its base never pass the output cap, although each   *)
(* write checks, unlocks and only then appends.                            *)
WriterBounded ==
  \A t \in Threads : written[t] > 0 =>
    /\ Held + written[t] <= MaxInt
    /\ limits["output_bytes"] > 0 => Held + written[t] <= limits["output_bytes"]

(* The archive total is what was read: every byte of the entries being     *)
(* read, of those that were read and of those given up on the way, once,   *)
(* although readers check the bytes up to now and bill only the new ones,  *)
(* with other goroutines and failures between the two.  And no entry in    *)
(* memory is larger than what the cap of an entry has admitted.            *)
EntriesBilledOnce ==
  /\ used["archive_total_bytes"] = gone + SumFunctionOnSet(kept, Threads)
  /\ \A t \in Threads : kept[t] <= used["archive_entry_bytes"]

(* After a failure the recursion unwinds and the gauge returns to zero.    *)
Unwinds == err # NoError ~> nesting = 0

(* The budget implements the meter its callers rely on.                    *)
Meter == INSTANCE RequestMeter WITH
  bound <- IF limits["request_work"] = 0 THEN MaxInt ELSE limits["request_work"],
  spent <- used["request_work"],
  closed <- err # NoError

ImplementsMeter == Meter!Spec
=============================================================================
