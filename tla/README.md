# Verification of javajive

javajive turns Java class files, JARs, nested archives and DEX files into Java
source. This directory holds TLA+ modules translated from its Go source, the TLC
configurations that model-check them and proofs checked by TLAPS. Paths below are
relative to `src/`; `core/` stands for `classparser/decompiler/core/`.

Run everything from this directory:

    tlc -workers 2 -config MCSequentialize.cfg MCSequentialize.tla
    tlc -workers 2 -config MCWorkBudget.cfg MCWorkBudget.tla
    tlc -workers 2 -config MCSolver.cfg MCSolver.tla
    tlc -workers 2 -config MCExecution.cfg MCExecution.tla
    tlc -workers 2 -config MCRotation.cfg MCRotation.tla         # a counterexample
    tlc -workers 2 -config MCDestruction.cfg MCDestruction.tla
    tlc -workers 2 -config MCEntryLoop.cfg MCDestruction.tla     # a counterexample
    tlc -workers 2 -config MCConstructed.cfg MCDestruction.tla   # a counterexample
    tlc -workers 2 -config MCAnalyses.cfg MCAnalyses.tla
    tlc -workers 2 -config MCGraphCache.cfg MCGraphCache.tla
    tlc -workers 2 -config MCNativeMembers.cfg MCNativeMembers.tla
    tlc -workers 2 -config MCNestedArchives.cfg MCNestedArchives.tla
    tlapm OrderLemmas.tla
    tlapm SequentializeProofs.tla
    tlapm WorkBudgetProofs.tla
    tlapm FramesProofs.tla
    tlapm SolverProofs.tla
    tlapm GraphCacheProofs.tla
    tlapm NativeMembersProofs.tla
    tlapm NestedArchivesProofs.tla

## 1. Inventory

A request enters through `javajive.go`, `api.go` or the command line, and flows

    archive file systems -> jar parser -> class reader -> native member plan
      -> method IR -> graph analyses -> SSA (frames, solver, destruction)
      -> statements -> renderer

while every stage charges one shared work budget.

| part | state | operations | calls / shared state | hard behaviour |
|---|---|---|---|---|
| Request budget, `internal/workbudget` | limits, counters, high-water gauges, first error, nesting depth, under one mutex | Charge, ChargeMany, CheckAlloc, CheckOutput, EnsureOutput, CheckDepth, Enter/Leave, CheckContext, archive entry calls, Writer, Reader | every other part calls it, from several goroutines; the request's context cancels it | calls with several critical sections, partial charges, integer limits, failing closed |
| Frame lattice and transfer, `core/frametransfer` | abstract locals and operand stack of one program point | Transfer, JoinTypes, JoinFrames, Validate | called by the solver at each instruction and edge | wide values cut in half, exceptional edges, join laws |
| SSA solver, `core/ssabuild` | in-frames and origins per block, the frame carried by each edge, a worklist | Build: pop, merge, transfer, propagate; then assign and simplify phis, bind values | uses frames, graph analyses and the budget | worklist order, missing edges, termination with phis, handlers, irreducible loops |
| SSA destruction, `core/ssalower` | value registry, edge plans, copy groups | plan edges, split, schedule copies, execute | consumes the solver's SSA, edits the IR | lost copies, swaps, critical and exception edges |
| Copy scheduler, `core/ssalower/copy.go` | pending copies, reverse index, two heaps, temporaries | sequentialize, SequentializeChecked | called per edge; charges the budget | in-place maintenance of four indexes |
| Method IR, `core/methodir` | blocks, instructions, typed edges, an edit epoch | build, edit, Seal | produced once, read by all analyses | stale analyses after an edit |
| Graph analyses and cache, `core/t26_graph_cache.go` | map and LRU list under a mutex | lookup, insert, evict, resize | shared by all methods | stale entries, map and list disagreeing |
| JSR inlining, `core/jsr` | subroutine instances | inline | before the IR | recursion, limits |
| Statement rewriting, `core/rewriter` | statement tree | structure recovery passes | after SSA | rewriting until nothing changes |
| Native member transactions, `classparser/native_member_transaction.go` | one transaction per class family, plans, byte allowance | build once, publish a cycle, look up | the archive's classes, several goroutines | all-or-nothing publication, mutual waiting |
| Archive file systems, `internal/filesys`, `classparser/fs.go` | open archives, a cache of those inside, entry streams | Open, ReadFile, Stat, ReadDir, nested open | budget, jar parser | check-then-act on the cache, billing of half-read streams |
| Jar parser and exporter, `classparser/decompiler/jar` | class index, manifest, output tree | parse, nested classes, export | archive file systems | nested jars, partial output |
| Class reader and builder, `classparser` | constant pool, members, attributes | parse, build, dump | pure over bytes | malformed input (unit tested) |
| Policy environment, `internal/jdecenv` | stack of live frames per goroutine, snapshots | EnterLive and its undo, Snapshot | read by all stages | undo out of order |
| TTL cache, `internal/utils/cache.go` | entries, loader | Get, GetOrLoad, Delete, Close | archive and export paths | loads racing deletes |
| File monitor, `internal/filesys/fs_monitor.go` | two trees, event channel | poll, compare, publish, stop | user callbacks | shutdown, unlocked read |
| Others | ordered map, in-memory file, Java serialization, ZIP reader and writer, DEX conversion, tooling | | | see section 11 |

What makes each part correct:

- **Budget.** Aggregate work never passes the request's limit; a refusal commits
  nothing; after the first failure nothing is granted; the depth gauge unwinds.
- **Copy scheduler.** The emitted serial moves equal the simultaneous assignment,
  with one temporary per cycle, and change no value's computational category.
- **Frames and solver.** The solution is a fixed point, independent of the order
  of the worklist; a phi's inputs are exactly the definitions that reach it; wide
  values move whole; handlers see the locals from before the throwing instruction.
- **Destruction.** Executing the lowered program gives each phi the input of the
  edge taken; a split edge preserves paths.
- **Graph cache.** A lookup never returns an analysis of an earlier epoch; map and
  list hold the same keys, within the capacity.
- **Native members.** A cycle of families publishes together or not at all; no two
  goroutines wait on each other; what is answered does not depend on who asked first;
  a class is nested or a file of its own, for everybody.
- **Archives.** A read delivers the whole entry at its path or fails; whatever is in
  memory was billed, also what two goroutines opened at once or a failed read got.

`PROJECT.json` lists every hazard at its source line with the property that covers
it, or the module planned for it.

## 2. The copy scheduler

`ParallelCopy` is the abstract promise: a group of phi copies happens at once
(`ParallelEval` of `core/ssalower/copy.go`), or is refused with no effect.

`Sequentialize` is the code. `Scan` and `Reject` are the linear validation pass of
`sequentializeChecked` with the type and identity checks of `identity.go`;
`PopReady` is one turn of the inner loop, stale heap entries included; `BreakCycle`
saves the smallest pending destination to a fresh temporary and redirects its
readers; `Finish` registers the temporaries. `OutOfWork` is the work counter
refusing a charge anywhere before the end, `RegistrationCut` its refusing one while
temporaries are being registered: those entered so far stay in the registry and no
plan is returned. The moves are executed on symbolic values as they are emitted: the
old value of variable `v` is the name `v`, so one behaviour stands for every store.
The two heaps are sets from which the minimum is taken, which is what a binary heap
of distinct ids returns.

Run **copies** (33,412 states): every group over four of six variables, self copies
included, every permutation of six variables, and malformed groups, under four
registries of types. Six variables give the longest chain feeding a cycle, two
cycles with readers hanging off them, and three cycles when only two temporaries
are left, so that every branch of the scheduler and both failures occur. The run
checks that the reverse index and both heaps stay exact (`ReadersInverse`,
`HeapsExact`), that no value still wanted is overwritten (`NoValueLost`), that the
plan is no longer than necessary (`OneTemporaryPerCycle`), that moves through
temporaries keep types (`MovesKeepTypes`), and that the whole implements
`ParallelCopy!Spec`, liveness included (`ImplementsParallelCopy`).

Fairness is WF on the scheduler's own steps: one goroutine runs the loop to its
end, with no lock, channel or callback in it. Running out of work is never forced.
The system stops when the plan is returned, so deadlock is not checked.

## 3. The work budget

`RequestMeter` is the abstract promise a caller relies on: the work granted never
passes a bound, and nothing is granted after a refusal.

`WorkBudget` has one action for each critical section of `budget.go`. Methods with
one section are one action; `Writer.WriteString` is two (`WriteAlloc`,
`WriteOutput`), with the actions of other goroutines in between. Archive entries are
charged as `ReadArchiveStream` (`internal/filesys/t23_archive.go`) charges them. For
each chunk that a goroutine reads, `EntryCheck` and `EntryBytes`, the two sections of
`CheckArchiveEntryBytes`, check the bytes read up to now (`Seen`); then `EntryTotal`
bills the chunk alone (`due`) and it is kept (`kept`), or nothing is billed, because
the entry is too large by its header or by its bytes for a limit of the reader's own.
`EntryDone` is the end of the stream or an error in it. `ChargeArchiveEntryBytes`, a
check and a bill of the same size, is the case of one chunk. `Cancel` is the
context ending at any moment. `MaxInt` stands for `math.MaxInt64`: sums are compared
with it exactly where the code compares. `depth`, `direct` and `gone` are history
variables: the levels each goroutine has entered and not left, the work charged
to `request_work` by name, and the archive bytes charged by name or for entries that are
no longer read. `Enter` carries two bounds of the exploration, both named
in the module: `MaxDepth` levels per goroutine, and `nesting < MaxInt`, because the
code increments that gauge without an overflow check and 2^63 levels are out of any
stack's reach.

Run **budget** (646,028 states): two goroutines, `MaxInt` 3, four sets of limits. In
`Tight` every counter meets its limit. In `Streams` an entry takes two chunks of a byte, two
entries together pass the archive total, the request's work can run out in the middle of an
entry, and goroutines recurse up to two levels in all, so that one's levels keep the other
from entering. In `Loose` the request and the reads are unlimited, and in `Writers` the
output, so that the integer range stops them. Two goroutines are enough for every pair of
critical sections to interleave, and nothing in the code counts goroutines; chunks of
other sizes are left to the proof. The run checks

- limits under every interleaving (`LimitsHold`);
- that the aggregate is the sum of its parts, no unit twice and none left by a refused call
  (`WorkAccounted`);
- that the archive total is every byte read, of entries being read, read or given up, once
  (`EntriesBilledOnce`): its mutant bills the running count with each chunk, which an entry
  of one chunk would not show;
- that the shared depth gauge is exactly the sum of the goroutines' own depths
  (`DepthExact`), and returns to zero after a failure (`Unwinds`);
- that a Writer's text stays under the cap although its check and its append are separate
  (`WriterBounded`);
- that a failed budget grants nothing and keeps its first error (`FailClosed`), and that the
  whole implements `RequestMeter!Spec` (`ImplementsMeter`).

Fairness is WF on a goroutine's `Unwinding`: finishing a method it is inside or the
stream it reads, which ends at a refusal at the latest, and
leaving a level it entered, which the code does in deferred calls. Nothing else is
forced. The environment may stop calling, so deadlock is not checked.

## 4. The SSA solver

Four modules, each on top of the one before.

`Frames` is `core/frametransfer` with, in each cell, the origin that
`ssabuild/origins.go` keeps beside the type: what value is there, not only of what
type. `Put` is `storeLocal`, `Transfer` the normal effect of an instruction,
`Exceptional` the frame a handler is entered with, `JoinTypes` and `JoinFrames` the
merge. Locals keep the JVM's slots, so that a long is a head and a tail and can be
cut; the operand stack has one cell per value, because the code always moves both
words of a wide value together. Int stands for the one-slot numbers and Long for the
two-slot ones; ints wrap at `IntSize`. The sixteen instructions are those that move,
overwrite, fold, cast, construct or throw; arrays, fields, `UninitThis` and the
`max_stack` limit are left out.

`Equations` states, for a method and the frames its edges carry, what each block is
entered with (`Merge`, by `JoinAll`), what a walk of it computes (`Trace`) and what its
edges then carry (`Carried`). `WellFormed` is what `MethodIR` hands over: blocks of
well-formed instructions, edges that leave a block at one of its instructions, an order of
the edges' ids, and declared locals in which a head and its tail are adjacent and which are neither constants
nor new objects (only `new` makes one: the type names its site). `ClassNames` are the classes
the program and its methods can name. An edge without a frame is absent from the map, not Top. Edges are numbered as in `ir.Edges`,
but joined in the order of their ids as strings (`solver.go:70`), in which `12>40` comes
before `7>40`: that is `order` (`InOrder`). In the runs an instruction is one byte long
(`ByName` in `MCMethods`). `Round`
and `Solution` are the reference: all blocks at once, repeated to the least solution.

`Solver` is `ssabuild.Build`. `Visit` is one turn of the worklist loop: pick by FIFO,
LIFO or shuffle, merge, `Skip` if the block was entered with this frame before, else
`Propagate`: walk it, replace the edges that changed, enqueue their targets; a failing
join or transfer is `Reject`. `Finish` is `assignPhis` and `simplifyPhiCopies`: phi
components with one outside value denote it, inputs before users. `OutOfWork` is the
work counter refusing at any moment. `bindValues`, which numbers the values, is left
out.

`Execution` says what the result is for. After the solver, a JVM runs the method
along every path, exceptions included, beside the SSA form: an environment from
origins to values that each defining instruction and, on each edge, all phis of the
target update, as `executeObservedSSAParameters` of the package's tests does. A value
carries the parity of its creation, so that an older value of the same instruction is
told from the newer one.

The methods (`MCMethods`) are 36 loops and 36 two-entry loops whose two arms take
every pair of {nothing, swap, copy, copy back, increment, constant}, and 16 others
for what those lack: a loop at the entry block, a wide local through a loop with two
paths, stores into either half of a wide local, handlers between stores, nulls and
classes, a constructor that throws, conditional expressions, and illegal methods that
must be refused.

Run **solver** (12,551 states, 88 methods, all three orders): no update is lost
(`Settled`), wide locals stay whole (`PairsWhole`), all orders end in the least
solution (`OrderIndependent`), no legal method is refused for what one order sees on
the way (`AcceptsLegal`), every phi kept has two values from outside its cycle
(`PhisNeeded`), and the loop stabilises (`Terminates`) without help from the work
limit. The mutant of `Terminates` collapses equal operands while solving, which is
the mistake the comment at `solver.go:128` warns of: the run finds the alternation.

Run **execution** (11,220 states): at every point of every path each usable local and
each stack entry is the value of the origin the solver gave it (`Simulates`), and the
frames describe it (`FramesSound`): kinds, halves, folded constants, classes, and
which objects are initialised. FIFO suffices, since all orders end in the same frames.

Fairness is WF on the next step: one goroutine runs `Build`. `OutOfWork` is owed
nothing, so behaviours in which work never runs out have to end by themselves. The
build stops when it is done, so deadlock is not checked; the machine of `Execution`
stops at a return.

## 5. A finding: nulls that chase each other

Run **rotation** expects a violation of `Terminates`. CHECKCAST writes its class into
the type of a null (`frametransfer/transfer.go:302`), `JoinTypes` of two nulls returns
the second with its class (`frametransfer/frame.go:485`), and `Type.Equal` compares
the class. The join is therefore not commutative, although the tests and the evidence
of the package say joins are (`draft_followup_test.go:189`, `R02_EVIDENCE.md:22`; the
random test only uses nulls that were never cast). In a loop of three blocks entered
at each of them with a null cast to another class, each block keeps handing the class
it got to the next one: the three classes rotate, FIFO never empties the worklist, and
`Build` ends only when the work limit does (`analysis_budget_exceeded`). It takes an
irreducible loop, which javac does not write; the methods of run **solver** cast no
null before a loop.

## 6. SSA destruction

`Destruction` is `ssalower.DestroyWithWorkCounter`, on top of `Execution`: when the
solver is done, `Lower` makes the plan, and from then on the program that follows the
plan runs beside the JVM (`LoweredCall`, `LoweredStep`, `LoweredBranch`,
`LoweredThrow`), with one variable for each value. `Info` is the registry's type of a
value: that of its block for a phi, otherwise the one it was last met with. `Splits`
are the critical edges with moves, `Copies` the moves of an edge, `Spills` what is
written before an instruction that may throw, for all its handlers, and `Caught` what
a handler's exception is bound to. `Refusal` gives the reason the plan is refused for:
a phi that is not registered, a handler that cannot be served, a copy that would
convert. Copies of one edge happen at once; that the scheduler's serial moves do the
same is what `Sequentialize` shows.

The plan says what is copied on an edge and which edges are split. The emitter it is
for is not in the repository yet, so the model puts the copies of the other edges where
blocks have room: at the end of the source if it has no other way out, else at the head
of the target.

Run **edges** (104,812 states): guarded calls in loops, under one handler or two nested
ones, a handler that guards itself, wide locals, and the methods of the solver's runs.
On every path, exceptions included, each variable holds what the JVM has in the local or
stack entry it stands for (`EmitsSame`), and a plan is refused for its copies only if one
of them converts a value (`RefusesConversions`). `IntSize` 2 is enough, because values
are told apart by the instruction and the round that made them.

`EmitsSame` leaves two cases out by name (`Interference`):

- A handler that guards code in which its phis are still in use, as the one javac writes
  to leave a monitor does. The spill before the second call then overwrites the phi that
  holds the old value. `plan.go:14-16` speaks of a dedicated local for each handler phi,
  which would prevent it; it is left to the emitter, and the model has no such local.
- A loop at the very start of the method, which is the first finding.

Run **entryloop** expects a violation of `PlanComplete`. `DestroyWithWorkCounter`
counts the ways into a block over the edges of the IR, and the way into the method is
none of them. A conditional back edge to the first block is critical all the same. It
is not split, and its copies also run when the method is entered.

Run **constructed** expects a violation of `CopiesInitialised`. The registry knows the
type of a value from the instructions it is met before. An object whose constructor is
the last instruction of its block is met initialised only on the edge, so that the copy
into the phi of `c ? new A() : new B()` is refused as a copy of an uninitialised object.

No fairness is assumed: all three properties are invariants. A method stops at a return,
so deadlock is not checked.

## 7. Graph analyses and their cache

`Dominance` has the algorithms of `core/regions.go`, `core/t09_reducibility.go`,
`core/t26_graph_cache.go` and `rewriter/dominator-tree.go` as operators: depth-first
numbering, iteration to a fixed point, intersection along the tree, postdominators with
the virtual exit and the sentinel of parts that never end, the loop forest, and
reducibility from entries and handlers. `Analyses` says by paths what their answers
mean, without any of these.

Run **analyses** (66,066 states): every graph of four nodes with at most two successors
each (up to the names of the nodes), and graphs with one or two handlers; entry domains
of one and of two roots. Four nodes are enough for nested loops, loops that overlap,
loops with two entries, infinite parts beside several exits, and unreachable parts with
cycles of their own. A behaviour asks one query, so deadlock is not checked.

`GraphCache` is the LRU cache with the mutable graphs that use it. The mutex covers the
whole of `getOrCompute`, so a call is one step; every edit bumps the epoch of its graph,
which is part of the key. `AnalysisOracle` is what callers rely on: each query is
answered from the graph as it is at that moment.

Run **cache** (34,358 states): two graphs sharing a cache, two queries with the real
dominators, capacities zero (which becomes one) and two, two edits of one graph. The map
and the list name the same keys (`MapMatchesList`), whatever is evicted was used longer
ago than all that stays (`LeastRecentLeaves`), and the whole implements the oracle
(`AnswersAreCurrent`). `MaxEpoch`, `MaxNodes` and `MaxRecent`, the length of the history
of keys, bound the exploration.

## 8. Native members

`NativeMembers` is how the source of a family of classes (a class and those nested in it)
is completed on demand. A goroutine is a stack of calls: `Read` is
`nativeMemberLookupMode`, first alone (`Alone`, the family's `sync.Once`), then together
with the families it depends on in a cycle (`Together`, `Claim`, `Load`, the transaction's
`sync.Once`); `Finish` is `finishNativeMemberFamily`, which reads the families it refers
to and so nests; `Build` is `buildNativeMemberTransaction`, which finishes all the
families of a cycle and publishes all of them or none (`PublishAll`). `Depends`, `Component`
and `Cyclic` are the dependency admission that decides which families may complete alone
(`Reachable` is the least set closed under `Depends`);
`Terminal` and `Settled` are the two ways in which a static class becomes a file of its
own, for good. `Looked` is one step, though `completedFlatStaticDeclaration` decides in several
sections: a family or a component that has failed stays failed, and whether anybody has
claimed the family meanwhile is asked again under the lock that commits it
(`native_flat_static_declaration.go:141`). `Reserve`, `Publish` and `OtherView` keep the byte allowance, of a view and
of the ledger the views share.

What a family refers to, whether its plan is refused and whether its final source is
proved are facts of the world, which the code computes from the archive alone. A source
has size one. One policy is modelled, without the limits on the cache and on components,
dependency hints, independent static roots and the work budget.

Run **families** (77,638 states): three families in six shapes (cycles of two and three,
a family that two share, a protected class used elsewhere), each family in turn refused
or unproved, and a tight allowance with another view taking its part; two goroutines and
two reads. Three families are enough for a cycle with something outside on either side,
and two goroutines for each pair of once-guards to meet.

- `OneLayout`: once a source names a class as a file of its own, its family is never
  published with that class inside.
- `ReadsAgree`: while the allowance suffices, every answer is what the archive alone says
  (`Sound`), whatever was asked before or is being completed elsewhere.
- `AllowanceExact`: every source kept is charged once, to the view and to the ledger.
- `ReadsReturn`: no goroutine waits for a completion that waits for it.

Fairness is WF on each goroutine's `Step`: a goroutine that is not blocked goes on. Nobody
has to ask. The system stops when the reads are used up, so deadlock is not checked;
a reader blocked for ever violates `ReadsReturn`. Two refusals are never reached in this
model: that of `Claim`, because a family that is flat by then has failed alone and together,
and that of `Publish`, because the ledger reserved before is the smaller allowance.

## 9. Archives inside archives

`NestedArchives` reads an entry through `ExpandedZipFS` and `JarFS`. `Look` is one level of
`ReadFile`: the check of the request's work, the cache, the charge of the depth. `Chunk`
and `End` are `ReadArchiveStream`, `Reject` its refusal by the header. `Catalog` and
`Opened` are the opening of the archive and its place in the cache of its container, in
which two goroutines that missed together each put their own. The budget is the part of
`WorkBudget` they share: two counters, whether it has failed and whether the context is
done. `Cancel` is the request's context ending, `Exhaust` its work running out anywhere
else. They are told apart because the end of a stream (`End`) asks only the context, and not
even that if it comes with the last chunk: an entry whose bytes are all billed is delivered
although the budget has failed meanwhile.

Run **archives** (367,029 states): an archive in an archive, with the same names at each
level; two goroutines and four reads; a roomy world, one with each limit too tight, one
without recursion, a header that admits too much, one that lies, and a damaged archive.
Four reads are more than there are goroutines, so that a missing or overwritten cache
entry would show.

- `ReadsWhole`: a read delivers the entry at the wanted path, whole, through archives
  that are whole and within the limits.
- `KeptIsBilled`: all that is in memory was billed within the limits, copies that lost
  the race and reads still going on included, and each goroutine opens at most one copy
  of an entry of a file system.

Paths that mix suffixes are left out. `parseArchivePath` cuts a path at the first suffix
of a fixed list (`.jar` before `.war`), so that `a.war/b.jar/X.class` is read by way of
`a.war/b.jar`: the jar is opened at the depth of the war, and `MaxArchiveDepth` 1 does not
refuse it, as it refuses a zip in a zip (`t23_archive_test.go:65`). No property covers that
hazard yet. Listings, which open archives in the same way, and the choice of entries by
release are left out too.

No fairness is assumed; the reads end, so deadlock is not checked.

## 10. Proofs

Every theorem holds for all values of the constants that satisfy the named
assumptions: finite positive ids and a larger id limit, groups that are sequences of
copies, registries that give each variable a type (`Sequentialize`); finitely many
goroutines, a positive integer limit, limits, costs, sizes and chunks within it, and no
configured limit for the two counters `limitFor` does not know (`WorkBudget`); a set of
class names with `Object` and `Throwable` in it and a positive `IntSize` (`Frames`);
well-formed methods (`Solver`); first graphs that are functions of the ids and integer
capacities (`GraphCache`); finitely many goroutines and worlds of the right type
(`NestedArchives`, `NativeMembers`), in `NativeMembers` with finitely many families,
none of which refers to itself. No bound of a run is assumed.

`OrderLemmas` has the facts about finite sets of numbers and sums the other modules
need: a least element (`LeastUpTo`), that ranking the elements, or placing them by a key,
lists each of them once (`PlaceIsBijection`), and how a sum
over a finite set changes with one of its terms.

`SequentializeProofs`. `TypeInv` is `TypeOK` with two facts the steps need: while the
group is scanned no temporary has been taken, and once it is accepted every
destination has one source and all ids are registered. `ScheduleInv` is
`NoValueLost`, `ReadersInverse` and `HeapsExact` together, with what is pending being
part of the group. None of the three is inductive alone: a move is harmless because
its destination has no readers, which is known from the index, which is exact because
every step that takes a copy off it updates both. From them follow `Typing`,
`Correctness` (`NoValueLost`), `IndexExact` (`ReadersInverse`), `Heaps` (`HeapsExact`),
`NeverStuck` (when only cycles are left there is always a victim, so "cycle requires
fresh temporary" only means that no id is left) and `Refinement`, the safety part of
`ParallelCopy`, for which `AcceptedInv` adds that a group being scheduled passed the
checks. `Categories` (`MovesKeepTypes`) rests on `MovesInv`: a temporary is written by
one move, which saves a variable, and a pending copy reads a value of the type its source
had. `Shortest` (`OneTemporaryPerCycle`) rests on `CountInv`: the temporaries are as many
as the cycles of the group that are no longer intact. A move touches no intact cycle, for
whoever is ready has no readers. When nothing is ready each pending destination is read by
another pending copy, so that the pending copies permute a finite set; each of them is on an
intact cycle (a walk meets some variable twice), and breaking one breaks no other.

`WorkBudgetProofs`. Each critical section is first shown to have one of two effects
(`StepHasEffect`): either the counters and the direct work stay, or the budget is
live, every counter grows within its limit, and `request_work` grows by the sum of
the others and of what was charged to it by name. In both the first error stays. The
invariants are then proved per effect, not per method. The theorems are `Typing`,
`Limits`, `Accounting`, `Levels` (`DepthExact`: the gauge is the sum of the goroutines'
levels), `Writers`, `Entries`, `Closing` and `MeterRefinement`. `Entries`
(`EntriesBilledOnce`) rests on `EntryInv`: what a reader has and is about to be billed for is
the size it had checked, and once past the check is within what the cap has admitted. The
archive total changes in two ways only, by what a goroutine bills by name and by the chunk it
keeps, and dropping an entry moves its bytes from `kept` to `gone`.

`FramesProofs`. What one step of the solver computes, for every frame and instruction.
`TransferSound`, `HandlerSound` and `JoinSound`: from well-typed frames whose wide locals
are whole come well-typed frames whose wide locals are whole, and the two halves of a local
have the same origin. `JoinCovers`: a join is an upper bound of what it joins (`Below`, for
types, is what values of one type are of the other). `LinkedTransfer`: run on two frames with
the same types whose origins are related cell by cell, an instruction either fails on both or
yields two such frames again, the relation growing by what it defines. `SameTransfer`, that
what it does to types does not depend on the origins, is one instance; renaming phis and
placing origins are others.

`SolverProofs`. `NoUpdateLost` (`Settled`) and `FixedPoint` (an empty worklist means
that one more round changes nothing) hold for every method and every order, and for
any transfer and join: `Merge`, `Trace` and `Carried` are never expanded. `Settled` is
not inductive: a `Skip` is harmless only because the edges of a block carry its last
walk even while it waits (`WalkedInv`), and every frame on an edge comes from a block
that was walked (`ReachInv`), without which an edge could hold a frame no equation
gives it. `EnqueueFacts` shows that enqueueing by rank misses no target and repeats
none. `Stored` (`TypeOK`) and `Pairs` (`PairsWhole`) do expand them: in `SoundInv` every
frame on an edge and in a block is a well-typed frame with the method's number of locals,
wide ones whole, until the method is rejected. `Trace` and `JoinAll` are recursive
functions; that a solution of their equations exists is shown from the shortest prefix of
the block that would have none.

`FramesDescribe` (`FramesSound`) puts the JVM beside that, in two halves. For the solver
(`FlowInv`): once solved, every block can be walked from its frame without a failure, and
the frame of a target covers what each edge into it carries. This holds at `Finish`, by
`Settled` and `MergeCovers`, and renaming the phis does not disturb it (`TraceSame`). For the
machine (`MachineInv`): the frame at its instruction describes locals and stack
(`Describes`). That alone is not inductive. When a constructor returns, `initialize` changes
the cells of one type while the JVM changes one object, so that these have to be the same
cells: a function from the types of objects not initialised yet to values says what each
such cell holds, and where a `new` is about to run again no cell is left with the object it
made before (`Unmade`, kept because the type of a new object names its site, `OnePC`). Each
instruction keeps the description (`RunDescribes`), and so do a throw (`ThrowDescribes`) and
following an edge (`FollowReady`). Run **execution** was also checked with these
invariants, the function written out as agreement of the cells of one type.

The other two theorems are about the names. `PhisNecessary` (`PhisNeeded`): for any
equations, `Representative` gives all phis of a cycle one name, and a phi is replaced just
when what enters its cycle, itself replaced first, has one name; the phis that stay have among
themselves the cycles they had, and into a cycle comes what came into it, renamed, so that
nothing is left to replace. `Component` is a closure that ends because a set of phis can grow
only as often as there are phis (`Grown`), and inputs come before users because a cycle
reaches less than what it feeds (`Weight`).

`Simulation` (`Simulates`): the machine's environment has, for each usable cell of the frame,
the value that is in that place (`MachineNames`). A step keeps this if the name it defines
is on no usable cell that is left from before. An instruction that runs again in
a loop does give its old name again, and it is the solver that must have put a phi over it on
the way: that is `DepthInv`, by which every block is entered by an edge from a block less
deep, so that in a converged method each cell is named by its own block, by a phi at its
entry, or by a block less deep (`Placed`). Over an edge the value has to change its
name: a cell of the target is named by a phi whose operand for this edge is the name it had,
or keeps its name (`NamesInv`, `Passes`), also after the phis that only copy are renamed. For
a throw the frame delivered is the one before the instruction.

`GraphCacheProofs`. `Coherence` (`MapMatchesList`), `Recency` (`LeastRecentLeaves`) and
`Currency` (the cache implements `AnalysisOracle`), for any analysis. The invariant `IInv`
adds to the first two that the history repeats no key, that no key has an epoch still to
come (`PastKeys`), and that an entry with the present epoch of its graph is the analysis of
the graph as it is (`Fresh`): a hit is right because an edit leaves all entries of its graph
behind. The lemmas say what moving, pushing and trimming do to a list without repetitions.

`NativeMembersProofs`. `Layouts` (`OneLayout`), `Allowances` (`AllowanceExact`) and
`Answers` (`ReadsAgree`). The invariant is about whole call stacks: a frame knows what has happened to the family or
component it is about (`FrameSound`), a finish that called is looking up its current
reference (`Linked`), and no two frames anywhere complete the same family alone or the same
component together (`NoRivals`), because each such frame was pushed by whoever made its
once busy. Published or named flat, the outcome of a family is settled (`Outcomes`): alone
it is done and failed, and if it has peers their transaction is done and failed too. The
hard case is a family of a cycle that tries alone: it gets no further than its first
reference into the cycle (`SoloSound`), so its attempt never publishes what the transaction
may publish as well. For `Allowances`, what the ledger has beyond the published sources is
counted by the goroutines between their reserve and their publish. `Answers` has two
directions (`AnswersInv`). A published source stands on published ones: a finish keeps what
it has passed (`Passed`), and a build knows that all participants it has finished are ready
but the one it is calling for (`Unready`, `Builds`). The other direction holds while there
is room for every family (`Room`: the ledger counts different families, and the one to be
charged is none of them): what is done and has failed is in no set of families that stands
(`Lost`, `Best`), because what stopped a finish stops it in every such set (`Obstacle`), and
an answer means the same to the caller that waits for it (`Heard`). That the largest such set
is `Sound`, which does not mention components, is `BestIsSound`. Run **families** was also
checked with `AnswersInv`.

`NestedArchivesProofs`. `WholeReads` (`ReadsWhole`). The invariant relates each open archive
to its path and depth (`Contents`), each cache to the contents of its container (`Cached`), and
for each goroutine what it has passed and what is left of its path to what it wants
(`OnTheWay`, `Checked`): a goroutine may go on in an archive that is no longer in any cache,
and still reads what it was asked for. `Retention` (`KeptIsBilled`) adds the books
(`BillInv`): the counters are the sums of what is kept and of what each goroutine has in
hand, and a goroutine has at most one copy of an entry of a file system. Run **archives** was
also checked with `IInv`.

Only model-checked: that the solver's solution is the least one (`OrderIndependent`;
`FixedPoint` proves it is one, and the first finding shows a method without an end), that no
legal method is refused (`AcceptsLegal`; that a method is legal is a given fact of it),
the properties of `Analyses` (`DominatorsExact`, `PostDominatorsExact`, `LoopsNest`,
`ReducibleExact`) and of `Destruction` (`EmitsSame`, `RefusesConversions`), whose modules use
recursive operators, and everything that
rests on fairness (`Unwinds`, `Terminates`, the liveness part of `ImplementsParallelCopy`,
`ReadsReturn`), which TLAPS cannot prove.

## 11. Not modelled

Pure functions over bytes or text (class reader, ZIP structures, DEX translation,
Java serialization, rendering) keep no state a model checker would explore better
than the repository's own tests do. Statement rewriting is a large term rewriting
system whose correctness is about Java semantics, out of TLC's reach. Libraries and
generated code are left out, and with them most of the source: the model covers the parts
that keep state, share it or iterate to a fixed point. JSR inlining, the values and
statements, the export of JARs and the command line are sequential translations of the
same kind. The TTL cache, the file monitor, the policy environment and the jar parser's
class index are planned.

## 12. Plan

Done: the copy scheduler, the budget, the SSA solver, its destruction, the graph analyses
and their cache, the completion of native members, nested archives. Left, in order of
importance:

1. Proofs: `EmitsSame` of `Destruction`, from `Simulation` and the theorems about the copy
   scheduler, once the recursive operators of the modules it uses are functions.
2. Solver: `UninitThis` and the initialization flag of constructors, `max_stack`.
3. Native members: independent static roots, the limits on the cache and on components.
4. Archives: paths that mix suffixes, the choice of entries by release, and the class
   index of the jar parser, which looks a jar two levels deep up in the outermost file
   system.
5. `TTLCache`, `FileMonitor`, `PolicyEnv`: small concurrent components.
