---------------------------- MODULE NativeMembers ----------------------------
(***************************************************************************)
(* The source of a family of classes (a top-level class and the classes    *)
(* nested in it) is completed once per archive and policy, on demand and   *)
(* by whoever asks first: alone (nativeMemberEntry) or, when families      *)
(* depend on each other, together with its whole component                 *)
(* (nativeMemberTransactionEntry).  Completing a family looks up the       *)
(* families it refers to, which may complete them on the way.              *)
(*                                                                         *)
(* A family is published with its nested classes inside (lexical), or else *)
(* its static classes are separate files (flat); whoever names one of them *)
(* must know which.  One policy is modelled.  The planning of a family, a  *)
(* pure function of the archive, and what its final source must satisfy    *)
(* are constants of the world; independent static roots, the limits on the *)
(* cache and on the size of components, and the work budget are left out.  *)
(***************************************************************************)
EXTENDS Integers, Sequences, FiniteSets

CONSTANTS
  Readers,    \* the goroutines that ask for sources
  Worlds,     \* the archives considered
  MaxReads    \* how many times they ask in all

\* In a world: the families; the references of each, in the order finish
\* meets them, to classes nested in other families, as [to, static]; the
\* families that use a protected class nested in each; those whose plan is
\* refused; those whose final source is not proved; the bytes allowed;
\* whether views for other releases use them too.
ASSUME WorldsAssumption ==
  \A w \in Worlds :
    /\ IsFiniteSet(w.families)
    /\ w.refs \in [w.families -> Seq([to : w.families, static : BOOLEAN])]
    /\ \A f \in w.families : \A i \in DOMAIN w.refs[f] : w.refs[f][i].to # f
    /\ w.users \in [w.families -> SUBSET w.families]
    /\ \A f \in w.families : f \notin w.users[f]
    /\ w.refused \subseteq w.families /\ w.unclosed \subseteq w.families
    /\ w.families \subseteq Nat /\ w.limit \in Nat /\ w.shared \in BOOLEAN

ASSUME ReadersAssumption == IsFiniteSet(Readers)

ASSUME MaxReadsAssumption == MaxReads \in Nat

VARIABLES
  world,
  component,  \* nativeMemberCacheEntry.dependencyParticipants, once discovered
  single,     \* nativeMemberCacheEntry.once: "idle", "busy" or "done"
  claimed,    \* nativeMemberCacheEntry.transaction: its owners, or {}
  joint,      \* nativeMemberTransactions: owners -> state of once
  alone,      \* nativeMemberCacheEntry.family: published on their own
  together,   \* nativeMemberTransaction.entries: published with a component
  flat,       \* flatSourceCommitted
  ledger,     \* sourceOwnershipCache.bytes, shared with other release views
  bytes,      \* nativeMembersBytes, of this view
  elsewhere,  \* what the other views have of the ledger
  calls,      \* the call stack of each reader
  given,      \* what the last call returned to each
  reads,      \* how many reads have begun
  named,      \* the families somebody named flat
  told        \* the answers of lookups: of which family, is it lexical?

archive == <<world, component>>
sources == <<alone, together, bytes, ledger, elsewhere>>
vars == <<archive, single, claimed, joint, sources, flat, calls, given, reads, named, told>>

\* What nativeMembersBytes stands for.
published == alone \cup together

Families == world.families
Size == 1    \* of any source
-----------------------------------------------------------------------------
(* The completion graph.                                                   *)

Refs(f) == {world.refs[f][i] : i \in DOMAIN world.refs[f]}

\* Mutant: a family that nobody has planned yet is taken for one that is refused.
TerminalUntilPlanned(ref) == ref.static /\ (ref.to \in world.refused \/ single[ref.to] = "idle")

\* A class whose family will never be lexical has a name of its own.
Terminal(ref) == ref.static /\ ref.to \in world.refused

\* Mutant: a name that is flat for good is a dependency like any other.
DependsOriginal(f, g) == g \in world.users[f] \/ \E ref \in Refs(f) : ref.to = g

\* nativeMemberCompletionDependencyGraph.
Depends(f, g) ==
  \/ g \in world.users[f]
  \/ \E ref \in Refs(f) : ref.to = g /\ ~(f \notin world.refused /\ Terminal(ref))

Closed(S) == \A h \in S, g \in Families : Depends(h, g) => g \in S

\* The least set with f's dependencies and theirs.
Reachable(f) ==
  {g \in Families : \A S \in SUBSET Families :
     Closed(S) /\ (\A h \in Families : Depends(f, h) => h \in S) => g \in S}

\* nativeMemberSourceComponents: the archive and the plans settle it, whoever
\* discovers it first.
Component(f) == {f} \cup {g \in Reachable(f) : f \in Reachable(g)}

\* Mutant: every family may complete on its own.
CyclicNever(f) == FALSE

\* nativeMemberDependencyAdmission.
Cyclic(f) == component[f] # {f}
-----------------------------------------------------------------------------
(* Calls.                                                                  *)

\* nativeMemberLookup and nativeMemberSource.
Read(f) == [fn |-> "read", family |-> f, at |-> "once"]

\* finishNativeMemberFamily, alone or with the peers of a component.
Finish(f, peers) ==
  [fn |-> "finish", family |-> f, at |-> "scope", ref |-> 1, peers |-> peers]

\* buildNativeMemberTransaction: the participants not finished yet.
Build(c) == [fn |-> "build", owners |-> c, at |-> "finish", left |-> c]

Top(r) == calls[r][Len(calls[r])]
In(r, fn, at) == calls[r] # <<>> /\ Top(r).fn = fn /\ Top(r).at = at
Below(r) == SubSeq(calls[r], 1, Len(calls[r]) - 1)

Call(r, frame) == calls' = [calls EXCEPT ![r] = Append(@, frame)] /\ UNCHANGED given
Goto(r, frame) == calls' = [calls EXCEPT ![r] = Append(Below(r), frame)] /\ UNCHANGED given
GotoAndCall(r, frame, call) ==
  calls' = [calls EXCEPT ![r] = Below(r) \o <<frame, call>>] /\ UNCHANGED given
Return(r, value) == calls' = [calls EXCEPT ![r] = Below(r)] /\ given' = [given EXCEPT ![r] = value]

At(r, at) == Goto(r, [Top(r) EXCEPT !.at = at])

Init ==
  /\ world \in Worlds
  /\ single = [f \in Families |-> "idle"]
  /\ component = [f \in Families |-> Component(f)]
  /\ claimed = [f \in Families |-> {}]
  /\ joint = <<>>
  /\ alone = {} /\ together = {} /\ flat = {} /\ named = {} /\ told = {}
  /\ ledger = 0 /\ bytes = 0 /\ elsewhere = 0 /\ reads = 0
  /\ calls = [r \in Readers |-> <<>>]
  /\ given = [r \in Readers |-> FALSE]

Ask(r) ==
  /\ calls[r] = <<>>
  /\ reads < MaxReads
  /\ reads' = reads + 1
  /\ \E f \in Families : Call(r, Read(f))
  /\ UNCHANGED <<archive, single, claimed, joint, sources, flat, named, told>>
-----------------------------------------------------------------------------
(* A read: alone, then together.                                           *)

Answer(r, f, lexical) == Return(r, lexical) /\ told' = told \cup {[family |-> f, lexical |-> lexical]}

\* nativeMemberEntry.  Whoever finds the once busy waits until it is done.
Alone(r) ==
  LET f == Top(r).family IN
  /\ In(r, "read", "once")
  /\ \/ /\ single[f] = "idle" /\ f \in world.refused
        /\ single' = [single EXCEPT ![f] = "done"]
        /\ At(r, "joint") /\ UNCHANGED told
     \/ /\ single[f] = "idle" /\ f \notin world.refused
        /\ single' = [single EXCEPT ![f] = "busy"]
        /\ Call(r, Finish(f, {})) /\ UNCHANGED told
     \/ /\ single[f] = "done"
        /\ IF f \in alone THEN Answer(r, f, TRUE)
           ELSE At(r, "joint") /\ UNCHANGED told
        /\ UNCHANGED single
  /\ UNCHANGED <<archive, claimed, joint, sources, flat, reads, named>>

\* nativeMemberTransactionEntry, up to its second lock.
Together(r) ==
  LET f == Top(r).family IN
  /\ In(r, "read", "joint")
  /\ IF claimed[f] # {} THEN At(r, "load") /\ UNCHANGED told
     ELSE IF f \in world.refused \/ ~Cyclic(f) THEN Answer(r, f, FALSE)
     ELSE At(r, "claim") /\ UNCHANGED told
  /\ UNCHANGED <<archive, single, claimed, joint, sources, flat, reads, named>>

\* Its second lock: the whole component is claimed, unless one of its
\* families is flat for somebody.
Claim(r) ==
  LET f == Top(r).family
      c == component[f]
  IN
  /\ In(r, "read", "claim")
  /\ IF c \cap flat # {} THEN Answer(r, f, FALSE) /\ UNCHANGED <<joint, claimed>>
     ELSE /\ joint' = IF c \in DOMAIN joint THEN joint
                      ELSE [d \in DOMAIN joint \cup {c} |-> IF d = c THEN "idle" ELSE joint[d]]
          /\ claimed' = IF c \in DOMAIN joint THEN claimed
                        ELSE [g \in Families |-> IF g \in c THEN c ELSE claimed[g]]
          /\ At(r, "load") /\ UNCHANGED told
  /\ UNCHANGED <<archive, single, sources, flat, reads, named>>

\* loadNativeMemberTransaction.
Load(r) ==
  LET f == Top(r).family
      c == claimed[f]
  IN
  /\ In(r, "read", "load")
  /\ \/ /\ joint[c] = "idle"
        /\ joint' = [joint EXCEPT ![c] = "busy"]
        /\ Call(r, Build(c)) /\ UNCHANGED told
     \/ /\ joint[c] = "done"
        /\ Answer(r, f, f \in together)
        /\ UNCHANGED joint
  /\ UNCHANGED <<archive, single, claimed, sources, flat, reads, named>>
-----------------------------------------------------------------------------
(* finishNativeMemberFamily.                                               *)

\* What follows a finish that failed: the once of its family is done, or the
\* build it belongs to learns of it.
Fail(r) ==
  /\ Return(r, FALSE)
  /\ single' = IF Top(r).peers = {} THEN [single EXCEPT ![Top(r).family] = "done"] ELSE single

Ref(r) == world.refs[Top(r).family][Top(r).ref]
More(r) == Top(r).ref \in DOMAIN world.refs[Top(r).family]
NextRef(r) == Goto(r, [Top(r) EXCEPT !.at = "refs", !.ref = @ + 1])

\* nativeMemberAccessRepresentable: whoever uses a protected class of the family
\* must become lexical with it.
Scope(r) ==
  /\ In(r, "finish", "scope")
  /\ IF world.users[Top(r).family] \subseteq Top(r).peers
     THEN At(r, "refs") /\ UNCHANGED single
     ELSE Fail(r)
  /\ UNCHANGED <<archive, claimed, joint, sources, flat, reads, named, told>>

\* The next reference: to a family that is flat for good, to a peer, or to a
\* family that has to be looked up, which a family alone may do only if the
\* lookups cannot lead back to it.
Refer(r) ==
  LET d == Ref(r) IN
  /\ In(r, "finish", "refs")
  /\ More(r)
  /\ IF Terminal(d) /\ d.to \notin Top(r).peers
     THEN NextRef(r) /\ named' = named \cup {d.to} /\ UNCHANGED single
     ELSE /\ UNCHANGED named
          /\ IF Top(r).peers = {} /\ Cyclic(Top(r).family) THEN Fail(r)
             ELSE IF d.to \in Top(r).peers THEN NextRef(r) /\ UNCHANGED single
             ELSE /\ GotoAndCall(r, [Top(r) EXCEPT !.at = "looked"], Read(d.to))
                  /\ UNCHANGED single
  /\ UNCHANGED <<archive, claimed, joint, sources, flat, reads, told>>

\* nativeMemberCompletedComponentRefusal.
RefusedTogether(f) ==
  claimed[f] = component[f] /\ joint[claimed[f]] = "done" /\ f \notin together

\* completedFlatStaticDeclaration: a family that has failed for good is flat
\* (one that is refused is Terminal and was not looked up).
Settled(f) ==
  /\ f \notin alone
  /\ Cyclic(f) => RefusedTogether(f)
  /\ claimed[f] # {} => RefusedTogether(f)

\* The lookup has returned.  Whether the family is flat is decided in several
\* sections, but what they found stays: a family that failed alone has failed,
\* and so has a component.  Whether anybody claimed it is asked again under
\* the lock that commits it as flat, which is this step.
Looked(r) ==
  LET d == Ref(r)
      naming == ~given[r] /\ d.static /\ d.to \notin Top(r).peers /\ Settled(d.to)
  IN
  /\ In(r, "finish", "looked")
  /\ IF given[r] \/ naming THEN NextRef(r) /\ UNCHANGED single ELSE Fail(r)
  /\ IF naming
     THEN /\ named' = named \cup {d.to}
          /\ flat' = flat \cup {d.to}
     ELSE UNCHANGED <<named, flat>>
  /\ UNCHANGED <<archive, claimed, joint, sources, reads, told>>

\* All references are bound; the final source is proved, or not.
Prove(r) ==
  LET f == Top(r).family IN
  /\ In(r, "finish", "refs")
  /\ ~More(r)
  /\ IF f \in world.unclosed THEN Fail(r)
     ELSE /\ IF Top(r).peers = {} THEN At(r, "reserve") ELSE Return(r, TRUE)
          /\ UNCHANGED single
  /\ UNCHANGED <<archive, claimed, joint, sources, flat, reads, named, told>>

\* Mutant: what other views retain is not counted.
ReservableHere(n) == n <= world.limit - bytes

\* reserveOwnershipSource.
Reservable(n) == n <= world.limit - ledger

Reserve(r) ==
  /\ In(r, "finish", "reserve")
  /\ IF Reservable(Size)
     THEN ledger' = ledger + Size /\ At(r, "publish") /\ UNCHANGED single
     ELSE Fail(r) /\ UNCHANGED ledger
  /\ UNCHANGED <<archive, claimed, joint, alone, together, bytes, elsewhere>>
  /\ UNCHANGED <<flat, reads, named, told>>

\* The family is published alone, within the allowance of this view.
Publish(r) ==
  LET f == Top(r).family IN
  /\ In(r, "finish", "publish")
  /\ single' = [single EXCEPT ![f] = "done"]
  /\ IF Size <= world.limit - bytes
     THEN /\ bytes' = bytes + Size
          /\ alone' = alone \cup {f}
          /\ Return(r, TRUE)
     ELSE Return(r, FALSE) /\ UNCHANGED <<bytes, alone>>
  /\ UNCHANGED <<archive, claimed, joint, together, flat, ledger, reads, named, told, elsewhere>>
-----------------------------------------------------------------------------
(* buildNativeMemberTransaction.                                           *)

Complete(r) == joint' = [joint EXCEPT ![Top(r).owners] = "done"] /\ Return(r, TRUE)

\* The next participant, in the order of their names.
Participate(r) ==
  LET c == Top(r).owners IN
  /\ In(r, "build", "finish")
  /\ Top(r).left # {}
  /\ IF c \cap world.refused # {} THEN Complete(r)
     ELSE /\ LET f == CHOOSE f \in Top(r).left : \A g \in Top(r).left : f <= g IN
               GotoAndCall(r, [Top(r) EXCEPT !.at = "finished", !.left = @ \ {f}], Finish(f, c))
          /\ UNCHANGED joint
  /\ UNCHANGED <<archive, single, claimed, sources, flat, reads, named, told>>

Finished(r) ==
  /\ In(r, "build", "finished")
  /\ IF given[r] THEN At(r, "finish") /\ UNCHANGED joint ELSE Complete(r)
  /\ UNCHANGED <<archive, single, claimed, sources, flat, reads, named, told>>

\* All participants at once, or none.
PublishAll(r) ==
  LET c == Top(r).owners
      n == Size * Cardinality(c)
  IN
  /\ In(r, "build", "finish")
  /\ Top(r).left = {}
  /\ Complete(r)
  /\ IF n <= world.limit - bytes /\ Reservable(n)
     THEN bytes' = bytes + n /\ ledger' = ledger + n /\ together' = together \cup c
     ELSE UNCHANGED <<bytes, ledger, together>>
  /\ UNCHANGED <<archive, single, claimed, alone, flat, reads, named, told, elsewhere>>

\* A view of the same archive for another release retains a source.
OtherView ==
  /\ world.shared
  /\ Reservable(Size)
  /\ ledger' = ledger + Size
  /\ elsewhere' = elsewhere + Size
  /\ UNCHANGED <<archive, single, claimed, joint, alone, together, bytes>>
  /\ UNCHANGED <<flat, calls, given, reads, named, told>>

Step(r) ==
  \/ Alone(r) \/ Together(r) \/ Claim(r) \/ Load(r)
  \/ Scope(r) \/ Refer(r) \/ Looked(r) \/ Prove(r) \/ Reserve(r) \/ Publish(r)
  \/ Participate(r) \/ Finished(r) \/ PublishAll(r)

Next == OtherView \/ \E r \in Readers : Ask(r) \/ Step(r)

\* A goroutine that can go on goes on; nobody has to ask.
Spec == Init /\ [][Next]_vars /\ \A r \in Readers : WF_vars(Step(r))
-----------------------------------------------------------------------------
(* Properties.                                                             *)

\* A family with nested classes that others need has one layout: once a
\* source names its classes as separate files, the family is not published
\* with these classes inside, whoever completes it, when, and with whom.
OneLayout == (named \cup flat) \cap published = {}

(* What the archive alone says of a family.  It needs the families it      *)
(* refers to and those that use its protected classes, except that a       *)
(* family with a plan can always name a static class of one without.       *)
(* Families that need each other stand or fall together.                   *)
Needs(f, g) ==
  \/ g \in world.users[f]
  \/ \E ref \in Refs(f) : ref.to = g /\ (ref.static /\ g \in world.refused => f \in world.refused)

NeedsInTheEnd(f) ==
  {g \in Families : \A S \in SUBSET Families :
     {h \in Families : \E k \in S \cup {f} : Needs(k, h)} \subseteq S => g \in S}

\* The families that can be lexical: with a plan and a proof, and needing an
\* inner (not static) class of no other family, outside their own group,
\* that cannot.  The largest set in which no group falls.
Sound ==
  LET ends == [f \in Families |-> NeedsInTheEnd(f)]
      group == [f \in Families |-> {f} \cup {g \in ends[f] : f \in ends[g]}]
      falls(g, f, S) ==
        \/ g \notin S \/ g \in world.unclosed
        \/ ~(world.users[g] \subseteq group[f])
        \/ \E ref \in Refs(g) : ref.to \notin group[f] /\ ~ref.static /\ ref.to \notin S
      stands(S) == \A f \in S : \A g \in group[f] : ~falls(g, f, S)
  IN  UNION {S \in SUBSET (Families \ world.refused) : stands(S)}

\* As long as the allowance suffices, what a lookup answers depends on the
\* archive alone: not on what was asked before, by whom, or on what others
\* are completing at the same time.
ReadsAgree ==
  ~world.shared /\ world.limit >= Size * Cardinality(Families)
    => LET sound == Sound IN \A a \in told : a.lexical = (a.family \in sound)

\* Every source kept is charged once, to the view and to the ledger all views
\* share, and the ledger never exceeds the allowance: what is reserved but not
\* yet published is on its way, and nothing is reserved for a failure.
AllowanceExact ==
  LET onTheWay == {r \in Readers : In(r, "finish", "publish")} IN
  /\ bytes = Size * Cardinality(published)
  /\ ledger = bytes + elsewhere + Size * Cardinality(onTheWay)
  /\ ledger <= world.limit

\* Every read returns: no goroutine waits for a completion that waits for it,
\* though completions nest and each holds its once while it looks others up.
ReadsReturn == \A r \in Readers : calls[r] # <<>> ~> calls[r] = <<>>
=============================================================================
