------------------------ MODULE NativeMembersProofs ------------------------
(***************************************************************************)
(* Completing families of classes, for any archive, allowance and number   *)
(* of goroutines and reads.  The argument: a family is completed at most   *)
(* once alone, by the goroutine that made its once busy, and a component   *)
(* at most once together; when both are done and it is not published, it   *)
(* never will be, and only then may it be named flat.                      *)
(*   Layouts      Spec => []OneLayout                                      *)
(*   Allowances   Spec => []AllowanceExact                                 *)
(*   Answers      Spec => []ReadsAgree                                     *)
(***************************************************************************)
EXTENDS NativeMembers, SequenceTheorems, OrderLemmas

(* The inductive invariant.                                                *)

ReadFrame == [fn : {"read"}, family : Families, at : {"once", "joint", "claim", "load"}]
FinishFrame ==
  [fn : {"finish"}, family : Families, at : {"scope", "refs", "looked", "reserve", "publish"},
   ref : Nat \ {0}, peers : SUBSET Families]
BuildFrame ==
  [fn : {"build"}, owners : SUBSET Families, at : {"finish", "finished"},
   left : SUBSET Families]
Frame == ReadFrame \cup FinishFrame \cup BuildFrame

TypeInv ==
  /\ world \in Worlds
  /\ single \in [Families -> {"idle", "busy", "done"}]
  /\ claimed \in [Families -> SUBSET Families]
  /\ alone \subseteq Families /\ together \subseteq Families
  /\ named \subseteq Families /\ flat \subseteq named
  /\ bytes \in Nat /\ ledger \in Nat /\ elsewhere \in Nat
  /\ calls \in [Readers -> Seq(Frame)]
  /\ given \in [Readers -> BOOLEAN]

\* The components are the classes of an equivalence; in one of several
\* families each depends on some family.
Components ==
  /\ component \in [Families -> SUBSET Families]
  /\ \A f \in Families :
       /\ f \in component[f]
       /\ \A g \in component[f] : component[g] = component[f]
       /\ Cyclic(f) => \E g \in Families : Depends(f, g)

\* Whoever joins a transaction is claimed by it.
Claims ==
  /\ \A c \in DOMAIN joint :
       /\ joint[c] \in {"idle", "busy", "done"}
       /\ c \subseteq Families /\ c # {}
       /\ \A g \in c : Cyclic(g) /\ component[g] = c /\ claimed[g] = c
  /\ \A f \in Families : claimed[f] # {} => claimed[f] \in DOMAIN joint /\ f \in claimed[f]

Solo(frame) == frame.fn = "finish" /\ frame.peers = {}

\* What is known of the family or component a call is about.
ReadSound(frame) ==
  /\ frame.at # "once" => single[frame.family] = "done"
  /\ frame.at = "claim" => Cyclic(frame.family)
  /\ frame.at = "load" => claimed[frame.family] # {}

\* A family that depends on another in its own component does not get through
\* alone: the first use or reference outside it ends the attempt.
SoloSound(frame) ==
  /\ single[frame.family] = "busy"
  /\ frame.family \notin world.refused
  /\ Cyclic(frame.family) =>
       /\ frame.at \in {"scope", "refs"}
       /\ frame.at = "refs" => world.users[frame.family] = {}
       /\ \A i \in DOMAIN world.refs[frame.family] :
            i < frame.ref => Terminal(world.refs[frame.family][i])

BuildSound(frame) ==
  /\ frame.owners \in DOMAIN joint /\ joint[frame.owners] = "busy"
  /\ frame.left \subseteq frame.owners
  /\ frame.left # frame.owners => frame.owners \cap world.refused = {}

FrameSound(frame) ==
  /\ frame.fn = "read" => ReadSound(frame)
  /\ frame.fn = "finish" /\ frame.at \in {"reserve", "publish"} => Solo(frame)
  /\ Solo(frame) => SoloSound(frame)
  /\ frame.fn = "build" => BuildSound(frame)

FramesSound == \A r \in Readers : \A i \in DOMAIN calls[r] : FrameSound(calls[r][i])

\* A finish that calls looks up the family of its current reference.
LooksUp(frame, call) ==
  /\ frame.at = "looked"
  /\ frame.ref \in DOMAIN world.refs[frame.family]
  /\ call.fn = "read" /\ call.family = world.refs[frame.family][frame.ref].to

Linked ==
  \A r \in Readers : \A i \in DOMAIN calls[r] :
    i # Len(calls[r]) /\ calls[r][i].fn = "finish" => LooksUp(calls[r][i], calls[r][i + 1])

\* The lookup a finish has come back from has settled the once of its family.
LookedUp(frame) ==
  frame.fn = "finish" /\ frame.at = "looked" =>
    /\ frame.ref \in DOMAIN world.refs[frame.family]
    /\ single[world.refs[frame.family][frame.ref].to] = "done"

Answered == \A r \in Readers : calls[r] # <<>> => LookedUp(Top(r))

\* Nobody completes a family, or a component, that another is completing.
Rival(a, b) ==
  \/ Solo(a) /\ Solo(b) /\ a.family = b.family
  \/ a.fn = "build" /\ b.fn = "build" /\ a.owners = b.owners

NoRivals ==
  \A q, r \in Readers : \A i \in DOMAIN calls[q], j \in DOMAIN calls[r] :
    Rival(calls[q][i], calls[r][j]) => q = r /\ i = j

StackInv == FramesSound /\ Linked /\ Answered /\ NoRivals

\* What is settled of a family that is published, or is named flat.
DoneTogether(f) == claimed[f] # {} /\ joint[claimed[f]] = "done"

Outcomes ==
  /\ \A f \in alone : single[f] = "done" /\ f \notin world.refused /\ ~Cyclic(f)
  /\ \A f \in together : DoneTogether(f) /\ f \notin world.refused
  /\ \A f \in named \ world.refused :
       /\ single[f] = "done" /\ f \notin alone
       /\ Cyclic(f) => DoneTogether(f) /\ f \notin together

IInv == TypeInv /\ Components /\ Claims /\ StackInv /\ Outcomes
-----------------------------------------------------------------------------
(* Call stacks.                                                            *)

LEMMA PoppedStack ==
  ASSUME NEW S, NEW s \in Seq(S), s # <<>>
  PROVE  /\ Len(s) \in Nat \ {0} /\ DOMAIN s = 1..Len(s)
         /\ s[Len(s)] \in S /\ Len(s) \in DOMAIN s
         /\ SubSeq(s, 1, Len(s) - 1) \in Seq(S)
         /\ Len(SubSeq(s, 1, Len(s) - 1)) = Len(s) - 1
         /\ \A i \in 1..(Len(s) - 1) : SubSeq(s, 1, Len(s) - 1)[i] = s[i]
<1>1. Len(s) \in Nat \ {0} /\ DOMAIN s = 1..Len(s)
  BY EmptySeq, LenProperties
<1>2. Len(s) - 1 \in Nat /\ Len(s) - 1 <= Len(s) /\ Len(s) \in DOMAIN s
  BY <1>1
<1>3. s[Len(s)] \in S
  BY <1>2, ElementOfSeq
<1>4. /\ SubSeq(s, 1, Len(s) - 1) \in Seq(S)
      /\ Len(SubSeq(s, 1, Len(s) - 1)) = Len(s) - 1
      /\ \A i \in 1..(Len(s) - 1) : SubSeq(s, 1, Len(s) - 1)[i] = s[i]
  <2> DEFINE n == Len(s) - 1
  <2>1. n \in Int /\ 1 \in Int /\ \A i \in 1..n : i \in 1..Len(s) /\ 1 + i - 1 = i
    BY <1>1
  <2>2. \A i \in 1..n : s[i] \in S
    BY <1>1, <2>1, ElementOfSeq
  <2>3. n - 1 + 1 = n /\ (IF 1 <= n THEN n - 1 + 1 ELSE 0) = n
    BY <1>1
  <2> HIDE DEF n
  <2>4. /\ SubSeq(s, 1, n) \in Seq(S) /\ Len(SubSeq(s, 1, n)) = n
        /\ \A i \in 1..n : SubSeq(s, 1, n)[i] = s[1 + i - 1]
    BY <2>1, <2>2, <2>3, SubSeqProperties
  <2>5. \A i \in 1..n : SubSeq(s, 1, n)[i] = s[i]
    BY <2>1, <2>4
  <2> QED
    BY <2>4, <2>5 DEF n
<1> QED
  BY <1>1, <1>2, <1>3, <1>4

LEMMA ReplacedStack ==
  ASSUME NEW S, NEW s \in Seq(S), s # <<>>, NEW x \in S
  PROVE  LET t == Append(SubSeq(s, 1, Len(s) - 1), x) IN
         /\ t \in Seq(S) /\ Len(t) = Len(s) /\ t # <<>> /\ DOMAIN t = 1..Len(s)
         /\ \A i \in 1..(Len(s) - 1) : t[i] = s[i]
         /\ t[Len(s)] = x
<1> DEFINE b == SubSeq(s, 1, Len(s) - 1)
           t == Append(b, x)
<1>1. /\ b \in Seq(S) /\ Len(b) = Len(s) - 1 /\ Len(s) \in Nat
      /\ \A i \in 1..(Len(s) - 1) : b[i] = s[i]
  BY PoppedStack
<1> HIDE DEF b
<1>2. /\ t \in Seq(S) /\ Len(t) = Len(b) + 1 /\ t # <<>> /\ t[Len(b) + 1] = x
      /\ \A i \in 1..Len(b) : t[i] = b[i]
  BY <1>1, AppendProperties
<1>3. DOMAIN t = 1..Len(t)
  BY <1>2, LenProperties
<1>4. Len(b) + 1 = Len(s)
  BY <1>1
<1> QED
  BY <1>1, <1>2, <1>3, <1>4 DEF b

\* t is s with its last element replaced by x and followed by y.
Pushed(t, s, x, y) ==
  /\ Len(t) = Len(s) + 1 /\ t # <<>> /\ DOMAIN t = 1..(Len(s) + 1)
  /\ \A i \in 1..(Len(s) - 1) : t[i] = s[i]
  /\ t[Len(s)] = x /\ t[Len(s) + 1] = y

LEMMA PushedStack ==
  ASSUME NEW S, NEW s \in Seq(S), s # <<>>, NEW x \in S, NEW y \in S,
         NEW t, t = SubSeq(s, 1, Len(s) - 1) \o <<x, y>>
  PROVE  t \in Seq(S) /\ Pushed(t, s, x, y)
<1> DEFINE b == SubSeq(s, 1, Len(s) - 1)
           u == <<x, y>>
<1>0. t = b \o u
  OBVIOUS
<1>1. /\ b \in Seq(S) /\ Len(b) = Len(s) - 1 /\ Len(s) \in Nat
      /\ \A i \in 1..(Len(s) - 1) : b[i] = s[i]
  BY PoppedStack
<1>2. u \in Seq(S) /\ Len(u) = 2 /\ u[1] = x /\ u[2] = y
  OBVIOUS
<1> HIDE DEF b, u
<1>3. /\ t \in Seq(S) /\ Len(t) = Len(b) + Len(u)
      /\ \A i \in 1..Len(t) : t[i] = IF i <= Len(b) THEN b[i] ELSE u[i - Len(b)]
  <2>1. /\ b \o u \in Seq(S) /\ Len(b \o u) = Len(b) + Len(u)
        /\ \A i \in 1..(Len(b) + Len(u)) :
             (b \o u)[i] = IF i <= Len(b) THEN b[i] ELSE u[i - Len(b)]
    BY <1>1, <1>2, ConcatProperties
  <2> QED
    BY <1>0, <2>1
<1>4. /\ Len(t) = Len(s) + 1 /\ Len(s) \in 1..Len(t) /\ Len(s) + 1 \in 1..Len(t)
      /\ ~(Len(s) <= Len(b)) /\ ~(Len(s) + 1 <= Len(b))
      /\ Len(s) - Len(b) = 1 /\ (Len(s) + 1) - Len(b) = 2
      /\ \A i \in 1..(Len(s) - 1) : i \in 1..Len(t) /\ i <= Len(b)
  BY <1>1, <1>2, <1>3
<1>5. DOMAIN t = 1..Len(t) /\ t # <<>>
  BY <1>3, <1>4, LenProperties, EmptySeq
<1>6. t[Len(s)] = x /\ t[Len(s) + 1] = y
  BY <1>2, <1>3, <1>4
<1>7. \A i \in 1..(Len(s) - 1) : t[i] = s[i]
  BY <1>1, <1>3, <1>4
<1> QED
  BY <1>3, <1>4, <1>5, <1>6, <1>7 DEF Pushed

LEMMA ToppedStack ==
  ASSUME NEW S, NEW s \in Seq(S), NEW y \in S
  PROVE  LET t == Append(s, y) IN
         /\ t \in Seq(S) /\ Len(t) = Len(s) + 1 /\ t # <<>> /\ DOMAIN t = 1..(Len(s) + 1)
         /\ \A i \in 1..Len(s) : t[i] = s[i]
         /\ t[Len(s) + 1] = y
<1>1. Len(s) \in Nat /\ Append(s, y) \in Seq(S)
  BY AppendProperties, LenProperties
<1> QED
  BY <1>1, AppendProperties, LenProperties

\* The stack of r changes only at its top: the frames in new are put there.
OnlyTop(r, new) ==
  /\ \A q \in Readers : \A i \in DOMAIN calls'[q] :
       \/ /\ i \in DOMAIN calls[q] /\ calls'[q][i] = calls[q][i]
          /\ q = r => i # Len(calls[r])
       \/ q = r /\ calls'[q][i] \in new
  /\ \A q \in Readers \ {r} : calls'[q] = calls[q]
  /\ calls' \in [Readers -> Seq(Frame)]

\* What a frame is about does not change while it is on a stack.
Same(a, b) ==
  /\ a.fn = b.fn
  /\ a.fn # "build" => a.family = b.family
  /\ a.fn = "finish" => a.peers = b.peers
  /\ a.fn = "build" => a.owners = b.owners

LEMMA StackType ==
  ASSUME TypeInv, NEW r \in Readers
  PROVE  /\ calls[r] \in Seq(Frame) /\ Len(calls[r]) \in Nat
         /\ DOMAIN calls[r] = 1..Len(calls[r])
         /\ \A i \in DOMAIN calls[r] : calls[r][i] \in Frame
         /\ calls[r] # <<>> =>
              /\ Len(calls[r]) \in DOMAIN calls[r] /\ Len(calls[r]) \in Nat \ {0}
              /\ Top(r) \in Frame /\ Top(r) = calls[r][Len(calls[r])]
<1>1. calls[r] \in Seq(Frame)
  BY DEF TypeInv
<1>2. /\ Len(calls[r]) \in Nat /\ DOMAIN calls[r] = 1..Len(calls[r])
      /\ \A i \in DOMAIN calls[r] : calls[r][i] \in Frame
  BY <1>1, LenProperties, ElementOfSeq
<1>3. CASE calls[r] # <<>>
  BY <1>1, <1>2, <1>3, PoppedStack DEF Top
<1> QED
  BY <1>1, <1>2, <1>3

\* The call at the top goes on to another place, or makes no call.
LEMMA GotoStep ==
  ASSUME TypeInv, Linked, NoRivals, UNCHANGED archive,
         NEW r \in Readers, calls[r] # <<>>,
         NEW frame \in Frame, Same(frame, Top(r)), Goto(r, frame)
  PROVE  /\ OnlyTop(r, {frame}) /\ Linked' /\ NoRivals'
         /\ calls'[r] # <<>> /\ Top(r)' = frame
<1> DEFINE s == calls[r]
           t == calls'[r]
<1>1. /\ calls' = [calls EXCEPT ![r] = Append(Below(r), frame)]
      /\ calls \in [Readers -> Seq(Frame)]
  BY DEF Goto, TypeInv
<1>2. t = Append(SubSeq(s, 1, Len(s) - 1), frame) /\ \A q \in Readers \ {r} : calls'[q] = calls[q]
  BY <1>1 DEF Below
<1>3. /\ s \in Seq(Frame) /\ Len(s) \in Nat \ {0} /\ DOMAIN s = 1..Len(s)
      /\ Top(r) = s[Len(s)]
  BY StackType
<1>4. /\ t \in Seq(Frame) /\ Len(t) = Len(s) /\ t # <<>> /\ DOMAIN t = 1..Len(s)
      /\ \A i \in 1..(Len(s) - 1) : t[i] = s[i]
      /\ t[Len(s)] = frame
  BY <1>2, <1>3, ReplacedStack
<1>5. calls' \in [Readers -> Seq(Frame)]
  BY <1>1, <1>2, <1>4
<1> HIDE DEF s, t
<1>6. \A i \in DOMAIN t : \/ i \in DOMAIN s /\ t[i] = s[i] /\ i # Len(s)
                          \/ i = Len(s) /\ t[i] = frame
  BY <1>3, <1>4
<1>7. OnlyTop(r, {frame})
  BY <1>2, <1>5, <1>6 DEF OnlyTop, s, t
<1>8. \A i \in DOMAIN t : i \in DOMAIN s /\ Same(t[i], s[i])
  BY <1>3, <1>6 DEF Same
<1>9. Linked'
  <2> SUFFICES ASSUME NEW q \in Readers, NEW i \in DOMAIN calls'[q],
                      i # Len(calls'[q]), calls'[q][i].fn = "finish"
               PROVE  LooksUp(calls[q][i], calls[q][i + 1])'
    BY DEF Linked, LooksUp
  <2>1. CASE q # r
    BY <1>2, <2>1 DEF Linked, LooksUp, archive
  <2>2. CASE q = r
    <3>1. /\ i \in DOMAIN s /\ i # Len(s) /\ t[i] = s[i]
          /\ i + 1 \in DOMAIN t
      BY <1>3, <1>4, <1>6, <2>2 DEF t
    <3>2. LooksUp(s[i], s[i + 1])
      BY <2>2, <3>1 DEF Linked, s, t
    <3>3. Same(t[i + 1], s[i + 1])
      BY <1>8, <3>1
    <3> QED
      BY <2>2, <3>1, <3>2, <3>3 DEF LooksUp, Same, archive, t
  <2> QED
    BY <2>1, <2>2
<1>10. NoRivals'
  <2> SUFFICES ASSUME NEW p \in Readers, NEW q \in Readers,
                      NEW i \in DOMAIN calls'[p], NEW j \in DOMAIN calls'[q],
                      Rival(calls'[p][i], calls'[q][j])
               PROVE  p = q /\ i = j
    BY DEF NoRivals, Rival, Solo
  <2>1. /\ i \in DOMAIN calls[p] /\ Same(calls'[p][i], calls[p][i])
        /\ j \in DOMAIN calls[q] /\ Same(calls'[q][j], calls[q][j])
    BY <1>2, <1>8 DEF s, t, Same
  <2>2. Rival(calls[p][i], calls[q][j])
    BY <2>1 DEF Rival, Solo, Same
  <2> QED
    BY <2>1, <2>2 DEF NoRivals
<1> QED
  BY <1>4, <1>7, <1>9, <1>10 DEF Top, t

\* The call at the top returns; a finish below it has made a lookup.
LEMMA ReturnStep ==
  ASSUME TypeInv, Linked, NoRivals, UNCHANGED archive,
         NEW r \in Readers, calls[r] # <<>>, NEW value, Return(r, value)
  PROVE  /\ OnlyTop(r, {}) /\ Linked' /\ NoRivals'
         /\ calls'[r] # <<>> =>
              /\ Top(r)' \in Frame
              /\ Top(r)'.fn = "finish" => LooksUp(Top(r)', Top(r))
<1> DEFINE s == calls[r]
           t == calls'[r]
<1>1. /\ calls' = [calls EXCEPT ![r] = Below(r)]
      /\ calls \in [Readers -> Seq(Frame)]
  BY DEF Return, TypeInv
<1>2. t = SubSeq(s, 1, Len(s) - 1) /\ \A q \in Readers \ {r} : calls'[q] = calls[q]
  BY <1>1 DEF Below
<1>3. /\ s \in Seq(Frame) /\ Len(s) \in Nat \ {0} /\ DOMAIN s = 1..Len(s)
      /\ Top(r) = s[Len(s)] /\ \A i \in DOMAIN s : s[i] \in Frame
  BY StackType
<1>4. /\ t \in Seq(Frame) /\ Len(t) = Len(s) - 1
      /\ \A i \in 1..(Len(s) - 1) : t[i] = s[i]
  BY <1>2, <1>3, PoppedStack
<1>5. calls' \in [Readers -> Seq(Frame)]
  BY <1>1, <1>2, <1>4
<1>6. DOMAIN t = 1..(Len(s) - 1) /\ (t # <<>> => Len(t) \in DOMAIN t)
  BY <1>3, <1>4, LenProperties, EmptySeq
<1> HIDE DEF s, t
<1>7. \A i \in DOMAIN t : /\ i \in DOMAIN s /\ t[i] = s[i] /\ i # Len(s)
                          /\ i + 1 \in DOMAIN s /\ i \in Nat
                          /\ i # Len(t) => i + 1 \in DOMAIN t
  BY <1>3, <1>4, <1>6
<1>8. OnlyTop(r, {})
  BY <1>2, <1>5, <1>7 DEF OnlyTop, s, t
<1>9. Linked'
  <2> SUFFICES ASSUME NEW q \in Readers, NEW i \in DOMAIN calls'[q],
                      i # Len(calls'[q]), calls'[q][i].fn = "finish"
               PROVE  LooksUp(calls[q][i], calls[q][i + 1])'
    BY DEF Linked, LooksUp
  <2>1. CASE q # r
    BY <1>2, <2>1 DEF Linked, LooksUp, archive
  <2>2. CASE q = r
    <3>1. /\ i \in DOMAIN s /\ i # Len(s) /\ t[i] = s[i] /\ t[i + 1] = s[i + 1]
      BY <1>7, <2>2 DEF t
    <3>2. LooksUp(s[i], s[i + 1])
      BY <2>2, <3>1 DEF Linked, s, t
    <3> QED
      BY <2>2, <3>1, <3>2 DEF LooksUp, archive, t
  <2> QED
    BY <2>1, <2>2
<1>10. NoRivals'
  <2> SUFFICES ASSUME NEW p \in Readers, NEW q \in Readers,
                      NEW i \in DOMAIN calls'[p], NEW j \in DOMAIN calls'[q],
                      Rival(calls'[p][i], calls'[q][j])
               PROVE  p = q /\ i = j
    BY DEF NoRivals, Rival, Solo
  <2>1. /\ i \in DOMAIN calls[p] /\ calls'[p][i] = calls[p][i]
        /\ j \in DOMAIN calls[q] /\ calls'[q][j] = calls[q][j]
    BY <1>8 DEF OnlyTop
  <2> QED
    BY <2>1 DEF NoRivals
<1>11. ASSUME t # <<>>
       PROVE  t[Len(t)] \in Frame /\ (t[Len(t)].fn = "finish" => LooksUp(t[Len(t)], s[Len(s)]))
  <2>1. Len(t) \in DOMAIN t /\ Len(t) + 1 = Len(s)
    BY <1>3, <1>4, <1>6, <1>11
  <2>2. Len(t) \in DOMAIN s /\ Len(t) # Len(s) /\ t[Len(t)] = s[Len(t)]
    BY <1>7, <2>1
  <2> QED
    BY <1>3, <2>1, <2>2 DEF Linked, s
<1> QED
  BY <1>3, <1>8, <1>9, <1>10, <1>11 DEF Top, s, t

LEMMA PushedCalls ==
  ASSUME TypeInv, NEW r \in Readers, calls[r] # <<>>,
         NEW frame \in Frame, NEW call \in Frame, GotoAndCall(r, frame, call)
  PROVE  calls'[r] \in Seq(Frame) /\ Pushed(calls'[r], calls[r], frame, call)
<1>1. /\ calls \in [Readers -> Seq(Frame)]
      /\ calls' = [calls EXCEPT ![r] = Below(r) \o <<frame, call>>]
  BY DEF TypeInv, GotoAndCall
<1>2. calls'[r] = SubSeq(calls[r], 1, Len(calls[r]) - 1) \o <<frame, call>>
  BY <1>1 DEF Below
<1>3. calls[r] \in Seq(Frame)
  BY <1>1
<1> QED
  BY <1>2, <1>3, PushedStack

\* The call at the top makes a call that has no rival.
LEMMA PushStep ==
  ASSUME TypeInv, Linked, NoRivals, UNCHANGED archive,
         NEW r \in Readers, calls[r] # <<>>,
         NEW frame \in Frame, Same(frame, Top(r)), NEW call \in Frame,
         GotoAndCall(r, frame, call),
         frame.fn = "finish" => LooksUp(frame, call),
         \A q \in Readers : \A i \in DOMAIN calls[q] : ~Rival(call, calls[q][i])
  PROVE  /\ OnlyTop(r, {frame, call}) /\ Linked' /\ NoRivals'
         /\ calls'[r] # <<>> /\ Top(r)' = call
<1> DEFINE s == calls[r]
           t == calls'[r]
<1>1. /\ calls \in [Readers -> Seq(Frame)]
      /\ calls' = [calls EXCEPT ![r] = Below(r) \o <<frame, call>>]
  BY DEF TypeInv, GotoAndCall
<1>2. t = SubSeq(s, 1, Len(s) - 1) \o <<frame, call>> /\ \A q \in Readers \ {r} : calls'[q] = calls[q]
  BY <1>1 DEF Below
<1>3. /\ s \in Seq(Frame) /\ Len(s) \in Nat \ {0} /\ DOMAIN s = 1..Len(s)
      /\ Top(r) = s[Len(s)]
  BY StackType
<1>4. /\ t \in Seq(Frame) /\ Len(t) = Len(s) + 1 /\ t # <<>> /\ DOMAIN t = 1..(Len(s) + 1)
      /\ \A i \in 1..(Len(s) - 1) : t[i] = s[i]
      /\ t[Len(s)] = frame /\ t[Len(s) + 1] = call
  BY PushedCalls DEF Pushed
<1>5. calls' \in [Readers -> Seq(Frame)]
  BY <1>1, <1>2, <1>4
<1> HIDE DEF s, t
<1>6. \A i \in DOMAIN t : \/ i \in DOMAIN s /\ t[i] = s[i] /\ i # Len(s)
                          \/ i = Len(s) /\ t[i] = frame
                          \/ i = Len(s) + 1 /\ t[i] = call
  BY <1>3, <1>4
<1>7. OnlyTop(r, {frame, call})
  BY <1>2, <1>5, <1>6 DEF OnlyTop, s, t
<1>8. \A i \in DOMAIN t : \/ i \in DOMAIN s /\ Same(t[i], s[i])
                          \/ i = Len(t) /\ t[i] = call
  BY <1>3, <1>4, <1>6 DEF Same
<1>9. Linked'
  <2> SUFFICES ASSUME NEW q \in Readers, NEW i \in DOMAIN calls'[q],
                      i # Len(calls'[q]), calls'[q][i].fn = "finish"
               PROVE  LooksUp(calls[q][i], calls[q][i + 1])'
    BY DEF Linked, LooksUp
  <2>1. CASE q # r
    BY <1>2, <2>1 DEF Linked, LooksUp, archive
  <2>2. CASE q = r /\ i = Len(s)
    <3>1. t[i] = frame /\ t[i + 1] = call
      BY <1>4, <2>2
    <3> QED
      BY <2>2, <3>1 DEF LooksUp, archive, t
  <2>3. CASE q = r /\ i # Len(s)
    <3>1. /\ i \in DOMAIN s /\ t[i] = s[i] /\ i + 1 \in DOMAIN s
      BY <1>3, <1>4, <1>6, <2>3 DEF t
    <3>2. LooksUp(s[i], s[i + 1])
      BY <2>3, <3>1 DEF Linked, s, t
    <3>3. Same(t[i + 1], s[i + 1])
      <4>1. i + 1 \in DOMAIN t /\ i + 1 # Len(t)
        BY <1>3, <1>4, <3>1
      <4> QED
        BY <1>8, <4>1
    <3> QED
      BY <2>3, <3>1, <3>2, <3>3 DEF LooksUp, Same, archive, t
  <2> QED
    BY <2>1, <2>2, <2>3
<1>10. NoRivals'
  <2> SUFFICES ASSUME NEW p \in Readers, NEW q \in Readers,
                      NEW i \in DOMAIN calls'[p], NEW j \in DOMAIN calls'[q],
                      Rival(calls'[p][i], calls'[q][j])
               PROVE  p = q /\ i = j
    BY DEF NoRivals, Rival, Solo
  <2>1. /\ \/ i \in DOMAIN calls[p] /\ Same(calls'[p][i], calls[p][i])
           \/ p = r /\ i = Len(t) /\ calls'[p][i] = call
        /\ \/ j \in DOMAIN calls[q] /\ Same(calls'[q][j], calls[q][j])
           \/ q = r /\ j = Len(t) /\ calls'[q][j] = call
    BY <1>2, <1>8 DEF s, t, Same
  <2>2. CASE i \in DOMAIN calls[p] /\ j \in DOMAIN calls[q]
             /\ Same(calls'[p][i], calls[p][i]) /\ Same(calls'[q][j], calls[q][j])
    <3>1. Rival(calls[p][i], calls[q][j])
      BY <2>2 DEF Rival, Solo, Same
    <3> QED
      BY <2>2, <3>1 DEF NoRivals
  <2>3. CASE i \in DOMAIN calls[p] /\ Same(calls'[p][i], calls[p][i]) /\ calls'[q][j] = call
    <3>1. Rival(call, calls[p][i])
      BY <2>3 DEF Rival, Solo, Same
    <3> QED
      BY <2>3, <3>1
  <2>4. CASE j \in DOMAIN calls[q] /\ Same(calls'[q][j], calls[q][j]) /\ calls'[p][i] = call
    <3>1. Rival(call, calls[q][j])
      BY <2>4 DEF Rival, Solo, Same
    <3> QED
      BY <2>4, <3>1
  <2> QED
    BY <2>1, <2>2, <2>3, <2>4
<1> QED
  BY <1>4, <1>7, <1>9, <1>10 DEF Top, t

\* A call that stays where it is makes a call, or a reader makes its first.
LEMMA CallStep ==
  ASSUME TypeInv, Linked, NoRivals, UNCHANGED archive,
         NEW r \in Readers, NEW call \in Frame, Call(r, call),
         calls[r] # <<>> => Top(r).fn # "finish",
         \A q \in Readers : \A i \in DOMAIN calls[q] : ~Rival(call, calls[q][i])
  PROVE  /\ calls[r] # <<>> => OnlyTop(r, {Top(r), call})
         /\ calls[r] = <<>> => OnlyTop(r, {call})
         /\ Linked' /\ NoRivals'
         /\ calls'[r] # <<>> /\ Top(r)' = call
<1> DEFINE s == calls[r]
           t == calls'[r]
<1>1. calls \in [Readers -> Seq(Frame)] /\ calls' = [calls EXCEPT ![r] = Append(s, call)]
  BY DEF TypeInv, Call
<1>2. t = Append(s, call) /\ \A q \in Readers \ {r} : calls'[q] = calls[q]
  BY <1>1
<1>3. /\ s \in Seq(Frame) /\ Len(s) \in Nat /\ DOMAIN s = 1..Len(s)
      /\ s # <<>> => Top(r) = s[Len(s)]
      /\ s = <<>> => Len(s) = 0
  BY StackType, EmptySeq
<1>4. /\ t \in Seq(Frame) /\ Len(t) = Len(s) + 1 /\ t # <<>> /\ DOMAIN t = 1..(Len(s) + 1)
      /\ \A i \in 1..Len(s) : t[i] = s[i]
      /\ t[Len(s) + 1] = call
  BY <1>2, <1>3, ToppedStack
<1>5. calls' \in [Readers -> Seq(Frame)]
  BY <1>1, <1>2, <1>4
<1> HIDE DEF s, t
<1>6. \A i \in DOMAIN t : \/ i \in DOMAIN s /\ t[i] = s[i]
                          \/ i = Len(s) + 1 /\ t[i] = call
  BY <1>3, <1>4
<1>7. s # <<>> => OnlyTop(r, {Top(r), call})
  BY <1>2, <1>3, <1>5, <1>6 DEF OnlyTop, s, t
<1>8. s = <<>> => OnlyTop(r, {call})
  BY <1>2, <1>3, <1>5, <1>6 DEF OnlyTop, s, t
<1>9. Linked'
  <2> SUFFICES ASSUME NEW q \in Readers, NEW i \in DOMAIN calls'[q],
                      i # Len(calls'[q]), calls'[q][i].fn = "finish"
               PROVE  LooksUp(calls[q][i], calls[q][i + 1])'
    BY DEF Linked, LooksUp
  <2>1. CASE q # r
    BY <1>2, <2>1 DEF Linked, LooksUp, archive
  <2>2. CASE q = r
    <3>1. /\ i \in DOMAIN s /\ t[i] = s[i] /\ t[i].fn = "finish"
      BY <1>3, <1>4, <1>6, <2>2 DEF t
    <3>2. i # Len(s)
      <4>1. s # <<>>
        BY <1>3, <3>1
      <4> QED
        BY <1>3, <3>1, <4>1 DEF s
    <3>3. i + 1 \in DOMAIN s /\ t[i + 1] = s[i + 1]
      BY <1>3, <1>4, <3>1, <3>2
    <3>4. LooksUp(s[i], s[i + 1])
      BY <2>2, <3>1, <3>2 DEF Linked, s, t
    <3> QED
      BY <2>2, <3>1, <3>3, <3>4 DEF LooksUp, archive, t
  <2> QED
    BY <2>1, <2>2
<1>10. NoRivals'
  <2> SUFFICES ASSUME NEW p \in Readers, NEW q \in Readers,
                      NEW i \in DOMAIN calls'[p], NEW j \in DOMAIN calls'[q],
                      Rival(calls'[p][i], calls'[q][j])
               PROVE  p = q /\ i = j
    BY DEF NoRivals, Rival, Solo
  <2>1. /\ \/ i \in DOMAIN calls[p] /\ calls'[p][i] = calls[p][i]
           \/ p = r /\ i = Len(s) + 1 /\ calls'[p][i] = call
        /\ \/ j \in DOMAIN calls[q] /\ calls'[q][j] = calls[q][j]
           \/ q = r /\ j = Len(s) + 1 /\ calls'[q][j] = call
    BY <1>2, <1>6 DEF s, t
  <2>2. \A a, b : Rival(a, b) => Rival(b, a)
    BY DEF Rival
  <2> QED
    BY <2>1, <2>2 DEF NoRivals
<1> QED
  BY <1>4, <1>7, <1>8, <1>9, <1>10 DEF Top, s, t
-----------------------------------------------------------------------------
(* What a step of any action keeps.                                        *)

LEMMA WorldType ==
  ASSUME TypeInv
  PROVE  /\ IsFiniteSet(Families) /\ Families \subseteq Nat
         /\ world.refused \subseteq Families
         /\ world.limit \in Nat
BY WorldsAssumption DEF TypeInv, Families

LEMMA RefType ==
  ASSUME TypeInv, NEW f \in Families
  PROVE  /\ Len(world.refs[f]) \in Nat /\ DOMAIN world.refs[f] = 1..Len(world.refs[f])
         /\ \A i \in DOMAIN world.refs[f] :
              world.refs[f][i].to \in Families /\ world.refs[f][i].static \in BOOLEAN
<1>1. world.refs[f] \in Seq([to : Families, static : BOOLEAN])
  BY WorldsAssumption DEF TypeInv, Families
<1>2. /\ Len(world.refs[f]) \in Nat /\ DOMAIN world.refs[f] = 1..Len(world.refs[f])
      /\ \A i \in DOMAIN world.refs[f] : world.refs[f][i] \in [to : Families, static : BOOLEAN]
  BY <1>1, LenProperties, ElementOfSeq
<1> QED
  BY <1>2

\* The onces only go forward.
Grows ==
  /\ \A f \in Families : single[f] = "done" => single'[f] = "done"
  /\ \A f \in Families : claimed[f] # {} => claimed'[f] = claimed[f]
  /\ \A c \in DOMAIN joint : c \in DOMAIN joint' /\ (joint[c] = "done" => joint'[c] = "done")

\* What is known of a call is not disturbed by a step of another.
Stays(frame) ==
  /\ Solo(frame) => single'[frame.family] = single[frame.family]
  /\ frame.fn = "build" => joint'[frame.owners] = joint[frame.owners]

OthersStay(r) ==
  \A q \in Readers : \A i \in DOMAIN calls[q] :
    (q = r => i # Len(calls[r])) => Stays(calls[q][i])

LEMMA SoundStays ==
  ASSUME TypeInv, Grows, UNCHANGED archive,
         NEW frame \in Frame, FrameSound(frame), Stays(frame)
  PROVE  FrameSound(frame)'
<1>1. Families' = Families /\ \A f \in Families : Cyclic(f)' = Cyclic(f)
  BY DEF archive, Families, Cyclic
<1>2. Solo(frame)' = Solo(frame)
  BY DEF Solo
<1>3. CASE frame \in ReadFrame
  <2>1. frame.family \in Families /\ ~Solo(frame) /\ frame.fn = "read"
    BY <1>3 DEF ReadFrame, Solo
  <2>2. ReadSound(frame)
    BY <2>1 DEF FrameSound
  <2>3. ReadSound(frame)'
    BY <1>1, <2>1, <2>2 DEF ReadSound, Grows
  <2> QED
    BY <1>2, <2>1, <2>3 DEF FrameSound
<1>4. CASE frame \in FinishFrame
  <2>1. frame.family \in Families /\ frame.fn = "finish"
    BY <1>4 DEF FinishFrame
  <2>2. ASSUME Solo(frame) PROVE SoloSound(frame)'
    <3>1. SoloSound(frame) /\ single'[frame.family] = single[frame.family]
      BY <2>2 DEF FrameSound, Stays
    <3> QED
      BY <1>1, <2>1, <3>1 DEF SoloSound, archive, Terminal
  <2> QED
    BY <1>2, <2>1, <2>2 DEF FrameSound
<1>5. CASE frame \in BuildFrame
  <2>1. frame.fn = "build" /\ ~Solo(frame)
    BY <1>5 DEF BuildFrame, Solo
  <2>2. BuildSound(frame)'
    BY <2>1 DEF FrameSound, BuildSound, Stays, Grows, archive
  <2> QED
    BY <1>2, <2>1, <2>2 DEF FrameSound
<1> QED
  BY <1>3, <1>4, <1>5 DEF Frame

LEMMA FramesStep ==
  ASSUME TypeInv, FramesSound, Grows, UNCHANGED archive,
         NEW r \in Readers, NEW new, OnlyTop(r, new), OthersStay(r),
         \A frame \in new : FrameSound(frame)'
  PROVE  FramesSound'
<1> SUFFICES ASSUME NEW q \in Readers, NEW i \in DOMAIN calls'[q]
             PROVE  FrameSound(calls[q][i])'
  BY DEF FramesSound
<1>1. CASE /\ i \in DOMAIN calls[q] /\ calls'[q][i] = calls[q][i]
           /\ q = r => i # Len(calls[r])
  <2> DEFINE frame == calls[q][i]
  <2>1. frame \in Frame
    BY <1>1, StackType
  <2>2. FrameSound(frame) /\ Stays(frame)
    BY <1>1 DEF FramesSound, OthersStay
  <2>3. \A x \in Frame : FrameSound(x) /\ Stays(x) => FrameSound(x)'
    BY SoundStays
  <2> HIDE DEF frame
  <2>4. PICK x \in Frame : x = frame /\ FrameSound(x) /\ Stays(x)
    BY <2>1, <2>2
  <2>5. calls'[q][i] = x /\ FrameSound(x)'
    BY <1>1, <2>3, <2>4 DEF frame
  <2> QED
    BY <2>5 DEF FrameSound, ReadSound, Solo, SoloSound, BuildSound
<1>2. CASE q = r /\ calls'[q][i] \in new
  <2>1. PICK x \in new : x = calls'[q][i]
    BY <1>2
  <2>2. FrameSound(x)'
    BY <2>1
  <2> QED
    BY <2>1, <2>2 DEF FrameSound, ReadSound, Solo, SoloSound, BuildSound
<1> QED
  BY <1>1, <1>2 DEF OnlyTop

LEMMA AnsweredStep ==
  ASSUME TypeInv, Answered, Grows, UNCHANGED archive,
         NEW r \in Readers, \A q \in Readers \ {r} : calls'[q] = calls[q],
         calls'[r] # <<>> => LookedUp(Top(r))'
  PROVE  Answered'
<1> SUFFICES ASSUME NEW q \in Readers, calls'[q] # <<>>, q # r
             PROVE  LookedUp(Top(q))'
  BY DEF Answered
<1>1. calls[q] # <<>> /\ Top(q)' = Top(q)
  BY DEF Top
<1>2. LookedUp(Top(q)) /\ Top(q) \in Frame
  BY <1>1, StackType DEF Answered
<1> DEFINE frame == Top(q)
<1>3. CASE frame.fn = "finish" /\ frame.at = "looked"
  <2>1. frame.family \in Families
    BY <1>2, <1>3 DEF Frame, ReadFrame, FinishFrame, BuildFrame
  <2>2. /\ frame.ref \in DOMAIN world.refs[frame.family]
        /\ single[world.refs[frame.family][frame.ref].to] = "done"
    BY <1>2, <1>3 DEF LookedUp
  <2>3. world.refs[frame.family][frame.ref].to \in Families
    BY <2>1, <2>2, RefType
  <2> HIDE DEF frame
  <2> QED
    BY <1>1, <2>2, <2>3 DEF LookedUp, Grows, archive, frame
<1>4. CASE ~(frame.fn = "finish" /\ frame.at = "looked")
  BY <1>1, <1>4 DEF LookedUp
<1> QED
  BY <1>3, <1>4

LEMMA ComponentsStep ==
  ASSUME Components, UNCHANGED archive
  PROVE  Components'
BY DEF Components, archive, Cyclic, Depends, Terminal, Refs, Families

\* What each action shows: the rest of the invariant follows.
LEMMA Preserved ==
  ASSUME IInv, UNCHANGED archive, Grows, NEW r \in Readers, NEW new, OnlyTop(r, new),
         Linked', NoRivals', TypeInv', Claims', Outcomes', OthersStay(r),
         \A frame \in new : FrameSound(frame)',
         calls'[r] # <<>> => LookedUp(Top(r))'
  PROVE  IInv'
<1>1. FramesSound'
  BY FramesStep DEF IInv, StackInv
<1>2. \A q \in Readers \ {r} : calls'[q] = calls[q]
  BY DEF OnlyTop
<1>3. Answered'
  BY <1>2, AnsweredStep DEF IInv, StackInv
<1>4. Components'
  BY ComponentsStep DEF IInv
<1> QED
  BY <1>1, <1>3, <1>4 DEF IInv, StackInv

\* The step of a call that leaves the onces alone.
Quiet == UNCHANGED <<archive, single, claimed, joint>>

LEMMA QuietStep ==
  ASSUME IInv, Quiet
  PROVE  UNCHANGED archive /\ Grows /\ Claims' /\ \A r \in Readers : OthersStay(r)
<1>1. UNCHANGED <<archive, single, claimed, joint>>
  BY DEF Quiet
<1>2. Families' = Families /\ \A f \in Families : Cyclic(f)' = Cyclic(f)
  BY <1>1 DEF archive, Families, Cyclic
<1>3. Claims'
  BY <1>1, <1>2 DEF IInv, Claims, archive
<1> QED
  BY <1>1, <1>3 DEF Grows, OthersStay, Stays

\* A call that returns to a finish was a lookup; any other finish is not looked up.
LEMMA ReturnLookedUp ==
  ASSUME IInv, UNCHANGED archive, NEW r \in Readers,
         calls'[r] # <<>> =>
           Top(r)' \in Frame /\ (Top(r)'.fn = "finish" => LooksUp(Top(r)', Top(r))),
         Top(r).fn = "read" => single'[Top(r).family] = "done"
  PROVE  calls'[r] # <<>> => LookedUp(Top(r))'
BY DEF LookedUp, LooksUp, archive

\* A call at the top is well formed and sound.
LEMMA TopSound ==
  ASSUME IInv, NEW r \in Readers, calls[r] # <<>>
  PROVE  /\ Top(r) \in Frame /\ FrameSound(Top(r)) /\ LookedUp(Top(r))
         /\ Top(r).fn = "read" =>
              Top(r) \in ReadFrame /\ Top(r).family \in Families /\ ReadSound(Top(r))
         /\ Top(r).fn = "finish" =>
              Top(r) \in FinishFrame /\ Top(r).family \in Families
         /\ Top(r).fn = "build" => Top(r) \in BuildFrame /\ BuildSound(Top(r))
<1>1. Len(calls[r]) \in DOMAIN calls[r] /\ Top(r) \in Frame /\ Top(r) = calls[r][Len(calls[r])]
  BY StackType DEF IInv
<1>2. FrameSound(Top(r)) /\ LookedUp(Top(r))
  BY <1>1 DEF IInv, StackInv, FramesSound, Answered
<1> QED
  BY <1>1, <1>2 DEF Frame, ReadFrame, FinishFrame, BuildFrame, FrameSound
-----------------------------------------------------------------------------
(* The ways a call goes on.                                                *)

Data ==
  /\ alone \subseteq Families /\ together \subseteq Families
  /\ named \subseteq Families /\ flat \subseteq named
  /\ bytes \in Nat /\ ledger \in Nat /\ elsewhere \in Nat

LEMMA OutcomesKept ==
  ASSUME IInv, UNCHANGED archive, Grows, UNCHANGED <<alone, together, named>>
  PROVE  Outcomes'
<1>1. Families' = Families /\ world' = world /\ \A f \in Families : Cyclic(f)' = Cyclic(f)
  BY DEF archive, Families, Cyclic
<1>2. \A f \in Families : DoneTogether(f) => DoneTogether(f)'
  BY DEF DoneTogether, Grows, IInv, Claims
<1>3. alone \subseteq Families /\ together \subseteq Families /\ named \subseteq Families
  BY DEF IInv, TypeInv
<1> QED
  BY <1>1, <1>2, <1>3 DEF IInv, Outcomes, Grows

LEMMA QuietGoto ==
  ASSUME IInv, Quiet, NEW r \in Readers, calls[r] # <<>>,
         NEW frame \in Frame, Same(frame, Top(r)), Goto(r, frame),
         FrameSound(frame)', LookedUp(frame)', Data', Outcomes'
  PROVE  IInv'
<1>1. UNCHANGED archive /\ Grows /\ Claims' /\ OthersStay(r)
  BY QuietStep
<1>2. /\ OnlyTop(r, {frame}) /\ Linked' /\ NoRivals'
      /\ calls'[r] # <<>> /\ Top(r)' = frame
  BY <1>1, GotoStep DEF IInv, StackInv
<1>3. TypeInv'
  BY <1>2 DEF IInv, TypeInv, Data, Quiet, archive, Families, OnlyTop, Frame, ReadFrame,
              FinishFrame, BuildFrame, Goto
<1>4. LookedUp(Top(r))'
  BY <1>2 DEF LookedUp
<1> QED
  BY <1>1, <1>2, <1>3, <1>4, Preserved

LEMMA QuietReturn ==
  ASSUME IInv, Quiet, NEW r \in Readers, calls[r] # <<>>,
         NEW value \in BOOLEAN, Return(r, value),
         Top(r).fn = "read" => single[Top(r).family] = "done",
         UNCHANGED <<alone, together, named, flat, bytes, ledger, elsewhere>>
  PROVE  IInv'
<1>1. UNCHANGED archive /\ Grows /\ Claims' /\ OthersStay(r) /\ single' = single
  BY QuietStep DEF Quiet
<1>2. /\ OnlyTop(r, {}) /\ Linked' /\ NoRivals'
      /\ calls'[r] # <<>> =>
              /\ Top(r)' \in Frame
              /\ Top(r)'.fn = "finish" => LooksUp(Top(r)', Top(r))
  BY <1>1, ReturnStep DEF IInv, StackInv
<1>3. Outcomes'
  BY <1>1, OutcomesKept
<1>4. TypeInv'
  BY <1>2 DEF IInv, TypeInv, Quiet, archive, Families, OnlyTop, Frame, ReadFrame,
              FinishFrame, BuildFrame, Return
<1>5. calls'[r] # <<>> => LookedUp(Top(r))'
  BY <1>1, <1>2, ReturnLookedUp
<1> QED
  BY <1>1, <1>2, <1>3, <1>4, <1>5, Preserved

LEMMA QuietPush ==
  ASSUME IInv, Quiet, NEW r \in Readers, calls[r] # <<>>,
         NEW frame \in Frame, Same(frame, Top(r)), NEW call \in Frame,
         GotoAndCall(r, frame, call), frame.fn = "finish" => LooksUp(frame, call),
         \A q \in Readers : \A i \in DOMAIN calls[q] : ~Rival(call, calls[q][i]),
         FrameSound(frame)', FrameSound(call)', LookedUp(call)',
         UNCHANGED <<alone, together, named, flat, bytes, ledger, elsewhere>>
  PROVE  IInv'
<1>1. UNCHANGED archive /\ Grows /\ Claims' /\ OthersStay(r)
  BY QuietStep DEF Quiet
<1>2. /\ OnlyTop(r, {frame, call}) /\ Linked' /\ NoRivals'
      /\ calls'[r] # <<>> /\ Top(r)' = call
  BY <1>1, PushStep DEF IInv, StackInv
<1>3. Outcomes'
  BY <1>1, OutcomesKept
<1>4. TypeInv'
  BY <1>2 DEF IInv, TypeInv, Quiet, archive, Families, OnlyTop, Frame, ReadFrame,
              FinishFrame, BuildFrame, GotoAndCall
<1>5. LookedUp(Top(r))'
  BY <1>2 DEF LookedUp
<1>6. \A x \in {frame, call} : FrameSound(x)'
  OBVIOUS
<1> QED
  BY <1>1, <1>2, <1>3, <1>4, <1>5, <1>6, Preserved

\* A family completed alone, or not: nobody else was completing it so.
LEMMA AloneDone ==
  ASSUME IInv, NEW r \in Readers, calls[r] # <<>>, Top(r).fn = "finish", Solo(Top(r)),
         single' = [single EXCEPT ![Top(r).family] = "done"],
         NEW value \in BOOLEAN, Return(r, value), UNCHANGED <<archive, claimed, joint>>
  PROVE  /\ Grows /\ single'[Top(r).family] = "done"
         /\ Data' /\ Outcomes' => IInv'
<1>1. PICK f \in Families : f = Top(r).family
  BY TopSound
<1>2. UNCHANGED archive /\ single' = [single EXCEPT ![f] = "done"]
  BY <1>1
<1>3. single \in [Families -> {"idle", "busy", "done"}]
  BY DEF IInv, TypeInv
<1>4. Grows /\ single'[f] = "done"
  BY <1>2, <1>3 DEF Grows
<1>5. OthersStay(r)
  <2> SUFFICES ASSUME NEW q \in Readers, NEW i \in DOMAIN calls[q], q = r => i # Len(calls[r])
               PROVE  Stays(calls[q][i])
    BY DEF OthersStay
  <2>1. Solo(calls[q][i]) => calls[q][i].family # f
    <3>1. Len(calls[r]) \in DOMAIN calls[r] /\ Top(r) = calls[r][Len(calls[r])]
      BY StackType DEF IInv
    <3> QED
      BY <1>1, <3>1 DEF IInv, StackInv, NoRivals, Rival
  <2>2. single'[calls[q][i].family] = single[calls[q][i].family] \/ ~Solo(calls[q][i])
    BY <1>2, <1>3, <2>1
  <2>3. calls[q][i].fn = "build" => joint'[calls[q][i].owners] = joint[calls[q][i].owners]
    OBVIOUS
  <2> QED
    BY <2>2, <2>3 DEF Stays
<1>6. /\ OnlyTop(r, {}) /\ Linked' /\ NoRivals'
      /\ calls'[r] # <<>> =>
              /\ Top(r)' \in Frame
              /\ Top(r)'.fn = "finish" => LooksUp(Top(r)', Top(r))
  BY ReturnStep DEF IInv, StackInv
<1>7. Data' => TypeInv'
  BY <1>2, <1>3, <1>6 DEF IInv, TypeInv, Data, archive, Families, OnlyTop, Frame, ReadFrame,
              FinishFrame, BuildFrame, Return
<1>8. calls'[r] # <<>> => LookedUp(Top(r))'
  BY <1>6, ReturnLookedUp
<1>9. Claims'
  BY DEF IInv, Claims, archive, Families, Cyclic
<1> QED
  BY <1>1, <1>4, <1>5, <1>6, <1>7, <1>8, <1>9, Preserved

LEMMA DataKept ==
  ASSUME IInv, UNCHANGED <<world, alone, together, named, flat, bytes, ledger, elsewhere>>
  PROVE  Data'
BY DEF IInv, TypeInv, Data, Families

LEMMA FailStep ==
  ASSUME IInv, NEW r \in Readers, calls[r] # <<>>, Top(r).fn = "finish", Fail(r),
         UNCHANGED <<archive, claimed, joint, alone, together, named, flat>>,
         UNCHANGED <<bytes, ledger, elsewhere>>
  PROVE  IInv'
<1>1. Return(r, FALSE) /\ FALSE \in BOOLEAN
  BY DEF Fail
<1>2. CASE Solo(Top(r))
  <2>1. single' = [single EXCEPT ![Top(r).family] = "done"]
    BY <1>2 DEF Fail, Solo
  <2>2. Grows /\ (Data' /\ Outcomes' => IInv')
    BY <1>1, <1>2, <2>1, AloneDone
  <2> QED
    BY <2>2, DataKept, OutcomesKept DEF archive
<1>3. CASE ~Solo(Top(r))
  <2>1. Quiet
    BY <1>3 DEF Fail, Solo, Quiet
  <2> QED
    BY <1>1, <2>1, QuietReturn
<1> QED
  BY <1>2, <1>3

LEMMA CompleteOutcomes ==
  ASSUME IInv, NEW r \in Readers, calls[r] # <<>>, Top(r).fn = "build", Complete(r),
         UNCHANGED <<archive, single, claimed, alone, together, named>>
  PROVE  Outcomes'
<1>1. PICK c : c = Top(r).owners /\ c \in DOMAIN joint
  BY TopSound DEF BuildSound
<1>2. joint' = [joint EXCEPT ![c] = "done"]
  BY <1>1 DEF Complete
<1>3. Grows
  BY <1>1, <1>2 DEF Grows
<1> QED
  BY <1>3, OutcomesKept

\* The transaction of a component is done: nobody else was building it.
LEMMA CompleteStep ==
  ASSUME IInv, NEW r \in Readers, calls[r] # <<>>, Top(r).fn = "build", Complete(r),
         UNCHANGED <<archive, single, claimed, alone, named, flat, elsewhere>>,
         Data', Outcomes'
  PROVE  IInv'
<1> DEFINE c == Top(r).owners
<1>1. BuildSound(Top(r)) /\ c \in DOMAIN joint
  BY TopSound DEF BuildSound
<1>2. Return(r, TRUE) /\ joint' = [joint EXCEPT ![c] = "done"] /\ UNCHANGED <<archive, single, claimed>>
  BY DEF Complete
<1> HIDE DEF c
<1>3. Grows
  BY <1>1, <1>2 DEF Grows
<1>4. OthersStay(r)
  <2> SUFFICES ASSUME NEW q \in Readers, NEW i \in DOMAIN calls[q], q = r => i # Len(calls[r])
               PROVE  Stays(calls[q][i])
    BY DEF OthersStay
  <2>1. calls[q][i].fn = "build" => calls[q][i].owners # c /\ calls[q][i].owners \in DOMAIN joint
    <3>1. Len(calls[r]) \in DOMAIN calls[r] /\ Top(r) = calls[r][Len(calls[r])]
      BY StackType DEF IInv
    <3> QED
      BY <3>1 DEF IInv, StackInv, NoRivals, Rival, FramesSound, FrameSound, BuildSound, c
  <2> QED
    BY <1>2, <2>1 DEF Stays
<1>5. /\ OnlyTop(r, {}) /\ Linked' /\ NoRivals'
      /\ calls'[r] # <<>> =>
              /\ Top(r)' \in Frame
              /\ Top(r)'.fn = "finish" => LooksUp(Top(r)', Top(r))
  BY <1>2, ReturnStep DEF IInv, StackInv
<1>6. TypeInv'
  BY <1>2, <1>5 DEF IInv, TypeInv, Data, archive, Families, OnlyTop, Frame, ReadFrame,
              FinishFrame, BuildFrame, Return
<1>7. calls'[r] # <<>> => LookedUp(Top(r))'
  BY <1>2, <1>5, ReturnLookedUp
<1>8. Claims'
  <2>1. DOMAIN joint' = DOMAIN joint /\ \A d \in DOMAIN joint : joint'[d] \in {joint[d], "done"}
    BY <1>1, <1>2
  <2> QED
    BY <1>2, <2>1 DEF IInv, Claims, archive, Families, Cyclic
<1> QED
  BY <1>2, <1>3, <1>4, <1>5, <1>6, <1>7, <1>8, Preserved
-----------------------------------------------------------------------------
(* The actions, one by one.                                                *)

LEMMA AskStep ==
  ASSUME IInv, NEW r \in Readers, Ask(r)
  PROVE  IInv'
<1>1. PICK f \in Families : Call(r, Read(f))
  BY DEF Ask
<1>2. /\ calls[r] = <<>> /\ Quiet
      /\ UNCHANGED <<alone, together, named, flat, bytes, ledger, elsewhere>>
  BY DEF Ask, Quiet, sources
<1>3. /\ Read(f) \in Frame /\ ~Solo(Read(f)) /\ FrameSound(Read(f))' /\ LookedUp(Read(f))'
      /\ \A x : ~Rival(Read(f), x)
  BY DEF Read, Frame, ReadFrame, Solo, FrameSound, ReadSound, LookedUp, Rival
<1>4. UNCHANGED archive /\ Grows /\ Claims' /\ OthersStay(r)
  BY <1>2, QuietStep
<1>0. PICK call : call = Read(f)
  OBVIOUS
<1>5. OnlyTop(r, {call}) /\ Linked' /\ NoRivals' /\ calls'[r] # <<>> /\ Top(r)' = call
  <2>1. call \in Frame /\ Call(r, call) /\ \A x : ~Rival(call, x)
    BY <1>0, <1>1, <1>3
  <2> QED
    BY <1>2, <1>4, <2>1, CallStep DEF IInv, StackInv
<1>6. TypeInv'
  BY <1>1, <1>2, <1>5 DEF IInv, TypeInv, Quiet, archive, Families, OnlyTop, Frame, ReadFrame,
              FinishFrame, BuildFrame, Call
<1>7. Outcomes'
  BY <1>2, <1>4, OutcomesKept
<1>8. FrameSound(call)' /\ LookedUp(Top(r))'
  BY <1>0, <1>3, <1>5 DEF LookedUp
<1> QED
  BY <1>4, <1>5, <1>6, <1>7, <1>8, Preserved

\* A read goes on to its next place.
LEMMA ReadOn ==
  ASSUME IInv, NEW r \in Readers, calls[r] # <<>>, Top(r).fn = "read",
         NEW at \in {"joint", "claim", "load"},
         NEW frame, frame = [Top(r) EXCEPT !.at = at]
  PROVE  /\ frame \in Frame /\ Same(frame, Top(r)) /\ frame.fn = "read" /\ frame.at = at
         /\ frame.family = Top(r).family /\ frame.family \in Families
         /\ LookedUp(frame)' /\ ~Solo(frame)'
         /\ ReadSound(frame)' => FrameSound(frame)'
<1>1. Top(r) \in ReadFrame /\ Top(r).family \in Families
  BY TopSound
<1>2. frame \in ReadFrame /\ frame.fn = "read" /\ frame.at = at /\ frame.family = Top(r).family
  BY <1>1 DEF ReadFrame
<1> QED
  BY <1>1, <1>2 DEF Frame, ReadFrame, Same, LookedUp, Solo, FrameSound

LEMMA QuietRead ==
  ASSUME IInv, NEW r \in Readers, calls[r] # <<>>, Top(r).fn = "read", Quiet,
         UNCHANGED <<alone, together, named, flat, bytes, ledger, elsewhere>>,
         NEW at \in {"joint", "claim", "load"}, At(r, at),
         single[Top(r).family] = "done",
         at = "claim" => Cyclic(Top(r).family),
         at = "load" => claimed[Top(r).family] # {}
  PROVE  IInv'
<1>0. PICK frame : frame = [Top(r) EXCEPT !.at = at]
  OBVIOUS
<1>1. Goto(r, frame)
  BY <1>0 DEF At
<1>2. /\ frame \in Frame /\ Same(frame, Top(r)) /\ frame.fn = "read" /\ frame.at = at
      /\ frame.family = Top(r).family /\ frame.family \in Families
      /\ LookedUp(frame)' /\ ~Solo(frame)'
      /\ ReadSound(frame)' => FrameSound(frame)'
  BY <1>0, ReadOn
<1>3. FrameSound(frame)'
  BY <1>2 DEF ReadSound, Quiet, archive, Cyclic
<1>4. Outcomes'
  BY QuietStep, OutcomesKept
<1>5. Data'
  BY DEF IInv, TypeInv, Data, Quiet, archive, Families
<1> QED
  BY <1>1, <1>2, <1>3, <1>4, <1>5, QuietGoto

LEMMA AloneStep ==
  ASSUME IInv, NEW r \in Readers, Alone(r)
  PROVE  IInv'
<1> DEFINE f == Top(r).family
<1>1. /\ calls[r] # <<>> /\ Top(r).fn = "read" /\ Top(r).at = "once"
      /\ UNCHANGED <<archive, claimed, joint, alone, together, named, flat>>
      /\ UNCHANGED <<bytes, ledger, elsewhere>>
  BY DEF Alone, In, sources
<1>2. f \in Families /\ Top(r) \in Frame /\ Top(r) \in ReadFrame
  BY <1>1, TopSound
<1>3. single \in [Families -> {"idle", "busy", "done"}]
  BY DEF IInv, TypeInv
<1>4. CASE single[f] = "done"
  <2>1. Quiet /\ (\/ Return(r, TRUE) \/ At(r, "joint"))
    BY <1>1, <1>4 DEF Alone, Answer, Quiet
  <2>2. CASE Return(r, TRUE)
    BY <1>1, <1>4, <2>1, <2>2, QuietReturn
  <2>3. CASE At(r, "joint")
    BY <1>1, <1>4, <2>1, <2>3, QuietRead
  <2> QED
    BY <2>1, <2>2, <2>3
<1>5. ASSUME single[f] = "idle"
      PROVE  /\ \A q \in Readers : \A i \in DOMAIN calls[q] :
                  ~(Solo(calls[q][i]) /\ calls[q][i].family = f)
             /\ \A value \in {"done", "busy"} :
                  single' = [single EXCEPT ![f] = value] => Grows /\ OthersStay(r)
  <2>1. \A q \in Readers : \A i \in DOMAIN calls[q] :
          Solo(calls[q][i]) => single[calls[q][i].family] = "busy"
    BY DEF IInv, StackInv, FramesSound, FrameSound, SoloSound
  <2>2. \A value \in {"done", "busy"} :
          single' = [single EXCEPT ![f] = value] => \A g \in Families : g # f => single'[g] = single[g]
    BY <1>3
  <2>3. \A q \in Readers : \A i \in DOMAIN calls[q] :
          Solo(calls[q][i]) => calls[q][i].family \in Families
    <3> SUFFICES ASSUME NEW q \in Readers, NEW i \in DOMAIN calls[q], Solo(calls[q][i])
                 PROVE  calls[q][i].family \in Families
      OBVIOUS
    <3>1. calls[q][i] \in Frame
      BY StackType DEF IInv
    <3> QED
      BY <3>1 DEF Solo, Frame, ReadFrame, FinishFrame, BuildFrame
  <2> HIDE DEF f
  <2> QED
    BY <1>1, <1>5, <2>1, <2>2, <2>3 DEF Grows, OthersStay, Stays
<1>6. CASE single[f] = "idle" /\ f \in world.refused
  <2>1. single' = [single EXCEPT ![f] = "done"] /\ At(r, "joint")
    BY <1>6 DEF Alone
  <2>0. PICK frame : frame = [Top(r) EXCEPT !.at = "joint"]
    OBVIOUS
  <2>2. Goto(r, frame)
    BY <2>0, <2>1 DEF At
  <2>3. /\ frame \in Frame /\ Same(frame, Top(r)) /\ frame.fn = "read" /\ frame.at = "joint"
        /\ frame.family = f /\ LookedUp(frame)' /\ (ReadSound(frame)' => FrameSound(frame)')
    BY <1>1, <2>0, ReadOn
  <2>4. single'[f] = "done" /\ single' \in [Families -> {"idle", "busy", "done"}]
    BY <1>2, <1>3, <2>1
  <2>5. FrameSound(frame)'
    BY <2>3, <2>4 DEF ReadSound
  <2>6. Grows /\ OthersStay(r)
    BY <1>5, <1>6, <2>1
  <2>7. Outcomes'
    BY <1>1, <2>6, OutcomesKept
  <2>8. /\ OnlyTop(r, {frame}) /\ Linked' /\ NoRivals'
        /\ calls'[r] # <<>> /\ Top(r)' = frame
    BY <1>1, <2>2, <2>3, GotoStep DEF IInv, StackInv
  <2>9. TypeInv'
    BY <1>1, <2>2, <2>4, <2>8 DEF IInv, TypeInv, archive, Families, OnlyTop, Frame, ReadFrame,
                FinishFrame, BuildFrame, Goto
  <2>10. Claims'
    BY <1>1 DEF IInv, Claims, archive, Families, Cyclic
  <2>11. LookedUp(Top(r))'
    BY <2>3, <2>8 DEF LookedUp
  <2> QED
    BY <1>1, <2>5, <2>6, <2>7, <2>8, <2>9, <2>10, <2>11, Preserved
<1>7. CASE single[f] = "idle" /\ f \notin world.refused
  <2>0. PICK call, top : call = Finish(f, {}) /\ top = Top(r)
    OBVIOUS
  <2>1. single' = [single EXCEPT ![f] = "busy"] /\ Call(r, call)
    BY <1>7, <2>0 DEF Alone
  <2>2. single'[f] = "busy" /\ single' \in [Families -> {"idle", "busy", "done"}]
    BY <1>2, <1>3, <2>1
  <2>3. /\ call \in Frame /\ Solo(call) /\ call.family = f /\ call.at = "scope" /\ call.ref = 1
        /\ call.fn = "finish"
    BY <1>2, <2>0 DEF Finish, Frame, FinishFrame, Solo
  <2>4. Grows /\ OthersStay(r)
    BY <1>5, <1>7, <2>1
  <2>5. \A q \in Readers : \A i \in DOMAIN calls[q] : ~Rival(call, calls[q][i])
    BY <1>5, <1>7, <2>3 DEF Rival
  <2>6. FrameSound(call)' /\ LookedUp(call)'
    <3>1. Len(world.refs[f]) \in Nat /\ DOMAIN world.refs[f] = 1..Len(world.refs[f])
      BY <1>2, RefType DEF IInv
    <3>2. \A i \in DOMAIN world.refs[f] : ~(i < 1)
      BY <3>1
    <3>3. SoloSound(call)'
      BY <1>1, <1>7, <2>2, <2>3, <3>2 DEF SoloSound, archive
    <3> QED
      BY <2>3, <3>3 DEF FrameSound, LookedUp
  <2>7. Outcomes'
    BY <1>1, <2>4, OutcomesKept
  <2>8. /\ OnlyTop(r, {top, call}) /\ Linked' /\ NoRivals'
        /\ calls'[r] # <<>> /\ Top(r)' = call
    BY <1>1, <2>0, <2>1, <2>3, <2>5, CallStep DEF IInv, StackInv
  <2>9. TypeInv'
    BY <1>1, <2>1, <2>2, <2>8 DEF IInv, TypeInv, archive, Families, OnlyTop, Frame, ReadFrame,
                FinishFrame, BuildFrame, Call
  <2>10. Claims'
    BY <1>1 DEF IInv, Claims, archive, Families, Cyclic
  <2>11. LookedUp(Top(r))'
    BY <2>6, <2>8 DEF LookedUp
  <2>12. FrameSound(top)'
    BY <1>1, <2>0 DEF FrameSound, ReadSound, Solo
  <2> QED
    BY <1>1, <2>4, <2>6, <2>7, <2>8, <2>9, <2>10, <2>11, <2>12, Preserved
<1> QED
  BY <1>4, <1>6, <1>7 DEF Alone

LEMMA TogetherStep ==
  ASSUME IInv, NEW r \in Readers, Together(r)
  PROVE  IInv'
<1> DEFINE f == Top(r).family
<1>1. /\ calls[r] # <<>> /\ Top(r).fn = "read" /\ Top(r).at = "joint" /\ Quiet
      /\ UNCHANGED <<alone, together, named, flat, bytes, ledger, elsewhere>>
  BY DEF Together, In, sources, Quiet
<1>2. single[f] = "done"
  BY <1>1, TopSound DEF ReadSound
<1>3. \/ At(r, "load") /\ claimed[f] # {}
      \/ Return(r, FALSE)
      \/ At(r, "claim") /\ Cyclic(f)
  BY DEF Together, Answer
<1> QED
  BY <1>1, <1>2, <1>3, QuietRead, QuietReturn

\* A component nobody has claimed is disjoint from those that are claimed.
LEMMA NewComponent ==
  ASSUME IInv, NEW f \in Families, Cyclic(f)
  PROVE  /\ component[f] \subseteq Families /\ f \in component[f]
         /\ \A g \in component[f] : Cyclic(g) /\ component[g] = component[f]
         /\ component[f] \notin DOMAIN joint =>
              \A g \in component[f] : claimed[g] = {}
<1>1. /\ component[f] \subseteq Families /\ f \in component[f]
      /\ \A g \in component[f] : component[g] = component[f]
  BY DEF IInv, Components
<1>2. \A g \in component[f] : Cyclic(g)
  BY <1>1 DEF Cyclic
<1>3. ASSUME NEW g \in component[f], claimed[g] # {} PROVE component[f] \in DOMAIN joint
  BY <1>1, <1>3 DEF IInv, Claims
<1> QED
  BY <1>1, <1>2, <1>3

LEMMA ClaimStep ==
  ASSUME IInv, NEW r \in Readers, Claim(r)
  PROVE  IInv'
<1>1. /\ calls[r] # <<>> /\ Top(r).fn = "read" /\ Top(r).at = "claim"
      /\ UNCHANGED <<archive, single, alone, together, named, flat, bytes, ledger, elsewhere>>
  BY DEF Claim, In, sources
<1>2. PICK f, c :
           f \in Families /\ f = Top(r).family /\ single[f] = "done" /\ Cyclic(f) /\ c = component[f]
  BY <1>1, TopSound DEF ReadSound
<1>3. /\ c \subseteq Families /\ f \in c
      /\ \A g \in c : Cyclic(g) /\ component[g] = c
      /\ c \notin DOMAIN joint => \A g \in c : claimed[g] = {}
  BY <1>2, NewComponent
<1>4. CASE Return(r, FALSE) /\ UNCHANGED <<joint, claimed>>
  BY <1>1, <1>2, <1>4, QuietReturn DEF Quiet
<1>5. CASE At(r, "load") /\ c \in DOMAIN joint /\ UNCHANGED <<joint, claimed>>
  <2>1. claimed[f] # {}
    BY <1>3, <1>5 DEF IInv, Claims
  <2> QED
    BY <1>1, <1>2, <1>5, <2>1, QuietRead DEF Quiet
<1>6. CASE /\ At(r, "load") /\ c \notin DOMAIN joint
           /\ joint' = [d \in DOMAIN joint \cup {c} |-> IF d = c THEN "idle" ELSE joint[d]]
           /\ claimed' = [g \in Families |-> IF g \in c THEN c ELSE claimed[g]]
  <2>0. PICK frame : frame = [Top(r) EXCEPT !.at = "load"]
    OBVIOUS
  <2>1. Goto(r, frame)
    BY <1>6, <2>0 DEF At
  <2>2. /\ frame \in Frame /\ Same(frame, Top(r)) /\ frame.fn = "read" /\ frame.at = "load"
        /\ frame.family = f /\ LookedUp(frame)' /\ (ReadSound(frame)' => FrameSound(frame)')
    BY <1>1, <1>2, <2>0, ReadOn
  <2>3. FrameSound(frame)'
    BY <1>1, <1>2, <1>3, <1>6, <2>2 DEF ReadSound
  <2>4. DOMAIN joint' = DOMAIN joint \cup {c} /\ joint'[c] = "idle"
        /\ \A d \in DOMAIN joint : joint'[d] = joint[d]
    BY <1>6
  <2>5. \A g \in Families : claimed'[g] = IF g \in c THEN c ELSE claimed[g]
    BY <1>6
  <2>6. Grows
    BY <1>1, <1>3, <1>6, <2>4, <2>5 DEF Grows
  <2>7. OthersStay(r)
    <3>1. \A q \in Readers : \A i \in DOMAIN calls[q] :
            calls[q][i].fn = "build" => calls[q][i].owners \in DOMAIN joint
      BY DEF IInv, StackInv, FramesSound, FrameSound, BuildSound
    <3> QED
      BY <1>1, <2>4, <3>1 DEF OthersStay, Stays
  <2>8. Outcomes'
    BY <1>1, <2>6, OutcomesKept
  <2>9. /\ OnlyTop(r, {frame}) /\ Linked' /\ NoRivals'
        /\ calls'[r] # <<>> /\ Top(r)' = frame
    BY <1>1, <2>1, <2>2, GotoStep DEF IInv, StackInv
  <2>10. claimed' \in [Families -> SUBSET Families]
    BY <1>3, <1>6 DEF IInv, TypeInv
  <2>11. TypeInv'
    BY <1>1, <2>1, <2>9, <2>10 DEF IInv, TypeInv, archive, Families, OnlyTop, Frame, ReadFrame,
                FinishFrame, BuildFrame, Goto
  <2>12. Claims'
    <3>1. /\ Families' = Families /\ component' = component
          /\ \A g \in Families : Cyclic(g)' = Cyclic(g)
      BY <1>1 DEF archive, Families, Cyclic
    <3>2. /\ \A d \in DOMAIN joint :
               /\ joint[d] \in {"idle", "busy", "done"} /\ d \subseteq Families /\ d # {}
               /\ \A g \in d : Cyclic(g) /\ component[g] = d /\ claimed[g] = d
          /\ \A g \in Families : claimed[g] # {} => claimed[g] \in DOMAIN joint /\ g \in claimed[g]
      BY DEF IInv, Claims
    <3>3. \A d \in DOMAIN joint : \A g \in d : g \notin c
      BY <1>3, <1>6, <3>2
    <3>4. \A d \in DOMAIN joint' :
            /\ joint'[d] \in {"idle", "busy", "done"} /\ d \subseteq Families /\ d # {}
            /\ \A g \in d : Cyclic(g) /\ component[g] = d /\ claimed'[g] = d
      <4> TAKE d \in DOMAIN joint'
      <4>1. CASE d = c
        BY <1>3, <2>4, <2>5, <4>1
      <4>2. CASE d \in DOMAIN joint
        <5>1. joint'[d] \in {"idle", "busy", "done"} /\ d \subseteq Families /\ d # {}
          BY <2>4, <3>2, <4>2
        <5>2. \A g \in d : Cyclic(g) /\ component[g] = d /\ claimed'[g] = d
          BY <2>5, <3>2, <3>3, <4>2
        <5> QED
          BY <5>1, <5>2
      <4> QED
        BY <2>4, <4>1, <4>2
    <3>5. \A g \in Families : claimed'[g] # {} => claimed'[g] \in DOMAIN joint' /\ g \in claimed'[g]
      BY <2>4, <2>5, <3>2
    <3> QED
      BY <3>1, <3>4, <3>5 DEF Claims
  <2>13. LookedUp(Top(r))'
    BY <2>2, <2>9 DEF LookedUp
  <2> QED
    BY <1>1, <2>3, <2>6, <2>7, <2>8, <2>9, <2>11, <2>12, <2>13, Preserved
<1> QED
  BY <1>2, <1>4, <1>5, <1>6 DEF Claim, Answer

LEMMA LoadStep ==
  ASSUME IInv, NEW r \in Readers, Load(r)
  PROVE  IInv'
<1>1. /\ calls[r] # <<>> /\ Top(r).fn = "read" /\ Top(r).at = "load"
      /\ UNCHANGED <<archive, single, claimed, alone, together, named, flat>>
      /\ UNCHANGED <<bytes, ledger, elsewhere>>
  BY DEF Load, In, sources
<1>2. PICK f, c, top :
        /\ f \in Families /\ f = Top(r).family /\ top = Top(r) /\ c = claimed[f] /\ c # {}
        /\ single[f] = "done" /\ ReadSound(top)
  BY <1>1, TopSound DEF ReadSound
<1>3. c \in DOMAIN joint /\ c \subseteq Families
  BY <1>2 DEF IInv, Claims
<1>4. CASE Return(r, f \in together) /\ UNCHANGED joint
  <2>0. (f \in together) \in BOOLEAN
    OBVIOUS
  <2>1. PICK value \in BOOLEAN : value = (f \in together)
    BY <2>0
  <2>2. Return(r, value)
    BY <1>4, <2>1
  <2> QED
    BY <1>1, <1>2, <1>4, <2>2, QuietReturn DEF Quiet
<1>5. ASSUME NEW call, call = Build(c), joint[c] = "idle",
             joint' = [joint EXCEPT ![c] = "busy"], Call(r, call)
      PROVE  IInv'
  <2>1. /\ call.fn = "build" /\ call.owners = c /\ call.left = c /\ call \in Frame /\ ~Solo(call)
    BY <1>3, <1>5 DEF Build, Frame, BuildFrame, Solo
  <2>2. DOMAIN joint' = DOMAIN joint /\ joint'[c] = "busy"
        /\ \A d \in DOMAIN joint : d # c => joint'[d] = joint[d]
    BY <1>3, <1>5
  <2>3. Grows
    BY <1>1, <1>5, <2>2 DEF Grows
  <2>4. \A q \in Readers : \A i \in DOMAIN calls[q] : calls[q][i].fn = "build" =>
          calls[q][i].owners \in DOMAIN joint /\ calls[q][i].owners # c
    BY <1>5 DEF IInv, StackInv, FramesSound, FrameSound, BuildSound
  <2>5. OthersStay(r)
    BY <1>1, <2>2, <2>4 DEF OthersStay, Stays
  <2>6. \A q \in Readers : \A i \in DOMAIN calls[q] : ~Rival(call, calls[q][i])
    BY <2>1, <2>4 DEF Rival
  <2>7. FrameSound(call)' /\ LookedUp(call)'
    BY <1>3, <2>1, <2>2 DEF FrameSound, BuildSound, Solo, LookedUp
  <2>8. FrameSound(top)'
    BY <1>1, <1>2 DEF FrameSound, ReadSound, Solo, archive, Cyclic
  <2>9. Outcomes'
    BY <1>1, <2>3, OutcomesKept
  <2>10. /\ OnlyTop(r, {top, call}) /\ Linked' /\ NoRivals'
         /\ calls'[r] # <<>> /\ Top(r)' = call
    BY <1>1, <1>2, <1>5, <2>1, <2>6, CallStep DEF IInv, StackInv
  <2>11. TypeInv'
    BY <1>1, <1>5, <2>10 DEF IInv, TypeInv, archive, Families, OnlyTop, Frame, ReadFrame,
                FinishFrame, BuildFrame, Call
  <2>12. Claims'
    <3>1. \A d \in DOMAIN joint : joint'[d] \in {"busy", joint[d]}
      BY <2>2
    <3> QED
      BY <1>1, <2>2, <3>1 DEF IInv, Claims, archive, Families, Cyclic
  <2>13. LookedUp(Top(r))'
    BY <2>7, <2>10 DEF LookedUp
  <2> QED
    BY <1>1, <2>3, <2>5, <2>7, <2>8, <2>9, <2>10, <2>11, <2>12, <2>13, Preserved
<1> QED
  BY <1>2, <1>4, <1>5 DEF Load, Answer

\* A finish goes on to its next place, or its next reference.
LEMMA QuietFinish ==
  ASSUME IInv, NEW r \in Readers, calls[r] # <<>>, Top(r).fn = "finish", Quiet,
         UNCHANGED <<alone, together>>, Data', Outcomes',
         NEW frame \in FinishFrame, Goto(r, frame),
         frame.family = Top(r).family, frame.peers = Top(r).peers,
         frame.at \in {"refs", "reserve", "publish"},
         frame.at \in {"reserve", "publish"} => Solo(frame),
         Solo(frame) /\ Cyclic(frame.family) =>
           /\ frame.at = "refs" /\ world.users[frame.family] = {}
           /\ \A i \in DOMAIN world.refs[frame.family] :
                i < frame.ref => Terminal(world.refs[frame.family][i])
  PROVE  IInv'
<1>1. Top(r) \in FinishFrame /\ frame.family \in Families /\ FrameSound(Top(r))
  BY TopSound
<1>2. frame.fn = "finish" /\ frame \in Frame /\ Same(frame, Top(r))
  BY <1>1 DEF FinishFrame, Frame, Same
<1>3. Solo(frame) => single[frame.family] = "busy" /\ frame.family \notin world.refused
  BY <1>1, <1>2 DEF FrameSound, Solo, SoloSound
<1>4. Solo(frame) => SoloSound(frame)
  BY <1>3 DEF SoloSound
<1>5. FrameSound(frame)
  BY <1>2, <1>4 DEF FrameSound
<1>6. FrameSound(frame)' /\ LookedUp(frame)'
  BY <1>2, <1>5 DEF FrameSound, Solo, SoloSound, Quiet, archive, Cyclic, Terminal, LookedUp
<1> QED
  BY <1>2, <1>6, QuietGoto

LEMMA ScopeStep ==
  ASSUME IInv, NEW r \in Readers, Scope(r)
  PROVE  IInv'
<1>1. /\ calls[r] # <<>> /\ Top(r).fn = "finish" /\ Top(r).at = "scope"
      /\ UNCHANGED <<archive, claimed, joint, alone, together, named, flat>>
      /\ UNCHANGED <<bytes, ledger, elsewhere>>
  BY DEF Scope, In, sources
<1>2. Top(r) \in FinishFrame /\ Top(r).family \in Families /\ FrameSound(Top(r))
  BY <1>1, TopSound
<1>3. CASE /\ world.users[Top(r).family] \subseteq Top(r).peers
           /\ At(r, "refs") /\ UNCHANGED single
  <2>1. PICK frame : frame = [Top(r) EXCEPT !.at = "refs"]
    OBVIOUS
  <2>2. /\ frame \in FinishFrame /\ frame.at = "refs" /\ frame.family = Top(r).family
        /\ frame.peers = Top(r).peers /\ frame.ref = Top(r).ref /\ frame.fn = Top(r).fn
    BY <1>2, <2>1 DEF FinishFrame
  <2>3. Goto(r, frame)
    BY <1>3, <2>1 DEF At
  <2>4. Quiet
    BY <1>1, <1>3 DEF Quiet
  <2>5. Data' /\ Outcomes'
    BY <1>1, <2>4, DataKept, QuietStep, OutcomesKept DEF archive
  <2>6. Solo(frame) => Solo(Top(r)) /\ SoloSound(Top(r))
    BY <1>1, <1>2, <2>2 DEF Solo, FrameSound
  <2>7. Solo(frame) => world.users[frame.family] = {}
    BY <1>3, <2>2, <2>6 DEF Solo
  <2> QED
    BY <1>1, <2>2, <2>3, <2>4, <2>5, <2>6, <2>7, QuietFinish DEF SoloSound
<1>4. CASE Fail(r)
  BY <1>1, <1>4, FailStep
<1> QED
  BY <1>3, <1>4 DEF Scope

\* A finish at its next reference.
LEMMA NextFrame ==
  ASSUME NEW top \in FinishFrame,
         NEW next, next = [top EXCEPT !.at = "refs", !.ref = @ + 1]
  PROVE  /\ next \in FinishFrame /\ next.at = "refs" /\ next.family = top.family
         /\ next.peers = top.peers /\ next.ref = top.ref + 1 /\ next.fn = "finish"
<1>1. /\ next.at = "refs" /\ next.family = top.family /\ next.peers = top.peers
      /\ next.ref = top.ref + 1 /\ next.fn = "finish"
  BY DEF FinishFrame
<1>2. top.ref + 1 \in Nat \ {0}
  BY DEF FinishFrame
<1>3. \A m \in Nat \ {0} : [top EXCEPT !.at = "refs", !.ref = m] \in FinishFrame
  BY DEF FinishFrame
<1>4. next = [top EXCEPT !.at = "refs", !.ref = top.ref + 1]
  OBVIOUS
<1> QED
  BY <1>1, <1>2, <1>3, <1>4

LEMMA ReferStep ==
  ASSUME IInv, NEW r \in Readers, Refer(r)
  PROVE  IInv'
<1>1. /\ calls[r] # <<>> /\ Top(r).fn = "finish" /\ Top(r).at = "refs" /\ More(r)
      /\ UNCHANGED <<archive, claimed, joint, alone, together, flat>>
      /\ UNCHANGED <<bytes, ledger, elsewhere>>
  BY DEF Refer, In, sources
<1>2. PICK f, n, top, d :
        /\ f \in Families /\ top = Top(r) /\ f = top.family /\ n = top.ref /\ d = Ref(r)
        /\ top \in FinishFrame /\ FrameSound(top)
  BY <1>1, TopSound
<1>3. /\ n \in DOMAIN world.refs[f] /\ d = world.refs[f][n] /\ n \in Nat \ {0}
      /\ DOMAIN world.refs[f] = 1..Len(world.refs[f]) /\ Len(world.refs[f]) \in Nat
      /\ d.to \in Families
  <2>1. /\ DOMAIN world.refs[f] = 1..Len(world.refs[f]) /\ Len(world.refs[f]) \in Nat
        /\ \A i \in DOMAIN world.refs[f] : world.refs[f][i].to \in Families
    BY <1>2, RefType DEF IInv
  <2>2. n \in DOMAIN world.refs[f] /\ d = world.refs[f][n] /\ n \in Nat \ {0}
    BY <1>1, <1>2 DEF More, Ref, FinishFrame
  <2> QED
    BY <2>1, <2>2
<1>4. PICK next : next = [top EXCEPT !.at = "refs", !.ref = @ + 1]
  OBVIOUS
<1>5. /\ next \in FinishFrame /\ next.at = "refs" /\ next.family = f /\ next.peers = top.peers
      /\ next.ref = n + 1 /\ next.fn = "finish"
  <2>1. top \in FinishFrame /\ f = top.family /\ n = top.ref
    BY <1>2
  <2>2. /\ next \in FinishFrame /\ next.at = "refs" /\ next.family = top.family
        /\ next.peers = top.peers /\ next.ref = top.ref + 1 /\ next.fn = "finish"
    BY <1>4, <2>1, NextFrame
  <2> QED
    BY <2>1, <2>2
<1>6. Solo(next) => Solo(top) /\ SoloSound(top)
  BY <1>1, <1>2, <1>5 DEF Solo, FrameSound
<1>7. CASE Terminal(d) /\ NextRef(r) /\ named' = named \cup {d.to} /\ UNCHANGED single
  <2>1. Goto(r, next)
    BY <1>2, <1>4, <1>7 DEF NextRef
  <2>2. Quiet
    BY <1>1, <1>7 DEF Quiet
  <2>3. Data'
    BY <1>1, <1>3, <1>7 DEF IInv, TypeInv, Data, archive, Families
  <2>4. Outcomes'
    <3>1. Families' = Families /\ world' = world /\ \A g \in Families : Cyclic(g)' = Cyclic(g)
      BY <1>1 DEF archive, Families, Cyclic
    <3>2. named' \ world.refused = named \ world.refused
      BY <1>7 DEF Terminal
    <3> QED
      BY <1>1, <2>2, <3>1, <3>2 DEF IInv, TypeInv, Outcomes, Quiet, DoneTogether
  <2>5. \A i \in DOMAIN world.refs[f] : i < n + 1 => i < n \/ i = n
    BY <1>3
  <2> QED
    BY <1>1, <1>2, <1>3, <1>5, <1>6, <1>7, <2>1, <2>2, <2>3, <2>4, <2>5, QuietFinish DEF SoloSound
<1>8. CASE Fail(r) /\ UNCHANGED named
  BY <1>1, <1>8, FailStep
<1>9. CASE d.to \in top.peers /\ NextRef(r) /\ UNCHANGED <<single, named>>
  <2>1. Goto(r, next)
    BY <1>2, <1>4, <1>9 DEF NextRef
  <2>2. Quiet
    BY <1>1, <1>9 DEF Quiet
  <2>3. Data' /\ Outcomes'
    BY <1>1, <1>9, <2>2, DataKept, QuietStep, OutcomesKept DEF archive
  <2>4. ~Solo(next)
    BY <1>5, <1>9 DEF Solo
  <2> QED
    BY <1>1, <1>2, <1>5, <2>1, <2>2, <2>3, <2>4, QuietFinish
<1>10. CASE /\ ~(top.peers = {} /\ Cyclic(f))
            /\ GotoAndCall(r, [Top(r) EXCEPT !.at = "looked"], Read(d.to))
            /\ UNCHANGED <<single, named>>
  <2>1. PICK frame, call : frame = [top EXCEPT !.at = "looked"] /\ call = Read(d.to)
    OBVIOUS
  <2>2. /\ frame \in FinishFrame /\ frame.at = "looked" /\ frame.family = f
        /\ frame.peers = top.peers /\ frame.ref = n /\ frame.fn = "finish"
    BY <1>2, <2>1 DEF FinishFrame
  <2>3. /\ call \in Frame /\ call.fn = "read" /\ call.family = d.to /\ call.at = "once"
        /\ \A x : ~Rival(call, x)
    BY <1>3, <2>1 DEF Read, Frame, ReadFrame, Rival, Solo
  <2>4. GotoAndCall(r, frame, call)
    BY <1>2, <1>10, <2>1
  <2>5. LooksUp(frame, call)
    BY <1>3, <2>2, <2>3 DEF LooksUp
  <2>6. Quiet
    BY <1>1, <1>10 DEF Quiet
  <2>7. frame \in Frame /\ Same(frame, Top(r))
    BY <1>1, <1>2, <2>2 DEF Frame, Same
  <2>8. FrameSound(frame)'
    <3>1. Solo(frame) => SoloSound(top) /\ ~Cyclic(f)
      BY <1>1, <1>2, <1>10, <2>2 DEF Solo, FrameSound
    <3>2. Solo(frame) => SoloSound(frame)
      BY <1>2, <2>2, <3>1 DEF SoloSound
    <3> QED
      BY <2>2, <2>6, <3>2 DEF FrameSound, Solo, SoloSound, Quiet, archive, Cyclic
  <2>9. FrameSound(call)' /\ LookedUp(call)'
    BY <2>3 DEF FrameSound, ReadSound, Solo, LookedUp
  <2> QED
    BY <1>1, <1>10, <2>3, <2>4, <2>5, <2>6, <2>7, <2>8, <2>9, QuietPush
<1> QED
  BY <1>2, <1>7, <1>8, <1>9, <1>10 DEF Refer

\* A lookup has answered that the family will not be lexical, and it is settled.
LEMMA LookedStep ==
  ASSUME IInv, NEW r \in Readers, Looked(r)
  PROVE  IInv'
<1>1. /\ calls[r] # <<>> /\ Top(r).fn = "finish" /\ Top(r).at = "looked"
      /\ UNCHANGED <<archive, claimed, joint, alone, together, bytes, ledger, elsewhere>>
  BY DEF Looked, In, sources
<1>2. PICK f, n, top, d :
        /\ f \in Families /\ top = Top(r) /\ f = top.family /\ n = top.ref /\ d = Ref(r)
        /\ top \in FinishFrame /\ FrameSound(top) /\ LookedUp(top)
  BY <1>1, TopSound
<1>3. n \in DOMAIN world.refs[f] /\ d = world.refs[f][n] /\ single[d.to] = "done"
  BY <1>1, <1>2 DEF Ref, LookedUp
<1>4. d.to \in Families
  BY <1>2, <1>3, RefType DEF IInv
<1>5. PICK next : next = [top EXCEPT !.at = "refs", !.ref = @ + 1]
  OBVIOUS
<1>6. /\ next \in FinishFrame /\ next.at = "refs" /\ next.family = f /\ next.peers = top.peers
      /\ next.ref = n + 1 /\ next.fn = "finish"
  <2>1. top \in FinishFrame /\ f = top.family /\ n = top.ref
    BY <1>2
  <2>2. /\ next \in FinishFrame /\ next.at = "refs" /\ next.family = top.family
        /\ next.peers = top.peers /\ next.ref = top.ref + 1 /\ next.fn = "finish"
    BY <1>5, <2>1, NextFrame
  <2> QED
    BY <2>1, <2>2
<1>7. Solo(next) => ~Cyclic(f)
  BY <1>1, <1>2, <1>6 DEF Solo, FrameSound, SoloSound
<1>8. NextRef(r) => Goto(r, next)
  BY <1>2, <1>5 DEF NextRef
<1>9. ASSUME NextRef(r), UNCHANGED single, Data', Outcomes' PROVE IInv'
  BY <1>1, <1>2, <1>6, <1>7, <1>8, <1>9, QuietFinish DEF Quiet
<1>10. CASE NextRef(r) /\ UNCHANGED <<single, named, flat>>
  <2>1. Data' /\ Outcomes'
    BY <1>1, <1>10, DataKept, QuietStep, OutcomesKept DEF archive, Quiet
  <2> QED
    BY <1>9, <1>10, <2>1
<1>11. CASE Fail(r) /\ UNCHANGED <<named, flat>>
  BY <1>1, <1>11, FailStep
<1>12. CASE /\ NextRef(r) /\ UNCHANGED single /\ Settled(d.to)
            /\ named' = named \cup {d.to} /\ flat' = flat \cup {d.to}
  <2>1. Data'
    BY <1>1, <1>4, <1>12 DEF IInv, TypeInv, Data, archive, Families
  <2>2. d.to \notin alone /\ (Cyclic(d.to) => DoneTogether(d.to) /\ d.to \notin together)
    BY <1>4, <1>12 DEF IInv, Components, Settled, RefusedTogether, DoneTogether
  <2>3. Outcomes'
    <3>1. Families' = Families /\ world' = world /\ \A g \in Families : Cyclic(g)' = Cyclic(g)
      BY <1>1 DEF archive, Families, Cyclic
    <3> QED
      BY <1>1, <1>3, <1>4, <1>12, <2>2, <3>1 DEF IInv, TypeInv, Outcomes, DoneTogether
  <2> QED
    BY <1>9, <1>12, <2>1, <2>3
<1> QED
  BY <1>2, <1>10, <1>11, <1>12 DEF Looked

LEMMA ProveStep ==
  ASSUME IInv, NEW r \in Readers, Prove(r)
  PROVE  IInv'
<1>1. /\ calls[r] # <<>> /\ Top(r).fn = "finish" /\ Top(r).at = "refs" /\ ~More(r)
      /\ UNCHANGED <<archive, claimed, joint, alone, together, named, flat>>
      /\ UNCHANGED <<bytes, ledger, elsewhere>>
  BY DEF Prove, In, sources
<1>2. PICK f, top :
        f \in Families /\ top = Top(r) /\ f = top.family /\ top \in FinishFrame /\ FrameSound(top)
  BY <1>1, TopSound
<1>3. CASE Fail(r)
  BY <1>1, <1>3, FailStep
<1>4. CASE Return(r, TRUE) /\ UNCHANGED single
  BY <1>1, <1>4, QuietReturn DEF Quiet
<1>5. CASE top.peers = {} /\ At(r, "reserve") /\ UNCHANGED single
  <2>1. PICK frame : frame = [top EXCEPT !.at = "reserve"]
    OBVIOUS
  <2>2. /\ frame \in FinishFrame /\ frame.at = "reserve" /\ frame.family = f
        /\ frame.peers = top.peers /\ frame.fn = "finish"
    BY <1>2, <2>1 DEF FinishFrame
  <2>3. Goto(r, frame)
    BY <1>2, <1>5, <2>1 DEF At
  <2>4. Quiet
    BY <1>1, <1>5 DEF Quiet
  <2>5. Data' /\ Outcomes'
    BY <1>1, <2>4, DataKept, QuietStep, OutcomesKept DEF archive
  <2>6. Solo(frame) /\ SoloSound(top)
    BY <1>1, <1>2, <1>5, <2>2 DEF Solo, FrameSound
  <2>7. ~Cyclic(f)
    <3> SUFFICES ASSUME Cyclic(f) PROVE FALSE
      OBVIOUS
    <3>1. /\ world.users[f] = {} /\ f \notin world.refused
          /\ \A i \in DOMAIN world.refs[f] : i < top.ref => Terminal(world.refs[f][i])
      BY <1>1, <1>2, <2>6 DEF SoloSound
    <3>2. PICK g \in Families : Depends(f, g)
      BY <1>2 DEF IInv, Components
    <3>3. PICK i \in DOMAIN world.refs[f] : ~Terminal(world.refs[f][i])
      BY <3>1, <3>2 DEF Depends, Refs
    <3>4. DOMAIN world.refs[f] = 1..Len(world.refs[f]) /\ Len(world.refs[f]) \in Nat
      BY <1>2, RefType DEF IInv
    <3>5. top.ref \in Nat \ {0} /\ top.ref \notin DOMAIN world.refs[f]
      BY <1>1, <1>2 DEF More, FinishFrame
    <3>6. i < top.ref
      BY <3>4, <3>5
    <3> QED
      BY <3>1, <3>3, <3>6
  <2> QED
    BY <1>1, <1>2, <2>2, <2>3, <2>4, <2>5, <2>6, <2>7, QuietFinish
<1> QED
  BY <1>2, <1>3, <1>4, <1>5 DEF Prove

LEMMA ReserveStep ==
  ASSUME IInv, NEW r \in Readers, Reserve(r)
  PROVE  IInv'
<1>1. /\ calls[r] # <<>> /\ Top(r).fn = "finish" /\ Top(r).at = "reserve"
      /\ UNCHANGED <<archive, claimed, joint, alone, together, named, flat, bytes, elsewhere>>
  BY DEF Reserve, In
<1>2. PICK f, top :
        f \in Families /\ top = Top(r) /\ f = top.family /\ top \in FinishFrame /\ FrameSound(top)
  BY <1>1, TopSound
<1>3. CASE Fail(r) /\ UNCHANGED ledger
  BY <1>1, <1>3, FailStep
<1>4. CASE At(r, "publish") /\ UNCHANGED single /\ ledger' = ledger + Size
  <2>1. PICK frame : frame = [top EXCEPT !.at = "publish"]
    OBVIOUS
  <2>2. /\ frame \in FinishFrame /\ frame.at = "publish" /\ frame.family = f
        /\ frame.peers = top.peers /\ frame.fn = "finish"
    BY <1>2, <2>1 DEF FinishFrame
  <2>3. Goto(r, frame)
    BY <1>2, <1>4, <2>1 DEF At
  <2>4. Quiet
    BY <1>1, <1>4 DEF Quiet
  <2>5. Outcomes'
    BY <1>1, <2>4, QuietStep, OutcomesKept
  <2>6. ledger' \in Nat
    BY <1>4 DEF IInv, TypeInv, Size
  <2>7. Data'
    BY <1>1, <2>6 DEF IInv, TypeInv, Data, archive, Families
  <2>8. Solo(frame) /\ Solo(top) /\ ~Cyclic(f)
    BY <1>1, <1>2, <2>2 DEF Solo, FrameSound, SoloSound
  <2> QED
    BY <1>1, <1>2, <2>2, <2>3, <2>4, <2>5, <2>7, <2>8, QuietFinish
<1> QED
  BY <1>3, <1>4 DEF Reserve

LEMMA PublishStep ==
  ASSUME IInv, NEW r \in Readers, Publish(r)
  PROVE  IInv'
<1>1. /\ calls[r] # <<>> /\ Top(r).fn = "finish" /\ Top(r).at = "publish"
      /\ UNCHANGED <<archive, claimed, joint, together, flat, ledger, named, elsewhere>>
      /\ single' = [single EXCEPT ![Top(r).family] = "done"]
  BY DEF Publish, In
<1>2. Solo(Top(r)) /\ SoloSound(Top(r))
  BY <1>1, TopSound DEF FrameSound
<1>3. PICK f \in Families : f = Top(r).family
  BY <1>1, TopSound
<1>4. single[f] = "busy" /\ f \notin world.refused /\ ~Cyclic(f)
  BY <1>1, <1>2, <1>3 DEF SoloSound
<1>5. PICK value \in BOOLEAN : Return(r, value)
  BY DEF Publish
<1>6. Grows /\ single'[f] = "done" /\ (Data' /\ Outcomes' => IInv')
  BY <1>1, <1>2, <1>3, <1>5, AloneDone
<1>7. CASE UNCHANGED <<bytes, alone>>
  BY <1>1, <1>6, <1>7, DataKept, OutcomesKept DEF archive
<1>8. CASE bytes' = bytes + Size /\ alone' = alone \cup {f}
  <2>1. Data'
    BY <1>1, <1>3, <1>8 DEF IInv, TypeInv, Data, archive, Families, Size
  <2>2. Outcomes'
    <3>1. Families' = Families /\ world' = world /\ \A g \in Families : Cyclic(g)' = Cyclic(g)
      BY <1>1 DEF archive, Families, Cyclic
    <3>2. alone \subseteq Families /\ together \subseteq Families /\ named \subseteq Families
      BY DEF IInv, TypeInv
    <3>3. f \notin named
      BY <1>4 DEF IInv, Outcomes
    <3>4. \A g \in Families : DoneTogether(g) => DoneTogether(g)'
      BY <1>1 DEF DoneTogether
    <3> QED
      BY <1>1, <1>4, <1>6, <1>8, <3>1, <3>2, <3>3, <3>4 DEF IInv, Outcomes, Grows
  <2> QED
    BY <1>6, <2>1, <2>2
<1> QED
  BY <1>3, <1>7, <1>8 DEF Publish

\* The next participant is one of those left.
LEMMA LeastLeft ==
  ASSUME TypeInv, NEW S \in SUBSET Families, S # {}
  PROVE  (CHOOSE f \in S : \A g \in S : f <= g) \in S
<1>1. IsFiniteSet(S) /\ S \subseteq Nat
  BY WorldType, FS_Subset
<1>2. \E f \in S : \A g \in S : f <= g
  BY <1>1, LeastElement
<1> QED
  BY <1>2

LEMMA ParticipateStep ==
  ASSUME IInv, NEW r \in Readers, Participate(r)
  PROVE  IInv'
<1>1. /\ calls[r] # <<>> /\ Top(r).fn = "build" /\ Top(r).at = "finish" /\ Top(r).left # {}
      /\ UNCHANGED <<archive, single, claimed, alone, together, named, flat>>
      /\ UNCHANGED <<bytes, ledger, elsewhere>>
  BY DEF Participate, In, sources
<1>2. PICK c, top : /\ top = Top(r) /\ c = top.owners /\ top \in BuildFrame /\ BuildSound(top)
  BY <1>1, TopSound
<1>3. CASE Complete(r)
  BY <1>1, <1>3, DataKept, CompleteOutcomes, CompleteStep DEF archive
<1>4. CASE /\ c \cap world.refused = {} /\ UNCHANGED joint
           /\ LET f == CHOOSE f \in Top(r).left : \A g \in Top(r).left : f <= g IN
              GotoAndCall(r, [Top(r) EXCEPT !.at = "finished", !.left = @ \ {f}], Finish(f, c))
  <2>1. PICK p : p = CHOOSE f \in Top(r).left : \A g \in Top(r).left : f <= g
    OBVIOUS
  <2>2. p \in top.left /\ p \in Families /\ top.left \subseteq Families /\ c \subseteq Families
    <3>1. top.left \in SUBSET Families /\ top.left # {} /\ c \subseteq Families
      BY <1>1, <1>2 DEF BuildFrame
    <3> QED
      BY <1>2, <2>1, <3>1, LeastLeft DEF IInv
  <2>3. PICK frame, call : /\ frame = [top EXCEPT !.at = "finished", !.left = @ \ {p}]
                           /\ call = Finish(p, c)
    OBVIOUS
  <2>4. GotoAndCall(r, frame, call)
    BY <1>2, <1>4, <2>1, <2>3
  <2>5. /\ frame.fn = "build" /\ frame.owners = c /\ frame.left = top.left \ {p}
        /\ frame.at = "finished"
    BY <1>2, <2>3 DEF BuildFrame
  <2>6. frame \in BuildFrame
    <3>1. frame = [top EXCEPT !.at = "finished", !.left = top.left \ {p}]
      BY <2>3
    <3>2. \A S \in SUBSET Families : [top EXCEPT !.at = "finished", !.left = S] \in BuildFrame
      BY <1>2 DEF BuildFrame
    <3> QED
      BY <2>2, <3>1, <3>2
  <2>7. frame \in Frame /\ Same(frame, Top(r))
    BY <1>1, <1>2, <2>5, <2>6 DEF Frame, Same
  <2>8. c # {}
    BY <1>2 DEF BuildSound, IInv, Claims
  <2>9. /\ call \in Frame /\ ~Solo(call) /\ call.fn = "finish" /\ call.at = "scope"
        /\ \A x : ~Rival(call, x)
    BY <2>2, <2>3, <2>8 DEF Finish, Frame, FinishFrame, Solo, Rival
  <2>10. Quiet
    BY <1>1, <1>4 DEF Quiet
  <2>11. FrameSound(frame)'
    BY <1>1, <1>2, <1>4, <2>5 DEF FrameSound, BuildSound, Solo, archive
  <2>12. FrameSound(call)' /\ LookedUp(call)'
    BY <2>9 DEF FrameSound, Solo, LookedUp
  <2> QED
    BY <1>1, <2>4, <2>5, <2>7, <2>9, <2>10, <2>11, <2>12, QuietPush
<1> QED
  BY <1>2, <1>3, <1>4 DEF Participate

LEMMA FinishedStep ==
  ASSUME IInv, NEW r \in Readers, Finished(r)
  PROVE  IInv'
<1>1. /\ calls[r] # <<>> /\ Top(r).fn = "build" /\ Top(r).at = "finished"
      /\ UNCHANGED <<archive, single, claimed, alone, together, named, flat>>
      /\ UNCHANGED <<bytes, ledger, elsewhere>>
  BY DEF Finished, In, sources
<1>2. PICK c, top : /\ top = Top(r) /\ c = top.owners /\ top \in BuildFrame /\ BuildSound(top)
  BY <1>1, TopSound
<1>3. CASE Complete(r)
  BY <1>1, <1>3, DataKept, CompleteOutcomes, CompleteStep DEF archive
<1>4. CASE At(r, "finish") /\ UNCHANGED joint
  <2>1. PICK frame : frame = [top EXCEPT !.at = "finish"]
    OBVIOUS
  <2>2. /\ frame \in BuildFrame /\ frame.fn = "build" /\ frame.owners = c
        /\ frame.left = top.left
    BY <1>2, <2>1 DEF BuildFrame
  <2>3. Goto(r, frame)
    BY <1>2, <1>4, <2>1 DEF At
  <2>4. frame \in Frame /\ Same(frame, Top(r))
    BY <1>1, <1>2, <2>2 DEF Frame, Same
  <2>5. Quiet
    BY <1>1, <1>4 DEF Quiet
  <2>6. Data' /\ Outcomes'
    BY <1>1, <2>5, DataKept, QuietStep, OutcomesKept DEF archive
  <2>7. FrameSound(frame)' /\ LookedUp(frame)'
    BY <1>1, <1>2, <1>4, <2>2 DEF FrameSound, BuildSound, Solo, archive, LookedUp
  <2> QED
    BY <1>1, <2>3, <2>4, <2>5, <2>6, <2>7, QuietGoto
<1> QED
  BY <1>3, <1>4 DEF Finished

LEMMA PublishAllStep ==
  ASSUME IInv, NEW r \in Readers, PublishAll(r)
  PROVE  IInv'
<1>1. /\ calls[r] # <<>> /\ Top(r).fn = "build" /\ Top(r).at = "finish" /\ Top(r).left = {}
      /\ Complete(r) /\ UNCHANGED <<archive, single, claimed, alone, flat, named, elsewhere>>
  BY DEF PublishAll, In
<1>2. PICK c, top : /\ top = Top(r) /\ c = top.owners /\ top \in BuildFrame /\ BuildSound(top)
  BY <1>1, TopSound
<1>3. CASE UNCHANGED <<bytes, ledger, together>>
  BY <1>1, <1>3, DataKept, CompleteOutcomes, CompleteStep DEF archive
<1>4. CASE /\ bytes' = bytes + Size * Cardinality(c) /\ ledger' = ledger + Size * Cardinality(c)
           /\ together' = together \cup c
  <2>1. c \subseteq Families /\ Cardinality(c) \in Nat
    <3>1. c \subseteq Families
      BY <1>2 DEF BuildFrame
    <3> QED
      BY <3>1, WorldType, FS_Subset, FS_CardinalityType DEF IInv
  <2>2. Data'
    BY <1>1, <1>4, <2>1 DEF IInv, TypeInv, Data, archive, Families, Size
  <2>3. /\ c \in DOMAIN joint /\ c # {} /\ c \cap world.refused = {} /\ joint[c] = "busy"
        /\ \A g \in c : Cyclic(g) /\ claimed[g] = c
    BY <1>1, <1>2 DEF BuildSound, IInv, Claims
  <2>4. joint' = [joint EXCEPT ![c] = "done"]
    BY <1>1, <1>2 DEF Complete
  <2>5. Outcomes'
    <3>1. Families' = Families /\ world' = world /\ \A g \in Families : Cyclic(g)' = Cyclic(g)
      BY <1>1 DEF archive, Families, Cyclic
    <3>2. alone \subseteq Families /\ together \subseteq Families /\ named \subseteq Families
      BY DEF IInv, TypeInv
    <3>3. \A g \in Families : DoneTogether(g) => DoneTogether(g)'
      BY <1>1, <2>3, <2>4 DEF DoneTogether, IInv, Claims
    <3>4. \A g \in c : DoneTogether(g)' /\ ~DoneTogether(g)
      BY <1>1, <2>3, <2>4 DEF DoneTogether
    <3> QED
      BY <1>1, <1>4, <2>1, <2>3, <3>1, <3>2, <3>3, <3>4 DEF IInv, Outcomes
  <2> QED
    BY <1>1, <2>2, <2>5, CompleteStep
<1> QED
  BY <1>2, <1>3, <1>4 DEF PublishAll

\* Whether frames are sound depends on the frames and not on where they are.
LEMMA FramesSoundAt ==
  ASSUME calls' = calls, \A q \in Readers : \A i \in DOMAIN calls[q] : FrameSound(calls[q][i])'
  PROVE  FramesSound'
BY DEF FramesSound

\* A step that disturbs neither the onces nor the calls nor what is published.
LEMMA UnchangedStep ==
  ASSUME IInv, bytes' \in Nat, ledger' \in Nat, elsewhere' \in Nat,
         UNCHANGED <<archive, single, claimed, joint, alone, together, flat, calls, given, named>>
  PROVE  IInv'
<1>1. TypeInv'
  BY DEF IInv, TypeInv, archive, Families, Frame, ReadFrame, FinishFrame, BuildFrame
<1>2. Components' /\ Claims'
  BY ComponentsStep DEF IInv, Claims, archive, Families, Cyclic
<1>3. Outcomes'
  BY OutcomesKept DEF Grows
<1>4. StackInv'
  <2>0. /\ world' = world /\ component' = component /\ single' = single /\ claimed' = claimed
        /\ joint' = joint /\ calls' = calls /\ given' = given
    BY DEF archive
  <2>1. Linked' /\ NoRivals'
    <3>1. Linked /\ NoRivals
      BY DEF IInv, StackInv
    <3>2. Linked'
      BY <2>0, <3>1 DEF Linked, LooksUp
    <3> QED
      BY <2>0, <3>1, <3>2 DEF NoRivals
  <2>2. Answered'
    BY <2>0 DEF IInv, StackInv, Answered, LookedUp, Top
  <2>3. FramesSound'
    <3>1. \A frame : ReadSound(frame)' = ReadSound(frame)
      BY <2>0 DEF ReadSound, Cyclic
    <3>2. \A frame : SoloSound(frame)' = SoloSound(frame)
      BY <2>0 DEF SoloSound, Cyclic, Terminal
    <3>3. \A frame : BuildSound(frame)' = BuildSound(frame)
      BY <2>0 DEF BuildSound
    <3>4. \A frame : FrameSound(frame)' = FrameSound(frame)
      BY <3>1, <3>2, <3>3 DEF FrameSound, Solo
    <3>5. \A q \in Readers : \A i \in DOMAIN calls[q] : FrameSound(calls[q][i])
      BY DEF IInv, StackInv, FramesSound
    <3> QED
      BY <2>0, <3>4, <3>5, FramesSoundAt
  <2> QED
    BY <2>1, <2>2, <2>3 DEF StackInv
<1> QED
  BY <1>1, <1>2, <1>3, <1>4 DEF IInv

LEMMA OtherViewStep ==
  ASSUME IInv, OtherView
  PROVE  IInv'
<1>1. /\ UNCHANGED <<archive, single, claimed, joint, alone, together, flat, calls, given, named>>
      /\ bytes' \in Nat /\ ledger' \in Nat /\ elsewhere' \in Nat
  BY DEF OtherView, IInv, TypeInv, Size
<1> QED
  BY <1>1, UnchangedStep
-----------------------------------------------------------------------------
(* The components, and the beginning.                                      *)

LEMMA ReachableTransitive ==
  ASSUME NEW f \in Families, NEW g \in Reachable(f), NEW h \in Reachable(g)
  PROVE  h \in Reachable(f)
<1> SUFFICES ASSUME NEW S \in SUBSET Families, Closed(S),
                    \A k \in Families : Depends(f, k) => k \in S
             PROVE  h \in S
  BY DEF Reachable
<1>1. g \in S
  BY DEF Reachable
<1>2. \A k \in Families : Depends(g, k) => k \in S
  BY <1>1 DEF Closed
<1> QED
  BY <1>2 DEF Reachable

LEMMA ComponentClass ==
  ASSUME NEW f \in Families, NEW g \in Component(f)
  PROVE  Component(g) \subseteq Component(f) /\ f \in Component(g) /\ g \in Families
<1>1. g \in Families /\ \A k \in Families : Reachable(k) \subseteq Families
  BY DEF Component, Reachable
<1>2. CASE g = f
  BY <1>2 DEF Component
<1>3. CASE g # f
  <2>1. g \in Reachable(f) /\ f \in Reachable(g)
    BY <1>3 DEF Component
  <2>2. ASSUME NEW h \in Component(g) PROVE h \in Component(f)
    <3>1. CASE h = g
      BY <3>1
    <3>2. CASE h # g
      <4>1. h \in Reachable(g) /\ g \in Reachable(h) /\ h \in Families
        BY <1>1, <3>2 DEF Component
      <4>2. h \in Reachable(f)
        BY <2>1, <4>1, ReachableTransitive
      <4>3. f \in Reachable(h)
        BY <2>1, <4>1, ReachableTransitive
      <4> QED
        BY <4>2, <4>3 DEF Component
    <3> QED
      BY <3>1, <3>2
  <2>3. f \in Component(g)
    BY <2>1 DEF Component
  <2> QED
    BY <1>1, <2>2, <2>3
<1> QED
  BY <1>2, <1>3

LEMMA ComponentsInit ==
  ASSUME Init
  PROVE  Components
<1>1. component = [f \in Families |-> Component(f)]
  BY DEF Init
<1>2. \A f \in Families : Component(f) \subseteq Families /\ f \in Component(f)
  BY DEF Component, Reachable
<1>3. ASSUME NEW f \in Families, NEW g \in Component(f)
      PROVE  g \in Families /\ Component(g) = Component(f)
  <2>1. Component(g) \subseteq Component(f) /\ f \in Component(g) /\ g \in Families
    BY ComponentClass
  <2>2. Component(f) \subseteq Component(g)
    BY <2>1, ComponentClass
  <2> QED
    BY <2>1, <2>2
<1>4. ASSUME NEW f \in Families, Component(f) # {f} PROVE \E g \in Families : Depends(f, g)
  <2> SUFFICES ASSUME \A g \in Families : ~Depends(f, g) PROVE FALSE
    OBVIOUS
  <2>1. Closed({}) /\ {} \in SUBSET Families
    BY DEF Closed
  <2>2. Reachable(f) = {}
    BY <2>1 DEF Reachable
  <2> QED
    BY <1>4, <2>2 DEF Component
<1>5. \A f \in Families : component[f] = Component(f)
  BY <1>1
<1>6. component \in [Families -> SUBSET Families]
  BY <1>1, <1>2
<1>7. ASSUME NEW f \in Families
      PROVE  /\ f \in component[f]
             /\ \A g \in component[f] : component[g] = component[f]
             /\ Cyclic(f) => \E g \in Families : Depends(f, g)
  BY <1>2, <1>3, <1>4, <1>5 DEF Cyclic
<1> QED
  BY <1>6, <1>7 DEF Components

LEMMA InitInv ==
  ASSUME Init
  PROVE  IInv
<1>1. TypeInv
  BY DEF Init, TypeInv, Families
<1>2. Claims
  BY DEF Init, Claims
<1>3. StackInv
  BY DEF Init, StackInv, FramesSound, Linked, Answered, NoRivals
<1>4. Outcomes
  BY DEF Init, Outcomes
<1> QED
  BY <1>1, <1>2, <1>3, <1>4, ComponentsInit DEF IInv

LEMMA NextInv ==
  ASSUME IInv, [Next]_vars
  PROVE  IInv'
<1>1. CASE Next
  <2>1. ASSUME NEW r \in Readers, Ask(r) \/ Step(r) PROVE IInv'
    BY <2>1, AskStep, AloneStep, TogetherStep, ClaimStep, LoadStep, ScopeStep, ReferStep,
       LookedStep, ProveStep, ReserveStep, PublishStep, ParticipateStep, FinishedStep,
       PublishAllStep DEF Step
  <2> QED
    BY <1>1, <2>1, OtherViewStep DEF Next
<1>2. CASE UNCHANGED vars
  <2>1. /\ UNCHANGED <<archive, single, claimed, joint, alone, together, flat, calls, given, named>>
        /\ UNCHANGED <<bytes, ledger, elsewhere>>
    BY <1>2 DEF vars, sources
  <2> QED
    BY <2>1, UnchangedStep DEF IInv, TypeInv
<1> QED
  BY <1>1, <1>2

\* Whatever is asked, in whatever order and by however many goroutines, no
\* source names a class as a separate file that another source contains.
THEOREM Layouts == Spec => []OneLayout
<1>1. ASSUME IInv PROVE OneLayout
  <2>1. flat \subseteq named /\ named \subseteq Families /\ together \subseteq Families
    BY <1>1 DEF IInv, TypeInv
  <2>2. ASSUME NEW f \in together PROVE Cyclic(f)
    <3>1. claimed[f] # {} /\ f \in Families
      BY <1>1, <2>1, <2>2 DEF IInv, Outcomes, DoneTogether
    <3> QED
      BY <1>1, <3>1 DEF IInv, Claims
  <2> QED
    BY <1>1, <2>1, <2>2 DEF IInv, Outcomes, OneLayout, published
<1> QED
  BY <1>1, InitInv, NextInv, PTL DEF Spec
-----------------------------------------------------------------------------
(* The allowance.                                                          *)

\* What is at the top after each way to go on.
LEMMA TopAfter ==
  ASSUME TypeInv, NEW r \in Readers, calls[r] # <<>>, NEW frame, NEW call
  PROVE  /\ Goto(r, frame) => calls'[r] # <<>> /\ Top(r)' = frame
         /\ GotoAndCall(r, frame, call) => calls'[r] # <<>> /\ Top(r)' = call
         /\ Call(r, call) => calls'[r] # <<>> /\ Top(r)' = call
<1>1. calls[r] \in Seq(Frame) /\ calls \in [Readers -> Seq(Frame)]
  BY DEF TypeInv
<1>2. calls[r] \in Seq(Frame \cup {frame, call})
  BY <1>1, SeqMonotonic
<1>3. frame \in Frame \cup {frame, call} /\ call \in Frame \cup {frame, call}
  OBVIOUS
<1>4. ASSUME Goto(r, frame) PROVE calls'[r] # <<>> /\ Top(r)' = frame
  <2>1. calls'[r] = Append(SubSeq(calls[r], 1, Len(calls[r]) - 1), frame)
    BY <1>1, <1>4 DEF Goto, Below
  <2>2. Len(calls'[r]) = Len(calls[r]) /\ calls'[r] # <<>> /\ calls'[r][Len(calls[r])] = frame
    BY <1>2, <1>3, <2>1, ReplacedStack
  <2> QED
    BY <2>2 DEF Top
<1>5. ASSUME GotoAndCall(r, frame, call) PROVE calls'[r] # <<>> /\ Top(r)' = call
  <2>1. calls'[r] = SubSeq(calls[r], 1, Len(calls[r]) - 1) \o <<frame, call>>
    BY <1>1, <1>5 DEF GotoAndCall, Below
  <2>2. Pushed(calls'[r], calls[r], frame, call)
    BY <1>2, <1>3, <2>1, PushedStack
  <2> QED
    BY <2>2 DEF Top, Pushed
<1>6. ASSUME Call(r, call) PROVE calls'[r] # <<>> /\ Top(r)' = call
  <2>1. calls'[r] = Append(calls[r], call)
    BY <1>1, <1>6 DEF Call
  <2>2. /\ Len(calls'[r]) = Len(calls[r]) + 1 /\ calls'[r] # <<>>
        /\ calls'[r][Len(calls[r]) + 1] = call
    BY <1>2, <1>3, <2>1, ToppedStack
  <2> QED
    BY <2>2 DEF Top
<1> QED
  BY <1>4, <1>5, <1>6

\* A finish a call returns to is not about to publish.
LEMMA NotAfterReturn ==
  ASSUME IInv, UNCHANGED archive, NEW r \in Readers, calls[r] # <<>>, NEW value, Return(r, value)
  PROVE  ~In(r, "finish", "publish")' /\ \A q \in Readers \ {r} : calls'[q] = calls[q]
<1>1. /\ OnlyTop(r, {})
      /\ calls'[r] # <<>> /\ Top(r)'.fn = "finish" => LooksUp(Top(r)', Top(r))
  BY ReturnStep DEF IInv, StackInv
<1> QED
  BY <1>1 DEF OnlyTop, LooksUp, In

OnTheWay == {r \in Readers : In(r, "finish", "publish")}

LEMMA WaySame ==
  ASSUME NEW r \in Readers, \A q \in Readers \ {r} : calls'[q] = calls[q],
         ~In(r, "finish", "publish"), ~In(r, "finish", "publish")'
  PROVE  OnTheWay' = OnTheWay
BY DEF OnTheWay, In, Top

\* The steps that neither publish nor reserve leave the way as it is.
LEMMA WayStep ==
  ASSUME IInv, NEW r \in Readers,
         \/ Ask(r) \/ Alone(r) \/ Together(r) \/ Claim(r) \/ Load(r) \/ Scope(r) \/ Refer(r)
         \/ Looked(r) \/ Prove(r) \/ Participate(r) \/ Finished(r) \/ PublishAll(r)
  PROVE  OnTheWay' = OnTheWay
<1> DEFINE Not == ~In(r, "finish", "publish")
           Others == \A q \in Readers \ {r} : calls'[q] = calls[q]
<1>1. TypeInv /\ calls \in [Readers -> Seq(Frame)]
  BY DEF IInv, TypeInv
<1>2. ASSUME calls[r] # <<>>, NEW frame, Goto(r, frame), frame.at # "publish"
      PROVE  Not' /\ Others
  <2>1. Top(r)' = frame
    BY <1>1, <1>2, TopAfter
  <2> QED
    BY <1>1, <1>2, <2>1 DEF In, Goto
<1>3. ASSUME calls[r] # <<>>, NEW frame, NEW call, GotoAndCall(r, frame, call), call.at # "publish"
      PROVE  Not' /\ Others
  <2>1. Top(r)' = call
    BY <1>1, <1>3, TopAfter
  <2> QED
    BY <1>1, <1>3, <2>1 DEF In, GotoAndCall
<1>4. ASSUME calls[r] # <<>>, NEW call, Call(r, call), call.at # "publish"
      PROVE  Not' /\ Others
  <2>1. Top(r)' = call
    BY <1>1, <1>4, TopAfter
  <2> QED
    BY <1>1, <1>4, <2>1 DEF In, Call
<1>5. ASSUME calls[r] # <<>>, UNCHANGED archive, NEW value, Return(r, value)
      PROVE  Not' /\ Others
  BY <1>5, NotAfterReturn
<1>6. ASSUME calls[r] # <<>>, UNCHANGED archive, Fail(r) PROVE Not' /\ Others
  BY <1>5, <1>6 DEF Fail
<1>7. ASSUME calls[r] # <<>>, UNCHANGED archive, Complete(r) PROVE Not' /\ Others
  BY <1>5, <1>7 DEF Complete
<1>8. ASSUME calls[r] # <<>>, NEW at \in {"joint", "claim", "load", "refs", "reserve", "finish"}, At(r, at)
      PROVE  Not' /\ Others
  <2>1. PICK frame : frame = [Top(r) EXCEPT !.at = at]
    OBVIOUS
  <2>2. frame.at # "publish"
    <3>1. Top(r) \in Frame
      BY <1>8, TopSound
    <3> QED
      BY <2>1, <3>1 DEF Frame, ReadFrame, FinishFrame, BuildFrame
  <2> QED
    BY <1>2, <1>8, <2>1, <2>2 DEF At
<1>9. ASSUME calls[r] # <<>>, Top(r).fn = "finish", NextRef(r) PROVE Not' /\ Others
  <2>1. PICK frame : frame = [Top(r) EXCEPT !.at = "refs", !.ref = @ + 1]
    OBVIOUS
  <2>2. Top(r) \in FinishFrame
    BY <1>9, TopSound
  <2>3. frame.at = "refs"
    BY <1>1, <2>1, <2>2, NextFrame
  <2> QED
    BY <1>2, <1>9, <2>1, <2>3 DEF NextRef
<1>10. \A f : Read(f).at = "once" /\ \A c : Finish(f, c).at = "scope" /\ Build(c).at = "finish"
  BY DEF Read, Finish, Build
<1>11. CASE Ask(r)
  <2>1. PICK f, call : call = Read(f) /\ Call(r, call) /\ calls[r] = <<>>
    BY <1>11 DEF Ask
  <2>2. Linked /\ NoRivals /\ UNCHANGED archive
    BY <1>11 DEF Ask, IInv, StackInv
  <2>3. calls' = [calls EXCEPT ![r] = Append(<<>>, call)]
    BY <2>1 DEF Call
  <2>4. calls'[r] = <<call>>
    BY <1>1, <2>3
  <2>5. Not /\ Not' /\ Others
    BY <1>1, <1>10, <2>1, <2>3, <2>4 DEF In, Top
  <2> QED
    BY <2>5, WaySame
<1>12. CASE Alone(r) \/ Together(r) \/ Claim(r) \/ Load(r)
  <2>1. calls[r] # <<>> /\ Not /\ UNCHANGED archive
    BY <1>12 DEF Alone, Together, Claim, Load, In
  <2>2. \/ \E value : Return(r, value)
        \/ \E at \in {"joint", "claim", "load"} : At(r, at)
        \/ \E f : Call(r, Finish(f, {}))
        \/ \E c : Call(r, Build(c))
    BY <1>12 DEF Alone, Together, Claim, Load, Answer
  <2>3. Not' /\ Others
    BY <1>4, <1>5, <1>8, <1>10, <2>1, <2>2
  <2> QED
    BY <2>1, <2>3, WaySame
<1>13. CASE Scope(r) \/ Refer(r) \/ Looked(r) \/ Prove(r)
  <2>1. calls[r] # <<>> /\ Top(r).fn = "finish" /\ Not /\ UNCHANGED archive
    BY <1>13 DEF Scope, Refer, Looked, Prove, In
  <2>2. \/ \E value : Return(r, value)
        \/ Fail(r) \/ NextRef(r)
        \/ \E at \in {"refs", "reserve"} : At(r, at)
        \/ \E f, frame : GotoAndCall(r, frame, Read(f))
    BY <1>13 DEF Scope, Refer, Looked, Prove
  <2>3. Not' /\ Others
    BY <1>3, <1>5, <1>6, <1>8, <1>9, <1>10, <2>1, <2>2
  <2> QED
    BY <2>1, <2>3, WaySame
<1>14. CASE Participate(r) \/ Finished(r) \/ PublishAll(r)
  <2>1. calls[r] # <<>> /\ Not /\ UNCHANGED archive
    BY <1>14 DEF Participate, Finished, PublishAll, In
  <2>2. \/ Complete(r) \/ At(r, "finish")
        \/ \E f, c, frame : GotoAndCall(r, frame, Finish(f, c))
    BY <1>14 DEF Participate, Finished, PublishAll
  <2>3. Not' /\ Others
    BY <1>3, <1>7, <1>8, <1>10, <2>1, <2>2
  <2> QED
    BY <2>1, <2>3, WaySame
<1> QED
  BY <1>11, <1>12, <1>13, <1>14

LEMMA WayType ==
  IsFiniteSet(OnTheWay) /\ Cardinality(OnTheWay) \in Nat
BY ReadersAssumption, FS_Subset, FS_CardinalityType DEF OnTheWay

LEMMA PublishedType ==
  ASSUME IInv
  PROVE  /\ published \subseteq Families /\ IsFiniteSet(published)
         /\ Cardinality(published) \in Nat
<1>1. published \subseteq Families
  BY DEF IInv, TypeInv, published
<1> QED
  BY <1>1, WorldType, FS_Subset, FS_CardinalityType DEF IInv

\* A family is published once: alone only while it is being completed alone,
\* together only while its component is being completed.
LEMMA NotYetPublished ==
  ASSUME IInv, NEW r \in Readers, calls[r] # <<>>
  PROVE  /\ Top(r).fn = "finish" /\ Top(r).at = "publish" => Top(r).family \notin published
         /\ Top(r).fn = "build" => Top(r).owners \cap published = {}
<1>1. ASSUME Top(r).fn = "finish", Top(r).at = "publish" PROVE Top(r).family \notin published
  <2>1. PICK f \in Families : f = Top(r).family /\ single[f] = "busy" /\ ~Cyclic(f)
    BY <1>1, TopSound DEF FrameSound, SoloSound
  <2>2. f \notin alone
    BY <2>1 DEF IInv, Outcomes
  <2>3. f \notin together
    BY <2>1 DEF IInv, Outcomes, DoneTogether, Claims
  <2> QED
    BY <2>1, <2>2, <2>3 DEF published
<1>2. ASSUME Top(r).fn = "build", NEW f \in Top(r).owners PROVE f \notin published
  <2>1. PICK c : c = Top(r).owners /\ c \in DOMAIN joint /\ joint[c] = "busy"
    BY <1>2, TopSound DEF BuildSound
  <2>2. Cyclic(f) /\ claimed[f] = c /\ f \in c /\ c # {}
    BY <1>2, <2>1 DEF IInv, Claims
  <2>3. f \notin alone
    BY <2>2 DEF IInv, Outcomes
  <2>4. f \notin together
    BY <2>1, <2>2 DEF IInv, Outcomes, DoneTogether
  <2> QED
    BY <2>3, <2>4 DEF published
<1> QED
  BY <1>1, <1>2

LEMMA AllowanceStep ==
  ASSUME IInv, AllowanceExact, [Next]_vars
  PROVE  AllowanceExact'
<1> DEFINE B == Cardinality(published)
           W == Cardinality(OnTheWay)
<1>1. /\ bytes = Size * B /\ ledger = bytes + elsewhere + Size * W /\ ledger <= world.limit
      /\ bytes \in Nat /\ ledger \in Nat /\ elsewhere \in Nat /\ world.limit \in Nat
      /\ B \in Nat /\ W \in Nat
  BY WorldType, WayType, PublishedType DEF AllowanceExact, OnTheWay, IInv, TypeInv
<1>2. /\ bytes = B /\ ledger = bytes + elsewhere + W /\ ledger <= world.limit
      /\ bytes \in Nat /\ ledger \in Nat /\ elsewhere \in Nat /\ world.limit \in Nat
      /\ B \in Nat /\ W \in Nat
  BY <1>1 DEF Size
<1>3. ASSUME B' \in Nat, W' \in Nat,
             bytes' = B', ledger' = bytes' + elsewhere' + W', ledger' <= world'.limit
      PROVE  AllowanceExact'
  <2>1. Size * B' = B' /\ Size * W' = W'
    BY <1>3 DEF Size
  <2> QED
    BY <1>3, <2>1 DEF AllowanceExact, OnTheWay, Size
<1>4. ASSUME OnTheWay' = OnTheWay,
             UNCHANGED <<bytes, ledger, elsewhere, alone, together, world>>
      PROVE  AllowanceExact'
  BY <1>2, <1>3, <1>4 DEF published
<1>5. ASSUME NEW r \in Readers, Reserve(r) PROVE AllowanceExact'
  <2>1. /\ calls[r] # <<>> /\ Top(r).fn = "finish" /\ Top(r).at = "reserve"
        /\ UNCHANGED <<archive, world, bytes, elsewhere, alone, together>>
    BY <1>5 DEF Reserve, In, archive
  <2>2. r \notin OnTheWay
    BY <2>1 DEF OnTheWay, In
  <2>3. CASE Fail(r) /\ UNCHANGED ledger
    <3>1. PICK value : Return(r, value)
      BY <2>3 DEF Fail
    <3>2. OnTheWay' = OnTheWay
      BY <2>1, <2>2, <3>1, NotAfterReturn, WaySame DEF OnTheWay
    <3> QED
      BY <1>4, <2>1, <2>3, <3>2
  <2>4. CASE /\ At(r, "publish") /\ ledger' = ledger + Size /\ Reservable(Size)
    <3>1. PICK frame : frame = [Top(r) EXCEPT !.at = "publish"] /\ Goto(r, frame)
      BY <2>4 DEF At
    <3>2. frame.fn = "finish" /\ frame.at = "publish"
      <4>1. Top(r) \in FinishFrame
        BY <2>1, TopSound
      <4> QED
        BY <3>1, <4>1 DEF FinishFrame
    <3>3. calls'[r] # <<>> /\ Top(r)' = frame /\ \A q \in Readers \ {r} : calls'[q] = calls[q]
      BY <2>1, <3>1, TopAfter DEF IInv, TypeInv, Goto
    <3>4. OnTheWay' = OnTheWay \cup {r}
      BY <3>2, <3>3 DEF OnTheWay, In, Top
    <3>5. W' = W + 1
      BY <2>2, <3>4, WayType, FS_AddElement
    <3>6. ledger' = ledger + 1 /\ ledger + 1 <= world.limit
      BY <1>1, <2>4 DEF Reservable, Size
    <3>7. B' = B
      BY <2>1 DEF published
    <3> HIDE DEF B, W
    <3> QED
      BY <1>2, <1>3, <2>1, <3>5, <3>6, <3>7
  <2> QED
    BY <1>5, <2>3, <2>4 DEF Reserve
<1>6. ASSUME NEW r \in Readers, Publish(r) PROVE AllowanceExact'
  <2>1. /\ calls[r] # <<>> /\ Top(r).fn = "finish" /\ Top(r).at = "publish"
        /\ In(r, "finish", "publish")
        /\ UNCHANGED <<archive, world, ledger, elsewhere, together>>
    BY <1>6 DEF Publish, In, archive
  <2>2. r \in OnTheWay
    BY <2>1 DEF OnTheWay
  <2>3. PICK value : Return(r, value)
    BY <1>6 DEF Publish
  <2>4. OnTheWay' = OnTheWay \ {r}
    BY <2>1, <2>3, NotAfterReturn DEF OnTheWay, In, Top
  <2>5. W' = W - 1
    BY <2>2, <2>4, WayType, FS_RemoveElement
  <2>6. W - 1 \in Nat
    <3>1. W \in Nat /\ W # 0
      BY <2>2, WayType, FS_EmptySet
    <3> HIDE DEF W
    <3> QED
      BY <3>1
  <2>7. Size <= world.limit - bytes
    <3> HIDE DEF W
    <3> QED
      BY <1>1, <1>2, <2>6 DEF Size
  <2>8. PICK f : f = Top(r).family
    OBVIOUS
  <2>9. bytes' = bytes + 1 /\ alone' = alone \cup {f}
    BY <1>1, <1>6, <2>7, <2>8 DEF Publish, Size
  <2>10. f \notin published
    BY <2>1, <2>8, NotYetPublished
  <2>11. published' = published \cup {f}
    BY <2>1, <2>9 DEF published
  <2>12. B' = B + 1
    BY <2>10, <2>11, PublishedType, FS_AddElement
  <2> HIDE DEF B, W
  <2> QED
    BY <1>2, <1>3, <2>1, <2>5, <2>6, <2>9, <2>12
<1>7. ASSUME NEW r \in Readers, PublishAll(r) PROVE AllowanceExact'
  <2>1. /\ calls[r] # <<>> /\ Top(r).fn = "build"
        /\ UNCHANGED <<world, alone, elsewhere>>
    BY <1>7 DEF PublishAll, In, archive
  <2>2. OnTheWay' = OnTheWay
    BY <1>7, WayStep
  <2>3. PICK c : c = Top(r).owners
    OBVIOUS
  <2>4. CASE UNCHANGED <<bytes, ledger, together>>
    BY <1>4, <2>1, <2>2, <2>4
  <2>5. CASE /\ bytes' = bytes + Size * Cardinality(c) /\ ledger' = ledger + Size * Cardinality(c)
             /\ together' = together \cup c /\ Reservable(Size * Cardinality(c))
    <3>1. c \subseteq Families
      BY <2>1, <2>3, TopSound DEF BuildFrame
    <3>2. IsFiniteSet(c) /\ Cardinality(c) \in Nat
      BY <3>1, WorldType, FS_Subset, FS_CardinalityType DEF IInv
    <3>3. c \cap published = {} /\ published' = published \cup c
      BY <2>1, <2>3, <2>5, NotYetPublished DEF published
    <3>4. B' = B + Cardinality(c)
      <4>1. B' = B + Cardinality(c) - Cardinality(published \cap c) /\ published \cap c = {}
        BY <3>2, <3>3, PublishedType, FS_Union
      <4>2. Cardinality(published \cap c) = 0
        BY <4>1, FS_EmptySet
      <4> HIDE DEF B
      <4> QED
        BY <1>1, <3>2, <4>1, <4>2
    <3>5. /\ bytes' = bytes + Cardinality(c) /\ ledger' = ledger + Cardinality(c)
          /\ Cardinality(c) <= world.limit - ledger
      BY <2>5, <3>2 DEF Size, Reservable
    <3>6. W' = W
      BY <2>2
    <3> HIDE DEF B, W
    <3> QED
      BY <1>2, <1>3, <2>1, <3>2, <3>4, <3>5, <3>6
  <2> QED
    BY <1>7, <2>3, <2>4, <2>5 DEF PublishAll
<1>8. CASE OtherView
  <2>1. OnTheWay' = OnTheWay /\ UNCHANGED <<world, bytes, alone, together>>
    BY <1>8 DEF OtherView, OnTheWay, In, Top, archive
  <2>2. W' = W /\ B' = B
    BY <2>1 DEF published
  <2>3. ledger' = ledger + 1 /\ elsewhere' = elsewhere + 1 /\ 1 <= world.limit - ledger
    BY <1>8 DEF OtherView, Reservable, Size
  <2> HIDE DEF B, W
  <2> QED
    BY <1>2, <1>3, <2>1, <2>2, <2>3
<1>9. CASE UNCHANGED vars
  BY <1>4, <1>9 DEF vars, sources, archive, OnTheWay, In, Top
<1>10. ASSUME NEW r \in Readers,
              \/ Ask(r) \/ Alone(r) \/ Together(r) \/ Claim(r) \/ Load(r) \/ Scope(r) \/ Refer(r)
              \/ Looked(r) \/ Prove(r) \/ Participate(r) \/ Finished(r)
       PROVE  AllowanceExact'
  <2>1. OnTheWay' = OnTheWay
    BY <1>10, WayStep
  <2>2. UNCHANGED <<bytes, ledger, elsewhere, alone, together, world>>
    BY <1>10 DEF Ask, Alone, Together, Claim, Load, Scope, Refer, Looked, Prove, Participate,
                 Finished, sources, archive
  <2> QED
    BY <1>4, <2>1, <2>2
<1> QED
  BY <1>5, <1>6, <1>7, <1>8, <1>9, <1>10 DEF Next, Step

LEMMA AllowanceInit ==
  ASSUME Init
  PROVE  AllowanceExact
<1>1. published = {} /\ OnTheWay = {}
  BY DEF Init, published, OnTheWay, In
<1>2. Cardinality(published) = 0 /\ Cardinality(OnTheWay) = 0
  BY <1>1, FS_EmptySet
<1>3. world.limit \in Nat
  BY InitInv, WorldType DEF IInv
<1> QED
  BY <1>2, <1>3 DEF Init, AllowanceExact, OnTheWay, Size

\* The view and the ledger it shares are charged for what is published and for
\* what is about to be, and for nothing else; the ledger keeps the allowance.
THEOREM Allowances == Spec => []AllowanceExact
BY InitInv, NextInv, AllowanceInit, AllowanceStep, PTL DEF Spec
-----------------------------------------------------------------------------
(* The answers.  A source that is published stands on sources that are     *)
(* published, so that lexical answers are right.  For the others: whatever *)
(* is done and has failed cannot be lexical in any set of sources that     *)
(* stands, as long as no attempt fails for want of room.                   *)

\* Family f and those it depends on in a cycle can be lexical if all of S is.
Stands(f, S) ==
  \A g \in component[f] :
    /\ g \in S /\ g \notin world.unclosed /\ world.users[g] \subseteq component[f]
    /\ \A ref \in Refs(g) : ref.to \in component[f] \/ ref.static \/ ref.to \in S

Best == UNION {S \in SUBSET (Families \ world.refused) : \A f \in S : Stands(f, S)}

Ample == ~world.shared /\ world.limit >= Size * Cardinality(Families)

\* The reference a finish is at.
Sought(frame) == world.refs[frame.family][frame.ref]

\* A reference is no obstacle to a completion with these peers.
Bound(ref, peers) == ref.static \/ ref.to \in peers \/ ref.to \in published

\* A participant that was finished.
Ready(g, c) ==
  /\ g \notin world.unclosed /\ world.users[g] \subseteq c
  /\ \A i \in DOMAIN world.refs[g] : Bound(world.refs[g][i], c)

\* What a finish has got through so far.
Passed(frame) ==
  /\ frame.peers # {} => frame.family \in frame.peers /\ frame.peers \in DOMAIN joint
  /\ frame.at # "scope" => world.users[frame.family] \subseteq frame.peers
  /\ \A i \in DOMAIN world.refs[frame.family] :
       i < frame.ref => Bound(world.refs[frame.family][i], frame.peers)
  /\ frame.at \in {"reserve", "publish"} => Ready(frame.family, frame.peers)
  /\ frame.at = "looked" =>
       /\ frame.ref \in DOMAIN world.refs[frame.family]
       /\ ~Terminal(Sought(frame)) /\ Sought(frame).to \notin frame.peers

\* The participants of a build it has called a finish for, but that are not ready.
Unready(frame) == {g \in frame.owners \ frame.left : ~Ready(g, frame.owners)}

FrameGood(frame) ==
  /\ frame.fn = "read" /\ frame.at # "once" => frame.family \notin alone
  /\ frame.fn = "finish" => Passed(frame)
  /\ frame.fn = "build" /\ frame.at = "finish" => Unready(frame) = {}

FramesGood == \A r \in Readers : \A i \in DOMAIN calls[r] : FrameGood(calls[r][i])

\* A build that calls is finishing the only participant that may not be ready.
Builds(frame, call) ==
  /\ call.fn = "finish" /\ call.peers = frame.owners
  /\ Unready(frame) \subseteq {call.family}

Built ==
  \A r \in Readers : \A i \in DOMAIN calls[r] :
    i # Len(calls[r]) /\ calls[r][i].fn = "build" => Builds(calls[r][i], calls[r][i + 1])

\* What the value a call has returned means to its caller.
Heard(frame, value) ==
  /\ frame.fn = "finish" /\ frame.at = "looked" =>
       /\ value => Sought(frame).to \in published
       /\ ~value /\ Ample =>
            /\ Sought(frame).to \notin Best
            /\ Sought(frame).to \notin world.refused => Settled(Sought(frame).to)
  /\ frame.fn = "build" /\ frame.at = "finished" =>
       /\ value => Unready(frame) = {}
       /\ ~value /\ Ample => frame.owners \cap Best = {}

AllHeard == \A r \in Readers : calls[r] # <<>> => Heard(Top(r), given[r])

\* What is done and has failed.
Lost(f) ==
  \/ single[f] = "done" /\ ~Cyclic(f) /\ f \notin alone
  \/ DoneTogether(f) /\ f \notin together

Verdicts ==
  /\ \A f \in published : Stands(f, published)
  /\ Ample => \A f \in Families : Lost(f) => f \notin Best
  /\ flat \cap world.refused = {}

Truths ==
  \A a \in told :
    /\ a.family \in Families /\ a.lexical \in BOOLEAN
    /\ a.lexical => a.family \in published
    /\ ~a.lexical /\ Ample => a.family \notin Best

AnswersInv ==
  /\ FramesGood /\ Built /\ AllHeard /\ Verdicts /\ Truths
  /\ component = [f \in Families |-> Component(f)]
  /\ ~world.shared => elsewhere = 0
-----------------------------------------------------------------------------
(* Where the frames of a stack go in one step.                             *)

\* The neighbours on the stacks are the same as before, except those in P.
Adjacent(r, P) ==
  \A q \in Readers : \A i \in DOMAIN calls'[q] : i # Len(calls'[q]) =>
    \/ /\ i \in DOMAIN calls[q] /\ i # Len(calls[q]) /\ calls'[q][i] = calls[q][i]
       /\ Same(calls'[q][i + 1], calls[q][i + 1])
    \/ q = r /\ <<calls'[q][i], calls'[q][i + 1]>> \in P

LEMMA OthersAdjacent ==
  ASSUME NEW r \in Readers, NEW P, \A q \in Readers \ {r} : calls'[q] = calls[q],
         \A i \in DOMAIN calls'[r] : i # Len(calls'[r]) =>
           \/ /\ i \in DOMAIN calls[r] /\ i # Len(calls[r]) /\ calls'[r][i] = calls[r][i]
              /\ Same(calls'[r][i + 1], calls[r][i + 1])
           \/ <<calls'[r][i], calls'[r][i + 1]>> \in P
  PROVE  Adjacent(r, P)
<1> SUFFICES ASSUME NEW q \in Readers, NEW i \in DOMAIN calls'[q], i # Len(calls'[q])
             PROVE  \/ /\ i \in DOMAIN calls[q] /\ i # Len(calls[q]) /\ calls'[q][i] = calls[q][i]
                       /\ Same(calls'[q][i + 1], calls[q][i + 1])
                    \/ q = r /\ <<calls'[q][i], calls'[q][i + 1]>> \in P
  BY DEF Adjacent
<1>1. CASE q # r
  BY <1>1 DEF Same
<1>2. CASE q = r
  BY <1>2
<1> QED
  BY <1>1, <1>2

LEMMA GotoMoves ==
  ASSUME TypeInv, NEW r \in Readers, calls[r] # <<>>,
         NEW frame \in Frame, Same(frame, Top(r)), Goto(r, frame)
  PROVE  /\ OnlyTop(r, {frame}) /\ Adjacent(r, {}) /\ calls'[r] # <<>> /\ Top(r)' = frame
         /\ given' = given
<1> DEFINE s == calls[r]
           t == calls'[r]
<1>1. /\ calls' = [calls EXCEPT ![r] = Append(Below(r), frame)] /\ given' = given
      /\ calls \in [Readers -> Seq(Frame)]
  BY DEF Goto, TypeInv
<1>2. t = Append(SubSeq(s, 1, Len(s) - 1), frame) /\ \A q \in Readers \ {r} : calls'[q] = calls[q]
  BY <1>1 DEF Below
<1>3. /\ s \in Seq(Frame) /\ Len(s) \in Nat \ {0} /\ DOMAIN s = 1..Len(s)
      /\ Top(r) = s[Len(s)]
  BY StackType
<1>4. /\ t \in Seq(Frame) /\ Len(t) = Len(s) /\ t # <<>> /\ DOMAIN t = 1..Len(s)
      /\ \A i \in 1..(Len(s) - 1) : t[i] = s[i]
      /\ t[Len(s)] = frame
  BY <1>2, <1>3, ReplacedStack
<1>5. calls' \in [Readers -> Seq(Frame)]
  BY <1>1, <1>2, <1>4
<1>6. Top(r)' = frame
  BY <1>4 DEF Top
<1> HIDE DEF s, t
<1>7. \A i \in DOMAIN t : \/ i \in DOMAIN s /\ t[i] = s[i] /\ i # Len(s)
                          \/ i = Len(s) /\ t[i] = frame
  BY <1>3, <1>4
<1>8. OnlyTop(r, {frame})
  BY <1>2, <1>5, <1>7 DEF OnlyTop, s, t
<1>9. \A i \in DOMAIN t : i # Len(t) =>
        i \in DOMAIN s /\ i # Len(s) /\ t[i] = s[i] /\ Same(t[i + 1], s[i + 1])
  <2> TAKE i \in DOMAIN t
  <2> HAVE i # Len(t)
  <2>1. i \in DOMAIN s /\ i # Len(s) /\ t[i] = s[i] /\ i + 1 \in DOMAIN t
    BY <1>3, <1>4
  <2>2. t[i + 1] = s[i + 1] \/ (t[i + 1] = frame /\ s[i + 1] = Top(r))
    BY <1>3, <1>7, <2>1
  <2> QED
    BY <2>1, <2>2 DEF Same
<1> QED
  BY <1>1, <1>2, <1>4, <1>6, <1>8, <1>9, OthersAdjacent DEF s, t

LEMMA PushMoves ==
  ASSUME TypeInv, NEW r \in Readers, calls[r] # <<>>,
         NEW frame \in Frame, Same(frame, Top(r)), NEW call \in Frame,
         GotoAndCall(r, frame, call)
  PROVE  /\ OnlyTop(r, {frame, call}) /\ Adjacent(r, {<<frame, call>>})
         /\ calls'[r] # <<>> /\ Top(r)' = call /\ given' = given
<1> DEFINE s == calls[r]
           t == calls'[r]
<1>1. /\ calls \in [Readers -> Seq(Frame)] /\ given' = given
      /\ calls' = [calls EXCEPT ![r] = Below(r) \o <<frame, call>>]
  BY DEF TypeInv, GotoAndCall
<1>2. \A q \in Readers \ {r} : calls'[q] = calls[q]
  BY <1>1
<1>3. /\ s \in Seq(Frame) /\ Len(s) \in Nat \ {0} /\ DOMAIN s = 1..Len(s)
      /\ Top(r) = s[Len(s)]
  BY StackType
<1>4. /\ t \in Seq(Frame) /\ Len(t) = Len(s) + 1 /\ t # <<>> /\ DOMAIN t = 1..(Len(s) + 1)
      /\ \A i \in 1..(Len(s) - 1) : t[i] = s[i]
      /\ t[Len(s)] = frame /\ t[Len(s) + 1] = call
  BY PushedCalls DEF Pushed
<1>5. calls' \in [Readers -> Seq(Frame)]
  BY <1>1, <1>2, <1>4
<1>6. Top(r)' = call
  BY <1>4 DEF Top
<1> HIDE DEF s, t
<1>7. \A i \in DOMAIN t : \/ i \in DOMAIN s /\ t[i] = s[i] /\ i # Len(s)
                          \/ i = Len(s) /\ t[i] = frame
                          \/ i = Len(s) + 1 /\ t[i] = call
  BY <1>3, <1>4
<1>8. OnlyTop(r, {frame, call})
  BY <1>2, <1>5, <1>7 DEF OnlyTop, s, t
<1>9. \A i \in DOMAIN t : i # Len(t) =>
        \/ i \in DOMAIN s /\ i # Len(s) /\ t[i] = s[i] /\ Same(t[i + 1], s[i + 1])
        \/ <<t[i], t[i + 1]>> \in {<<frame, call>>}
  <2> TAKE i \in DOMAIN t
  <2> HAVE i # Len(t)
  <2>1. CASE i = Len(s)
    BY <1>4, <2>1
  <2>2. CASE i # Len(s)
    <3>1. i \in DOMAIN s /\ t[i] = s[i] /\ i + 1 \in 1..Len(s) /\ i + 1 \in DOMAIN t
          /\ i + 1 # Len(s) + 1
      BY <1>3, <1>4, <2>2
    <3>2. t[i + 1] = s[i + 1] \/ (t[i + 1] = frame /\ s[i + 1] = Top(r))
      BY <1>3, <1>7, <3>1
    <3> QED
      BY <2>2, <3>1, <3>2 DEF Same
  <2> QED
    BY <2>1, <2>2
<1> QED
  BY <1>1, <1>2, <1>4, <1>6, <1>8, <1>9, OthersAdjacent DEF s, t

LEMMA CallMoves ==
  ASSUME TypeInv, NEW r \in Readers, NEW call \in Frame, Call(r, call)
  PROVE  /\ calls[r] # <<>> => OnlyTop(r, {Top(r), call}) /\ Adjacent(r, {<<Top(r), call>>})
         /\ calls[r] = <<>> => OnlyTop(r, {call}) /\ Adjacent(r, {})
         /\ calls'[r] # <<>> /\ Top(r)' = call /\ given' = given
<1> DEFINE s == calls[r]
           t == calls'[r]
<1>1. calls \in [Readers -> Seq(Frame)] /\ calls' = [calls EXCEPT ![r] = Append(s, call)] /\ given' = given
  BY DEF TypeInv, Call
<1>2. t = Append(s, call) /\ \A q \in Readers \ {r} : calls'[q] = calls[q]
  BY <1>1
<1>3. /\ s \in Seq(Frame) /\ Len(s) \in Nat /\ DOMAIN s = 1..Len(s)
      /\ s # <<>> => Top(r) = s[Len(s)]
      /\ s = <<>> => Len(s) = 0
  BY StackType, EmptySeq
<1>4. /\ t \in Seq(Frame) /\ Len(t) = Len(s) + 1 /\ t # <<>> /\ DOMAIN t = 1..(Len(s) + 1)
      /\ \A i \in 1..Len(s) : t[i] = s[i]
      /\ t[Len(s) + 1] = call
  BY <1>2, <1>3, ToppedStack
<1>5. calls' \in [Readers -> Seq(Frame)]
  BY <1>1, <1>2, <1>4
<1>6. Top(r)' = call
  BY <1>4 DEF Top
<1> HIDE DEF s, t
<1>7. \A i \in DOMAIN t : \/ i \in DOMAIN s /\ t[i] = s[i]
                          \/ i = Len(s) + 1 /\ t[i] = call
  BY <1>3, <1>4
<1>8. s # <<>> => OnlyTop(r, {Top(r), call})
  BY <1>2, <1>3, <1>5, <1>7 DEF OnlyTop, s, t
<1>9. s = <<>> => OnlyTop(r, {call})
  BY <1>2, <1>3, <1>5, <1>7 DEF OnlyTop, s, t
<1>10. \A i \in DOMAIN t : i # Len(t) =>
         \/ i \in DOMAIN s /\ i # Len(s) /\ t[i] = s[i] /\ Same(t[i + 1], s[i + 1])
         \/ s # <<>> /\ <<t[i], t[i + 1]>> \in {<<Top(r), call>>}
  <2> TAKE i \in DOMAIN t
  <2> HAVE i # Len(t)
  <2>1. i \in DOMAIN s /\ t[i] = s[i] /\ s # <<>>
    BY <1>3, <1>4
  <2>2. CASE i = Len(s)
    BY <1>3, <1>4, <2>1, <2>2
  <2>3. CASE i # Len(s)
    <3>1. i + 1 \in 1..Len(s)
      BY <1>3, <2>1, <2>3
    <3>2. t[i + 1] = s[i + 1]
      BY <1>4, <3>1
    <3> QED
      BY <2>1, <2>3, <3>2 DEF Same
  <2> QED
    BY <2>2, <2>3
<1>11. s # <<>> => Adjacent(r, {<<Top(r), call>>})
  BY <1>2, <1>10, OthersAdjacent DEF s, t
<1>12. s = <<>> => Adjacent(r, {})
  BY <1>2, <1>10, OthersAdjacent DEF s, t
<1> QED
  BY <1>1, <1>4, <1>6, <1>8, <1>9, <1>11, <1>12 DEF s, t

\* A call that returns to a finish was a lookup, to a build one of its finishes.
LEMMA ReturnMoves ==
  ASSUME TypeInv, Linked, Built, UNCHANGED archive,
         NEW r \in Readers, calls[r] # <<>>, NEW value, Return(r, value)
  PROVE  /\ OnlyTop(r, {}) /\ Adjacent(r, {})
         /\ given'[r] = value /\ \A q \in Readers \ {r} : given'[q] = given[q]
         /\ calls'[r] # <<>> =>
              /\ Top(r)' \in Frame
              /\ Top(r)'.fn = "finish" => LooksUp(Top(r)', Top(r))
              /\ Top(r)'.fn = "build" => Builds(Top(r)', Top(r))
<1> DEFINE s == calls[r]
           t == calls'[r]
<1>1. /\ calls' = [calls EXCEPT ![r] = Below(r)] /\ given' = [given EXCEPT ![r] = value]
      /\ calls \in [Readers -> Seq(Frame)] /\ given \in [Readers -> BOOLEAN]
  BY DEF Return, TypeInv
<1>2. t = SubSeq(s, 1, Len(s) - 1) /\ \A q \in Readers \ {r} : calls'[q] = calls[q]
  BY <1>1 DEF Below
<1>3. /\ s \in Seq(Frame) /\ Len(s) \in Nat \ {0} /\ DOMAIN s = 1..Len(s)
      /\ Top(r) = s[Len(s)] /\ \A i \in DOMAIN s : s[i] \in Frame
  BY StackType
<1>4. /\ t \in Seq(Frame) /\ Len(t) = Len(s) - 1
      /\ \A i \in 1..(Len(s) - 1) : t[i] = s[i]
  BY <1>2, <1>3, PoppedStack
<1>5. calls' \in [Readers -> Seq(Frame)]
  BY <1>1, <1>2, <1>4
<1>6. DOMAIN t = 1..(Len(s) - 1) /\ (t # <<>> => Len(t) \in DOMAIN t)
  BY <1>3, <1>4, LenProperties, EmptySeq
<1> HIDE DEF s, t
<1>7. \A i \in DOMAIN t : /\ i \in DOMAIN s /\ t[i] = s[i] /\ i # Len(s)
                          /\ i + 1 \in DOMAIN s /\ i \in Nat
                          /\ i # Len(t) => i + 1 \in DOMAIN t
  BY <1>3, <1>4, <1>6
<1>8. OnlyTop(r, {})
  BY <1>2, <1>5, <1>7 DEF OnlyTop, s, t
<1>9. \A i \in DOMAIN t : i # Len(t) =>
        i \in DOMAIN s /\ i # Len(s) /\ t[i] = s[i] /\ Same(t[i + 1], s[i + 1])
  BY <1>7 DEF Same
<1>10. Adjacent(r, {})
  BY <1>2, <1>9, OthersAdjacent DEF s, t
<1>11. ASSUME t # <<>>
       PROVE  /\ t[Len(t)] \in Frame
              /\ t[Len(t)].fn = "finish" => LooksUp(t[Len(t)], s[Len(s)])
              /\ t[Len(t)].fn = "build" => Builds(t[Len(t)], s[Len(s)])
  <2>1. Len(t) \in DOMAIN t /\ Len(t) + 1 = Len(s)
    BY <1>3, <1>4, <1>6, <1>11
  <2>2. Len(t) \in DOMAIN s /\ Len(t) # Len(s) /\ t[Len(t)] = s[Len(t)]
    BY <1>7, <2>1
  <2> QED
    BY <1>3, <2>1, <2>2 DEF Linked, Built, s
<1>12. given'[r] = value /\ \A q \in Readers \ {r} : given'[q] = given[q]
  BY <1>1
<1> QED
  BY <1>3, <1>8, <1>10, <1>11, <1>12 DEF Top, s, t
-----------------------------------------------------------------------------
(* What a step of any action keeps.                                        *)

\* A source is published only by those who complete it.
Forward ==
  /\ UNCHANGED archive /\ Grows
  /\ alone \subseteq alone' /\ together \subseteq together'
  /\ \A f \in alone' \ alone : single[f] = "busy"
  /\ \A f \in together' \ together : ~DoneTogether(f)

LEMMA WorldStays ==
  ASSUME UNCHANGED archive
  PROVE  /\ world' = world /\ component' = component /\ Families' = Families
         /\ Best' = Best /\ Ample' = Ample
         /\ \A f \in Families : Cyclic(f)' = Cyclic(f)
BY DEF archive, Families, Best, Stands, Refs, Ample, Size, Cyclic

LEMMA ReadyStays ==
  ASSUME Forward
  PROVE  /\ published \subseteq published'
         /\ \A g, c : Ready(g, c) => Ready(g, c)'
<1>1. published \subseteq published'
  BY DEF Forward, published
<1> QED
  BY <1>1 DEF Forward, archive, Ready, Bound

LEMMA GoodStays ==
  ASSUME IInv, Forward, NEW frame \in Frame, FrameSound(frame), FrameGood(frame)
  PROVE  FrameGood(frame)'
<1>1. world' = world /\ published \subseteq published' /\ \A g, c : Ready(g, c) => Ready(g, c)'
  BY ReadyStays, WorldStays DEF Forward
<1>2. CASE frame \in ReadFrame
  <2>1. frame.fn = "read" /\ frame.family \in Families
    BY <1>2 DEF ReadFrame
  <2>2. frame.at # "once" => single[frame.family] = "done" /\ frame.family \notin alone
    BY <2>1 DEF FrameSound, ReadSound, FrameGood
  <2> QED
    BY <2>1, <2>2 DEF FrameGood, Forward
<1>3. CASE frame \in FinishFrame
  <2>1. frame.fn = "finish" /\ Passed(frame)
    BY <1>3 DEF FinishFrame, FrameGood
  <2>2. frame.peers \in DOMAIN joint => frame.peers \in DOMAIN joint'
    BY DEF Forward, Grows
  <2>3. Passed(frame)'
    BY <1>1, <2>1, <2>2 DEF Passed, Bound, Sought, Terminal
  <2> QED
    BY <2>1, <2>3 DEF FrameGood
<1>4. CASE frame \in BuildFrame
  <2>1. frame.fn = "build"
    BY <1>4 DEF BuildFrame
  <2> QED
    BY <1>1, <2>1 DEF FrameGood, Unready
<1> QED
  BY <1>2, <1>3, <1>4 DEF Frame

LEMMA BuildsStays ==
  ASSUME Forward, NEW frame, NEW call, Builds(frame, call), NEW next, Same(next, call)
  PROVE  Builds(frame, next)'
BY ReadyStays DEF Builds, Same, Unready

\* A family that has failed has failed for good.
LEMMA SettledStays ==
  ASSUME IInv, IInv', Forward, NEW f \in Families, single[f] = "done", Settled(f)
  PROVE  Settled(f)'
<1>1. f \notin alone'
  BY DEF Forward, Settled
<1>2. RefusedTogether(f) => RefusedTogether(f)'
  <2> SUFFICES ASSUME RefusedTogether(f) PROVE RefusedTogether(f)'
    OBVIOUS
  <2>1. claimed[f] = component[f] /\ joint[claimed[f]] = "done" /\ f \notin together
    BY DEF RefusedTogether
  <2>2. claimed[f] # {} /\ claimed[f] \in DOMAIN joint
    BY <2>1 DEF IInv, Components, Claims
  <2>3. claimed'[f] = claimed[f] /\ joint'[claimed[f]] = "done" /\ component' = component
    BY <2>1, <2>2 DEF Forward, Grows, archive
  <2>4. f \notin together'
    BY <2>1, <2>2 DEF Forward, DoneTogether
  <2> QED
    BY <2>1, <2>3, <2>4 DEF RefusedTogether
<1>3. Cyclic(f)' = Cyclic(f) /\ Families' = Families
  BY WorldStays DEF Forward
<1>4. claimed'[f] # {} => Cyclic(f)
  BY <1>3 DEF IInv, Claims
<1> QED
  BY <1>1, <1>2, <1>3, <1>4 DEF Settled

LEMMA HeardStays ==
  ASSUME IInv, IInv', Forward, NEW frame \in Frame, LookedUp(frame), NEW value, Heard(frame, value)
  PROVE  Heard(frame, value)'
<1>1. /\ world' = world /\ published \subseteq published' /\ Best' = Best /\ Ample' = Ample
      /\ \A g, c : Ready(g, c) => Ready(g, c)'
  BY ReadyStays, WorldStays DEF Forward
<1>2. ASSUME frame.fn = "finish", frame.at = "looked"
      PROVE  /\ value => Sought(frame).to \in published'
             /\ ~value /\ Ample =>
                  /\ Sought(frame).to \notin Best
                  /\ Sought(frame).to \notin world.refused => Settled(Sought(frame).to)'
  <2>1. frame.family \in Families
    BY <1>2 DEF Frame, ReadFrame, FinishFrame, BuildFrame
  <2>2. PICK d : d = Sought(frame)
    OBVIOUS
  <2>3. d.to \in Families /\ single[d.to] = "done"
    BY <1>2, <2>1, <2>2, RefType DEF LookedUp, Sought, IInv
  <2>4. /\ value => d.to \in published
        /\ ~value /\ Ample => d.to \notin Best /\ (d.to \notin world.refused => Settled(d.to))
    BY <1>2, <2>2 DEF Heard
  <2>5. PICK g \in Families : g = d.to
    BY <2>3
  <2>6. Settled(g) => Settled(g)'
    BY <2>3, <2>5, SettledStays
  <2>7. (d.to \notin world.refused => Settled(d.to)) => (d.to \notin world.refused => Settled(d.to)')
    BY <2>5, <2>6 DEF Settled, RefusedTogether, Cyclic
  <2>8. Sought(frame)' = d
    BY <1>1, <2>2 DEF Sought
  <2>9. Settled(Sought(frame).to)' = Settled(d.to)'
    BY <2>8 DEF Settled, RefusedTogether, Cyclic
  <2> QED
    BY <1>1, <2>2, <2>4, <2>7, <2>9
<1>3. Sought(frame)' = Sought(frame)
  BY <1>1 DEF Sought
<1>4. frame.fn = "finish" /\ frame.at = "looked" =>
       /\ value => Sought(frame)'.to \in published'
       /\ ~value /\ Ample' =>
            /\ Sought(frame)'.to \notin Best'
            /\ Sought(frame)'.to \notin world'.refused => Settled(Sought(frame).to)'
  BY <1>1, <1>2, <1>3 DEF Settled, RefusedTogether, Cyclic
<1>5. frame.fn = "build" /\ frame.at = "finished" =>
        /\ value => Unready(frame)' = {}
        /\ ~value /\ Ample' => frame.owners \cap Best' = {}
  BY <1>1 DEF Heard, Unready
<1> QED
  BY <1>4, <1>5 DEF Heard

\* What each action shows: the rest of the invariant follows.
LEMMA AnswersKept ==
  ASSUME IInv, IInv', AnswersInv, Forward, UNCHANGED elsewhere,
         NEW r \in Readers, NEW new, NEW P, OnlyTop(r, new), Adjacent(r, P),
         \A frame \in new : FrameGood(frame)',
         \A frame, call : <<frame, call>> \in P /\ frame.fn = "build" => Builds(frame, call)',
         \A q \in Readers \ {r} : given'[q] = given[q],
         calls'[r] # <<>> => Heard(Top(r), given[r])',
         Verdicts', Truths'
  PROVE  AnswersInv'
<1>1. FramesGood'
  <2> SUFFICES ASSUME NEW q \in Readers, NEW i \in DOMAIN calls'[q]
               PROVE  FrameGood(calls[q][i])'
    BY DEF FramesGood
  <2>1. PICK frame : frame = calls'[q][i]
    OBVIOUS
  <2>2. CASE i \in DOMAIN calls[q] /\ calls'[q][i] = calls[q][i]
    <3>1. frame \in Frame /\ FrameSound(frame) /\ FrameGood(frame)
      BY <2>1, <2>2, StackType DEF IInv, StackInv, FramesSound, AnswersInv, FramesGood
    <3>2. FrameGood(frame)'
      BY <3>1, GoodStays
    <3> QED
      BY <2>1, <3>2 DEF FrameGood, Passed, Sought, Unready
  <2>3. CASE frame \in new
    <3>1. FrameGood(frame)'
      BY <2>3
    <3> QED
      BY <2>1, <3>1 DEF FrameGood, Passed, Sought, Unready
  <2> QED
    BY <2>1, <2>2, <2>3 DEF OnlyTop
<1>2. Built'
  <2> SUFFICES ASSUME NEW q \in Readers, NEW i \in DOMAIN calls'[q], i # Len(calls'[q]),
                      calls'[q][i].fn = "build"
               PROVE  Builds(calls[q][i], calls[q][i + 1])'
    BY DEF Built
  <2>1. PICK frame, next : frame = calls'[q][i] /\ next = calls'[q][i + 1]
    OBVIOUS
  <2>2. Builds(frame, next)'
    <3>1. CASE <<frame, next>> \in P
      BY <2>1, <3>1
    <3>2. CASE /\ i \in DOMAIN calls[q] /\ i # Len(calls[q]) /\ frame = calls[q][i]
               /\ Same(next, calls[q][i + 1])
      <4>1. Builds(frame, calls[q][i + 1])
        BY <2>1, <3>2 DEF AnswersInv, Built
      <4>2. PICK call : call = calls[q][i + 1] /\ Builds(frame, call) /\ Same(next, call)
        BY <3>2, <4>1
      <4> QED
        BY <4>2, BuildsStays
    <3> QED
      BY <2>1, <3>1, <3>2 DEF Adjacent
  <2> QED
    BY <2>1, <2>2 DEF Builds, Unready
<1>3. AllHeard'
  <2> SUFFICES ASSUME NEW q \in Readers, calls'[q] # <<>>, q # r
               PROVE  Heard(Top(q), given[q])'
    BY DEF AllHeard
  <2>1. calls'[q] = calls[q] /\ given'[q] = given[q]
    BY DEF OnlyTop
  <2>2. PICK frame, value : frame = Top(q) /\ value = given[q]
    OBVIOUS
  <2>3. frame \in Frame /\ LookedUp(frame) /\ Heard(frame, value)
    BY <2>1, <2>2, StackType DEF IInv, StackInv, Answered, AnswersInv, AllHeard
  <2>4. Heard(frame, value)' /\ Top(q)' = frame /\ given'[q] = value
    BY <2>1, <2>2, <2>3, HeardStays DEF Top
  <2> QED
    BY <2>4 DEF Heard, Sought, Unready, Settled, RefusedTogether, Cyclic
<1>4. /\ component' = [f \in Families' |-> Component(f)']
      /\ ~world'.shared => elsewhere' = 0
  <2>1. Families' = Families /\ \A f \in Families : Component(f)' = Component(f)
    BY DEF Forward, archive, Families, Component, Reachable, Closed, Depends, Terminal, Refs
  <2> QED
    BY <2>1 DEF AnswersInv, Forward, archive
<1> QED
  BY <1>1, <1>2, <1>3, <1>4 DEF AnswersInv

\* A step that publishes nothing and fails nobody wrongly.
LEMMA VerdictsKept ==
  ASSUME IInv, AnswersInv, Forward, UNCHANGED <<alone, together, flat>>,
         Ample => \A f \in Families : Lost(f)' /\ ~Lost(f) => f \notin Best
  PROVE  Verdicts'
<1>1. /\ Best' = Best /\ Ample' = Ample /\ Families' = Families /\ world' = world
      /\ published' = published /\ component' = component
  BY WorldStays DEF Forward, published
<1> QED
  BY <1>1 DEF AnswersInv, Verdicts, Stands, Refs

LEMMA TruthsKept ==
  ASSUME IInv, AnswersInv, Forward, UNCHANGED told
  PROVE  Truths'
<1>1. /\ Best' = Best /\ Ample' = Ample /\ Families' = Families /\ published \subseteq published'
  BY WorldStays, ReadyStays DEF Forward
<1> QED
  BY <1>1 DEF AnswersInv, Truths

\* A step that completes nothing.
LEMMA QuietKept ==
  ASSUME IInv, AnswersInv, Quiet, UNCHANGED <<alone, together>>
  PROVE  /\ Forward
         /\ UNCHANGED flat => Verdicts'
         /\ UNCHANGED told => Truths'
         /\ \A f \in Families : Lost(f)' = Lost(f)
<1>1. Forward
  BY QuietStep DEF Forward
<1>2. \A f \in Families : Lost(f)' = Lost(f)
  BY WorldStays DEF Lost, DoneTogether, Quiet
<1> QED
  BY <1>1, <1>2, VerdictsKept, TruthsKept
-----------------------------------------------------------------------------
(* The families that can be lexical.                                       *)

\* A family is one of the best only with its component, and what that needs.
LEMMA BestStands ==
  ASSUME NEW f \in Best
  PROVE  Stands(f, Best) /\ f \in Families /\ f \notin world.refused
<1>1. PICK S \in SUBSET (Families \ world.refused) : f \in S /\ \A g \in S : Stands(g, S)
  BY DEF Best
<1>2. S \subseteq Best
  BY <1>1 DEF Best
<1>3. Stands(f, S)
  BY <1>1
<1> QED
  BY <1>1, <1>2, <1>3 DEF Stands

\* Whatever stands is among the best.
LEMMA BestIsBest ==
  ASSUME NEW S \in SUBSET (Families \ world.refused), \A f \in S : Stands(f, S)
  PROVE  S \subseteq Best
BY DEF Best

\* What stops a finish.
Obstacle(frame) ==
  \/ ~(world.users[frame.family] \subseteq frame.peers)
  \/ frame.family \in world.unclosed
  \/ /\ frame.ref \in DOMAIN world.refs[frame.family]
     /\ ~Sought(frame).static /\ Sought(frame).to \notin frame.peers
     /\ Sought(frame).to \notin Best

LEMMA Obstructed ==
  ASSUME IInv, NEW frame \in FinishFrame, Passed(frame), Obstacle(frame)
  PROVE  /\ frame.peers = {} /\ ~Cyclic(frame.family) => frame.family \notin Best
         /\ frame.peers \cap Best = {}
<1>1. PICK g \in Families : g = frame.family
  BY DEF FinishFrame
<1>2. PICK p : p = frame.peers
  OBVIOUS
<1>3. frame.ref \in DOMAIN world.refs[g] => Sought(frame) \in Refs(g) /\ Sought(frame).to # g
  <2>1. \A i \in DOMAIN world.refs[g] : world.refs[g][i].to # g
    BY WorldsAssumption DEF IInv, TypeInv, Families
  <2> QED
    BY <1>1, <2>1 DEF Sought, Refs
<1>4. g \notin world.users[g] /\ world.users[g] \subseteq Families
  BY WorldsAssumption DEF IInv, TypeInv, Families
<1>5. ASSUME NEW f \in Best, g \in component[f], component[f] \subseteq p \cup {g} PROVE FALSE
  <2>1. Stands(f, Best)
    BY <1>5, BestStands
  <2>2. /\ g \notin world.unclosed /\ world.users[g] \subseteq component[f]
        /\ \A ref \in Refs(g) : ref.to \in component[f] \/ ref.static \/ ref.to \in Best
    BY <1>5, <2>1 DEF Stands
  <2>3. world.users[g] \subseteq p
    BY <1>4, <1>5, <2>2
  <2>4. PICK ref \in Refs(g) : ref.to # g /\ ~ref.static /\ ref.to \notin p /\ ref.to \notin Best
    BY <1>1, <1>2, <1>3, <2>2, <2>3 DEF Obstacle
  <2> QED
    BY <1>5, <2>2, <2>4
<1>6. p = {} /\ ~Cyclic(g) => g \notin Best
  BY <1>5 DEF Cyclic
<1>7. ASSUME NEW f \in p, f \in Best PROVE FALSE
  <2>1. g \in p /\ p \in DOMAIN joint
    BY <1>1, <1>2, <1>7 DEF Passed
  <2>2. component[f] = p
    BY <1>7, <2>1 DEF IInv, Claims
  <2> QED
    BY <1>5, <1>7, <2>1, <2>2
<1> QED
  BY <1>1, <1>2, <1>6, <1>7
-----------------------------------------------------------------------------
(* The ways a call goes on.                                                *)

LEMMA TopGood ==
  ASSUME IInv, AnswersInv, NEW r \in Readers, calls[r] # <<>>
  PROVE  FrameGood(Top(r)) /\ Heard(Top(r), given[r])
<1>1. Len(calls[r]) \in DOMAIN calls[r] /\ Top(r) = calls[r][Len(calls[r])]
  BY StackType DEF IInv
<1> QED
  BY <1>1 DEF AnswersInv, FramesGood, AllHeard

LEMMA GotoKept ==
  ASSUME IInv, IInv', AnswersInv, Quiet, UNCHANGED <<alone, together, told, elsewhere>>,
         NEW r \in Readers, calls[r] # <<>>,
         NEW frame \in Frame, Same(frame, Top(r)), Goto(r, frame), Verdicts',
         FrameGood(frame), Heard(frame, given[r])
  PROVE  AnswersInv'
<1>1. Forward /\ Truths'
  BY QuietKept
<1>2. /\ OnlyTop(r, {frame}) /\ Adjacent(r, {}) /\ calls'[r] # <<>> /\ Top(r)' = frame
      /\ given' = given
  BY GotoMoves DEF IInv
<1>3. PICK value : value = given[r]
  OBVIOUS
<1>4. world' = world /\ published' = published /\ Best' = Best /\ Ample' = Ample
  BY <1>1, WorldStays DEF Forward, published
<1>5. FrameGood(frame)'
  BY <1>4 DEF FrameGood, Passed, Sought, Unready, Ready, Bound, Terminal, Quiet
<1>6. Heard(frame, value)'
  BY <1>3, <1>4 DEF Heard, Sought, Unready, Ready, Bound, Settled, RefusedTogether, Cyclic,
                    Quiet, archive
<1>7. Heard(Top(r), given[r])'
  BY <1>2, <1>3, <1>6 DEF Heard, Sought, Unready, Settled, RefusedTogether, Cyclic
<1> QED
  BY <1>1, <1>2, <1>5, <1>7, AnswersKept

\* A read goes on.
LEMMA ReadKept ==
  ASSUME IInv, IInv', AnswersInv, Quiet, UNCHANGED <<alone, together, flat, told, elsewhere>>,
         NEW r \in Readers, calls[r] # <<>>, Top(r).fn = "read",
         NEW at \in {"joint", "claim", "load"}, At(r, at), Top(r).family \notin alone
  PROVE  AnswersInv'
<1>1. PICK frame : frame = [Top(r) EXCEPT !.at = at]
  OBVIOUS
<1>2. Goto(r, frame)
  BY <1>1 DEF At
<1>3. /\ frame \in Frame /\ Same(frame, Top(r)) /\ frame.fn = "read" /\ frame.at = at
      /\ frame.family = Top(r).family
  BY <1>1, ReadOn
<1>4. FrameGood(frame) /\ Heard(frame, given[r])
  BY <1>3 DEF FrameGood, Heard
<1>5. Verdicts'
  BY QuietKept
<1> QED
  BY <1>2, <1>3, <1>4, <1>5, GotoKept

\* A lookup answers.
LEMMA AnswerKept ==
  ASSUME IInv, IInv', AnswersInv, Quiet, UNCHANGED <<alone, together, flat, elsewhere>>,
         NEW r \in Readers, calls[r] # <<>>, Top(r).fn = "read",
         NEW value \in BOOLEAN, Answer(r, Top(r).family, value),
         value => Top(r).family \in published,
         ~value /\ Ample =>
           /\ Top(r).family \notin Best
           /\ Top(r).family \notin world.refused => Settled(Top(r).family)
  PROVE  AnswersInv'
<1>1. PICK f \in Families : f = Top(r).family
  BY TopSound
<1>2. Return(r, value) /\ told' = told \cup {[family |-> f, lexical |-> value]}
  BY <1>1 DEF Answer
<1>3. Forward /\ Verdicts' /\ UNCHANGED archive
  BY QuietKept DEF Forward
<1>4. /\ world' = world /\ published' = published /\ Best' = Best /\ Ample' = Ample
      /\ Families' = Families
  BY <1>3, WorldStays DEF published
<1>5. Truths'
  <2>1. /\ [family |-> f, lexical |-> value].family = f
        /\ [family |-> f, lexical |-> value].lexical = value
    OBVIOUS
  <2> QED
    BY <1>1, <1>2, <1>4, <2>1 DEF AnswersInv, Truths
<1>6. /\ OnlyTop(r, {}) /\ Adjacent(r, {})
      /\ given'[r] = value /\ \A q \in Readers \ {r} : given'[q] = given[q]
      /\ calls'[r] # <<>> =>
              /\ Top(r)' \in Frame
              /\ Top(r)'.fn = "finish" => LooksUp(Top(r)', Top(r))
              /\ Top(r)'.fn = "build" => Builds(Top(r)', Top(r))
  BY <1>2, <1>3, ReturnMoves DEF IInv, StackInv, AnswersInv
<1>7. ASSUME calls'[r] # <<>> PROVE Heard(Top(r), given[r])'
  <2>1. PICK frame : frame = Top(r)'
    OBVIOUS
  <2>2. frame.fn # "build"
    BY <1>6, <1>7, <2>1 DEF Builds
  <2>3. frame.fn = "finish" => Sought(frame) = world.refs[frame.family][frame.ref] /\ Sought(frame).to = f
    BY <1>1, <1>6, <1>7, <2>1 DEF LooksUp, Sought
  <2>4. Settled(f)' = Settled(f)
    BY DEF Quiet, archive, Settled, RefusedTogether, Cyclic
  <2>5. Sought(frame)' = Sought(frame)
    BY <1>4 DEF Sought
  <2>6. frame.fn = "finish" => (Settled(Sought(frame).to)' = Settled(f)')
    BY <2>3, <2>5 DEF Settled, RefusedTogether, Cyclic
  <2>7. Heard(frame, value)'
    BY <1>1, <1>4, <2>2, <2>3, <2>4, <2>5, <2>6 DEF Heard
  <2> QED
    BY <1>6, <2>1, <2>7 DEF Heard, Sought, Unready, Settled, RefusedTogether, Cyclic
<1> QED
  BY <1>3, <1>5, <1>6, <1>7, AnswersKept

\* A finish fails: for want of room, or because nothing could help it.
LEMMA FailKept ==
  ASSUME IInv, IInv', AnswersInv, NEW r \in Readers, calls[r] # <<>>, Top(r).fn = "finish", Fail(r),
         UNCHANGED <<archive, claimed, joint, alone, together, flat, told, elsewhere>>,
         Ample => Obstacle(Top(r)) \/ (Solo(Top(r)) /\ Cyclic(Top(r).family))
  PROVE  AnswersInv'
<1>1. PICK top, f : /\ top = Top(r) /\ f = top.family /\ f \in Families
                    /\ top \in FinishFrame /\ Passed(top)
  BY TopSound, TopGood DEF FrameGood
<1>2. Ample => /\ top.peers = {} /\ ~Cyclic(f) => f \notin Best
               /\ top.peers \cap Best = {}
  <2>1. CASE Ample /\ Obstacle(top)
    BY <1>1, <2>1, Obstructed
  <2>2. CASE Solo(top) /\ Cyclic(f)
    BY <2>2 DEF Solo
  <2> QED
    BY <1>1, <2>1, <2>2
<1>3. Return(r, FALSE) /\ FALSE \in BOOLEAN
  BY DEF Fail
<1>4. /\ Grows
      /\ \A g \in Families : single'[g] = "done" /\ single[g] # "done" => g = f /\ top.peers = {}
  <2>1. CASE top.peers = {}
    <3>1. single' = [single EXCEPT ![f] = "done"] /\ Solo(top)
      BY <1>1, <2>1 DEF Fail, Solo
    <3>2. Grows
      BY <1>1, <1>3, <3>1, AloneDone
    <3> QED
      BY <2>1, <3>1, <3>2 DEF IInv, TypeInv
  <2>2. CASE top.peers # {}
    <3>1. single' = single
      BY <1>1, <2>2 DEF Fail
    <3> QED
      BY <3>1 DEF Grows
  <2> QED
    BY <2>1, <2>2
<1>5. Forward
  BY <1>4 DEF Forward
<1>6. Ample => \A g \in Families : Lost(g)' /\ ~Lost(g) => g \notin Best
  <2> SUFFICES ASSUME Ample, NEW g \in Families, Lost(g)', ~Lost(g) PROVE g \notin Best
    OBVIOUS
  <2>1. DoneTogether(g)' = DoneTogether(g) /\ Cyclic(g)' = Cyclic(g)
    BY <1>5, WorldStays DEF DoneTogether, Forward
  <2>2. ~Cyclic(g) /\ single'[g] = "done" /\ single[g] # "done"
    BY <2>1 DEF Lost
  <2> QED
    BY <1>2, <1>4, <2>2
<1>7. Verdicts' /\ Truths'
  BY <1>5, <1>6, VerdictsKept, TruthsKept
<1>8. /\ OnlyTop(r, {}) /\ Adjacent(r, {})
      /\ given'[r] = FALSE /\ \A q \in Readers \ {r} : given'[q] = given[q]
      /\ calls'[r] # <<>> =>
              /\ Top(r)' \in Frame
              /\ Top(r)'.fn = "finish" => LooksUp(Top(r)', Top(r))
              /\ Top(r)'.fn = "build" => Builds(Top(r)', Top(r))
  BY <1>3, ReturnMoves DEF IInv, StackInv, AnswersInv
<1>9. ASSUME calls'[r] # <<>> PROVE Heard(Top(r), given[r])'
  <2>1. PICK frame : frame = Top(r)'
    OBVIOUS
  <2>2. frame.fn # "finish" /\ (frame.fn = "build" => frame.owners = top.peers)
    BY <1>1, <1>8, <1>9, <2>1 DEF LooksUp, Builds
  <2>3. Best' = Best /\ Ample' = Ample
    BY WorldStays
  <2>4. Heard(frame, FALSE)'
    BY <1>2, <2>2, <2>3 DEF Heard
  <2> QED
    BY <1>8, <2>1, <2>4 DEF Heard, Sought, Unready, Settled, RefusedTogether, Cyclic
<1> QED
  BY <1>5, <1>7, <1>8, <1>9, AnswersKept

\* A transaction is done, and has published its component or could not.
LEMMA CompleteKept ==
  ASSUME IInv, IInv', AnswersInv, NEW r \in Readers, calls[r] # <<>>, Top(r).fn = "build", Complete(r),
         UNCHANGED <<archive, single, claimed, alone, flat, told, elsewhere>>,
         NEW c, c = Top(r).owners,
         \/ together' = together \cup c
            /\ \A f \in c : Stands(f, published \cup c)
         \/ together' = together
            /\ (Ample => c \cap Best = {})
  PROVE  AnswersInv'
<1>1. PICK top : top = Top(r) /\ top \in BuildFrame /\ BuildSound(top)
  BY TopSound
<1>2. /\ c \in DOMAIN joint /\ joint[c] = "busy" /\ c \subseteq Families
      /\ \A g \in c : claimed[g] = c /\ Cyclic(g)
      /\ \A g \in Families : claimed[g] = c => g \in c
  BY <1>1 DEF BuildSound, IInv, Claims
<1>3. /\ Return(r, TRUE) /\ joint' = [joint EXCEPT ![c] = "done"]
  BY DEF Complete
<1>4. Grows /\ together \subseteq together'
  BY <1>2, <1>3 DEF Grows
<1>5. Forward
  BY <1>2, <1>4 DEF Forward, DoneTogether
<1>6. /\ world' = world /\ Best' = Best /\ Ample' = Ample /\ Families' = Families
      /\ component' = component /\ \A g \in Families : Cyclic(g)' = Cyclic(g)
  BY WorldStays
<1>7. \A g \in Families : DoneTogether(g)' /\ ~DoneTogether(g) => g \in c
  BY <1>2, <1>3 DEF DoneTogether, IInv, Claims
<1>8. Truths'
  BY <1>5, TruthsKept
<1>9. Verdicts'
  <2>1. CASE together' = together /\ (Ample => c \cap Best = {})
    <3>1. \A g \in Families : Lost(g)' /\ ~Lost(g) => g \in c
      BY <1>6, <1>7, <2>1 DEF Lost
    <3> QED
      BY <1>5, <2>1, <3>1, VerdictsKept
  <2>2. CASE together' = together \cup c /\ \A f \in c : Stands(f, published \cup c)
    <3>1. published' = published \cup c
      BY <2>2 DEF published
    <3>2. \A f \in published : Stands(f, published \cup c)
      BY DEF AnswersInv, Verdicts, Stands
    <3>3. \A f \in published \cup c : Stands(f, published \cup c)
      BY <2>2, <3>2
    <3>4. \A f \in published' : Stands(f, published)'
      BY <1>6, <3>1, <3>3 DEF Stands, Refs
    <3>5. \A g \in Families : Lost(g)' => Lost(g)
      <4> SUFFICES ASSUME NEW g \in Families, Lost(g)', ~Lost(g) PROVE FALSE
        OBVIOUS
      <4>1. DoneTogether(g)' /\ g \notin together'
        BY <1>6 DEF Lost
      <4> QED
        BY <1>7, <2>2, <4>1 DEF Lost
    <3> QED
      BY <1>6, <3>4, <3>5 DEF AnswersInv, Verdicts
  <2> QED
    BY <2>1, <2>2
<1>10. /\ OnlyTop(r, {}) /\ Adjacent(r, {})
       /\ given'[r] = TRUE /\ \A q \in Readers \ {r} : given'[q] = given[q]
       /\ calls'[r] # <<>> =>
               /\ Top(r)' \in Frame
               /\ Top(r)'.fn = "finish" => LooksUp(Top(r)', Top(r))
               /\ Top(r)'.fn = "build" => Builds(Top(r)', Top(r))
  BY <1>3, ReturnMoves DEF IInv, StackInv, AnswersInv
<1>11. ASSUME calls'[r] # <<>> PROVE Heard(Top(r), given[r])'
  <2>1. PICK frame : frame = Top(r)'
    OBVIOUS
  <2>2. frame.fn # "finish" /\ frame.fn # "build"
    BY <1>10, <1>11, <2>1 DEF LooksUp, Builds
  <2>3. Top(r)' = frame
    BY <2>1
  <2> QED
    BY <2>2, <2>3 DEF Heard
<1>12. UNCHANGED elsewhere /\ \A q \in Readers \ {r} : given'[q] = given[q]
  BY <1>10
<1>13. OnlyTop(r, {}) /\ Adjacent(r, {})
  BY <1>10
<1> QED
  BY <1>5, <1>8, <1>9, <1>11, <1>12, <1>13, AnswersKept
-----------------------------------------------------------------------------
(* There is room for every family.                                         *)

LEMMA Room ==
  ASSUME IInv, AnswersInv, AllowanceExact, Ample, NEW C \in SUBSET Families,
         C \cap published = {}, \A q \in OnTheWay : Top(q).family \notin C
  PROVE  Cardinality(C) \in Nat /\ Cardinality(C) <= world.limit - ledger /\ bytes <= ledger
<1> DEFINE B == Cardinality(published)
           W == Cardinality(OnTheWay)
           F == Cardinality(Families)
           N == Cardinality(C)
           rest == Families \ (published \cup C)
           family == [q \in OnTheWay |-> Top(q).family]
<1>1. /\ IsFiniteSet(C) /\ N \in Nat /\ F \in Nat /\ IsFiniteSet(rest) /\ Cardinality(rest) \in Nat
      /\ B \in Nat /\ published \subseteq Families /\ IsFiniteSet(published) /\ W \in Nat
  BY WorldType, PublishedType, WayType, FS_Subset, FS_CardinalityType DEF IInv
<1>2. Cardinality(published \cup C) = B + N
  <2>1. Cardinality(published \cap C) = 0
    BY FS_EmptySet
  <2>2. Cardinality(published \cup C) = B + N - Cardinality(published \cap C)
    BY <1>1, FS_Union
  <2> HIDE DEF B, N
  <2> QED
    BY <1>1, <2>1, <2>2
<1>3. Cardinality(rest) = F - (B + N)
  <2>1. Families \cap (published \cup C) = published \cup C
    BY <1>1
  <2>2. Cardinality(rest) = F - Cardinality(Families \cap (published \cup C))
    BY WorldType, FS_Difference DEF IInv
  <2> QED
    BY <1>2, <2>1, <2>2
<1>4. \A q \in OnTheWay :
        /\ calls[q] # <<>> /\ Top(q).fn = "finish" /\ Top(q).at = "publish"
        /\ Solo(Top(q)) /\ Len(calls[q]) \in DOMAIN calls[q] /\ Top(q) = calls[q][Len(calls[q])]
        /\ q \in Readers
  BY TopSound, StackType DEF OnTheWay, In, FrameSound, IInv
<1>5. family \in Injection(OnTheWay, rest)
  <2>1. \A q \in OnTheWay : Top(q).family \in rest
    BY <1>4, TopSound, NotYetPublished
  <2>2. \A p, q \in OnTheWay : Top(p).family = Top(q).family => p = q
    BY <1>4 DEF IInv, StackInv, NoRivals, Rival
  <2>3. family \in [OnTheWay -> rest]
    BY <2>1
  <2>4. \A p, q \in OnTheWay : family[p] = family[q] => p = q
    BY <2>2
  <2> QED
    BY <2>3, <2>4 DEF Injection, IsInjective
<1>6. W <= Cardinality(rest)
  BY <1>1, <1>5, FS_Injection
<1>7. /\ bytes = B /\ ledger = B + W /\ F <= world.limit /\ world.limit \in Nat
  <2>1. Size * B = B /\ Size * W = W /\ Size * F = F
    BY <1>1 DEF Size
  <2>2. elsewhere = 0 /\ world.limit \in Nat
    BY WorldType DEF AnswersInv, Ample, IInv
  <2>3. bytes = Size * B /\ ledger = bytes + elsewhere + Size * W /\ world.limit >= Size * F
    BY DEF AllowanceExact, OnTheWay, Ample
  <2> HIDE DEF B, W, F
  <2> QED
    BY <1>1, <2>1, <2>2, <2>3
<1> HIDE DEF B, W, F, N, rest
<1>8. N <= world.limit - ledger /\ bytes <= ledger
  BY <1>1, <1>3, <1>6, <1>7
<1> QED
  BY <1>1, <1>8 DEF N

\* A family about to be published has its place in the ledger.
LEMMA RoomReserved ==
  ASSUME IInv, AllowanceExact, NEW r \in OnTheWay
  PROVE  Size <= world.limit - bytes
<1> DEFINE W == Cardinality(OnTheWay)
<1>1. W \in Nat /\ W # 0
  BY WayType, FS_EmptySet
<1>2. ledger = bytes + elsewhere + Size * W /\ ledger <= world.limit
  BY DEF AllowanceExact, OnTheWay
<1>3. bytes \in Nat /\ elsewhere \in Nat /\ world.limit \in Nat
  BY WorldType DEF IInv, TypeInv
<1> HIDE DEF W
<1>4. Size * W = W /\ Size = 1
  BY <1>1 DEF Size
<1> QED
  BY <1>1, <1>2, <1>3, <1>4
-----------------------------------------------------------------------------
(* The actions, one by one.                                                *)

LEMMA AskKept ==
  ASSUME IInv, IInv', AnswersInv, NEW r \in Readers, Ask(r)
  PROVE  AnswersInv'
<1>1. PICK f, call : f \in Families /\ call = Read(f) /\ Call(r, call)
  BY DEF Ask
<1>2. calls[r] = <<>> /\ Quiet /\ UNCHANGED <<alone, together, flat, told, elsewhere>>
  BY DEF Ask, Quiet, sources
<1>3. call \in Frame /\ call.fn = "read" /\ call.at = "once"
  BY <1>1 DEF Read, Frame, ReadFrame
<1>4. /\ OnlyTop(r, {call}) /\ Adjacent(r, {})
      /\ calls'[r] # <<>> /\ Top(r)' = call /\ given' = given
  BY <1>1, <1>2, <1>3, CallMoves DEF IInv
<1>5. FrameGood(call)' /\ Heard(Top(r), given[r])'
  BY <1>3, <1>4 DEF FrameGood, Heard
<1>6. Forward /\ Verdicts' /\ Truths'
  BY <1>2, QuietKept
<1> QED
  BY <1>2, <1>4, <1>5, <1>6, AnswersKept

LEMMA AloneKept ==
  ASSUME IInv, IInv', AnswersInv, NEW r \in Readers, Alone(r)
  PROVE  AnswersInv'
<1>1. /\ calls[r] # <<>> /\ Top(r).fn = "read" /\ Top(r).at = "once"
      /\ UNCHANGED <<archive, claimed, joint, alone, together, flat, elsewhere>>
  BY DEF Alone, In, sources
<1>2. PICK f, top : f \in Families /\ top = Top(r) /\ f = top.family /\ top \in Frame
  BY <1>1, TopSound
<1>3. single \in [Families -> {"idle", "busy", "done"}]
  BY DEF IInv, TypeInv
<1>4. CASE single[f] = "done"
  <2>1. Quiet
    BY <1>1, <1>2, <1>4 DEF Alone, Quiet
  <2>2. CASE f \in alone
    <3>1. Answer(r, Top(r).family, TRUE)
      BY <1>2, <1>4, <2>2 DEF Alone
    <3> QED
      BY <1>1, <1>2, <2>1, <2>2, <3>1, AnswerKept DEF published
  <2>3. CASE f \notin alone
    <3>1. At(r, "joint") /\ UNCHANGED told
      BY <1>2, <1>4, <2>3 DEF Alone
    <3> QED
      BY <1>1, <1>2, <2>1, <2>3, <3>1, ReadKept
  <2> QED
    BY <2>2, <2>3
<1>5. ASSUME NEW value \in {"done", "busy"}, single' = [single EXCEPT ![f] = value],
             single[f] = "idle", value = "done" => f \in world.refused, UNCHANGED told
      PROVE  Forward /\ Verdicts' /\ Truths'
  <2>1. Forward
    BY <1>1, <1>3, <1>5 DEF Forward, Grows
  <2>2. Ample => \A g \in Families : Lost(g)' /\ ~Lost(g) => g \notin Best
    <3> SUFFICES ASSUME NEW g \in Families, Lost(g)', ~Lost(g) PROVE g \notin Best
      OBVIOUS
    <3>1. DoneTogether(g)' = DoneTogether(g) /\ Cyclic(g)' = Cyclic(g)
      BY <1>1, WorldStays DEF DoneTogether
    <3>2. single'[g] = "done" /\ single[g] # "done"
      BY <1>1, <3>1 DEF Lost
    <3>3. g \in world.refused
      BY <1>3, <1>5, <3>2
    <3> QED
      BY <3>3, BestStands
  <2> QED
    BY <1>1, <1>5, <2>1, <2>2, VerdictsKept, TruthsKept
<1>6. CASE single[f] = "idle" /\ f \in world.refused
  <2>1. single' = [single EXCEPT ![f] = "done"] /\ At(r, "joint") /\ UNCHANGED told
    BY <1>2, <1>6 DEF Alone
  <2>2. PICK frame : frame = [Top(r) EXCEPT !.at = "joint"] /\ Goto(r, frame)
    BY <2>1 DEF At
  <2>3. /\ frame \in Frame /\ Same(frame, Top(r)) /\ frame.fn = "read" /\ frame.at = "joint"
        /\ frame.family = f
    BY <1>1, <1>2, <2>2, ReadOn
  <2>4. /\ OnlyTop(r, {frame}) /\ Adjacent(r, {}) /\ calls'[r] # <<>> /\ Top(r)' = frame
        /\ given' = given
    BY <1>1, <2>2, <2>3, GotoMoves DEF IInv
  <2>5. f \notin alone
    BY <1>6 DEF IInv, Outcomes
  <2>6. FrameGood(frame)' /\ Heard(Top(r), given[r])'
    BY <1>1, <2>3, <2>4, <2>5 DEF FrameGood, Heard
  <2>7. Forward /\ Verdicts' /\ Truths'
    BY <1>5, <1>6, <2>1
  <2> QED
    BY <1>1, <2>4, <2>6, <2>7, AnswersKept
<1>7. CASE single[f] = "idle" /\ f \notin world.refused
  <2>1. PICK call : call = Finish(f, {})
    OBVIOUS
  <2>2. single' = [single EXCEPT ![f] = "busy"] /\ Call(r, call) /\ UNCHANGED told
    BY <1>2, <1>7, <2>1 DEF Alone
  <2>3. /\ call \in Frame /\ call.family = f /\ call.at = "scope" /\ call.ref = 1
        /\ call.fn = "finish" /\ call.peers = {}
    BY <1>2, <2>1 DEF Finish, Frame, FinishFrame
  <2>4. /\ OnlyTop(r, {top, call}) /\ Adjacent(r, {<<top, call>>})
        /\ calls'[r] # <<>> /\ Top(r)' = call /\ given' = given
    BY <1>1, <1>2, <2>2, <2>3, CallMoves DEF IInv
  <2>5. Forward /\ Verdicts' /\ Truths'
    BY <1>5, <1>7, <2>2
  <2>6. FrameGood(top)'
    BY <1>1, <1>2 DEF FrameGood
  <2>7. FrameGood(call)'
    <3>1. \A i \in DOMAIN world.refs[f] : ~(i < 1)
      BY <1>2, RefType DEF IInv
    <3>2. Passed(call)'
      BY <1>1, <2>3, <3>1 DEF Passed, archive
    <3> QED
      BY <2>3, <3>2 DEF FrameGood
  <2>8. Heard(Top(r), given[r])'
    BY <2>3, <2>4 DEF Heard
  <2>9. \A frame, next : <<frame, next>> \in {<<top, call>>} /\ frame.fn = "build" => Builds(frame, next)'
    BY <1>1, <1>2
  <2> QED
    BY <1>1, <2>4, <2>5, <2>6, <2>7, <2>8, <2>9, AnswersKept
<1> QED
  BY <1>2, <1>4, <1>6, <1>7 DEF Alone

LEMMA TogetherKept ==
  ASSUME IInv, IInv', AnswersInv, NEW r \in Readers, Together(r)
  PROVE  AnswersInv'
<1>1. /\ calls[r] # <<>> /\ Top(r).fn = "read" /\ Top(r).at = "joint" /\ Quiet
      /\ UNCHANGED <<alone, together, flat, elsewhere>>
  BY DEF Together, In, sources, Quiet
<1>2. PICK f : f \in Families /\ f = Top(r).family /\ single[f] = "done" /\ f \notin alone
  BY <1>1, TopSound, TopGood DEF ReadSound, FrameGood
<1>3. CASE \E at \in {"joint", "claim", "load"} : At(r, at) /\ UNCHANGED told
  BY <1>1, <1>2, <1>3, ReadKept
<1>4. CASE /\ claimed[f] = {} /\ (f \in world.refused \/ ~Cyclic(f))
           /\ Answer(r, f, FALSE)
  <2>1. f \notin world.refused => Settled(f)
    BY <1>2, <1>4 DEF Settled
  <2>2. Ample => f \notin Best
    <3>1. CASE f \in world.refused
      BY <3>1, BestStands
    <3>2. CASE ~Cyclic(f)
      BY <1>2, <3>2 DEF AnswersInv, Verdicts, Lost
    <3> QED
      BY <1>4, <3>1, <3>2
  <2> QED
    BY <1>1, <1>2, <1>4, <2>1, <2>2, AnswerKept
<1> QED
  BY <1>2, <1>3, <1>4 DEF Together

\* A component with a family that somebody has named flat cannot be lexical.
LEMMA FlatSettled ==
  ASSUME IInv, AnswersInv, NEW f \in Families, Cyclic(f), NEW g \in component[f], g \in flat
  PROVE  Settled(f) /\ (Ample => f \notin Best)
<1> DEFINE c == component[f]
<1>1. f \in c /\ c \subseteq Families /\ component[g] = c /\ Cyclic(g)
  BY NewComponent DEF IInv
<1>2. g \in named /\ g \notin world.refused
  BY DEF IInv, TypeInv, AnswersInv, Verdicts
<1>3. DoneTogether(g) /\ g \notin together
  BY <1>1, <1>2 DEF IInv, Outcomes
<1>4. c \in DOMAIN joint /\ joint[c] = "done" /\ claimed[f] = c
  BY <1>1, <1>3 DEF DoneTogether, IInv, Claims
<1>5. f \notin alone
  BY DEF IInv, Outcomes
<1>6. f \notin together
  <2> SUFFICES ASSUME f \in together PROVE FALSE
    OBVIOUS
  <2>1. g \in published
    BY DEF AnswersInv, Verdicts, Stands, published
  <2>2. g \notin alone
    BY <1>1 DEF IInv, Outcomes
  <2> QED
    BY <1>3, <2>1, <2>2 DEF published
<1>7. Settled(f)
  BY <1>4, <1>5, <1>6 DEF Settled, RefusedTogether
<1>8. Ample => g \notin Best
  BY <1>1, <1>3 DEF AnswersInv, Verdicts, Lost
<1>9. f \in Best => g \in Best
  BY BestStands DEF Stands
<1> QED
  BY <1>7, <1>8, <1>9

LEMMA ClaimKept ==
  ASSUME IInv, IInv', AnswersInv, NEW r \in Readers, Claim(r)
  PROVE  AnswersInv'
<1>1. /\ calls[r] # <<>> /\ Top(r).fn = "read" /\ Top(r).at = "claim"
      /\ UNCHANGED <<archive, single, alone, together, flat, elsewhere>>
  BY DEF Claim, In, sources
<1>2. PICK f, c : /\ f \in Families /\ f = Top(r).family /\ Cyclic(f) /\ f \notin alone
                  /\ c = component[f]
  BY <1>1, TopSound, TopGood DEF ReadSound, FrameGood
<1>3. /\ c \subseteq Families /\ f \in c
      /\ \A g \in c : Cyclic(g) /\ component[g] = c
      /\ c \notin DOMAIN joint => \A g \in c : claimed[g] = {}
  BY <1>2, NewComponent
<1>4. CASE c \cap flat # {} /\ Answer(r, f, FALSE) /\ UNCHANGED <<joint, claimed>>
  BY <1>1, <1>2, <1>4, FlatSettled, AnswerKept DEF Quiet
<1>5. CASE At(r, "load") /\ UNCHANGED <<joint, claimed, told>>
  BY <1>1, <1>2, <1>5, ReadKept DEF Quiet
<1>6. CASE /\ At(r, "load") /\ c \notin DOMAIN joint /\ UNCHANGED told
           /\ joint' = [d \in DOMAIN joint \cup {c} |-> IF d = c THEN "idle" ELSE joint[d]]
           /\ claimed' = [g \in Families |-> IF g \in c THEN c ELSE claimed[g]]
  <2>1. PICK frame : frame = [Top(r) EXCEPT !.at = "load"] /\ Goto(r, frame)
    BY <1>6 DEF At
  <2>2. /\ frame \in Frame /\ Same(frame, Top(r)) /\ frame.fn = "read" /\ frame.at = "load"
        /\ frame.family = f
    BY <1>1, <1>2, <2>1, ReadOn
  <2>3. /\ OnlyTop(r, {frame}) /\ Adjacent(r, {}) /\ calls'[r] # <<>> /\ Top(r)' = frame
        /\ given' = given
    BY <1>1, <2>1, <2>2, GotoMoves DEF IInv
  <2>4. DOMAIN joint' = DOMAIN joint \cup {c} /\ joint'[c] = "idle"
        /\ \A d \in DOMAIN joint : joint'[d] = joint[d]
    BY <1>6
  <2>5. \A g \in Families : claimed'[g] = IF g \in c THEN c ELSE claimed[g]
    BY <1>6
  <2>6. Forward
    BY <1>1, <1>3, <1>6, <2>4, <2>5 DEF Forward, Grows
  <2>7. \A g \in Families : Lost(g)' => Lost(g)
    <3> SUFFICES ASSUME NEW g \in Families, Lost(g)' PROVE Lost(g)
      OBVIOUS
    <3>1. Cyclic(g)' = Cyclic(g)
      BY <1>1, WorldStays
    <3>2. DoneTogether(g)' => DoneTogether(g)
      <4>1. CASE g \in c
        BY <2>4, <2>5, <4>1 DEF DoneTogether
      <4>2. CASE g \notin c
        <5>1. claimed'[g] = claimed[g] /\ (claimed[g] # {} => claimed[g] \in DOMAIN joint)
          BY <2>5, <4>2 DEF IInv, Claims
        <5> QED
          BY <2>4, <5>1 DEF DoneTogether
      <4> QED
        BY <4>1, <4>2
    <3> QED
      BY <1>1, <3>1, <3>2 DEF Lost
  <2>8. Verdicts' /\ Truths'
    BY <1>1, <1>6, <2>6, <2>7, VerdictsKept, TruthsKept
  <2>9. FrameGood(frame)' /\ Heard(Top(r), given[r])'
    BY <1>1, <1>2, <2>2, <2>3 DEF FrameGood, Heard
  <2> QED
    BY <1>1, <2>3, <2>6, <2>8, <2>9, AnswersKept
<1> QED
  BY <1>2, <1>4, <1>5, <1>6 DEF Claim

LEMMA LoadKept ==
  ASSUME IInv, IInv', AnswersInv, NEW r \in Readers, Load(r)
  PROVE  AnswersInv'
<1>1. /\ calls[r] # <<>> /\ Top(r).fn = "read" /\ Top(r).at = "load"
      /\ UNCHANGED <<archive, single, claimed, alone, together, flat, elsewhere>>
  BY DEF Load, In, sources
<1>2. PICK f, c, top :
        /\ f \in Families /\ f = Top(r).family /\ top = Top(r) /\ c = claimed[f] /\ c # {}
        /\ f \notin alone /\ top \in Frame
  BY <1>1, TopSound, TopGood DEF ReadSound, FrameGood
<1>3. c \in DOMAIN joint /\ c \subseteq Families /\ f \in c /\ component[f] = c /\ Cyclic(f)
  BY <1>2 DEF IInv, Claims
<1>4. CASE joint[c] = "done" /\ Answer(r, f, f \in together) /\ UNCHANGED joint
  <2>0. (f \in together) \in BOOLEAN
    OBVIOUS
  <2>1. PICK value \in BOOLEAN : value = (f \in together)
    BY <2>0
  <2>2. ~value => Settled(f) /\ (Ample => f \notin Best)
    <3>1. CASE f \in together
      BY <2>1, <3>1
    <3>2. CASE f \notin together
      <4>1. Lost(f)
        BY <1>2, <1>4, <3>2 DEF Lost, DoneTogether
      <4>2. Settled(f)
        BY <1>2, <1>3, <1>4, <3>2 DEF Settled, RefusedTogether
      <4> QED
        BY <1>2, <4>1, <4>2 DEF AnswersInv, Verdicts
    <3> QED
      BY <3>1, <3>2
  <2>3. value => f \in published
    BY <2>1 DEF published
  <2>4. Quiet /\ Answer(r, f, value)
    BY <1>1, <1>4, <2>1 DEF Quiet
  <2> QED
    BY <1>1, <1>2, <2>2, <2>3, <2>4, AnswerKept
<1>5. ASSUME NEW call, call = Build(c), joint[c] = "idle", UNCHANGED told,
             joint' = [joint EXCEPT ![c] = "busy"], Call(r, call)
      PROVE  AnswersInv'
  <2>1. /\ call.fn = "build" /\ call.owners = c /\ call.left = c /\ call \in Frame
        /\ call.at = "finish"
    BY <1>3, <1>5 DEF Build, Frame, BuildFrame
  <2>2. DOMAIN joint' = DOMAIN joint /\ joint'[c] = "busy"
        /\ \A d \in DOMAIN joint : d # c => joint'[d] = joint[d]
    BY <1>3, <1>5
  <2>3. Forward
    BY <1>1, <1>5, <2>2 DEF Forward, Grows
  <2>4. \A g \in Families : Lost(g)' => Lost(g)
    <3> SUFFICES ASSUME NEW g \in Families, Lost(g)' PROVE Lost(g)
      OBVIOUS
    <3>1. Cyclic(g)' = Cyclic(g)
      BY <1>1, WorldStays
    <3>2. DoneTogether(g)' => DoneTogether(g)
      <4>1. claimed[g] # {} => claimed[g] \in DOMAIN joint
        BY DEF IInv, Claims
      <4> QED
        BY <1>1, <2>2, <4>1 DEF DoneTogether
    <3> QED
      BY <1>1, <3>1, <3>2 DEF Lost
  <2>5. Verdicts' /\ Truths'
    BY <1>1, <1>5, <2>3, <2>4, VerdictsKept, TruthsKept
  <2>6. /\ OnlyTop(r, {top, call}) /\ Adjacent(r, {<<top, call>>})
        /\ calls'[r] # <<>> /\ Top(r)' = call /\ given' = given
    BY <1>1, <1>2, <1>5, <2>1, CallMoves DEF IInv
  <2>7. FrameGood(top)'
    BY <1>1, <1>2 DEF FrameGood
  <2>8. FrameGood(call)'
    <3>1. Unready(call)' = {}
      BY <2>1 DEF Unready
    <3> QED
      BY <2>1, <3>1 DEF FrameGood
  <2>9. Heard(Top(r), given[r])'
    BY <2>1, <2>6 DEF Heard
  <2>10. \A frame, next : <<frame, next>> \in {<<top, call>>} /\ frame.fn = "build" => Builds(frame, next)'
    BY <1>1, <1>2
  <2> QED
    BY <1>1, <2>3, <2>5, <2>6, <2>7, <2>8, <2>9, <2>10, AnswersKept
<1> QED
  BY <1>2, <1>4, <1>5 DEF Load

\* A finish goes on to its next place, or its next reference.
LEMMA FinishKept ==
  ASSUME IInv, IInv', AnswersInv, Quiet, UNCHANGED <<alone, together, told, elsewhere>>, Verdicts',
         NEW r \in Readers, calls[r] # <<>>, Top(r).fn = "finish",
         NEW frame \in FinishFrame, Goto(r, frame),
         frame.family = Top(r).family, frame.peers = Top(r).peers,
         frame.at \in {"refs", "reserve", "publish"}, Passed(frame)
  PROVE  AnswersInv'
<1>1. frame.fn = "finish" /\ frame \in Frame /\ Same(frame, Top(r))
  BY DEF FinishFrame, Frame, Same
<1>2. FrameGood(frame) /\ Heard(frame, given[r])
  BY <1>1 DEF FrameGood, Heard
<1> QED
  BY <1>1, <1>2, GotoKept

LEMMA ScopeKept ==
  ASSUME IInv, IInv', AnswersInv, NEW r \in Readers, Scope(r)
  PROVE  AnswersInv'
<1>1. /\ calls[r] # <<>> /\ Top(r).fn = "finish" /\ Top(r).at = "scope"
      /\ UNCHANGED <<archive, claimed, joint, alone, together, flat, told, elsewhere>>
  BY DEF Scope, In, sources
<1>2. PICK top : top = Top(r) /\ top \in FinishFrame /\ Passed(top)
  BY <1>1, TopSound, TopGood DEF FrameGood
<1>3. CASE world.users[top.family] \subseteq top.peers
  <2>1. At(r, "refs") /\ UNCHANGED single
    BY <1>2, <1>3 DEF Scope
  <2>2. PICK frame : frame = [top EXCEPT !.at = "refs"] /\ Goto(r, frame)
    BY <1>2, <2>1 DEF At
  <2>3. /\ frame \in FinishFrame /\ frame.at = "refs" /\ frame.family = top.family
        /\ frame.peers = top.peers /\ frame.ref = top.ref
    BY <1>2, <2>2 DEF FinishFrame
  <2>4. Passed(frame)
    BY <1>2, <1>3, <2>3 DEF Passed
  <2>5. Quiet /\ Verdicts'
    BY <1>1, <2>1, QuietKept DEF Quiet
  <2> QED
    BY <1>1, <1>2, <2>2, <2>3, <2>4, <2>5, FinishKept
<1>4. CASE ~(world.users[top.family] \subseteq top.peers)
  BY <1>1, <1>2, <1>4, FailKept DEF Scope, Obstacle
<1> QED
  BY <1>3, <1>4

\* The reference a finish was at is no obstacle, so it has passed it.
LEMMA PassedNext ==
  ASSUME IInv, NEW top \in FinishFrame, Passed(top), top.at \in {"refs", "looked"},
         top.ref \in DOMAIN world.refs[top.family], Bound(Sought(top), top.peers),
         NEW frame, frame = [top EXCEPT !.at = "refs", !.ref = @ + 1]
  PROVE  /\ frame \in FinishFrame /\ frame.at = "refs" /\ frame.family = top.family
         /\ frame.peers = top.peers /\ Passed(frame)
<1>1. /\ frame \in FinishFrame /\ frame.at = "refs" /\ frame.family = top.family
      /\ frame.peers = top.peers /\ frame.ref = top.ref + 1
  BY NextFrame
<1>2. \A i \in DOMAIN world.refs[top.family] : i < top.ref + 1 => i < top.ref \/ i = top.ref
  <2>1. DOMAIN world.refs[top.family] \subseteq Nat /\ top.ref \in Nat
    BY RefType DEF IInv, FinishFrame
  <2> QED
    BY <2>1
<1> QED
  BY <1>1, <1>2 DEF Passed, Sought

LEMMA ReferKept ==
  ASSUME IInv, IInv', AnswersInv, NEW r \in Readers, Refer(r)
  PROVE  AnswersInv'
<1>1. /\ calls[r] # <<>> /\ Top(r).fn = "finish" /\ Top(r).at = "refs" /\ More(r)
      /\ UNCHANGED <<archive, claimed, joint, alone, together, flat, told, elsewhere>>
  BY DEF Refer, In, sources
<1>2. PICK f, top, d :
        /\ f \in Families /\ top = Top(r) /\ f = top.family /\ d = Sought(top)
        /\ top \in FinishFrame /\ Passed(top)
  BY <1>1, TopSound, TopGood DEF FrameGood
<1>3. top.ref \in DOMAIN world.refs[f] /\ d = Ref(r) /\ d.to \in Families
  <2>1. top.ref \in DOMAIN world.refs[f] /\ d = Ref(r) /\ d = world.refs[f][top.ref]
    BY <1>1, <1>2 DEF More, Ref, Sought
  <2> QED
    BY <1>2, <2>1, RefType DEF IInv
<1>4. CASE NextRef(r) /\ UNCHANGED single /\ Bound(d, top.peers)
  <2>1. PICK frame : frame = [top EXCEPT !.at = "refs", !.ref = @ + 1] /\ Goto(r, frame)
    BY <1>2, <1>4 DEF NextRef
  <2>2. /\ frame \in FinishFrame /\ frame.at = "refs" /\ frame.family = top.family
        /\ frame.peers = top.peers /\ Passed(frame)
    BY <1>1, <1>2, <1>3, <1>4, <2>1, PassedNext
  <2>3. Quiet /\ Verdicts'
    BY <1>1, <1>4, QuietKept DEF Quiet
  <2> QED
    BY <1>1, <1>2, <2>1, <2>2, <2>3, FinishKept
<1>5. CASE top.peers = {} /\ Cyclic(f) /\ Fail(r)
  BY <1>1, <1>2, <1>5, FailKept DEF Solo
<1>6. CASE /\ GotoAndCall(r, [Top(r) EXCEPT !.at = "looked"], Read(d.to)) /\ UNCHANGED single
           /\ d.to \notin top.peers /\ ~Terminal(d)
  <2>1. PICK frame, call : frame = [top EXCEPT !.at = "looked"] /\ call = Read(d.to)
    OBVIOUS
  <2>2. /\ frame \in FinishFrame /\ frame.at = "looked" /\ frame.family = f
        /\ frame.peers = top.peers /\ frame.ref = top.ref /\ frame.fn = "finish"
    BY <1>2, <2>1 DEF FinishFrame
  <2>3. call \in Frame /\ call.fn = "read" /\ call.at = "once"
    BY <1>3, <2>1 DEF Read, Frame, ReadFrame
  <2>4. frame \in Frame /\ Same(frame, Top(r))
    BY <1>1, <1>2, <2>2 DEF Frame, Same
  <2>5. /\ OnlyTop(r, {frame, call}) /\ Adjacent(r, {<<frame, call>>})
        /\ calls'[r] # <<>> /\ Top(r)' = call /\ given' = given
    BY <1>1, <1>2, <1>6, <2>1, <2>3, <2>4, PushMoves DEF IInv
  <2>6. Quiet /\ Forward /\ Verdicts' /\ Truths'
    BY <1>1, <1>6, QuietKept DEF Quiet
  <2>7. Passed(frame)
    <3>1. Sought(frame) = d
      BY <1>2, <2>2 DEF Sought
    <3> QED
      BY <1>1, <1>2, <1>3, <1>6, <2>2, <3>1 DEF Passed
  <2>8. FrameGood(frame)'
    BY <1>1, <2>2, <2>7 DEF FrameGood, Passed, Sought, Ready, Bound, Terminal, published, archive
  <2>9. FrameGood(call)' /\ Heard(Top(r), given[r])'
    BY <2>3, <2>5 DEF FrameGood, Heard
  <2>10. \A x, y : <<x, y>> \in {<<frame, call>>} /\ x.fn = "build" => Builds(x, y)'
    BY <2>2
  <2> QED
    BY <1>1, <2>5, <2>6, <2>8, <2>9, <2>10, AnswersKept
<1>7. CASE Terminal(d) /\ d.to \notin top.peers
  BY <1>2, <1>3, <1>4, <1>7 DEF Refer, Bound, Terminal
<1>8. CASE ~(Terminal(d) /\ d.to \notin top.peers)
  BY <1>2, <1>3, <1>4, <1>5, <1>6, <1>8 DEF Refer, Bound
<1> QED
  BY <1>7, <1>8

\* A lookup that finds nothing is an obstacle, unless the class has a name.
LEMMA LookedKept ==
  ASSUME IInv, IInv', AnswersInv, NEW r \in Readers, Looked(r)
  PROVE  AnswersInv'
<1>1. /\ calls[r] # <<>> /\ Top(r).fn = "finish" /\ Top(r).at = "looked"
      /\ UNCHANGED <<archive, claimed, joint, alone, together, told, elsewhere>>
  BY DEF Looked, In, sources
<1>2. PICK f, top, d :
        /\ f \in Families /\ top = Top(r) /\ f = top.family /\ d = Sought(top)
        /\ top \in FinishFrame /\ Passed(top) /\ Heard(top, given[r])
  BY <1>1, TopSound, TopGood DEF FrameGood
<1>3. /\ top.ref \in DOMAIN world.refs[f] /\ ~Terminal(d) /\ d.to \notin top.peers
      /\ d = Ref(r) /\ d.to \in Families
  <2>1. top.ref \in DOMAIN world.refs[f] /\ ~Terminal(d) /\ d.to \notin top.peers
    BY <1>1, <1>2 DEF Passed
  <2>2. d = Ref(r) /\ d = world.refs[f][top.ref]
    BY <1>2 DEF Ref, Sought
  <2> QED
    BY <1>2, <2>1, <2>2, RefType DEF IInv
<1>4. /\ given[r] => d.to \in published
      /\ ~given[r] /\ Ample => d.to \notin Best /\ (d.to \notin world.refused => Settled(d.to))
  BY <1>1, <1>2 DEF Heard, Settled, RefusedTogether, Cyclic
<1>5. ASSUME NextRef(r), UNCHANGED single, Bound(d, top.peers), Verdicts' PROVE AnswersInv'
  <2>1. PICK frame : frame = [top EXCEPT !.at = "refs", !.ref = @ + 1] /\ Goto(r, frame)
    BY <1>2, <1>5 DEF NextRef
  <2>2. /\ frame \in FinishFrame /\ frame.at = "refs" /\ frame.family = top.family
        /\ frame.peers = top.peers /\ Passed(frame)
    BY <1>1, <1>2, <1>3, <1>5, <2>1, PassedNext
  <2>3. Quiet
    BY <1>1, <1>5 DEF Quiet
  <2> QED
    BY <1>1, <1>2, <1>5, <2>1, <2>2, <2>3, FinishKept
<1>6. CASE given[r]
  <2>1. NextRef(r) /\ UNCHANGED <<single, flat>>
    BY <1>2, <1>6 DEF Looked
  <2>2. Verdicts'
    BY <1>1, <2>1, QuietKept DEF Quiet
  <2> QED
    BY <1>4, <1>5, <1>6, <2>1, <2>2 DEF Bound
<1>7. CASE ~given[r] /\ d.static /\ Settled(d.to)
  <2>1. NextRef(r) /\ UNCHANGED single /\ flat' = flat \cup {d.to}
    BY <1>2, <1>3, <1>7 DEF Looked
  <2>2. d.to \notin world.refused
    BY <1>3, <1>7 DEF Terminal
  <2>3. Quiet
    BY <1>1, <2>1 DEF Quiet
  <2>4. /\ Forward /\ \A g \in Families : Lost(g)' = Lost(g)
        /\ world' = world /\ component' = component /\ Families' = Families
        /\ Best' = Best /\ Ample' = Ample /\ published' = published
    BY <1>1, <2>3, QuietKept, WorldStays DEF published
  <2>5. Verdicts'
    BY <2>1, <2>2, <2>4 DEF AnswersInv, Verdicts, Stands, Refs
  <2> QED
    BY <1>5, <1>7, <2>1, <2>5 DEF Bound
<1>8. CASE ~given[r] /\ ~(d.static /\ Settled(d.to))
  <2>1. Fail(r) /\ UNCHANGED flat
    BY <1>2, <1>3, <1>8 DEF Looked
  <2>2. Ample => Obstacle(top)
    BY <1>2, <1>3, <1>4, <1>8 DEF Obstacle, Terminal
  <2> QED
    BY <1>1, <1>2, <2>1, <2>2, FailKept
<1> QED
  BY <1>6, <1>7, <1>8

LEMMA ProveKept ==
  ASSUME IInv, IInv', AnswersInv, NEW r \in Readers, Prove(r)
  PROVE  AnswersInv'
<1>1. /\ calls[r] # <<>> /\ Top(r).fn = "finish" /\ Top(r).at = "refs" /\ ~More(r)
      /\ UNCHANGED <<archive, claimed, joint, alone, together, flat, told, elsewhere>>
  BY DEF Prove, In, sources
<1>2. PICK f, top :
        /\ f \in Families /\ top = Top(r) /\ f = top.family
        /\ top \in FinishFrame /\ Passed(top)
  BY <1>1, TopSound, TopGood DEF FrameGood
<1>3. CASE f \in world.unclosed
  BY <1>1, <1>2, <1>3, FailKept DEF Prove, Obstacle
<1>4. ASSUME f \notin world.unclosed PROVE Ready(f, top.peers)
  <2>1. /\ DOMAIN world.refs[f] = 1..Len(world.refs[f]) /\ Len(world.refs[f]) \in Nat
        /\ top.ref \in Nat \ {0} /\ top.ref \notin DOMAIN world.refs[f]
    BY <1>1, <1>2, RefType DEF More, FinishFrame, IInv
  <2>2. \A i \in DOMAIN world.refs[f] : i < top.ref
    BY <2>1
  <2> QED
    BY <1>1, <1>2, <1>4, <2>2 DEF Passed, Ready
<1>5. CASE f \notin world.unclosed /\ top.peers = {}
  <2>1. At(r, "reserve") /\ UNCHANGED single
    BY <1>2, <1>5 DEF Prove
  <2>2. PICK frame : frame = [top EXCEPT !.at = "reserve"] /\ Goto(r, frame)
    BY <1>2, <2>1 DEF At
  <2>3. /\ frame \in FinishFrame /\ frame.at = "reserve" /\ frame.family = top.family
        /\ frame.peers = top.peers /\ frame.ref = top.ref
    BY <1>2, <2>2 DEF FinishFrame
  <2>4. Passed(frame)
    BY <1>1, <1>2, <1>4, <1>5, <2>3 DEF Passed
  <2>5. Quiet /\ Verdicts'
    BY <1>1, <2>1, QuietKept DEF Quiet
  <2> QED
    BY <1>1, <1>2, <2>2, <2>3, <2>4, <2>5, FinishKept
<1>6. CASE f \notin world.unclosed /\ top.peers # {}
  <2>1. Return(r, TRUE) /\ UNCHANGED single
    BY <1>2, <1>6 DEF Prove
  <2>2. Quiet /\ Forward /\ Verdicts' /\ Truths'
    BY <1>1, <2>1, QuietKept DEF Quiet
  <2>3. /\ OnlyTop(r, {}) /\ Adjacent(r, {})
        /\ given'[r] = TRUE /\ \A q \in Readers \ {r} : given'[q] = given[q]
        /\ calls'[r] # <<>> =>
                /\ Top(r)' \in Frame
                /\ Top(r)'.fn = "finish" => LooksUp(Top(r)', Top(r))
                /\ Top(r)'.fn = "build" => Builds(Top(r)', Top(r))
    BY <1>1, <2>1, ReturnMoves DEF IInv, StackInv, AnswersInv
  <2>4. ASSUME calls'[r] # <<>> PROVE Heard(Top(r), given[r])'
    <3>1. PICK frame : frame = Top(r)'
      OBVIOUS
    <3>2. frame.fn # "finish" /\ (frame.fn = "build" => Builds(frame, top))
      BY <1>1, <1>2, <2>3, <2>4, <3>1 DEF LooksUp
    <3>3. frame.fn = "build" => Unready(frame) = {}
      BY <1>2, <1>4, <1>6, <3>2 DEF Builds, Unready
    <3>4. Unready(frame)' = {} \/ frame.fn # "build"
      BY <2>2, <3>3, ReadyStays DEF Unready
    <3> QED
      BY <2>3, <3>1, <3>2, <3>4 DEF Heard, Unready
  <2> QED
    BY <1>1, <2>2, <2>3, <2>4, AnswersKept
<1> QED
  BY <1>3, <1>5, <1>6

\* There is room for a family, unless the allowance is small.
LEMMA ReserveKept ==
  ASSUME IInv, IInv', AnswersInv, AllowanceExact, NEW r \in Readers, Reserve(r)
  PROVE  AnswersInv'
<1>1. /\ calls[r] # <<>> /\ Top(r).fn = "finish" /\ Top(r).at = "reserve"
      /\ UNCHANGED <<archive, claimed, joint, alone, together, flat, told, elsewhere>>
  BY DEF Reserve, In
<1>2. PICK f, top :
        /\ f \in Families /\ top = Top(r) /\ f = top.family /\ top \in FinishFrame
        /\ FrameSound(top) /\ Passed(top)
  BY <1>1, TopSound, TopGood DEF FrameGood
<1>3. Solo(top) /\ single[f] = "busy" /\ ~Cyclic(f)
  BY <1>1, <1>2 DEF FrameSound, SoloSound
<1>4. CASE At(r, "publish") /\ UNCHANGED single
  <2>1. PICK frame : frame = [top EXCEPT !.at = "publish"] /\ Goto(r, frame)
    BY <1>2, <1>4 DEF At
  <2>2. /\ frame \in FinishFrame /\ frame.at = "publish" /\ frame.family = top.family
        /\ frame.peers = top.peers /\ frame.ref = top.ref
    BY <1>2, <2>1 DEF FinishFrame
  <2>3. Passed(frame)
    BY <1>1, <1>2, <2>2 DEF Passed
  <2>4. Quiet /\ Verdicts'
    BY <1>1, <1>4, QuietKept DEF Quiet
  <2> QED
    BY <1>1, <1>2, <2>1, <2>2, <2>3, <2>4, FinishKept
<1>5. CASE ~Reservable(Size)
  <2>1. f \notin published
    <3>1. f \notin alone
      BY <1>3 DEF IInv, Outcomes
    <3>2. f \notin together
      BY <1>2, <1>3 DEF IInv, Outcomes, DoneTogether, Claims
    <3> QED
      BY <3>1, <3>2 DEF published
  <2>2. \A q \in OnTheWay : Top(q).family # f
    <3> SUFFICES ASSUME NEW q \in OnTheWay, Top(q).family = f PROVE FALSE
      OBVIOUS
    <3>1. q \in Readers /\ calls[q] # <<>> /\ Top(q).fn = "finish" /\ Top(q).at = "publish"
      BY DEF OnTheWay, In
    <3>2. Solo(Top(q))
      BY <3>1, TopSound DEF FrameSound
    <3>3. /\ Len(calls[q]) \in DOMAIN calls[q] /\ Top(q) = calls[q][Len(calls[q])]
          /\ Len(calls[r]) \in DOMAIN calls[r] /\ Top(r) = calls[r][Len(calls[r])]
      BY <1>1, <3>1, StackType DEF IInv
    <3>4. Rival(calls[q][Len(calls[q])], calls[r][Len(calls[r])])
      BY <1>2, <1>3, <3>2, <3>3 DEF Rival
    <3>5. q = r
      BY <3>1, <3>3, <3>4 DEF IInv, StackInv, NoRivals
    <3> QED
      BY <1>1, <3>1, <3>5
  <2>3. ASSUME Ample PROVE FALSE
    <3>1. Cardinality({f}) = 1
      BY FS_Singleton
    <3>2. Cardinality({f}) <= world.limit - ledger
      BY <1>2, <2>1, <2>2, <2>3, Room
    <3> QED
      BY <1>5, <3>1, <3>2 DEF Reservable, Size
  <2>4. Fail(r)
    BY <1>5 DEF Reserve
  <2> QED
    BY <1>1, <2>3, <2>4, FailKept
<1> QED
  BY <1>4, <1>5 DEF Reserve

\* What is published alone stands on what is published.
LEMMA PublishKept ==
  ASSUME IInv, IInv', AnswersInv, AllowanceExact, NEW r \in Readers, Publish(r)
  PROVE  AnswersInv'
<1>1. /\ calls[r] # <<>> /\ Top(r).fn = "finish" /\ Top(r).at = "publish"
      /\ r \in OnTheWay
      /\ UNCHANGED <<archive, claimed, joint, together, flat, told, elsewhere>>
  BY DEF Publish, In, OnTheWay
<1>2. PICK f, top :
        /\ f \in Families /\ top = Top(r) /\ f = top.family /\ top \in FinishFrame
        /\ FrameSound(top) /\ Passed(top)
  BY <1>1, TopSound, TopGood DEF FrameGood
<1>3. Solo(top) /\ single[f] = "busy" /\ component[f] = {f}
  BY <1>1, <1>2 DEF FrameSound, SoloSound, Cyclic
<1>4. /\ single' = [single EXCEPT ![f] = "done"] /\ alone' = alone \cup {f}
      /\ Return(r, TRUE) /\ TRUE \in BOOLEAN
  BY <1>1, <1>2, RoomReserved DEF Publish
<1>5. Grows
  BY <1>1, <1>2, <1>3, <1>4, AloneDone
<1>6. Forward
  BY <1>1, <1>3, <1>4, <1>5 DEF Forward
<1>7. /\ world' = world /\ Best' = Best /\ Ample' = Ample /\ Families' = Families
      /\ component' = component /\ \A g \in Families : Cyclic(g)' = Cyclic(g)
      /\ published' = published \cup {f}
  BY <1>1, <1>4, WorldStays DEF published
<1>8. Stands(f, published \cup {f})
  <2>1. Ready(f, {})
    BY <1>1, <1>2, <1>3 DEF Passed, Solo
  <2> QED
    BY <1>3, <2>1 DEF Stands, Ready, Bound, Refs
<1>9. Verdicts'
  <2>1. \A g \in published \cup {f} : Stands(g, published \cup {f})
    BY <1>8 DEF AnswersInv, Verdicts, Stands
  <2>2. \A g \in published' : Stands(g, published)'
    BY <1>7, <2>1 DEF Stands, Refs
  <2>3. \A g \in Families : Lost(g)' => Lost(g)
    <3> SUFFICES ASSUME NEW g \in Families, Lost(g)' PROVE Lost(g)
      OBVIOUS
    <3>1. DoneTogether(g)' = DoneTogether(g) /\ Cyclic(g)' = Cyclic(g)
      BY <1>1, <1>7 DEF DoneTogether
    <3>2. g # f => single'[g] = single[g]
      BY <1>4
    <3> QED
      BY <1>1, <1>4, <3>1, <3>2 DEF Lost
  <2> QED
    BY <1>1, <1>7, <2>2, <2>3 DEF AnswersInv, Verdicts
<1>10. Truths'
  BY <1>1, <1>6, TruthsKept
<1>11. /\ OnlyTop(r, {}) /\ Adjacent(r, {})
       /\ given'[r] = TRUE /\ \A q \in Readers \ {r} : given'[q] = given[q]
       /\ calls'[r] # <<>> =>
               /\ Top(r)' \in Frame
               /\ Top(r)'.fn = "finish" => LooksUp(Top(r)', Top(r))
               /\ Top(r)'.fn = "build" => Builds(Top(r)', Top(r))
  BY <1>1, <1>4, ReturnMoves DEF IInv, StackInv, AnswersInv
<1>12. ASSUME calls'[r] # <<>> PROVE Heard(Top(r), given[r])'
  <2>1. PICK frame : frame = Top(r)'
    OBVIOUS
  <2>2. frame.fn # "finish" /\ (frame.fn = "build" => frame.owners = {})
    BY <1>1, <1>2, <1>3, <1>11, <1>12, <2>1 DEF LooksUp, Builds, Solo
  <2>3. frame.fn # "build" \/ Unready(frame)' = {}
    BY <2>2 DEF Unready
  <2> QED
    BY <1>11, <2>1, <2>2, <2>3 DEF Heard, Unready
<1> QED
  BY <1>1, <1>6, <1>9, <1>10, <1>11, <1>12, AnswersKept

LEMMA ParticipateKept ==
  ASSUME IInv, IInv', AnswersInv, NEW r \in Readers, Participate(r)
  PROVE  AnswersInv'
<1>1. /\ calls[r] # <<>> /\ Top(r).fn = "build" /\ Top(r).at = "finish" /\ Top(r).left # {}
      /\ UNCHANGED <<archive, single, claimed, alone, together, flat, told, elsewhere>>
  BY DEF Participate, In, sources
<1>2. PICK c, top : /\ top = Top(r) /\ c = top.owners /\ top \in BuildFrame /\ BuildSound(top)
                    /\ Unready(top) = {}
  BY <1>1, TopSound, TopGood DEF FrameGood
<1>3. CASE c \cap world.refused # {}
  <2>1. PICK g \in c : g \in world.refused
    BY <1>3
  <2>2. \A f \in c : component[f] = c
    BY <1>2 DEF BuildSound, IInv, Claims
  <2>3. c \cap Best = {}
    <3> SUFFICES ASSUME NEW f \in c, f \in Best PROVE FALSE
      OBVIOUS
    <3>1. Stands(f, Best)
      BY BestStands
    <3>2. g \in Best
      BY <2>1, <2>2, <3>1 DEF Stands
    <3> QED
      BY <2>1, <3>2, BestStands
  <2>4. Complete(r)
    BY <1>2, <1>3 DEF Participate
  <2> QED
    BY <1>1, <1>2, <2>3, <2>4, CompleteKept
<1>4. CASE c \cap world.refused = {}
  <2>1. PICK p : p = CHOOSE f \in Top(r).left : \A g \in Top(r).left : f <= g
    OBVIOUS
  <2>2. p \in top.left /\ p \in c /\ p \in Families /\ top.left \subseteq Families /\ c \subseteq Families
    <3>1. top.left \in SUBSET Families /\ top.left # {} /\ c \subseteq Families /\ top.left \subseteq c
      BY <1>1, <1>2 DEF BuildFrame, BuildSound
    <3> QED
      BY <1>2, <2>1, <3>1, LeastLeft DEF IInv
  <2>3. PICK frame, call : /\ frame = [top EXCEPT !.at = "finished", !.left = @ \ {p}]
                           /\ call = Finish(p, c)
    OBVIOUS
  <2>4. GotoAndCall(r, frame, call) /\ UNCHANGED joint
    BY <1>2, <1>4, <2>1, <2>3 DEF Participate
  <2>5. /\ frame.fn = "build" /\ frame.owners = c /\ frame.left = top.left \ {p}
        /\ frame.at = "finished"
    BY <1>2, <2>3 DEF BuildFrame
  <2>6. frame \in BuildFrame
    <3>1. frame = [top EXCEPT !.at = "finished", !.left = top.left \ {p}]
      BY <2>3
    <3>2. \A S \in SUBSET Families : [top EXCEPT !.at = "finished", !.left = S] \in BuildFrame
      BY <1>2 DEF BuildFrame
    <3> QED
      BY <2>2, <3>1, <3>2
  <2>7. frame \in Frame /\ Same(frame, Top(r))
    BY <1>1, <1>2, <2>5, <2>6 DEF Frame, Same
  <2>8. /\ call \in Frame /\ call.fn = "finish" /\ call.at = "scope" /\ call.family = p
        /\ call.peers = c /\ call.ref = 1
    BY <2>2, <2>3 DEF Finish, Frame, FinishFrame
  <2>9. Quiet /\ Forward /\ Verdicts' /\ Truths'
    BY <1>1, <2>4, QuietKept DEF Quiet
  <2>10. /\ OnlyTop(r, {frame, call}) /\ Adjacent(r, {<<frame, call>>})
         /\ calls'[r] # <<>> /\ Top(r)' = call /\ given' = given
    BY <1>1, <2>4, <2>7, <2>8, PushMoves DEF IInv
  <2>11. FrameGood(frame)'
    BY <2>5 DEF FrameGood
  <2>12. FrameGood(call)'
    <3>1. \A i \in DOMAIN world.refs[p] : ~(i < 1)
      BY <2>2, RefType DEF IInv
    <3>2. c \in DOMAIN joint'
      BY <1>2, <2>4 DEF BuildSound
    <3>3. Passed(call)'
      BY <1>1, <2>2, <2>8, <3>1, <3>2 DEF Passed, archive
    <3> QED
      BY <2>8, <3>3 DEF FrameGood
  <2>13. Heard(Top(r), given[r])'
    BY <2>8, <2>10 DEF Heard
  <2>14. Builds(frame, call)'
    <3>1. Unready(frame) \subseteq {p}
      BY <1>2, <2>5 DEF Unready
    <3>2. Unready(frame)' \subseteq {p}
      BY <2>9, <3>1, ReadyStays DEF Unready
    <3> QED
      BY <2>5, <2>8, <3>2 DEF Builds, Unready
  <2>15. \A x, y : <<x, y>> \in {<<frame, call>>} /\ x.fn = "build" => Builds(x, y)'
    BY <2>14 DEF Builds, Unready
  <2> QED
    BY <1>1, <2>9, <2>10, <2>11, <2>12, <2>13, <2>15, AnswersKept
<1> QED
  BY <1>3, <1>4

LEMMA FinishedKept ==
  ASSUME IInv, IInv', AnswersInv, NEW r \in Readers, Finished(r)
  PROVE  AnswersInv'
<1>1. /\ calls[r] # <<>> /\ Top(r).fn = "build" /\ Top(r).at = "finished"
      /\ UNCHANGED <<archive, single, claimed, alone, together, flat, told, elsewhere>>
  BY DEF Finished, In, sources
<1>2. PICK c, top : /\ top = Top(r) /\ c = top.owners /\ top \in BuildFrame
                    /\ Heard(top, given[r])
  BY <1>1, TopSound, TopGood DEF Heard, Sought, Unready, Settled, RefusedTogether, Cyclic
<1>3. /\ given[r] => Unready(top) = {}
      /\ ~given[r] /\ Ample => c \cap Best = {}
  BY <1>1, <1>2 DEF Heard
<1>4. CASE given[r]
  <2>1. At(r, "finish") /\ UNCHANGED joint
    BY <1>4 DEF Finished
  <2>2. PICK frame : frame = [top EXCEPT !.at = "finish"] /\ Goto(r, frame)
    BY <1>2, <2>1 DEF At
  <2>3. /\ frame \in BuildFrame /\ frame.fn = "build" /\ frame.owners = c
        /\ frame.left = top.left /\ frame.at = "finish"
    BY <1>2, <2>2 DEF BuildFrame
  <2>4. frame \in Frame /\ Same(frame, Top(r))
    BY <1>1, <1>2, <2>3 DEF Frame, Same
  <2>5. Quiet /\ Verdicts'
    BY <1>1, <2>1, QuietKept DEF Quiet
  <2>6. FrameGood(frame) /\ Heard(frame, given[r])
    BY <1>2, <1>3, <1>4, <2>3 DEF FrameGood, Heard, Unready
  <2> QED
    BY <1>1, <2>2, <2>4, <2>5, <2>6, GotoKept
<1>5. CASE ~given[r]
  <2>1. Complete(r)
    BY <1>5 DEF Finished
  <2> QED
    BY <1>1, <1>2, <1>3, <1>5, <2>1, CompleteKept
<1> QED
  BY <1>4, <1>5

\* What is published together stands on itself and on what is published.
LEMMA PublishAllKept ==
  ASSUME IInv, IInv', AnswersInv, AllowanceExact, NEW r \in Readers, PublishAll(r)
  PROVE  AnswersInv'
<1>1. /\ calls[r] # <<>> /\ Top(r).fn = "build" /\ Top(r).at = "finish" /\ Top(r).left = {}
      /\ Complete(r)
      /\ UNCHANGED <<archive, single, claimed, alone, flat, told, elsewhere>>
  BY DEF PublishAll, In
<1>2. PICK c, top : /\ top = Top(r) /\ c = top.owners /\ top \in BuildFrame /\ BuildSound(top)
                    /\ Unready(top) = {}
  BY <1>1, TopSound, TopGood DEF FrameGood
<1>3. \A g \in c : Ready(g, c)
  BY <1>1, <1>2 DEF Unready
<1>4. c \subseteq Families /\ \A g \in c : component[g] = c /\ Cyclic(g)
  BY <1>2 DEF BuildSound, IInv, Claims
<1>5. CASE together' = together \cup c
  <2>1. \A f \in c : Stands(f, published \cup c)
    BY <1>3, <1>4 DEF Stands, Ready, Bound, Refs
  <2> QED
    BY <1>1, <1>2, <1>5, <2>1, CompleteKept
<1>6. CASE together' = together /\ ~(/\ Size * Cardinality(c) <= world.limit - bytes
                                     /\ Reservable(Size * Cardinality(c)))
  <2>1. ASSUME Ample PROVE FALSE
    <3>1. c \cap published = {}
      BY <1>1, <1>2, NotYetPublished
    <3>2. \A q \in OnTheWay : Top(q).family \notin c
      <4> SUFFICES ASSUME NEW q \in OnTheWay PROVE ~Cyclic(Top(q).family)
        BY <1>4
      <4>1. q \in Readers /\ calls[q] # <<>> /\ Top(q).fn = "finish" /\ Top(q).at = "publish"
        BY DEF OnTheWay, In
      <4>2. PICK next : next = Top(q) /\ FrameSound(next)
        BY <4>1, TopSound
      <4>3. ~Cyclic(next.family)
        BY <4>1, <4>2 DEF FrameSound, SoloSound
      <4> QED
        BY <4>2, <4>3
    <3>3. PICK n : n = Cardinality(c)
      OBVIOUS
    <3>4. n \in Nat /\ n <= world.limit - ledger /\ bytes <= ledger
      BY <1>4, <2>1, <3>1, <3>2, <3>3, Room
    <3>5. world.limit \in Nat /\ bytes \in Nat /\ ledger \in Nat
      BY WorldType DEF IInv, TypeInv
    <3>6. Size * n = n
      BY <3>4 DEF Size
    <3>7. n <= world.limit - bytes
      BY <3>4, <3>5
    <3> QED
      BY <1>6, <3>3, <3>4, <3>6, <3>7 DEF Reservable
  <2> QED
    BY <1>1, <1>2, <1>6, <2>1, CompleteKept
<1> QED
  BY <1>2, <1>5, <1>6 DEF PublishAll

\* A step that disturbs no completion, no call and no answer.
LEMMA OthersKept ==
  ASSUME IInv, AnswersInv, OtherView \/ UNCHANGED vars
  PROVE  AnswersInv'
<1>1. UNCHANGED <<archive, single, claimed, joint, alone, together, flat, calls, given, told>>
  BY DEF OtherView, vars, sources
<1>2. /\ world' = world /\ component' = component /\ Families' = Families
      /\ Best' = Best /\ Ample' = Ample /\ published' = published
  BY <1>1, WorldStays DEF published
<1>3. FramesGood' /\ Built'
  <2>1. \A g, c : Ready(g, c)' = Ready(g, c)
    BY <1>2 DEF Ready, Bound
  <2>2. \A frame : Unready(frame)' = Unready(frame)
    BY <2>1 DEF Unready
  <2>3. \A frame : Passed(frame)' = Passed(frame)
    BY <1>1, <1>2, <2>1 DEF Passed, Bound, Sought, Terminal
  <2>4. \A frame : FrameGood(frame)' = FrameGood(frame)
    BY <1>1, <2>2, <2>3 DEF FrameGood
  <2>5. \A frame, call : Builds(frame, call)' = Builds(frame, call)
    BY <2>2 DEF Builds
  <2>6. FramesGood'
    <3>1. \A q \in Readers : \A i \in DOMAIN calls[q] : FrameGood(calls[q][i])
      BY DEF AnswersInv, FramesGood
    <3> QED
      BY <1>1, <2>4, <3>1 DEF FramesGood
  <2>7. Built'
    <3>1. Built
      BY DEF AnswersInv
    <3> QED
      BY <1>1, <2>5, <3>1 DEF Built
  <2> QED
    BY <2>6, <2>7
<1>4. AllHeard'
  <2>1. \A frame : Unready(frame)' = Unready(frame)
    BY <1>2 DEF Unready, Ready, Bound
  <2>2. \A f : Settled(f)' = Settled(f)
    BY <1>1 DEF Settled, RefusedTogether, Cyclic, archive
  <2>3. \A frame : Sought(frame)' = Sought(frame)
    BY <1>2 DEF Sought
  <2>4. \A frame, value : Heard(frame, value)' = Heard(frame, value)
    BY <1>2, <2>1, <2>2, <2>3 DEF Heard, Sought
  <2>5. \A q \in Readers : calls[q] # <<>> => Heard(Top(q), given[q])
    BY DEF AnswersInv, AllHeard
  <2> QED
    BY <1>1, <2>4, <2>5 DEF AllHeard, Top
<1>5. Verdicts' /\ Truths'
  <2>1. \A f, S : Stands(f, S)' = Stands(f, S)
    BY <1>2 DEF Stands, Refs
  <2>2. \A f : Lost(f)' = Lost(f)
    BY <1>1 DEF Lost, DoneTogether, Cyclic, archive
  <2>3. /\ \A f \in published : Stands(f, published)
        /\ Ample => \A f \in Families : Lost(f) => f \notin Best
        /\ flat \cap world.refused = {}
    BY DEF AnswersInv, Verdicts
  <2>4. \A f \in published' : Stands(f, published)'
    BY <1>2, <2>1, <2>3 DEF Stands
  <2>5. Ample' => \A f \in Families' : Lost(f)' => f \notin Best'
    BY <1>2, <2>2, <2>3
  <2>6. flat' \cap world'.refused = {}
    BY <1>1, <1>2, <2>3
  <2>7. Verdicts'
    BY <2>4, <2>5, <2>6 DEF Verdicts
  <2> QED
    BY <1>1, <1>2, <2>7 DEF AnswersInv, Truths
<1>6. component' = [f \in Families' |-> Component(f)']
  <2>1. \A f : Component(f)' = Component(f)
    BY <1>1, <1>2 DEF Component, Reachable, Closed, Depends, Terminal, Refs
  <2>2. component = [f \in Families |-> Component(f)]
    BY DEF AnswersInv
  <2> QED
    BY <1>2, <2>1, <2>2
<1>7. ~world'.shared => elsewhere' = 0
  <2>1. elsewhere' = elsewhere \/ world.shared
    BY DEF OtherView, vars, sources
  <2> QED
    BY <1>2, <2>1 DEF AnswersInv
<1> QED
  BY <1>3, <1>4, <1>5, <1>6, <1>7 DEF AnswersInv

LEMMA AnswersInit ==
  ASSUME Init
  PROVE  AnswersInv
<1>1. FramesGood /\ Built /\ AllHeard /\ Truths
  BY DEF Init, FramesGood, Built, AllHeard, Truths
<1>2. Verdicts
  BY DEF Init, Verdicts, published, Lost, DoneTogether
<1> QED
  BY <1>1, <1>2 DEF Init, AnswersInv

LEMMA AnswersNext ==
  ASSUME IInv, IInv', AllowanceExact, AnswersInv, [Next]_vars
  PROVE  AnswersInv'
<1>1. ASSUME NEW r \in Readers, Ask(r) \/ Step(r) PROVE AnswersInv'
  BY <1>1, AskKept, AloneKept, TogetherKept, ClaimKept, LoadKept, ScopeKept, ReferKept,
     LookedKept, ProveKept, ReserveKept, PublishKept, ParticipateKept, FinishedKept,
     PublishAllKept DEF Step
<1> QED
  BY <1>1, OthersKept DEF Next
-----------------------------------------------------------------------------
(* The answers are those the archive gives.                                *)

\* The groups of families that need each other are the components.
LEMMA BestIsSound ==
  ASSUME IInv, AnswersInv
  PROVE  Sound = Best
<1> DEFINE ends == [f \in Families |-> NeedsInTheEnd(f)]
           group == [f \in Families |-> {f} \cup {g \in ends[f] : f \in ends[g]}]
           falls(g, f, S) ==
             \/ g \notin S \/ g \in world.unclosed
             \/ ~(world.users[g] \subseteq group[f])
             \/ \E ref \in Refs(g) : ref.to \notin group[f] /\ ~ref.static /\ ref.to \notin S
           stands(S) == \A f \in S : \A g \in group[f] : ~falls(g, f, S)
<1>1. \A f, g \in Families : Needs(f, g) <=> Depends(f, g)
  BY DEF Needs, Depends, Terminal
<1>2. ASSUME NEW f \in Families PROVE NeedsInTheEnd(f) = Reachable(f)
  <2>1. ASSUME NEW S \in SUBSET Families
        PROVE  {h \in Families : \E k \in S \cup {f} : Needs(k, h)} \subseteq S
               <=> Closed(S) /\ \A h \in Families : Depends(f, h) => h \in S
    BY <1>1 DEF Closed
  <2> QED
    BY <2>1 DEF NeedsInTheEnd, Reachable
<1>3. \A f \in Families : ends[f] = Reachable(f)
  BY <1>2
<1> HIDE DEF ends
<1>4. ASSUME NEW f \in Families PROVE group[f] = component[f]
  <2>1. Reachable(f) \subseteq Families
    BY DEF Reachable
  <2>2. group[f] = {f} \cup {g \in Reachable(f) : f \in Reachable(g)}
    BY <1>3, <2>1
  <2> QED
    BY <2>2 DEF AnswersInv, Component
<1> HIDE DEF group
<1>5. ASSUME NEW S \in SUBSET (Families \ world.refused)
      PROVE  stands(S) <=> \A f \in S : Stands(f, S)
  BY <1>4, <1>5 DEF Stands
<1> HIDE DEF stands
<1>6. UNION {S \in SUBSET (Families \ world.refused) : stands(S)} = Best
  BY <1>5 DEF Best
<1> QED
  BY <1>6 DEF Sound, stands, group, ends

\* As long as there is room for every source, every lookup answers what the
\* archive alone says of the family, whatever else was asked, and when.
THEOREM Answers == Spec => []ReadsAgree
<1>1. ASSUME IInv, AnswersInv PROVE ReadsAgree
  <2> SUFFICES ASSUME Ample, NEW a \in told PROVE a.lexical = (a.family \in Sound)
    BY DEF ReadsAgree, Ample
  <2>1. published \subseteq Best
    <3>1. published \subseteq Families \ world.refused
      BY <1>1 DEF IInv, TypeInv, Outcomes, published
    <3>2. \A f \in published : Stands(f, published)
      BY <1>1 DEF AnswersInv, Verdicts
    <3> QED
      BY <3>1, <3>2, BestIsBest
  <2>2. /\ a.lexical \in BOOLEAN
        /\ a.lexical => a.family \in Best
        /\ ~a.lexical => a.family \notin Best
    BY <1>1, <2>1 DEF AnswersInv, Truths
  <2>3. Sound = Best
    BY <1>1, BestIsSound
  <2>4. PICK lexical, f : lexical \in BOOLEAN /\ lexical = a.lexical /\ f = a.family
    BY <2>2
  <2>5. lexical = (f \in Best)
    BY <2>2, <2>4
  <2> QED
    BY <2>3, <2>4, <2>5
<1>2. Init => IInv /\ AllowanceExact /\ AnswersInv
  BY InitInv, AllowanceInit, AnswersInit
<1>3. IInv /\ AllowanceExact /\ AnswersInv /\ [Next]_vars => (IInv /\ AllowanceExact /\ AnswersInv)'
  BY NextInv, AllowanceStep, AnswersNext
<1> QED
  BY <1>1, <1>2, <1>3, PTL DEF Spec
=============================================================================
