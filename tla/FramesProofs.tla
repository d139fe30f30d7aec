---------------------------- MODULE FramesProofs ----------------------------
(***************************************************************************)
(* Proofs about Frames, whatever the frames and the instruction.  First:   *)
(* no store, transfer, handler entry or join ever leaves half of a wide    *)
(* local behind or lets its halves name different values.  Then: each of   *)
(* them returns a well-typed frame with as many locals, or the error.      *)
(* At the end: the types in a frame do not depend on the origins in it     *)
(* (Same), and a join covers what it joins (Covers).                       *)
(***************************************************************************)
EXTENDS Frames, TLAPS

Origins == [kind : {"top", "param", "def", "thrown", "phi"}, at : Int \X Int, slot : Int]
CellSet == [type : Types, origin : Origins]

\* Operand stacks hold one cell for each value.
IsStack(s) == s \in Seq(CellSet) /\ \A i \in DOMAIN s : Computational(s[i].type)
IsFrame(f) == /\ f = Frame(f.locals, f.stack)
              /\ f.locals \in Seq(CellSet) /\ IsStack(f.stack)

(* storeLocal: whatever the written slots cut, both halves of it go.       *)
LEMMA PutKeepsWhole ==
  ASSUME NEW locals \in Seq(CellSet), Whole(locals),
         NEW c \in CellSet, Computational(c.type),
         NEW n \in DOMAIN locals, IsHead(c.type) => n + 1 \in DOMAIN locals
  PROVE  Whole(Put(locals, n, c))
<1> DEFINE last == IF IsHead(c.type) THEN n + 1 ELSE n
           p == Put(locals, n, c)
<1>1. Len(locals) \in Nat /\ DOMAIN locals = 1..Len(locals) /\ DOMAIN p = DOMAIN locals
  BY DEF Put
<1>2. ~IsTail(c.type) /\ ~IsTail(Unusable.type) /\ ~IsHead(Unusable.type)
  BY DEF Computational, IsTail, IsHead, Unusable, Cell, T
<1>3. /\ ~IsHead(T("LongTail")) /\ IsTail(T("LongTail"))
      /\ Cell(T("LongTail"), c.origin).type = T("LongTail")
      /\ Cell(T("LongTail"), c.origin).origin = c.origin
  BY DEF IsHead, IsTail, Cell, T
<1>4. /\ p[n] = c
      /\ last # n => p[last] = Cell(T("LongTail"), c.origin)
      /\ \A i \in DOMAIN locals : i # n /\ i # last =>
           p[i] = IF \/ i = n - 1 /\ IsHead(locals[i].type)
                     \/ i = last + 1 /\ IsTail(locals[i].type)
                  THEN Unusable ELSE locals[i]
  BY <1>1 DEF Put
<1>5. \A t : ~(IsHead(t) /\ IsTail(t))
  BY DEF IsHead, IsTail
<1>6. ASSUME NEW i \in DOMAIN p, IsHead(p[i].type)
      PROVE  i + 1 \in DOMAIN p /\ p[i + 1] = Cell(T("LongTail"), p[i].origin)
  <2>1. CASE i = n
    BY <1>1, <1>4, <1>6, <2>1
  <2>2. CASE i # n
    <3>1. i # last /\ p[i] = locals[i] /\ i # n - 1
      BY <1>1, <1>2, <1>3, <1>4, <1>6, <2>2
    <3>2. i + 1 \in DOMAIN locals /\ locals[i + 1] = Cell(T("LongTail"), locals[i].origin)
      BY <1>1, <1>6, <3>1 DEF Whole
    <3>3. i + 1 # n /\ ~IsHead(locals[i + 1].type)
      BY <1>1, <1>3, <3>1, <3>2 DEF Cell
    <3>4. i + 1 # last /\ i + 1 # last + 1
      BY <1>1, <2>2, <3>1, <3>3
    <3> QED
      BY <1>1, <1>3, <1>4, <3>1, <3>2, <3>3, <3>4
  <2> QED
    BY <2>1, <2>2
<1>7. ASSUME NEW i \in DOMAIN p, IsTail(p[i].type)
      PROVE  i - 1 \in DOMAIN p /\ IsHead(p[i - 1].type) /\ p[i - 1].origin = p[i].origin
  <2>1. CASE i = last /\ last # n
    BY <1>1, <1>3, <1>4, <2>1
  <2>2. CASE ~(i = last /\ last # n)
    <3>1. i # n /\ i # last /\ p[i] = locals[i] /\ i # last + 1
      BY <1>1, <1>2, <1>4, <1>7, <2>2
    <3>2. i - 1 \in DOMAIN locals /\ IsHead(locals[i - 1].type) /\ locals[i - 1].origin = locals[i].origin
      BY <1>1, <1>7, <3>1 DEF Whole
    <3>3. i - 1 # n /\ i - 1 # last /\ i - 1 # n - 1
      BY <1>1, <3>1
    <3> QED
      BY <1>1, <1>4, <1>5, <3>1, <3>2, <3>3
  <2> QED
    BY <2>1, <2>2
<1> QED
  BY <1>6, <1>7 DEF Whole

(* The constructor's effect on the copies of its object touches no pair.   *)
LEMMA InitialisedKeepsWhole ==
  ASSUME NEW cells \in Seq(CellSet), Whole(cells), NEW t, t.kind = "UninitNew"
  PROVE  Whole(Initialised(cells, t))
<1> DEFINE r == Initialised(cells, t)
<1>1. DOMAIN r = DOMAIN cells
  BY DEF Initialised
<1>2. \A i \in DOMAIN cells : \/ r[i] = cells[i]
                             \/ /\ ~IsHead(r[i].type) /\ ~IsTail(r[i].type)
                                /\ ~IsHead(cells[i].type) /\ ~IsTail(cells[i].type)
  BY DEF Initialised, IsHead, IsTail, RefOf, Cell
<1>3. IsTail(T("LongTail")) /\ \A o : Cell(T("LongTail"), o).type = T("LongTail")
  BY DEF IsTail, Cell, T
<1> QED
  BY <1>1, <1>2, <1>3 DEF Whole

(* No instruction leaves half of a wide local behind.                      *)
THEOREM TransferKeepsWhole ==
  ASSUME NEW f, IsFrame(f), Whole(f.locals), NEW ins, ins.op \in Ops, NEW at
  PROVE  Whole(Transfer(f, ins, at).locals)
<1> DEFINE n == Len(f.stack)
           top == f.stack[n]
<1>1. CASE ~f.ok \/ ~Fits(f, ins)
  <2>1. Transfer(f, ins, at).locals = <<>>
    BY <1>1 DEF Transfer, Invalid
  <2> QED
    BY <2>1 DEF Whole
<1>2. CASE f.ok /\ Fits(f, ins) /\ ins.op \notin {"store", "iinc", "init"}
  BY <1>2 DEF Transfer, Ops, Restack, IsFrame, Frame
<1>3. CASE f.ok /\ Fits(f, ins) /\ ins.op = "store"
  <2>1. /\ n > 0 /\ ins.local \in DOMAIN f.locals
        /\ IsHead(top.type) => ins.local + 1 \in DOMAIN f.locals
    BY <1>3 DEF Fits
  <2>2. top \in CellSet /\ Computational(top.type)
    BY <2>1 DEF IsFrame, IsStack
  <2>3. Whole(Put(f.locals, ins.local, top))
    BY <2>1, <2>2, PutKeepsWhole DEF IsFrame
  <2>4. Transfer(f, ins, at).locals = Put(f.locals, ins.local, top)
    BY <1>3 DEF Transfer, Restack, IsFrame, Frame
  <2> QED
    BY <2>3, <2>4
<1>4. CASE f.ok /\ Fits(f, ins) /\ ins.op = "iinc"
  <2> DEFINE k == ins.local
             c == Increased(f.locals[k], at)
             p == [f.locals EXCEPT ![k] = c]
  <2>1. k \in DOMAIN f.locals /\ f.locals[k].type.kind = "Int"
    BY <1>4 DEF Fits
  <2>2. Transfer(f, ins, at).locals = p
    BY <1>4 DEF Transfer, IsFrame, Frame
  <2>3. c.type.kind = "Int"
    BY DEF Increased, Incremented, Cell, T, IntConst
  <2>4. /\ DOMAIN p = DOMAIN f.locals /\ p[k] = c
        /\ \A i \in DOMAIN f.locals : i # k => p[i] = f.locals[i]
    BY <2>1 DEF IsFrame
  <2>5. IsTail(T("LongTail")) /\ \A o : Cell(T("LongTail"), o).type = T("LongTail")
    BY DEF IsTail, Cell, T
  <2>6. /\ ~IsHead(c.type) /\ ~IsTail(c.type)
        /\ ~IsHead(f.locals[k].type) /\ ~IsTail(f.locals[k].type)
    BY <2>1, <2>3 DEF IsHead, IsTail
  <2> HIDE DEF p, c
  <2>7. Whole(p)
    BY <2>4, <2>5, <2>6 DEF Whole
  <2> QED
    BY <2>2, <2>7
<1>5. CASE f.ok /\ Fits(f, ins) /\ ins.op = "init"
  <2>1. top.type.kind = "UninitNew"
    BY <1>5 DEF Fits
  <2>2. Transfer(f, ins, at).locals = Initialised(f.locals, top.type)
    BY <1>5 DEF Transfer, Restack, Frame, IsFrame
  <2> QED
    BY <2>1, <2>2, InitialisedKeepsWhole DEF IsFrame
<1> QED
  BY <1>1, <1>2, <1>3, <1>4, <1>5

(* Nor does the entry into a handler.                                      *)
THEOREM HandlerKeepsWhole ==
  ASSUME NEW f, IsFrame(f), Whole(f.locals), NEW ins, NEW at, Fits(f, ins)
  PROVE  Whole(Exceptional(f, ins, at).locals)
<1> DEFINE lost(t) == ins.op = "init" /\ t = f.stack[Len(f.stack)].type
           r == [i \in DOMAIN f.locals |->
                   IF lost(f.locals[i].type) THEN Unusable ELSE f.locals[i]]
<1>1. Exceptional(f, ins, at).locals = r
  BY DEF Exceptional, Frame
<1>2. ins.op = "init" => f.stack[Len(f.stack)].type.kind = "UninitNew"
  BY DEF Fits
<1>3. \A i \in DOMAIN f.locals :
        \/ r[i] = f.locals[i]
        \/ /\ ~IsHead(r[i].type) /\ ~IsTail(r[i].type)
           /\ ~IsHead(f.locals[i].type) /\ ~IsTail(f.locals[i].type)
  BY <1>2 DEF IsHead, IsTail, Unusable, Cell, T
<1>4. IsTail(T("LongTail")) /\ \A o : Cell(T("LongTail"), o).type = T("LongTail")
  BY DEF IsTail, Cell, T
<1>5. DOMAIN r = DOMAIN f.locals
  OBVIOUS
<1> HIDE DEF r
<1> QED
  BY <1>1, <1>3, <1>4, <1>5 DEF Whole

(* What joins to a half of a wide local was that half.                     *)
LEMMA JoinOfHalves ==
  ASSUME NEW a, NEW b
  PROVE  /\ IsHead(JoinTypes(a, b)) => IsHead(a)
         /\ IsTail(JoinTypes(a, b)) => IsTail(a) /\ JoinTypes(a, b) = a
<1> USE DEF JoinTypes, IsHead, IsTail, T, RefOf
<1>1. CASE a.kind = "Null" /\ b.kind \in {"Ref", "Null"}
  BY <1>1
<1>2. CASE a.kind = "Ref" /\ b.kind \in {"Ref", "Null"}
  BY <1>2
<1>3. CASE a.kind \in {"Int", "Long"} /\ b.kind = a.kind
  BY <1>3
<1>4. CASE a.kind \in {"Top", "LongTail", "UninitNew"} /\ b = a
  BY <1>4
<1>5. CASE /\ ~(a.kind = "Null" /\ b.kind \in {"Ref", "Null"})
           /\ ~(a.kind = "Ref" /\ b.kind \in {"Ref", "Null"})
           /\ ~(a.kind \in {"Int", "Long"} /\ b.kind = a.kind)
           /\ ~(a.kind \in {"Top", "LongTail", "UninitNew"} /\ b = a)
  <2>1. JoinTypes(a, b) = T("Top")
    BY <1>5
  <2> QED
    BY <2>1
<1> QED
  BY <1>1, <1>2, <1>3, <1>4, <1>5

(* Listed changes nothing.                                                 *)
LEMMA ListedIsSame ==
  ASSUME NEW n \in Nat, NEW s, s = [i \in 1..n |-> s[i]]
  PROVE  Listed(s) = s
<1>1. s \in Seq({s[i] : i \in 1..n})
  OBVIOUS
<1> QED
  BY <1>1 DEF Listed

(* Where a wide local joins something else, both halves are dropped.       *)
THEOREM JoinKeepsWhole ==
  ASSUME NEW f, IsFrame(f), Whole(f.locals), NEW g, IsFrame(g), Whole(g.locals),
         Len(f.locals) = Len(g.locals)
  PROVE  Whole(JoinFrames(f, g).locals)
<1> DEFINE a == f.locals
           n == Len(a)
           s == JoinCells(a, g.locals)
           k == KillHalves(s)
<1>1. CASE JoinFrames(f, g) = Invalid
  <2>1. JoinFrames(f, g).locals = <<>>
    BY <1>1 DEF Invalid
  <2> QED
    BY <2>1 DEF Whole
<1>2. CASE JoinFrames(f, g) # Invalid
  <2>1. n \in Nat /\ DOMAIN a = 1..n
    BY DEF IsFrame
  <2>2. /\ s = [i \in 1..n |-> s[i]] /\ DOMAIN s = 1..n
        /\ \A i \in 1..n : s[i] = Cell(JoinTypes(a[i].type, g.locals[i].type), a[i].origin)
    BY <2>1 DEF JoinCells
  <2>3. k = [i \in 1..n |-> k[i]] /\ DOMAIN k = 1..n
    BY <2>2 DEF KillHalves
  <2>4. JoinFrames(f, g).locals = k
    <3>1. JoinFrames(f, g).locals = Listed(KillHalves(Listed(s)))
      BY <1>2 DEF JoinFrames, Frame
    <3> QED
      BY <2>1, <2>2, <2>3, <3>1, ListedIsSame
  <2>5. ASSUME NEW i \in 1..n
        PROVE  /\ IsHead(s[i].type) => IsHead(a[i].type)
               /\ IsTail(s[i].type) => IsTail(a[i].type) /\ s[i] = a[i]
    <3> DEFINE j == JoinTypes(a[i].type, g.locals[i].type)
    <3>1. a[i] \in CellSet
      BY <2>1 DEF IsFrame
    <3>2. a[i] = Cell(a[i].type, a[i].origin)
      BY <3>1 DEF CellSet, Cell
    <3>3. s[i] = Cell(j, a[i].origin) /\ s[i].type = j
      BY <2>2 DEF Cell
    <3> QED
      BY <3>2, <3>3, JoinOfHalves
  <2>6. ASSUME NEW i \in 1..n PROVE s[i].origin = a[i].origin
    <3> HIDE DEF s, a
    <3>1. s[i] = Cell(JoinTypes(a[i].type, g.locals[i].type), a[i].origin)
      BY <2>2
    <3> QED
      BY <3>1 DEF Cell
  <2>7. ~IsHead(Unusable.type) /\ ~IsTail(Unusable.type) /\ \A t : ~(IsHead(t) /\ IsTail(t))
    BY DEF IsHead, IsTail, Unusable, Cell, T
  <2>8. \A i \in 1..n :
          /\ IsHead(k[i].type) => k[i] = s[i] /\ i + 1 \in 1..n /\ IsTail(s[i + 1].type)
          /\ IsTail(k[i].type) => k[i] = s[i] /\ i - 1 \in 1..n /\ IsHead(s[i - 1].type)
    BY <2>2, <2>7 DEF KillHalves
  <2>9. \A i \in 1..n :
          /\ IsHead(s[i].type) /\ i + 1 \in 1..n /\ IsTail(s[i + 1].type) =>
               k[i] = s[i] /\ k[i + 1] = s[i + 1]
    <3> SUFFICES ASSUME NEW i \in 1..n, IsHead(s[i].type), i + 1 \in 1..n, IsTail(s[i + 1].type)
                 PROVE  k[i] = s[i] /\ k[i + 1] = s[i + 1]
      OBVIOUS
    <3>1. s[i].type.kind # "Top" /\ ~IsTail(s[i].type) /\ s[i + 1].type.kind # "Top" /\ ~IsHead(s[i + 1].type)
      BY DEF IsHead, IsTail
    <3>2. (i + 1) - 1 = i
      BY <2>1
    <3> QED
      BY <2>2, <3>1, <3>2 DEF KillHalves
  <2> HIDE DEF a, n, s, k
  <2>10. \A i \in DOMAIN a : IsHead(a[i].type) =>
           i + 1 \in DOMAIN a /\ a[i + 1] = Cell(T("LongTail"), a[i].origin)
    BY DEF Whole, a
  <2>11. ASSUME NEW i \in 1..n, IsHead(k[i].type)
         PROVE  i + 1 \in 1..n /\ k[i + 1] = Cell(T("LongTail"), k[i].origin)
    <3>1. k[i] = s[i] /\ i + 1 \in 1..n /\ IsTail(s[i + 1].type)
      BY <2>8, <2>11
    <3>2. k[i + 1] = s[i + 1] /\ s[i + 1] = a[i + 1] /\ IsHead(a[i].type)
      BY <2>5, <2>9, <2>11, <3>1
    <3>3. a[i + 1] = Cell(T("LongTail"), a[i].origin)
      BY <2>1, <2>10, <3>2
    <3> QED
      BY <2>6, <3>1, <3>2, <3>3
  <2>12. ASSUME NEW i \in 1..n, IsTail(k[i].type)
         PROVE  i - 1 \in 1..n /\ IsHead(k[i - 1].type) /\ k[i - 1].origin = k[i].origin
    <3> DEFINE h == i - 1
    <3>1. k[i] = s[i] /\ h \in 1..n /\ IsHead(s[h].type) /\ h + 1 = i
      BY <2>1, <2>8, <2>12
    <3>2. k[h] = s[h] /\ IsHead(a[h].type)
      BY <2>5, <2>9, <2>12, <3>1
    <3>3. a[i] = Cell(T("LongTail"), a[h].origin)
      BY <2>1, <2>10, <3>1, <3>2
    <3>4. k[i].origin = a[h].origin
      BY <2>6, <3>1, <3>3 DEF Cell
    <3> QED
      BY <2>6, <3>1, <3>2, <3>4
  <2> QED
    BY <2>3, <2>4, <2>11, <2>12 DEF Whole
<1> QED
  BY <1>1, <1>2
-----------------------------------------------------------------------------
(* What the frames are made of, and that the transfer, the handler entry   *)
(* and the join compute such frames.                                       *)

LEMMA OriginTypes ==
  /\ \A at \in Int \X Int : Def(at) \in Origins /\ Thrown(at) \in Origins
  /\ \A b, k \in Int : Param(k) \in Origins /\ Phi(b, k) \in Origins
  /\ NoOrigin \in Origins
BY DEF Origins, Def, Thrown, Param, Phi, NoOrigin, Origin

LEMMA TypeFields ==
  ASSUME NEW t \in Types
  PROVE  t.kind \in Kinds /\ t.class \in ClassNames \cup {""} /\ t.val \in Int
<1> DEFINE C == ClassNames \cup {""}
<1> HIDE DEF C
<1>1. Types = [kind : Kinds, class : C, val : Int]
  BY DEF Types, C
<1>2. t.kind \in Kinds /\ t.class \in C /\ t.val \in Int
  BY <1>1
<1> QED
  BY <1>2 DEF C

LEMMA TypeMade ==
  ASSUME NEW k \in Kinds, NEW c \in ClassNames \cup {""}, NEW v \in Int
  PROVE  [kind |-> k, class |-> c, val |-> v] \in Types
<1> DEFINE C == ClassNames \cup {""}
<1> HIDE DEF C
<1>1. Types = [kind : Kinds, class : C, val : Int]
  BY DEF Types, C
<1>2. c \in C
  BY DEF C
<1> QED
  BY <1>1, <1>2

LEMMA Linear ==
  ASSUME NEW x \in Int, NEW y \in Int
  PROVE  (x + y) * (x + y) + x \in Int
<1>1. ASSUME NEW n \in Int PROVE n * n + x \in Int
  OBVIOUS
<1>2. x + y \in Int
  OBVIOUS
<1> QED
  BY <1>1, <1>2

\* The types instructions compute.
LEMMA TypesMade ==
  /\ \A k \in Kinds : T(k) \in Types
  /\ \A c \in ClassNames \cup {""} : RefOf(c) \in Types
  /\ \A t \in Types : Incremented(t) \in Types
  /\ \A t \in Types, c \in ClassNames \cup {""} : CastTo(t, c) \in Types
  /\ \A at \in Int \X Int, c \in ClassNames \cup {""} : UninitAt(at, c) \in Types
<1>1. -1 \in Int /\ "" \in ClassNames \cup {""} /\ {"Int", "Ref", "UninitNew"} \subseteq Kinds
  BY DEF Kinds
<1>2. \A k \in Kinds : T(k) \in Types
  BY <1>1, TypeMade DEF T, NoVal
<1>3. \A c \in ClassNames \cup {""} : RefOf(c) \in Types
  BY <1>1, TypeMade DEF RefOf, NoVal
<1>4. ASSUME NEW t \in Types PROVE Incremented(t) \in Types
  <2>1. t.val \in Int
    BY TypeFields
  <2>2. (t.val + 1) % IntSize \in Int
    BY <2>1, IntSizeAssumption
  <2>3. IntConst((t.val + 1) % IntSize) \in Types
    BY <1>1, <2>2, TypeMade DEF IntConst
  <2> QED
    BY <1>1, <1>2, <2>3 DEF Incremented
<1>5. ASSUME NEW t \in Types, NEW c \in ClassNames \cup {""} PROVE CastTo(t, c) \in Types
  <2>1. [t EXCEPT !.class = c] \in Types
    <3> DEFINE C == ClassNames \cup {""}
    <3> HIDE DEF C
    <3>1. Types = [kind : Kinds, class : C, val : Int] /\ c \in C
      BY DEF Types, C
    <3> QED
      BY <3>1
  <2> QED
    BY <1>3, <2>1 DEF CastTo
<1>6. ASSUME NEW at \in Int \X Int, NEW c \in ClassNames \cup {""} PROVE UninitAt(at, c) \in Types
  <2>1. at[1] \in Int /\ at[2] \in Int
    OBVIOUS
  <2>2. PC(at) \in Int
    BY <2>1, Linear DEF PC
  <2> QED
    BY <1>1, <2>2, TypeMade DEF UninitAt
<1> QED
  BY <1>2, <1>3, <1>4, <1>5, <1>6

LEMMA CellType ==
  /\ \A t \in Types, o \in Origins :
       Cell(t, o) \in CellSet /\ Cell(t, o).type = t /\ Cell(t, o).origin = o
  /\ \A c \in CellSet : c.type \in Types /\ c.origin \in Origins
  /\ Unusable \in CellSet
<1>1. T("Top") \in Types /\ NoOrigin \in Origins
  BY TypesMade, OriginTypes DEF Kinds
<1>2. \A t \in Types, o \in Origins :
        Cell(t, o) \in CellSet /\ Cell(t, o).type = t /\ Cell(t, o).origin = o
  BY DEF Cell, CellSet
<1>3. \A c \in CellSet : c.type \in Types /\ c.origin \in Origins
  BY DEF CellSet
<1> QED
  BY <1>1, <1>2, <1>3 DEF Unusable

LEMMA OneCell ==
  ASSUME NEW c \in CellSet, Computational(c.type)
  PROVE  IsStack(<<c>>)
<1>1. <<c>> \in Seq(CellSet) /\ DOMAIN <<c>> = {1} /\ <<c>>[1] = c
  OBVIOUS
<1> QED
  BY <1>1 DEF IsStack

LEMMA NoCell == IsStack(<<>>)
BY DEF IsStack

\* The result an instruction leaves on the stack.
LEMMA ResultCell ==
  ASSUME NEW t \in Types, Computational(t), NEW at \in Int \X Int
  PROVE  IsStack(<<Cell(t, Def(at))>>)
<1>1. Def(at) \in Origins
  BY OriginTypes
<1>2. Cell(t, Def(at)) \in CellSet /\ Cell(t, Def(at)).type = t
  BY <1>1, CellType
<1> QED
  BY <1>2, OneCell

LEMMA StackFront ==
  ASSUME NEW s, IsStack(s), NEW k \in 0..Len(s), NEW r, IsStack(r)
  PROVE  IsStack(SubSeq(s, 1, Len(s) - k) \o r)
<1> DEFINE front == SubSeq(s, 1, Len(s) - k)
<1>1. s \in Seq(CellSet) /\ r \in Seq(CellSet) /\ Len(s) \in Nat /\ Len(s) - k \in 0..Len(s)
  BY DEF IsStack
<1>2. /\ front \in Seq(CellSet) /\ Len(front) = Len(s) - k
      /\ \A i \in 1..(Len(s) - k) : front[i] = s[i] /\ i \in DOMAIN s
  BY <1>1
<1> HIDE DEF front
<1>3. /\ front \o r \in Seq(CellSet)
      /\ \A i \in DOMAIN (front \o r) :
           (front \o r)[i] = IF i <= Len(front) THEN front[i] ELSE r[i - Len(front)]
      /\ \A i \in DOMAIN (front \o r) :
           IF i <= Len(front) THEN i \in 1..Len(front) ELSE i - Len(front) \in DOMAIN r
  BY <1>1, <1>2
<1>4. \A i \in 1..Len(front) : Computational(front[i].type)
  BY <1>2 DEF IsStack
<1>5. \A i \in DOMAIN r : Computational(r[i].type)
  BY DEF IsStack
<1>6. \A i \in DOMAIN (front \o r) : Computational((front \o r)[i].type)
  BY <1>3, <1>4, <1>5
<1> QED
  BY <1>3, <1>6 DEF IsStack, front

\* Updates of a frame, under names: the provers match those where they do not match an EXCEPT.
Remade(f, l, s) == [f EXCEPT !.locals = l, !.stack = s]
Relocated(f, l) == [f EXCEPT !.locals = l]

LEMMA Remaking ==
  ASSUME NEW f, f = Frame(f.locals, f.stack)
  PROVE  /\ \A d, c : Remade(f, d, c) = Frame(d, c)
         /\ \A d : Relocated(f, d) = Frame(d, f.stack)
<1>1. f = [ok |-> TRUE, locals |-> f.locals, stack |-> f.stack]
  BY DEF Frame
<1>2. ASSUME NEW d
      PROVE  Relocated(f, d) = Frame(d, f.stack) /\ \A c : Remade(f, d, c) = Frame(d, c)
  <2> DEFINE h == [f EXCEPT !.locals = d]
  <2>1. h = [ok |-> h.ok, locals |-> h.locals, stack |-> h.stack]
    BY <1>1
  <2>2. h.ok = TRUE /\ h.locals = d /\ h.stack = f.stack
    BY <1>1
  <2>3. Relocated(f, d) = h
    BY DEF Relocated
  <2>4. ASSUME NEW c PROVE Remade(f, d, c) = Frame(d, c)
    <3> DEFINE e == [h EXCEPT !.stack = c]
    <3>1. Remade(f, d, c) = e
      BY DEF Remade
    <3> HIDE DEF h
    <3>2. e = [ok |-> e.ok, locals |-> e.locals, stack |-> e.stack]
      BY <2>1
    <3>3. e.ok = TRUE /\ e.locals = d /\ e.stack = c
      BY <2>1, <2>2
    <3> HIDE DEF e
    <3> QED
      BY <3>1, <3>2, <3>3 DEF Frame
  <2> HIDE DEF h
  <2>5. Relocated(f, d) = Frame(d, f.stack)
    BY <2>1, <2>2, <2>3 DEF Frame
  <2> QED
    BY <2>4, <2>5
<1> QED
  BY <1>2

LEMMA FrameUpdates ==
  ASSUME NEW f, f = Frame(f.locals, f.stack), NEW d
  PROVE  /\ [f EXCEPT !.stack = d] = Frame(f.locals, d)
         /\ [f EXCEPT !.locals = d] = Frame(d, f.stack)
<1> DEFINE g == [f EXCEPT !.stack = d]
<1>1. f = [ok |-> TRUE, locals |-> f.locals, stack |-> f.stack]
  BY DEF Frame
<1>2. g = [ok |-> g.ok, locals |-> g.locals, stack |-> g.stack]
  BY <1>1
<1>3. g.ok = TRUE /\ g.locals = f.locals /\ g.stack = d
  BY <1>1
<1> HIDE DEF g
<1>4. g = Frame(f.locals, d)
  BY <1>2, <1>3 DEF Frame
<1>5. Relocated(f, d) = Frame(d, f.stack)
  BY Remaking
<1> QED
  BY <1>4, <1>5 DEF g, Relocated

LEMMA RestackType ==
  ASSUME NEW f, IsFrame(f), NEW k \in 0..Len(f.stack), NEW r, IsStack(r)
  PROVE  /\ IsFrame(Restack(f, k, r))
         /\ Restack(f, k, r).locals = f.locals
<1>1. Restack(f, k, r) = Frame(f.locals, SubSeq(f.stack, 1, Len(f.stack) - k) \o r)
  <2>1. f = Frame(f.locals, f.stack)
    BY DEF IsFrame
  <2> QED
    BY <2>1, FrameUpdates DEF Restack
<1>2. IsStack(SubSeq(f.stack, 1, Len(f.stack) - k) \o r)
  BY StackFront DEF IsFrame
<1> HIDE DEF Restack
<1> QED
  BY <1>1, <1>2 DEF IsFrame, Frame

LEMMA PutType ==
  ASSUME NEW locals \in Seq(CellSet), NEW c \in CellSet, NEW n \in Int
  PROVE  Put(locals, n, c) \in Seq(CellSet) /\ Len(Put(locals, n, c)) = Len(locals)
<1>1. T("LongTail") \in Types
  BY TypesMade DEF Kinds
<1>2. Cell(T("LongTail"), c.origin) \in CellSet /\ Unusable \in CellSet
  BY <1>1, CellType
<1>3. Len(locals) \in Nat /\ DOMAIN locals = 1..Len(locals) /\ \A i \in 1..Len(locals) : locals[i] \in CellSet
  OBVIOUS
<1> DEFINE last == IF IsHead(c.type) THEN n + 1 ELSE n
           g(i) == IF i = n THEN c
                   ELSE IF i = last THEN Cell(T("LongTail"), c.origin)
                   ELSE IF \/ i = n - 1 /\ IsHead(locals[i].type)
                           \/ i = last + 1 /\ IsTail(locals[i].type)
                   THEN Unusable ELSE locals[i]
<1>4. \A i \in 1..Len(locals) : g(i) \in CellSet
  BY <1>2, <1>3
<1>5. Put(locals, n, c) = [i \in 1..Len(locals) |-> g(i)]
  BY <1>3 DEF Put
<1> HIDE DEF g
<1> QED
  BY <1>3, <1>4, <1>5

LEMMA InitialisedType ==
  ASSUME NEW cells \in Seq(CellSet), NEW t \in Types
  PROVE  /\ Initialised(cells, t) \in Seq(CellSet)
         /\ Len(Initialised(cells, t)) = Len(cells)
         /\ IsStack(cells) => IsStack(Initialised(cells, t))
<1> DEFINE g(i) == IF cells[i].type = t THEN Cell(RefOf(t.class), cells[i].origin) ELSE cells[i]
<1>1. Len(cells) \in Nat /\ DOMAIN cells = 1..Len(cells) /\ \A i \in 1..Len(cells) : cells[i] \in CellSet
  OBVIOUS
<1>2. RefOf(t.class) \in Types /\ Computational(RefOf(t.class))
  <2>1. t.class \in ClassNames \cup {""}
    BY TypeFields
  <2> QED
    BY <2>1, TypesMade DEF RefOf, Computational
<1>3. \A i \in 1..Len(cells) :
        g(i) \in CellSet /\ (Computational(cells[i].type) => Computational(g(i).type))
  <2> SUFFICES ASSUME NEW i \in 1..Len(cells)
               PROVE  g(i) \in CellSet /\ (Computational(cells[i].type) => Computational(g(i).type))
    OBVIOUS
  <2>1. cells[i].origin \in Origins
    BY <1>1, CellType
  <2>2. /\ Cell(RefOf(t.class), cells[i].origin) \in CellSet
        /\ Cell(RefOf(t.class), cells[i].origin).type = RefOf(t.class)
    BY <1>2, <2>1, CellType
  <2> QED
    BY <1>1, <1>2, <2>2
<1>4. Initialised(cells, t) = [i \in 1..Len(cells) |-> g(i)]
  BY <1>1 DEF Initialised
<1> HIDE DEF g
<1>5. /\ Initialised(cells, t) \in Seq(CellSet) /\ Len(Initialised(cells, t)) = Len(cells)
      /\ DOMAIN Initialised(cells, t) = 1..Len(cells)
      /\ \A i \in 1..Len(cells) : Initialised(cells, t)[i] = g(i)
  BY <1>1, <1>3, <1>4
<1> QED
  BY <1>1, <1>3, <1>5 DEF IsStack

\* A transfer fails or computes a frame with the same number of locals.
LEMMA TransferType ==
  ASSUME NEW f, IsFrame(f), NEW ins, IsInstruction(ins), NEW at \in Int \X Int
  PROVE  \/ Transfer(f, ins, at) = Invalid
         \/ /\ f.ok /\ Fits(f, ins)
            /\ IsFrame(Transfer(f, ins, at))
            /\ Len(Transfer(f, ins, at).locals) = Len(f.locals)
<1> DEFINE n == Len(f.stack)
           top == f.stack[n]
           under == f.stack[n - 1]
           g == Transfer(f, ins, at)
<1>1. SUFFICES ASSUME f.ok, Fits(f, ins)
               PROVE  IsFrame(g) /\ Len(g.locals) = Len(f.locals)
  BY DEF Transfer
<1>2. /\ f = Frame(f.locals, f.stack)
      /\ f.locals \in Seq(CellSet) /\ IsStack(f.stack) /\ f.stack \in Seq(CellSet)
      /\ n \in Nat /\ Len(f.locals) \in Nat
  BY DEF IsFrame, IsStack
<1>3. /\ n > 0 => top \in CellSet /\ Computational(top.type) /\ top.type \in Types
      /\ n > 1 => under \in CellSet /\ Computational(under.type) /\ under.type \in Types
  BY <1>2, CellType DEF IsStack
<1>4. ins.type \in Types /\ ins.type.class \in ClassNames \cup {""}
  BY TypeFields DEF IsInstruction
<1>5. ASSUME NEW k \in 0..n, NEW r, IsStack(r), g = Restack(f, k, r)
      PROVE  IsFrame(g) /\ Len(g.locals) = Len(f.locals)
  BY <1>5, RestackType
<1> HIDE DEF g, top, under, n
<1>6. CASE ins.op \in {"goto", "return"}
  <2>1. g = f
    BY <1>1, <1>6 DEF Transfer, g
  <2> QED
    BY <2>1
<1>7. CASE ins.op \in {"const", "invoke"}
  <2>1. g = Restack(f, 0, <<Cell(ins.type, Def(at))>>)
    BY <1>1, <1>7 DEF Transfer, g
  <2>2. IsStack(<<Cell(ins.type, Def(at))>>)
    BY <1>4, <1>7, ResultCell DEF IsInstruction
  <2> QED
    BY <1>2, <1>5, <2>1, <2>2
<1>8. CASE ins.op = "new"
  <2> DEFINE t == UninitAt(at, ins.type.class)
  <2>1. g = Restack(f, 0, <<Cell(t, Def(at))>>)
    BY <1>1, <1>8 DEF Transfer, g
  <2>2. t \in Types
    BY <1>4, TypesMade
  <2>3. Computational(t)
    BY DEF UninitAt, Computational
  <2>4. IsStack(<<Cell(t, Def(at))>>)
    BY <2>2, <2>3, ResultCell
  <2> QED
    BY <1>2, <1>5, <2>1, <2>4
<1>9. CASE ins.op = "load"
  <2>1. g = Restack(f, 0, <<f.locals[ins.local]>>)
    BY <1>1, <1>9 DEF Transfer, g
  <2>2. ins.local \in DOMAIN f.locals /\ Moves(f.locals[ins.local].type, ins.type.kind)
    BY <1>1, <1>9 DEF Fits
  <2>3. Computational(ins.type)
    BY <1>9 DEF IsInstruction
  <2>4. f.locals[ins.local] \in CellSet /\ Computational(f.locals[ins.local].type)
    BY <1>2, <2>2, <2>3 DEF Moves, ReferenceLike, Computational
  <2>5. IsStack(<<f.locals[ins.local]>>)
    BY <2>4, OneCell
  <2> QED
    BY <1>2, <1>5, <2>1, <2>5
<1>10. CASE ins.op = "store"
  <2>1. n > 0 /\ ins.local \in DOMAIN f.locals
    BY <1>1, <1>10 DEF Fits, n
  <2> DEFINE h == Restack(f, 1, <<>>)
  <2>2. IsFrame(h) /\ h.locals = f.locals
    BY <1>2, <2>1, NoCell, RestackType DEF n
  <2>3. g = [h EXCEPT !.locals = Put(f.locals, ins.local, top)]
    BY <1>1, <1>10, <2>2 DEF Transfer, g, top, n
  <2> HIDE DEF h
  <2>4. g = Frame(Put(f.locals, ins.local, top), h.stack)
    BY <2>2, <2>3, FrameUpdates DEF IsFrame
  <2>5. /\ Put(f.locals, ins.local, top) \in Seq(CellSet)
        /\ Len(Put(f.locals, ins.local, top)) = Len(f.locals)
    BY <1>2, <1>3, <2>1, PutType
  <2> QED
    BY <2>2, <2>4, <2>5 DEF IsFrame, Frame
<1>11. CASE ins.op = "iinc"
  <2> DEFINE k == ins.local
             c == Increased(f.locals[k], at)
             p == [f.locals EXCEPT ![k] = c]
  <2>1. k \in DOMAIN f.locals
    BY <1>1, <1>11 DEF Fits
  <2>2. g = [f EXCEPT !.locals = p]
    BY <1>1, <1>2, <1>11, <2>1 DEF Transfer, g, Frame
  <2>3. c \in CellSet
    <3>1. f.locals[k].type \in Types
      BY <1>2, <2>1, CellType
    <3>2. Incremented(f.locals[k].type) \in Types /\ Def(at) \in Origins
      BY <3>1, TypesMade, OriginTypes
    <3> QED
      BY <3>2, CellType DEF Increased
  <2>4. p \in Seq(CellSet) /\ Len(p) = Len(f.locals)
    BY <1>2, <2>1, <2>3
  <2> HIDE DEF p
  <2>5. g = Frame(p, f.stack)
    BY <1>2, <2>2, FrameUpdates
  <2> QED
    BY <1>2, <2>4, <2>5 DEF IsFrame, Frame
<1>12. CASE ins.op \in {"pop", "if"}
  <2>1. g = Restack(f, 1, <<>>)
    BY <1>1, <1>12 DEF Transfer, g
  <2>2. n > 0
    BY <1>1, <1>12 DEF Fits, n
  <2> QED
    BY <1>2, <1>5, <2>1, <2>2, NoCell
<1>13. CASE ins.op = "dup"
  <2>1. g = Restack(f, 0, <<top>>)
    BY <1>1, <1>13 DEF Transfer, g, top, n
  <2>2. n > 0
    BY <1>1, <1>13 DEF Fits, n
  <2>3. IsStack(<<top>>)
    BY <1>3, <2>2, OneCell
  <2>4. 0 \in 0..n
    BY <1>2
  <2> QED
    BY <1>5, <2>1, <2>3, <2>4
<1>14. CASE ins.op = "swap"
  <2>1. g = Restack(f, 2, <<top, under>>)
    BY <1>1, <1>14 DEF Transfer, g, top, under, n
  <2>2. n > 1
    BY <1>1, <1>14 DEF Fits, n
  <2>3. IsStack(<<top, under>>)
    <3>1. top \in CellSet /\ under \in CellSet /\ Computational(top.type) /\ Computational(under.type)
      BY <1>2, <1>3, <2>2
    <3>2. /\ <<top, under>> \in Seq(CellSet) /\ DOMAIN <<top, under>> = 1..2
          /\ <<top, under>>[1] = top /\ <<top, under>>[2] = under
      BY <3>1
    <3> QED
      BY <3>1, <3>2 DEF IsStack
  <2>4. 2 \in 0..n
    BY <1>2, <2>2
  <2> QED
    BY <1>5, <2>1, <2>3, <2>4
<1>15. CASE ins.op = "add"
  <2>1. g = Restack(f, 2, <<Cell(T("Int"), Def(at))>>)
    BY <1>1, <1>15 DEF Transfer, g
  <2>2. n > 1
    BY <1>1, <1>15 DEF Fits, n
  <2>3. T("Int") \in Types /\ Computational(T("Int"))
    BY TypesMade DEF Kinds, T, Computational
  <2>4. IsStack(<<Cell(T("Int"), Def(at))>>)
    BY <2>3, ResultCell
  <2>5. 2 \in 0..n
    BY <1>2, <2>2
  <2> QED
    BY <1>5, <2>1, <2>4, <2>5
<1>16. CASE ins.op = "checkcast"
  <2> DEFINE t == CastTo(top.type, ins.type.class)
  <2>1. g = Restack(f, 1, <<Cell(t, Def(at))>>)
    BY <1>1, <1>16 DEF Transfer, g, top, n
  <2>2. n > 0
    BY <1>1, <1>16 DEF Fits, n
  <2>3. t \in Types
    BY <1>2, <1>3, <1>4, <2>2, TypesMade
  <2>4. Computational(t)
    <3>1. CASE top.type.kind = "Null"
      <4>1. t = [top.type EXCEPT !.class = ins.type.class]
        BY <3>1 DEF CastTo
      <4>2. t.kind = "Null"
        BY <1>3, <2>2, <3>1, <4>1 DEF Types
      <4> QED
        BY <4>2 DEF Computational
    <3>2. CASE top.type.kind # "Null"
      BY <3>2 DEF CastTo, Computational, RefOf
    <3> QED
      BY <3>1, <3>2
  <2>5. IsStack(<<Cell(t, Def(at))>>) /\ 1 \in 0..n
    BY <1>2, <2>2, <2>3, <2>4, ResultCell
  <2> QED
    BY <1>5, <2>1, <2>5
<1>17. CASE ins.op = "athrow"
  <2>1. g = [f EXCEPT !.stack = <<top>>]
    BY <1>1, <1>17 DEF Transfer, g, top, n
  <2>2. n > 0
    BY <1>1, <1>17 DEF Fits, n
  <2>3. IsStack(<<top>>)
    BY <1>3, <2>2, OneCell
  <2>4. g = Frame(f.locals, <<top>>)
    BY <1>2, <2>1, FrameUpdates
  <2> QED
    BY <1>2, <2>3, <2>4 DEF IsFrame, Frame
<1>18. CASE ins.op = "init"
  <2> DEFINE h == Restack(f, 1, <<>>)
  <2>1. n > 0
    BY <1>1, <1>18 DEF Fits, n
  <2>2. IsFrame(h) /\ h.locals = f.locals
    BY <1>2, <2>1, NoCell, RestackType DEF n
  <2>3. g = Frame(Initialised(h.locals, top.type), Initialised(h.stack, top.type))
    BY <1>1, <1>18 DEF Transfer, g, top, n
  <2> HIDE DEF h
  <2>4. h.stack \in Seq(CellSet)
    BY <2>2 DEF IsFrame, IsStack
  <2>5. /\ Initialised(h.locals, top.type) \in Seq(CellSet)
        /\ Len(Initialised(h.locals, top.type)) = Len(f.locals)
        /\ IsStack(Initialised(h.stack, top.type))
    BY <1>2, <1>3, <2>1, <2>2, <2>4, InitialisedType DEF IsFrame
  <2> QED
    BY <2>3, <2>5 DEF IsFrame, Frame
<1>19. ins.op \in Ops
  BY DEF IsInstruction
<1> QED
  BY <1>6, <1>7, <1>8, <1>9, <1>10, <1>11, <1>12, <1>13, <1>14, <1>15, <1>16, <1>17, <1>18, <1>19
     DEF Ops, g

\* The handler is entered with one value on the stack.
LEMMA HandlerType ==
  ASSUME NEW f, IsFrame(f), NEW ins, NEW at \in Int \X Int
  PROVE  /\ IsFrame(Exceptional(f, ins, at))
         /\ Len(Exceptional(f, ins, at).locals) = Len(f.locals)
<1> DEFINE lost(t) == ins.op = "init" /\ t = f.stack[Len(f.stack)].type
           g(i) == IF lost(f.locals[i].type) THEN Unusable ELSE f.locals[i]
           r == [i \in DOMAIN f.locals |-> g(i)]
           s == <<Cell(RefOf(Throwable), Thrown(at))>>
<1>1. Len(f.locals) \in Nat /\ DOMAIN f.locals = 1..Len(f.locals)
      /\ \A i \in 1..Len(f.locals) : f.locals[i] \in CellSet
  BY DEF IsFrame
<1>2. \A i \in 1..Len(f.locals) : g(i) \in CellSet
  BY <1>1, CellType
<1>3. r \in Seq(CellSet) /\ Len(r) = Len(f.locals)
  <2> HIDE DEF g
  <2> QED
    BY <1>1, <1>2
<1>4. IsStack(s)
  <2>1. RefOf(Throwable) \in Types /\ Computational(RefOf(Throwable))
    BY TypesMade, ClassNamesAssumption DEF RefOf, Computational
  <2>2. Thrown(at) \in Origins
    BY OriginTypes
  <2>3. /\ Cell(RefOf(Throwable), Thrown(at)) \in CellSet
        /\ Cell(RefOf(Throwable), Thrown(at)).type = RefOf(Throwable)
    BY <2>1, <2>2, CellType
  <2> QED
    BY <2>1, <2>3, OneCell
<1>5. Exceptional(f, ins, at) = Frame(r, s)
  BY DEF Exceptional
<1> HIDE DEF r, s
<1> QED
  BY <1>3, <1>4, <1>5 DEF IsFrame, Frame

LEMMA JoinTypesType ==
  ASSUME NEW a \in Types, NEW b \in Types
  PROVE  JoinTypes(a, b) \in Types
<1>1. /\ T("Top") \in Types /\ T("Int") \in Types /\ T("Long") \in Types
      /\ RefOf(Object) \in Types
  BY TypesMade, ClassNamesAssumption DEF Kinds
<1>2. CASE a.kind = "Null" /\ b.kind \in {"Ref", "Null"}
  BY <1>2 DEF JoinTypes
<1>3. CASE a.kind = "Ref" /\ b.kind \in {"Ref", "Null"}
  BY <1>1, <1>3 DEF JoinTypes
<1>4. CASE a.kind \in {"Int", "Long"} /\ b.kind = a.kind
  BY <1>1, <1>4 DEF JoinTypes
<1>5. CASE a.kind \in {"Top", "LongTail", "UninitNew"} /\ b = a
  BY <1>5 DEF JoinTypes
<1>6. CASE /\ ~(a.kind = "Null" /\ b.kind \in {"Ref", "Null"})
           /\ ~(a.kind = "Ref" /\ b.kind \in {"Ref", "Null"})
           /\ ~(a.kind \in {"Int", "Long"} /\ b.kind = a.kind)
           /\ ~(a.kind \in {"Top", "LongTail", "UninitNew"} /\ b = a)
  <2>1. JoinTypes(a, b) = T("Top")
    BY <1>6 DEF JoinTypes
  <2> QED
    BY <1>1, <2>1
<1> QED
  BY <1>2, <1>3, <1>4, <1>5, <1>6

LEMMA JoinCellsType ==
  ASSUME NEW s \in Seq(CellSet), NEW r \in Seq(CellSet), Len(r) = Len(s)
  PROVE  /\ JoinCells(s, r) \in Seq(CellSet) /\ Len(JoinCells(s, r)) = Len(s)
         /\ \A i \in 1..Len(s) : JoinCells(s, r)[i].type = JoinTypes(s[i].type, r[i].type)
<1> DEFINE g(i) == Cell(JoinTypes(s[i].type, r[i].type), s[i].origin)
<1>1. Len(s) \in Nat /\ DOMAIN s = 1..Len(s) /\ \A i \in 1..Len(s) : s[i] \in CellSet /\ r[i] \in CellSet
  OBVIOUS
<1>2. ASSUME NEW i \in 1..Len(s)
      PROVE  g(i) \in CellSet /\ g(i).type = JoinTypes(s[i].type, r[i].type)
  <2>1. s[i].type \in Types /\ r[i].type \in Types /\ s[i].origin \in Origins
    BY <1>1, CellType
  <2>2. JoinTypes(s[i].type, r[i].type) \in Types
    BY <2>1, JoinTypesType
  <2> QED
    BY <2>1, <2>2, CellType
<1>3. JoinCells(s, r) = [i \in 1..Len(s) |-> g(i)]
  BY <1>1 DEF JoinCells
<1> HIDE DEF g
<1> QED
  BY <1>1, <1>2, <1>3

LEMMA KillHalvesType ==
  ASSUME NEW s \in Seq(CellSet)
  PROVE  KillHalves(s) \in Seq(CellSet) /\ Len(KillHalves(s)) = Len(s)
<1> DEFINE g(i) == IF \/ s[i].type.kind = "Top"
                      \/ IsHead(s[i].type) /\ (i + 1 \notin DOMAIN s \/ ~IsTail(s[i + 1].type))
                      \/ IsTail(s[i].type) /\ (i - 1 \notin DOMAIN s \/ ~IsHead(s[i - 1].type))
                   THEN Unusable ELSE s[i]
<1>1. Len(s) \in Nat /\ DOMAIN s = 1..Len(s) /\ \A i \in 1..Len(s) : s[i] \in CellSet
  OBVIOUS
<1>2. \A i \in 1..Len(s) : g(i) \in CellSet
  BY <1>1, CellType
<1>3. KillHalves(s) = [i \in 1..Len(s) |-> g(i)]
  BY <1>1 DEF KillHalves
<1> HIDE DEF g
<1> QED
  BY <1>1, <1>2, <1>3

LEMMA ListedSequence ==
  ASSUME NEW S, NEW s \in Seq(S)
  PROVE  Listed(s) = s
BY DEF Listed

\* A join fails or computes a frame.
LEMMA JoinType ==
  ASSUME NEW f, IsFrame(f), NEW g, IsFrame(g), Len(f.locals) = Len(g.locals)
  PROVE  \/ JoinFrames(f, g) = Invalid
         \/ IsFrame(JoinFrames(f, g)) /\ Len(JoinFrames(f, g).locals) = Len(f.locals)
<1> DEFINE l == JoinCells(f.locals, g.locals)
           s == JoinCells(f.stack, g.stack)
<1>1. SUFFICES ASSUME /\ Len(f.stack) = Len(g.stack)
                      /\ \A i \in DOMAIN f.stack :
                           Computational(JoinTypes(f.stack[i].type, g.stack[i].type)),
                      JoinFrames(f, g) = Frame(Listed(KillHalves(Listed(l))), Listed(s))
               PROVE  IsFrame(JoinFrames(f, g)) /\ Len(JoinFrames(f, g).locals) = Len(f.locals)
  BY DEF JoinFrames
<1>2. /\ f.locals \in Seq(CellSet) /\ g.locals \in Seq(CellSet)
      /\ f.stack \in Seq(CellSet) /\ g.stack \in Seq(CellSet)
  BY DEF IsFrame, IsStack
<1>3. /\ l \in Seq(CellSet) /\ Len(l) = Len(f.locals)
      /\ s \in Seq(CellSet) /\ Len(s) = Len(f.stack)
      /\ \A i \in 1..Len(f.stack) : s[i].type = JoinTypes(f.stack[i].type, g.stack[i].type)
  BY <1>1, <1>2, JoinCellsType
<1>4. KillHalves(l) \in Seq(CellSet) /\ Len(KillHalves(l)) = Len(f.locals)
  BY <1>3, KillHalvesType
<1>5. IsStack(s)
  BY <1>1, <1>2, <1>3 DEF IsStack
<1>6. Listed(l) = l /\ Listed(s) = s /\ Listed(KillHalves(l)) = KillHalves(l)
  BY <1>3, <1>4, ListedSequence
<1>7. JoinFrames(f, g) = Frame(KillHalves(l), s)
  BY <1>1, <1>6
<1> HIDE DEF l, s
<1> QED
  BY <1>4, <1>5, <1>7 DEF IsFrame, Frame
-----------------------------------------------------------------------------
(* All of it in one: frames of n locals whose wide values are whole.       *)
Sound(f, n) == IsFrame(f) /\ Whole(f.locals) /\ Len(f.locals) = n

(* An instruction fails, or leaves a sound frame behind.                   *)
THEOREM TransferSound ==
  ASSUME NEW n, NEW f, Sound(f, n), NEW ins, IsInstruction(ins), NEW at \in Int \X Int
  PROVE  \/ Transfer(f, ins, at) = Invalid
         \/ Fits(f, ins) /\ Sound(Transfer(f, ins, at), n)
BY TransferType, TransferKeepsWhole DEF Sound, IsInstruction

(* A handler is entered with a sound frame.                                *)
THEOREM HandlerSound ==
  ASSUME NEW n, NEW f, Sound(f, n), NEW ins, Fits(f, ins), NEW at \in Int \X Int
  PROVE  Sound(Exceptional(f, ins, at), n)
BY HandlerType, HandlerKeepsWhole DEF Sound

(* Sound frames of one method have no join, or a sound one.                *)
THEOREM JoinSound ==
  ASSUME NEW n, NEW f, Sound(f, n), NEW g, Sound(g, n)
  PROVE  JoinFrames(f, g) = Invalid \/ Sound(JoinFrames(f, g), n)
BY JoinType, JoinKeepsWhole DEF Sound
-----------------------------------------------------------------------------
(* Distinct instructions have distinct pcs, so that two objects that are   *)
(* not initialised have the same type only if one site made them.          *)
LEMMA Squares ==
  ASSUME NEW n \in Nat, NEW k \in Nat, NEW a \in 0..n, NEW c \in 0..k,
         n * n + a = k * k + c
  PROVE  n = k /\ a = c
<1>1. ASSUME NEW x \in Nat, NEW y \in Nat, NEW z \in 0..x, x < y
      PROVE  x * x + z < y * y
  <2>1. PICK d \in Nat : y = x + 1 + d
    <3>1. y - x - 1 \in Nat /\ y = x + 1 + (y - x - 1)
      BY <1>1
    <3> QED
      BY <3>1
  <2>2. y * y = x * x + 2 * x + 1 + d * (2 * x + 2 + d)
    BY <2>1
  <2>3. d * (2 * x + 2 + d) \in Nat
    <3>1. 2 * x + 2 + d \in Nat
      BY <2>1
    <3>2. \A u, v \in Nat : u * v \in Nat
      OBVIOUS
    <3> QED
      BY <2>1, <3>1, <3>2
  <2>4. x * x \in Nat
    OBVIOUS
  <2> QED
    BY <2>2, <2>3, <2>4
<1>2. ~(n < k)
  <2>1. n < k => n * n + a < k * k
    BY <1>1
  <2>2. n * n \in Nat /\ k * k \in Nat
    OBVIOUS
  <2> QED
    BY <2>1, <2>2
<1>3. ~(k < n)
  <2>1. k < n => k * k + c < n * n
    BY <1>1
  <2>2. n * n \in Nat /\ k * k \in Nat
    OBVIOUS
  <2> QED
    BY <2>1, <2>2
<1>4. n = k
  BY <1>2, <1>3
<1>5. n * n \in Nat
  OBVIOUS
<1> QED
  BY <1>4, <1>5

LEMMA OnePC ==
  ASSUME NEW at \in Nat \X Nat, NEW to \in Nat \X Nat, PC(at) = PC(to)
  PROVE  at = to
<1>1. /\ at = <<at[1], at[2]>> /\ at[1] \in Nat /\ at[2] \in Nat
      /\ to = <<to[1], to[2]>> /\ to[1] \in Nat /\ to[2] \in Nat
  OBVIOUS
<1>2. PICK n \in Nat, k \in Nat : n = at[1] + at[2] /\ k = to[1] + to[2]
  BY <1>1
<1>3. n * n + at[1] = k * k + to[1]
  BY <1>2 DEF PC
<1>4. at[1] \in 0..n /\ to[1] \in 0..k
  BY <1>1, <1>2
<1>5. n = k /\ at[1] = to[1]
  BY <1>3, <1>4, Squares
<1>6. at[2] = to[2]
  BY <1>1, <1>2, <1>5
<1> QED
  BY <1>1, <1>5, <1>6
-----------------------------------------------------------------------------
(* The types alone.  What an instruction does to the types of a frame does *)
(* not depend on the origins in it: two frames of the same types stay such *)
(* frames, although the phis in one of them have been renamed.             *)
IsList(s) == Len(s) \in Nat /\ s = [i \in 1..Len(s) |-> s[i]]

SameCells(s, r) ==
  IsList(s) /\ IsList(r) /\ Len(s) = Len(r) /\ \A i \in 1..Len(s) : s[i].type = r[i].type

Same(f, g) ==
  /\ f = Frame(f.locals, f.stack) /\ g = Frame(g.locals, g.stack)
  /\ SameCells(f.locals, g.locals) /\ SameCells(f.stack, g.stack)

LEMMA ListDomain ==
  ASSUME NEW s, IsList(s)
  PROVE  DOMAIN s = 1..Len(s) /\ s \in Seq({s[i] : i \in 1..Len(s)})
<1>1. Len(s) \in Nat /\ s = [i \in 1..Len(s) |-> s[i]]
  BY DEF IsList
<1>2. DOMAIN s = 1..Len(s)
  BY <1>1
<1> QED
  BY <1>1, <1>2

LEMMA SequenceIsList ==
  ASSUME NEW S, NEW s \in Seq(S)
  PROVE  IsList(s)
BY DEF IsList

IsMap(n, f) == DOMAIN f = 1..n /\ f = [i \in 1..n |-> f[i]]

LEMMA ListMade ==
  ASSUME NEW n \in Nat, NEW f, IsMap(n, f)
  PROVE  IsList(f) /\ Len(f) = n
<1>1. f = [i \in 1..n |-> f[i]] /\ DOMAIN f = 1..n
  BY DEF IsMap
<1>2. f \in Seq({f[i] : i \in 1..n})
  BY <1>1
<1> QED
  BY <1>1, <1>2 DEF IsList

\* In t the last entries of s, all but n, are replaced by r.
Restacked(s, n, r, t) ==
  /\ IsList(t) /\ Len(t) = n + Len(r)
  /\ \A i \in 1..(n + Len(r)) :
       /\ i <= n => i \in 1..Len(s) /\ t[i] = s[i]
       /\ ~(i <= n) => i - n \in 1..Len(r) /\ t[i] = r[i - n]

LEMMA Stacking ==
  ASSUME NEW s, IsList(s), NEW k \in 0..Len(s), NEW r, IsList(r)
  PROVE  Restacked(s, Len(s) - k, r, SubSeq(s, 1, Len(s) - k) \o r)
<1> DEFINE S == {s[i] : i \in 1..Len(s)} \cup {r[i] : i \in 1..Len(r)}
           n == Len(s) - k
           front == SubSeq(s, 1, n)
           t == front \o r
<1>1. /\ Len(s) \in Nat /\ Len(r) \in Nat /\ n \in 0..Len(s) /\ n \in Nat
      /\ DOMAIN s = 1..Len(s) /\ DOMAIN r = 1..Len(r)
  BY ListDomain DEF IsList
<1>2. s \in Seq(S) /\ r \in Seq(S)
  <2>1. (\A i \in 1..Len(s) : s[i] \in S) /\ (\A i \in 1..Len(r) : r[i] \in S)
    OBVIOUS
  <2>2. s = [i \in 1..Len(s) |-> s[i]] /\ r = [i \in 1..Len(r) |-> r[i]]
    BY DEF IsList
  <2> HIDE DEF S
  <2> QED
    BY <1>1, <2>1, <2>2
<1> HIDE DEF n, S
<1>3. /\ front \in Seq(S) /\ Len(front) = n
      /\ \A i \in 1..n : front[i] = s[i] /\ i \in 1..Len(s)
  BY <1>1, <1>2
<1> HIDE DEF front
<1>4. /\ t \in Seq(S) /\ Len(t) = n + Len(r)
      /\ \A i \in 1..(n + Len(r)) :
           t[i] = IF i <= n THEN front[i] ELSE r[i - n]
  BY <1>1, <1>2, <1>3
<1>5. ASSUME NEW i \in 1..(n + Len(r))
      PROVE  /\ i <= n => i \in 1..Len(s) /\ t[i] = s[i]
             /\ ~(i <= n) => i - n \in 1..Len(r) /\ t[i] = r[i - n]
  <2>1. i <= n => i \in 1..n
    BY <1>1
  <2>2. ~(i <= n) => i - n \in 1..Len(r)
    BY <1>1
  <2> QED
    BY <1>3, <1>4, <2>1, <2>2
<1>6. IsList(t)
  BY <1>4, SequenceIsList
<1> QED
  BY <1>4, <1>5, <1>6 DEF t, front, n, Restacked

LEMMA SameFrames ==
  ASSUME NEW l, NEW m, SameCells(l, m), NEW s, NEW z, SameCells(s, z)
  PROVE  Same(Frame(l, s), Frame(m, z))
BY DEF Same, Frame

\* What an instruction requires is a matter of types.
LEMMA SameFits ==
  ASSUME NEW f, NEW g, Same(f, g), NEW ins, IsInstruction(ins), Fits(f, ins)
  PROVE  /\ Fits(g, ins)
         /\ f.ok /\ g.ok /\ Len(g.stack) = Len(f.stack) /\ Len(f.stack) \in Nat
         /\ DOMAIN g.locals = DOMAIN f.locals
         /\ \A i \in DOMAIN f.locals : f.locals[i].type = g.locals[i].type
         /\ Len(f.stack) > 0 => f.stack[Len(f.stack)].type = g.stack[Len(f.stack)].type
         /\ Len(f.stack) > 1 => f.stack[Len(f.stack) - 1].type = g.stack[Len(f.stack) - 1].type
<1>1. /\ Len(f.stack) \in Nat /\ Len(g.stack) = Len(f.stack)
      /\ \A i \in 1..Len(f.stack) : f.stack[i].type = g.stack[i].type
  BY DEF Same, SameCells, IsList
<1>2. /\ DOMAIN f.locals = DOMAIN g.locals
      /\ \A i \in DOMAIN f.locals : f.locals[i].type = g.locals[i].type
  BY ListDomain DEF Same, SameCells
<1>3. f.ok /\ g.ok
  BY DEF Same, Frame
<1> DEFINE n == Len(f.stack)
<1>4. /\ n > 0 => f.stack[n].type = g.stack[n].type
      /\ n > 1 => f.stack[n - 1].type = g.stack[n - 1].type
  <2>1. (n > 0 => n \in 1..n) /\ (n > 1 => n - 1 \in 1..n)
    BY <1>1
  <2> QED
    BY <1>1, <2>1
<1>5. Fits(g, ins)
  <2>1. ins.op \in Ops
    BY DEF IsInstruction
  <2>2. CASE ins.op \in {"const", "new", "invoke", "goto", "return"}
    BY <2>2 DEF Fits
  <2>3. CASE ins.op = "load"
    BY <1>2, <2>3 DEF Fits
  <2>4. CASE ins.op = "store"
    BY <1>1, <1>2, <1>4, <2>4 DEF Fits
  <2>5. CASE ins.op = "iinc"
    BY <1>2, <2>5 DEF Fits
  <2>6. CASE ins.op \in {"pop", "dup", "if", "checkcast", "athrow", "init"}
    BY <1>1, <1>4, <2>6 DEF Fits
  <2>7. CASE ins.op \in {"swap", "add"}
    <3>1. n > 1
      BY <2>7 DEF Fits
    <3>2. n > 0
      BY <1>1, <3>1
    <3> QED
      BY <1>1, <1>4, <2>7, <3>1, <3>2 DEF Fits
  <2> QED
    BY <2>1, <2>2, <2>3, <2>4, <2>5, <2>6, <2>7 DEF Ops
<1> QED
  BY <1>1, <1>2, <1>3, <1>4, <1>5

-----------------------------------------------------------------------------
(* Types and origins.  An instruction moves cells about and makes one of   *)
(* its own.  If the cells of two frames have the same types and origins    *)
(* that a relation R links, so have the cells of what it makes of them.    *)
Link(R, c, d) == c.type = d.type /\ <<c.origin, d.origin>> \in R

LinkedCells(R, s, r) ==
  IsList(s) /\ IsList(r) /\ Len(s) = Len(r) /\ \A i \in 1..Len(s) : Link(R, s[i], r[i])

Linked(R, f, g) ==
  /\ f = Frame(f.locals, f.stack) /\ g = Frame(g.locals, g.stack)
  /\ LinkedCells(R, f.locals, g.locals) /\ LinkedCells(R, f.stack, g.stack)

LEMMA LinkedMap ==
  ASSUME NEW R, NEW n \in Nat, NEW a, NEW b, IsMap(n, a), IsMap(n, b),
         \A i \in 1..n : Link(R, a[i], b[i])
  PROVE  LinkedCells(R, a, b)
<1>1. IsList(a) /\ Len(a) = n /\ IsList(b) /\ Len(b) = n
  BY ListMade
<1> QED
  BY <1>1 DEF LinkedCells

LEMMA FewAreLists ==
  \A c, u : /\ IsList(<<>>) /\ Len(<<>>) = 0
            /\ IsList(<<c>>) /\ Len(<<c>>) = 1
            /\ IsList(<<c, u>>) /\ Len(<<c, u>>) = 2
<1> SUFFICES ASSUME NEW c, NEW u
             PROVE  /\ IsList(<<>>) /\ Len(<<>>) = 0
                    /\ IsList(<<c>>) /\ Len(<<c>>) = 1
                    /\ IsList(<<c, u>>) /\ Len(<<c, u>>) = 2
  OBVIOUS
<1>1. <<>> \in Seq({c, u}) /\ <<c>> \in Seq({c, u}) /\ <<c, u>> \in Seq({c, u})
  OBVIOUS
<1>2. PICK S : S = {c, u}
  OBVIOUS
<1>3. <<>> \in Seq(S) /\ <<c>> \in Seq(S) /\ <<c, u>> \in Seq(S)
  BY <1>1, <1>2
<1>4. IsList(<<>>) /\ IsList(<<c>>) /\ IsList(<<c, u>>)
  BY <1>3, SequenceIsList, Zenon
<1> QED
  BY <1>4

LEMMA LinkedFew ==
  ASSUME NEW R
  PROVE  /\ LinkedCells(R, <<>>, <<>>)
         /\ \A c, d : Link(R, c, d) => LinkedCells(R, <<c>>, <<d>>)
         /\ \A c, d, u, v : Link(R, c, d) /\ Link(R, u, v) => LinkedCells(R, <<c, u>>, <<d, v>>)
<1>1. \A c, u : /\ IsList(<<>>) /\ Len(<<>>) = 0
                /\ IsList(<<c>>) /\ Len(<<c>>) = 1
                /\ IsList(<<c, u>>) /\ Len(<<c, u>>) = 2
  BY FewAreLists
<1>2. LinkedCells(R, <<>>, <<>>)
  <2>1. PICK s : s = <<>>
    OBVIOUS
  <2>2. IsList(s) /\ Len(s) = 0
    BY <1>1, <2>1
  <2>3. LinkedCells(R, s, s)
    BY <2>2 DEF LinkedCells
  <2> QED
    BY <2>1, <2>3
<1>3. ASSUME NEW c, NEW d, Link(R, c, d) PROVE LinkedCells(R, <<c>>, <<d>>)
  <2>1. \A i \in 1..1 : Link(R, <<c>>[i], <<d>>[i])
    BY <1>3
  <2> QED
    BY <1>1, <2>1 DEF LinkedCells
<1>4. ASSUME NEW c, NEW d, NEW u, NEW v, Link(R, c, d), Link(R, u, v)
      PROVE  LinkedCells(R, <<c, u>>, <<d, v>>)
  <2>1. \A i \in 1..2 : i = 1 \/ i = 2
    OBVIOUS
  <2>2. \A i \in 1..2 : Link(R, <<c, u>>[i], <<d, v>>[i])
    BY <1>4, <2>1
  <2> QED
    BY <1>1, <2>2 DEF LinkedCells
<1> QED
  BY <1>2, <1>3, <1>4

LEMMA LinkedStacked ==
  ASSUME NEW R, NEW s, NEW z, LinkedCells(R, s, z), NEW k \in 0..Len(s), NEW r, NEW w, LinkedCells(R, r, w)
  PROVE  LinkedCells(R, SubSeq(s, 1, Len(s) - k) \o r, SubSeq(z, 1, Len(z) - k) \o w)
<1> DEFINE n == Len(s) - k
           a == SubSeq(s, 1, n) \o r
           b == SubSeq(z, 1, n) \o w
<1>1. /\ IsList(s) /\ IsList(z) /\ IsList(r) /\ IsList(w)
      /\ Len(z) = Len(s) /\ Len(w) = Len(r)
      /\ \A i \in 1..Len(s) : Link(R, s[i], z[i])
      /\ \A i \in 1..Len(r) : Link(R, r[i], w[i])
  BY DEF LinkedCells
<1>2. Restacked(s, n, r, a)
  BY <1>1, Stacking
<1>3. Restacked(z, n, w, b)
  BY <1>1, Stacking
<1> HIDE DEF a, b, n
<1>4. \A i \in 1..(n + Len(r)) : Link(R, a[i], b[i])
  BY <1>1, <1>2, <1>3 DEF Restacked
<1>5. LinkedCells(R, a, b)
  BY <1>1, <1>2, <1>3, <1>4 DEF LinkedCells, Restacked
<1> QED
  BY <1>1, <1>5 DEF a, b, n

LEMMA LinkedFrames ==
  ASSUME NEW R, NEW l, NEW m, LinkedCells(R, l, m), NEW s, NEW z, LinkedCells(R, s, z)
  PROVE  Linked(R, Frame(l, s), Frame(m, z))
BY DEF Linked, Frame

LEMMA LinkedRestack ==
  ASSUME NEW R, NEW f, NEW g, Linked(R, f, g), NEW k \in 0..Len(f.stack), NEW r, NEW w, LinkedCells(R, r, w)
  PROVE  /\ Linked(R, Restack(f, k, r), Restack(g, k, w))
         /\ Restack(f, k, r) = Frame(f.locals, SubSeq(f.stack, 1, Len(f.stack) - k) \o r)
         /\ Restack(g, k, w) = Frame(g.locals, SubSeq(g.stack, 1, Len(g.stack) - k) \o w)
<1>1. /\ Restack(f, k, r) = Frame(f.locals, SubSeq(f.stack, 1, Len(f.stack) - k) \o r)
      /\ Restack(g, k, w) = Frame(g.locals, SubSeq(g.stack, 1, Len(g.stack) - k) \o w)
  BY FrameUpdates DEF Restack, Linked
<1>2. LinkedCells(R, SubSeq(f.stack, 1, Len(f.stack) - k) \o r, SubSeq(g.stack, 1, Len(g.stack) - k) \o w)
  BY LinkedStacked DEF Linked
<1>3. LinkedCells(R, f.locals, g.locals)
  BY DEF Linked
<1> QED
  BY <1>1, <1>2, <1>3, LinkedFrames

LEMMA LinkedPut ==
  ASSUME NEW R, NEW l, NEW m, LinkedCells(R, l, m), NEW n, NEW c, NEW d, Link(R, c, d),
         Link(R, Unusable, Unusable)
  PROVE  LinkedCells(R, Put(l, n, c), Put(m, n, d))
<1> DEFINE last == IF IsHead(c.type) THEN n + 1 ELSE n
           x(i) == IF i = n THEN c
                   ELSE IF i = last THEN Cell(T("LongTail"), c.origin)
                   ELSE IF \/ i = n - 1 /\ IsHead(l[i].type)
                           \/ i = last + 1 /\ IsTail(l[i].type)
                   THEN Unusable ELSE l[i]
           y(i) == IF i = n THEN d
                   ELSE IF i = last THEN Cell(T("LongTail"), d.origin)
                   ELSE IF \/ i = n - 1 /\ IsHead(m[i].type)
                           \/ i = last + 1 /\ IsTail(m[i].type)
                   THEN Unusable ELSE m[i]
<1>1. /\ Len(l) \in Nat /\ Len(m) = Len(l) /\ DOMAIN l = 1..Len(l) /\ DOMAIN m = 1..Len(l)
      /\ \A i \in 1..Len(l) : Link(R, l[i], m[i])
  BY ListDomain DEF LinkedCells, IsList
<1>2. \A i \in 1..Len(l) : Link(R, x(i), y(i))
  <2> SUFFICES ASSUME NEW i \in 1..Len(l) PROVE Link(R, x(i), y(i))
    OBVIOUS
  <2>1. Link(R, l[i], m[i]) /\ l[i].type = m[i].type /\ c.type = d.type
    BY <1>1 DEF Link
  <2>2. Link(R, Cell(T("LongTail"), c.origin), Cell(T("LongTail"), d.origin))
    BY DEF Cell, Link
  <2>3. last = IF IsHead(d.type) THEN n + 1 ELSE n
    BY <2>1
  <2> HIDE DEF last
  <2>4. CASE i = n
    <3>1. x(i) = c /\ y(i) = d
      BY <2>4
    <3> HIDE DEF x, y
    <3> QED
      BY <3>1
  <2>5. CASE i # n /\ i = last
    <3>1. x(i) = Cell(T("LongTail"), c.origin) /\ y(i) = Cell(T("LongTail"), d.origin)
      BY <2>3, <2>5
    <3> HIDE DEF x, y
    <3> QED
      BY <2>2, <3>1
  <2>6. CASE i # n /\ i # last
    <3>1. (x(i) = Unusable /\ y(i) = Unusable) \/ (x(i) = l[i] /\ y(i) = m[i])
      BY <2>1, <2>3, <2>6
    <3> HIDE DEF x, y
    <3> QED
      BY <2>1, <3>1
  <2> QED
    BY <2>4, <2>5, <2>6
<1>3. Put(l, n, c) = [i \in 1..Len(l) |-> x(i)]
  BY <1>1 DEF Put
<1>4. Put(m, n, d) = [i \in 1..Len(l) |-> y(i)]
  <2>1. c.type = d.type
    BY DEF Link
  <2> QED
    BY <1>1, <2>1 DEF Put
<1> HIDE DEF x, y
<1>5. /\ IsMap(Len(l), [i \in 1..Len(l) |-> x(i)]) /\ IsMap(Len(l), [i \in 1..Len(l) |-> y(i)])
      /\ \A i \in 1..Len(l) :
           Link(R, [j \in 1..Len(l) |-> x(j)][i], [j \in 1..Len(l) |-> y(j)][i])
  BY <1>2 DEF IsMap
<1> QED
  BY <1>1, <1>3, <1>4, <1>5, LinkedMap

LEMMA LinkedInitialised ==
  ASSUME NEW R, NEW l, NEW m, LinkedCells(R, l, m), NEW t
  PROVE  LinkedCells(R, Initialised(l, t), Initialised(m, t))
<1> DEFINE x(i) == IF l[i].type = t THEN Cell(RefOf(t.class), l[i].origin) ELSE l[i]
           y(i) == IF m[i].type = t THEN Cell(RefOf(t.class), m[i].origin) ELSE m[i]
<1>1. /\ Len(l) \in Nat /\ Len(m) = Len(l) /\ DOMAIN l = 1..Len(l) /\ DOMAIN m = 1..Len(l)
      /\ \A i \in 1..Len(l) : Link(R, l[i], m[i])
  BY ListDomain DEF LinkedCells, IsList
<1>2. \A i \in 1..Len(l) : Link(R, x(i), y(i))
  BY <1>1 DEF Cell, Link
<1>3. Initialised(l, t) = [i \in 1..Len(l) |-> x(i)]
  BY <1>1 DEF Initialised
<1>4. Initialised(m, t) = [i \in 1..Len(l) |-> y(i)]
  BY <1>1 DEF Initialised
<1> HIDE DEF x, y
<1>5. /\ IsMap(Len(l), [i \in 1..Len(l) |-> x(i)]) /\ IsMap(Len(l), [i \in 1..Len(l) |-> y(i)])
      /\ \A i \in 1..Len(l) :
           Link(R, [j \in 1..Len(l) |-> x(j)][i], [j \in 1..Len(l) |-> y(j)][i])
  BY <1>2 DEF IsMap
<1> QED
  BY <1>1, <1>3, <1>4, <1>5, LinkedMap

LEMMA LinkedSame ==
  ASSUME NEW R, NEW f, NEW g, Linked(R, f, g)
  PROVE  Same(f, g)
BY DEF Linked, LinkedCells, Link, Same, SameCells

LEMMA LinkedTransfer ==
  ASSUME NEW R, NEW f, NEW g, Linked(R, f, g), NEW ins, IsInstruction(ins), Fits(f, ins), NEW at,
         Link(R, Unusable, Unusable), <<Def(at), Def(at)>> \in R
  PROVE  Linked(R, Transfer(f, ins, at), Transfer(g, ins, at))
<1> DEFINE n == Len(f.stack)
           top == f.stack[n]
           under == f.stack[n - 1]
           t == g.stack[n]
           u == g.stack[n - 1]
           a == Transfer(f, ins, at)
           b == Transfer(g, ins, at)
<1>1. /\ Fits(g, ins) /\ f.ok /\ g.ok /\ n \in Nat /\ Len(g.stack) = n
      /\ DOMAIN g.locals = DOMAIN f.locals
      /\ \A i \in DOMAIN f.locals : Link(R, f.locals[i], g.locals[i])
      /\ n > 0 => Link(R, top, t)
      /\ n > 1 => Link(R, under, u)
  <2>1. /\ Fits(g, ins) /\ f.ok /\ g.ok /\ n \in Nat /\ Len(g.stack) = n
        /\ DOMAIN g.locals = DOMAIN f.locals
    BY LinkedSame, SameFits
  <2>2. /\ \A i \in 1..n : Link(R, f.stack[i], g.stack[i])
        /\ \A i \in 1..Len(f.locals) : Link(R, f.locals[i], g.locals[i])
        /\ DOMAIN f.locals = 1..Len(f.locals)
    BY ListDomain DEF Linked, LinkedCells
  <2>3. (n > 0 => n \in 1..n) /\ (n > 1 => n - 1 \in 1..n)
    BY <2>1
  <2> QED
    BY <2>1, <2>2, <2>3
<1>2. /\ f = Frame(f.locals, f.stack) /\ g = Frame(g.locals, g.stack)
      /\ LinkedCells(R, f.locals, g.locals) /\ LinkedCells(R, f.stack, g.stack)
  BY DEF Linked
<1>3. ASSUME NEW k \in 0..n, NEW r, NEW w, LinkedCells(R, r, w)
      PROVE  /\ Linked(R, Restack(f, k, r), Restack(g, k, w))
             /\ Restack(f, k, r) = Frame(f.locals, SubSeq(f.stack, 1, n - k) \o r)
             /\ Restack(g, k, w) = Frame(g.locals, SubSeq(g.stack, 1, n - k) \o w)
  BY <1>1, <1>3, LinkedRestack
<1>4. \A p : Link(R, Cell(p, Def(at)), Cell(p, Def(at)))
  BY DEF Cell, Link
<1>5. ASSUME NEW k \in 0..n, NEW p, a = Restack(f, k, <<Cell(p, Def(at))>>),
             b = Restack(g, k, <<Cell(p, Def(at))>>)
      PROVE  Linked(R, a, b)
  <2>1. LinkedCells(R, <<Cell(p, Def(at))>>, <<Cell(p, Def(at))>>)
    BY <1>4, LinkedFew
  <2> QED
    BY <1>3, <1>5, <2>1
<1>6. ASSUME NEW k \in 0..n, a = Restack(f, k, <<>>), b = Restack(g, k, <<>>)
      PROVE  Linked(R, a, b)
  BY <1>3, <1>6, LinkedFew
<1> SUFFICES Linked(R, a, b)
  OBVIOUS
<1> HIDE DEF a, b, n
<1>7. ins.op \in Ops /\ 0 \in 0..n /\ (n > 0 => 1 \in 0..n) /\ (n > 1 => 2 \in 0..n)
  BY <1>1 DEF IsInstruction
<1>8. CASE ins.op \in {"goto", "return"}
  <2>1. a = f /\ b = g
    BY <1>1, <1>8 DEF Transfer, a, b
  <2> QED
    BY <2>1
<1>9. CASE ins.op \in {"const", "invoke"}
  <2>1. /\ a = Restack(f, 0, <<Cell(ins.type, Def(at))>>)
        /\ b = Restack(g, 0, <<Cell(ins.type, Def(at))>>)
    BY <1>1, <1>9 DEF Transfer, a, b
  <2> QED
    BY <1>5, <1>7, <2>1
<1>10. CASE ins.op = "new"
  <2>1. /\ a = Restack(f, 0, <<Cell(UninitAt(at, ins.type.class), Def(at))>>)
        /\ b = Restack(g, 0, <<Cell(UninitAt(at, ins.type.class), Def(at))>>)
    BY <1>1, <1>10 DEF Transfer, a, b
  <2> QED
    BY <1>5, <1>7, <2>1
<1>11. CASE ins.op = "load"
  <2>1. a = Restack(f, 0, <<f.locals[ins.local]>>) /\ b = Restack(g, 0, <<g.locals[ins.local]>>)
    BY <1>1, <1>11 DEF Transfer, a, b
  <2>2. Link(R, f.locals[ins.local], g.locals[ins.local])
    BY <1>1, <1>11 DEF Fits
  <2>3. LinkedCells(R, <<f.locals[ins.local]>>, <<g.locals[ins.local]>>)
    BY <2>2, LinkedFew
  <2> QED
    BY <1>3, <1>7, <2>1, <2>3
<1>12. CASE ins.op = "store"
  <2> DEFINE fl == f.locals
             gl == g.locals
             fs == SubSeq(f.stack, 1, n - 1) \o <<>>
             gs == SubSeq(g.stack, 1, n - 1) \o <<>>
  <2>1. n > 0
    BY <1>12 DEF Fits, n
  <2>2. /\ Restack(f, 1, <<>>) = Frame(fl, fs) /\ Restack(g, 1, <<>>) = Frame(gl, gs)
        /\ Linked(R, Restack(f, 1, <<>>), Restack(g, 1, <<>>))
    BY <1>3, <1>7, <2>1, LinkedFew
  <2>3. LinkedCells(R, fs, gs)
    <3>1. \A p, q : Frame(p, q).stack = q
      BY DEF Frame
    <3> HIDE DEF fs, gs
    <3> QED
      BY <2>2, <3>1 DEF Linked
  <2>4. LinkedCells(R, Put(fl, ins.local, top), Put(gl, ins.local, t))
    BY <1>1, <1>2, <2>1, LinkedPut
  <2> HIDE DEF fs, gs, fl, gl
  <2>5. ASSUME NEW p, NEW q, NEW d PROVE [Frame(p, q) EXCEPT !.locals = d] = Frame(d, q)
    <3>1. PICK h : h = Frame(p, q)
      OBVIOUS
    <3>2. h.locals = p /\ h.stack = q
      BY <3>1 DEF Frame
    <3>3. Relocated(h, d) = Frame(d, q)
      BY <3>1, <3>2, Remaking
    <3> QED
      BY <3>1, <3>3 DEF Relocated
  <2>6. /\ a = [Restack(f, 1, <<>>) EXCEPT !.locals = Put(@, ins.local, top)]
        /\ b = [Restack(g, 1, <<>>) EXCEPT !.locals = Put(@, ins.local, t)]
    BY <1>1, <1>12 DEF Transfer, a, b, n
  <2>7. a = Frame(Put(fl, ins.local, top), fs) /\ b = Frame(Put(gl, ins.local, t), gs)
    <3>1. \A p, q : Frame(p, q).locals = p
      BY DEF Frame
    <3> QED
      BY <2>2, <2>5, <2>6, <3>1
  <2> QED
    BY <2>3, <2>4, <2>7, LinkedFrames
<1>13. CASE ins.op = "iinc"
  <2> DEFINE l == ins.local
             fl == [f.locals EXCEPT ![l] = Increased(@, at)]
             gl == [g.locals EXCEPT ![l] = Increased(@, at)]
  <2>1. l \in DOMAIN f.locals
    BY <1>13 DEF Fits
  <2>2. a = [f EXCEPT !.locals = fl] /\ b = [g EXCEPT !.locals = gl]
    BY <1>1, <1>13 DEF Transfer, a, b
  <2>3. a = Frame(fl, f.stack) /\ b = Frame(gl, g.stack)
    <3> HIDE DEF fl, gl
    <3> QED
      BY <1>2, <2>2, FrameUpdates
  <2>4. LinkedCells(R, fl, gl)
    <3>1. /\ Len(f.locals) \in Nat /\ DOMAIN f.locals = 1..Len(f.locals)
          /\ f.locals = [i \in 1..Len(f.locals) |-> f.locals[i]]
          /\ g.locals = [i \in 1..Len(f.locals) |-> g.locals[i]]
      BY <1>2, ListDomain DEF LinkedCells, IsList
    <3>2. IsMap(Len(f.locals), fl) /\ IsMap(Len(f.locals), gl)
      BY <1>1, <3>1 DEF IsMap
    <3>3. \A i \in 1..Len(f.locals) : Link(R, fl[i], gl[i])
      <4>1. \A i \in 1..Len(f.locals) : f.locals[i].type = g.locals[i].type
        BY <1>1, <3>1 DEF Link
      <4>2. \A i \in 1..Len(f.locals) : /\ fl[i] = IF i = l THEN Increased(f.locals[i], at) ELSE f.locals[i]
                                       /\ gl[i] = IF i = l THEN Increased(g.locals[i], at) ELSE g.locals[i]
        BY <1>1, <3>1
      <4>3. Link(R, Increased(f.locals[l], at), Increased(g.locals[l], at))
        BY <1>4, <2>1, <3>1, <4>1 DEF Increased
      <4> HIDE DEF fl, gl
      <4> TAKE i \in 1..Len(f.locals)
      <4>4. CASE i = l
        BY <4>2, <4>3, <4>4
      <4>5. CASE i # l
        BY <1>1, <3>1, <4>2, <4>5
      <4> QED
        BY <4>4, <4>5
    <3> HIDE DEF fl, gl
    <3> QED
      BY <3>1, <3>2, <3>3, LinkedMap
  <2> QED
    BY <1>2, <2>3, <2>4, LinkedFrames
<1>14. CASE ins.op \in {"pop", "if"}
  <2>1. n > 0
    BY <1>14 DEF Fits, n
  <2>2. a = Restack(f, 1, <<>>) /\ b = Restack(g, 1, <<>>)
    BY <1>1, <1>14 DEF Transfer, a, b
  <2> QED
    BY <1>6, <1>7, <2>1, <2>2
<1>15. CASE ins.op = "dup"
  <2>1. n > 0
    BY <1>15 DEF Fits, n
  <2>2. a = Restack(f, 0, <<top>>) /\ b = Restack(g, 0, <<t>>)
    BY <1>1, <1>15 DEF Transfer, a, b, n
  <2>3. LinkedCells(R, <<top>>, <<t>>)
    BY <1>1, <2>1, LinkedFew
  <2> QED
    BY <1>3, <1>7, <2>2, <2>3
<1>16. CASE ins.op = "swap"
  <2>1. n > 1 /\ n > 0
    BY <1>1, <1>16 DEF Fits, n
  <2>2. a = Restack(f, 2, <<top, under>>) /\ b = Restack(g, 2, <<t, u>>)
    BY <1>1, <1>16 DEF Transfer, a, b, n
  <2>3. LinkedCells(R, <<top, under>>, <<t, u>>)
    BY <1>1, <2>1, LinkedFew
  <2> QED
    BY <1>3, <1>7, <2>1, <2>2, <2>3
<1>17. CASE ins.op = "add"
  <2>1. n > 1
    BY <1>17 DEF Fits, n
  <2>2. a = Restack(f, 2, <<Cell(T("Int"), Def(at))>>) /\ b = Restack(g, 2, <<Cell(T("Int"), Def(at))>>)
    BY <1>1, <1>17 DEF Transfer, a, b
  <2> QED
    BY <1>5, <1>7, <2>1, <2>2
<1>18. CASE ins.op = "checkcast"
  <2>1. n > 0
    BY <1>18 DEF Fits, n
  <2>2. /\ a = Restack(f, 1, <<Cell(CastTo(top.type, ins.type.class), Def(at))>>)
        /\ b = Restack(g, 1, <<Cell(CastTo(top.type, ins.type.class), Def(at))>>)
    <3>1. top.type = t.type
      BY <1>1, <2>1 DEF Link
    <3> QED
      BY <1>1, <1>18, <2>1, <3>1 DEF Transfer, a, b, n
  <2> QED
    BY <1>5, <1>7, <2>1, <2>2
<1>19. CASE ins.op = "athrow"
  <2>1. n > 0
    BY <1>19 DEF Fits, n
  <2>2. a = [f EXCEPT !.stack = <<top>>] /\ b = [g EXCEPT !.stack = <<t>>]
    BY <1>1, <1>19 DEF Transfer, a, b, n
  <2>3. a = Frame(f.locals, <<top>>) /\ b = Frame(g.locals, <<t>>)
    BY <1>2, <2>2, FrameUpdates
  <2>4. LinkedCells(R, <<top>>, <<t>>)
    BY <1>1, <2>1, LinkedFew
  <2> QED
    BY <1>2, <2>3, <2>4, LinkedFrames
<1>20. CASE ins.op = "init"
  <2> DEFINE fs == SubSeq(f.stack, 1, n - 1) \o <<>>
             gs == SubSeq(g.stack, 1, n - 1) \o <<>>
  <2>1. n > 0
    BY <1>20 DEF Fits, n
  <2>2. /\ Restack(f, 1, <<>>) = Frame(f.locals, fs) /\ Restack(g, 1, <<>>) = Frame(g.locals, gs)
        /\ Linked(R, Restack(f, 1, <<>>), Restack(g, 1, <<>>))
    BY <1>3, <1>7, <2>1, LinkedFew
  <2>3. \A p, q : Frame(p, q).locals = p /\ Frame(p, q).stack = q
    BY DEF Frame
  <2> HIDE DEF fs, gs
  <2>4. LinkedCells(R, fs, gs)
    BY <2>2, <2>3 DEF Linked
  <2>5. /\ a = Frame(Initialised(Restack(f, 1, <<>>).locals, top.type),
                     Initialised(Restack(f, 1, <<>>).stack, top.type))
        /\ b = Frame(Initialised(Restack(g, 1, <<>>).locals, t.type),
                     Initialised(Restack(g, 1, <<>>).stack, t.type))
    BY <1>1, <1>20 DEF Transfer, a, b, n
  <2>6. /\ a = Frame(Initialised(f.locals, top.type), Initialised(fs, top.type))
        /\ b = Frame(Initialised(g.locals, top.type), Initialised(gs, top.type))
    <3>1. top.type = t.type
      BY <1>1, <2>1 DEF Link
    <3> QED
      BY <2>2, <2>3, <2>5, <3>1
  <2>7. /\ LinkedCells(R, Initialised(f.locals, top.type), Initialised(g.locals, top.type))
        /\ LinkedCells(R, Initialised(fs, top.type), Initialised(gs, top.type))
    BY <1>2, <2>4, LinkedInitialised
  <2> QED
    BY <2>6, <2>7, LinkedFrames
<1> QED
  BY <1>7, <1>8, <1>9, <1>10, <1>11, <1>12, <1>13, <1>14, <1>15, <1>16, <1>17, <1>18, <1>19, <1>20
     DEF Ops

LEMMA LinkedExceptional ==
  ASSUME NEW R, NEW f, NEW g, Linked(R, f, g), NEW ins, IsInstruction(ins), Fits(f, ins), NEW at,
         Link(R, Unusable, Unusable), <<Thrown(at), Thrown(at)>> \in R
  PROVE  Linked(R, Exceptional(f, ins, at), Exceptional(g, ins, at))
<1> DEFINE n == Len(f.locals)
           flost(t) == ins.op = "init" /\ t = f.stack[Len(f.stack)].type
           glost(t) == ins.op = "init" /\ t = g.stack[Len(g.stack)].type
           x(i) == IF flost(f.locals[i].type) THEN Unusable ELSE f.locals[i]
           y(i) == IF glost(g.locals[i].type) THEN Unusable ELSE g.locals[i]
           fl == [i \in 1..n |-> x(i)]
           gl == [i \in 1..n |-> y(i)]
           s == <<Cell(RefOf(Throwable), Thrown(at))>>
<1>1. /\ n \in Nat /\ DOMAIN f.locals = 1..n /\ DOMAIN g.locals = 1..n
      /\ \A i \in 1..n : Link(R, f.locals[i], g.locals[i])
  BY ListDomain DEF Linked, LinkedCells, IsList
<1>0. Same(f, g)
  BY LinkedSame
<1>2. \A t : flost(t) <=> glost(t)
  <2>1. CASE ins.op = "init"
    <3>1. Len(f.stack) > 0
      BY <2>1 DEF Fits
    <3> QED
      BY <1>0, <3>1, SameFits
  <2>2. CASE ins.op # "init"
    BY <2>2
  <2> QED
    BY <2>1, <2>2
<1> HIDE DEF flost, glost
<1>3. \A i \in 1..n : Link(R, x(i), y(i))
  BY <1>1, <1>2 DEF Link
<1>4. Exceptional(f, ins, at) = Frame(fl, s) /\ Exceptional(g, ins, at) = Frame(gl, s)
  BY <1>1 DEF Exceptional, flost, glost
<1>5. LinkedCells(R, fl, gl)
  <2> HIDE DEF x, y
  <2>1. /\ IsMap(n, fl) /\ IsMap(n, gl)
        /\ \A i \in 1..n : Link(R, fl[i], gl[i])
    BY <1>3 DEF IsMap
  <2> HIDE DEF fl, gl
  <2> QED
    BY <1>1, <2>1, LinkedMap
<1>6. LinkedCells(R, s, s)
  <2>1. Link(R, Cell(RefOf(Throwable), Thrown(at)), Cell(RefOf(Throwable), Thrown(at)))
    BY DEF Cell, Link
  <2> QED
    BY <2>1, LinkedFew
<1> QED
  BY <1>4, <1>5, <1>6, LinkedFrames

\* What is linked by the types is linked by the pairs of the origins there are.
OriginPairs(f, g, at) ==
  LET of(h) == {h.locals[i].origin : i \in DOMAIN h.locals} \cup {h.stack[i].origin : i \in DOMAIN h.stack}
                 \cup {NoOrigin, Def(at), Thrown(at)}
  IN  of(f) \X of(g)

LEMMA SameLinked ==
  ASSUME NEW f, NEW g, Same(f, g), NEW at
  PROVE  /\ Linked(OriginPairs(f, g, at), f, g)
         /\ Link(OriginPairs(f, g, at), Unusable, Unusable)
         /\ <<Def(at), Def(at)>> \in OriginPairs(f, g, at)
         /\ <<Thrown(at), Thrown(at)>> \in OriginPairs(f, g, at)
<1> DEFINE of(h) == {h.locals[i].origin : i \in DOMAIN h.locals} \cup {h.stack[i].origin : i \in DOMAIN h.stack}
                      \cup {NoOrigin, Def(at), Thrown(at)}
           R == OriginPairs(f, g, at)
<1>1. R = of(f) \X of(g)
  BY DEF OriginPairs
<1>2. /\ NoOrigin \in of(f) /\ Def(at) \in of(f) /\ Thrown(at) \in of(f)
      /\ NoOrigin \in of(g) /\ Def(at) \in of(g) /\ Thrown(at) \in of(g)
  OBVIOUS
<1>3. /\ DOMAIN f.locals = 1..Len(f.locals) /\ DOMAIN f.stack = 1..Len(f.stack)
      /\ DOMAIN g.locals = 1..Len(g.locals) /\ DOMAIN g.stack = 1..Len(g.stack)
      /\ Len(g.locals) = Len(f.locals) /\ Len(g.stack) = Len(f.stack)
  BY ListDomain DEF Same, SameCells
<1>4. /\ \A i \in 1..Len(f.locals) : f.locals[i].origin \in of(f) /\ g.locals[i].origin \in of(g)
      /\ \A i \in 1..Len(f.stack) : f.stack[i].origin \in of(f) /\ g.stack[i].origin \in of(g)
  BY <1>3
<1> HIDE DEF of
<1>5. /\ \A i \in 1..Len(f.locals) : <<f.locals[i].origin, g.locals[i].origin>> \in R
      /\ \A i \in 1..Len(f.stack) : <<f.stack[i].origin, g.stack[i].origin>> \in R
      /\ <<NoOrigin, NoOrigin>> \in R /\ <<Def(at), Def(at)>> \in R /\ <<Thrown(at), Thrown(at)>> \in R
  BY <1>1, <1>2, <1>4
<1> HIDE DEF R
<1>6. Linked(R, f, g)
  BY <1>5 DEF Same, SameCells, Linked, LinkedCells, Link
<1>7. Link(R, Unusable, Unusable)
  BY <1>5 DEF Link, Unusable, Cell
<1> QED
  BY <1>5, <1>6, <1>7 DEF R

LEMMA SameTransfer ==
  ASSUME NEW f, NEW g, Same(f, g), NEW ins, IsInstruction(ins), Fits(f, ins), NEW at
  PROVE  Same(Transfer(f, ins, at), Transfer(g, ins, at))
<1>1. PICK R : R = OriginPairs(f, g, at)
  OBVIOUS
<1>2. Linked(R, f, g) /\ Link(R, Unusable, Unusable) /\ <<Def(at), Def(at)>> \in R
  BY <1>1, SameLinked
<1>3. Linked(R, Transfer(f, ins, at), Transfer(g, ins, at))
  BY <1>2, LinkedTransfer
<1> QED
  BY <1>3, LinkedSame

LEMMA SameExceptional ==
  ASSUME NEW f, NEW g, Same(f, g), NEW ins, IsInstruction(ins), Fits(f, ins), NEW at
  PROVE  Same(Exceptional(f, ins, at), Exceptional(g, ins, at))
<1>1. PICK R : R = OriginPairs(f, g, at)
  OBVIOUS
<1>2. Linked(R, f, g) /\ Link(R, Unusable, Unusable) /\ <<Thrown(at), Thrown(at)>> \in R
  BY <1>1, SameLinked
<1>3. Linked(R, Exceptional(f, ins, at), Exceptional(g, ins, at))
  BY <1>2, LinkedExceptional
<1> QED
  BY <1>3, LinkedSame

-----------------------------------------------------------------------------
(* What a join forgets: every value of type s is one of type t.            *)
Below(s, t) ==
  \/ s = t
  \/ t.kind = "Top"
  \/ t.kind \in {"Int", "Long"} /\ s.kind = t.kind /\ t.val = NoVal
  \/ t.kind = "Null" /\ s.kind = "Null"
  \/ t.kind = "Ref" /\ s.kind = "Null"
  \/ t.kind = "Ref" /\ s.kind = "Ref" /\ t.class \in {Object, s.class}

BelowCells(s, r) ==
  IsList(s) /\ IsList(r) /\ Len(s) = Len(r) /\ \A i \in 1..Len(s) : Below(s[i].type, r[i].type)

Covers(g, f) == BelowCells(f.locals, g.locals) /\ BelowCells(f.stack, g.stack)

LEMMA BelowTransitive ==
  ASSUME NEW r, NEW s, NEW t, Below(r, s), Below(s, t)
  PROVE  Below(r, t)
BY DEF Below

LEMMA JoinIsAbove ==
  ASSUME NEW s, NEW t
  PROVE  Below(s, JoinTypes(s, t)) /\ Below(t, JoinTypes(s, t))
<1> DEFINE j == JoinTypes(s, t)
<1>1. CASE s.kind = "Null" /\ t.kind \in {"Ref", "Null"}
  BY <1>1 DEF JoinTypes, Below
<1>2. CASE s.kind = "Ref" /\ t.kind = "Null"
  BY <1>2 DEF JoinTypes, Below
<1>3. CASE s.kind = "Ref" /\ t.kind = "Ref"
  <2>1. j = IF s.class = t.class THEN s ELSE RefOf(Object)
    BY <1>3 DEF JoinTypes
  <2>2. RefOf(Object).kind = "Ref" /\ RefOf(Object).class = Object
    BY DEF RefOf
  <2> QED
    BY <1>3, <2>1, <2>2 DEF Below
<1>4. CASE s.kind \in {"Int", "Long"} /\ t.kind = s.kind
  <2>1. j = IF s = t THEN s ELSE T(s.kind)
    BY <1>4 DEF JoinTypes
  <2>2. T(s.kind).kind = s.kind /\ T(s.kind).val = NoVal
    BY DEF T
  <2> QED
    BY <1>4, <2>1, <2>2 DEF Below
<1>5. CASE s.kind \in {"Top", "LongTail", "UninitNew"} /\ t = s
  BY <1>5 DEF JoinTypes, Below
<1>6. CASE /\ ~(s.kind = "Null" /\ t.kind \in {"Ref", "Null"})
           /\ ~(s.kind = "Ref" /\ t.kind \in {"Ref", "Null"})
           /\ ~(s.kind \in {"Int", "Long"} /\ t.kind = s.kind)
           /\ ~(s.kind \in {"Top", "LongTail", "UninitNew"} /\ t = s)
  <2>1. j = T("Top")
    BY <1>6 DEF JoinTypes
  <2>2. T("Top").kind = "Top"
    BY DEF T
  <2> QED
    BY <2>1, <2>2 DEF Below
<1> QED
  BY <1>1, <1>2, <1>3, <1>4, <1>5, <1>6

LEMMA CoversItself ==
  ASSUME NEW n, NEW f, Sound(f, n)
  PROVE  Covers(f, f)
<1>1. IsList(f.locals) /\ IsList(f.stack)
  BY SequenceIsList DEF Sound, IsFrame, IsStack
<1> QED
  BY <1>1 DEF Covers, BelowCells, Below

LEMMA CoversTransitive ==
  ASSUME NEW f, NEW g, NEW h, Covers(g, f), Covers(h, g)
  PROVE  Covers(h, f)
BY BelowTransitive DEF Covers, BelowCells

(* JoinFrames: whatever values either frame describes, their join does.    *)
THEOREM JoinCovers ==
  ASSUME NEW n, NEW f, Sound(f, n), NEW g, Sound(g, n), JoinFrames(f, g) # Invalid
  PROVE  Covers(JoinFrames(f, g), f) /\ Covers(JoinFrames(f, g), g)
<1> DEFINE l == JoinCells(f.locals, g.locals)
           s == JoinCells(f.stack, g.stack)
           k == KillHalves(l)
<1>1. /\ f.locals \in Seq(CellSet) /\ g.locals \in Seq(CellSet)
      /\ f.stack \in Seq(CellSet) /\ g.stack \in Seq(CellSet)
      /\ Len(f.locals) = n /\ Len(g.locals) = n
  BY DEF Sound, IsFrame, IsStack
<1>2. /\ Len(f.stack) = Len(g.stack)
      /\ JoinFrames(f, g) = Frame(Listed(KillHalves(Listed(l))), Listed(s))
  BY DEF JoinFrames
<1>3. /\ l \in Seq(CellSet) /\ Len(l) = n
      /\ \A i \in 1..n : l[i].type = JoinTypes(f.locals[i].type, g.locals[i].type)
  BY <1>1, JoinCellsType
<1>4. /\ s \in Seq(CellSet) /\ Len(s) = Len(f.stack)
      /\ \A i \in 1..Len(s) : s[i].type = JoinTypes(f.stack[i].type, g.stack[i].type)
  BY <1>1, <1>2, JoinCellsType
<1>5. k \in Seq(CellSet) /\ Len(k) = n
  BY <1>3, KillHalvesType
<1>6. JoinFrames(f, g) = Frame(k, s)
  BY <1>2, <1>3, <1>4, <1>5, ListedSequence
<1>7. \A i \in 1..n : k[i] = Unusable \/ k[i] = l[i]
  <2> HIDE DEF l
  <2>1. DOMAIN l = 1..n
    BY <1>1, <1>3
  <2> QED
    BY <2>1 DEF KillHalves
<1> HIDE DEF l, s, k
<1>8. ASSUME NEW i \in 1..n
      PROVE  Below(f.locals[i].type, k[i].type) /\ Below(g.locals[i].type, k[i].type)
  <2>1. CASE k[i] = Unusable
    <3>1. Unusable.type.kind = "Top"
      BY DEF Unusable, Cell, T
    <3>2. k[i].type.kind = "Top"
      BY <2>1, <3>1
    <3> QED
      BY <3>2 DEF Below
  <2>2. CASE k[i] = l[i]
    BY <1>3, <2>2, JoinIsAbove
  <2> QED
    BY <1>7, <2>1, <2>2
<1>9. \A i \in 1..Len(s) : Below(f.stack[i].type, s[i].type) /\ Below(g.stack[i].type, s[i].type)
  BY <1>4, JoinIsAbove
<1>10. BelowCells(f.locals, k) /\ BelowCells(g.locals, k)
  BY <1>1, <1>5, <1>8, SequenceIsList DEF BelowCells
<1>11. BelowCells(f.stack, s) /\ BelowCells(g.stack, s)
  BY <1>1, <1>2, <1>4, <1>9, SequenceIsList DEF BelowCells
<1> QED
  BY <1>6, <1>10, <1>11 DEF Covers, Frame
=============================================================================
