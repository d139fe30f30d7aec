------------------------ MODULE NestedArchivesProofs ------------------------
(***************************************************************************)
(* Reads of nested archives, for any archives, limits and goroutines.  The *)
(* bound on the number of reads plays no part.                             *)
(***************************************************************************)
EXTENDS NestedArchives, SequenceTheorems, OrderLemmas

\* One step along a path: its first name moves from what is left to what is done.
LEMMA PathStep ==
  ASSUME NEW p \in Seq(STRING), NEW t \in Seq(STRING), t # <<>>
  PROVE  /\ Head(t) \in STRING
         /\ Tail(t) \in Seq(STRING)
         /\ Append(p, Head(t)) \in Seq(STRING)
         /\ Len(Append(p, Head(t))) = Len(p) + 1
         /\ Append(p, Head(t)) \o Tail(t) = p \o t
         /\ Len(t) = 1 => Append(p, Head(t)) = p \o t
         /\ Len(t) # 1 => Tail(t) # <<>>
  <1> DEFINE h == Head(t)
             rest == Tail(t)
  <1>1. h \in STRING /\ rest \in Seq(STRING)
    BY HeadTailProperties
  <1>2. Len(t) \in Nat \ {0} /\ Len(rest) = Len(t) - 1 /\ t = Append(<<>>, h) \o rest
    <2>1. Len(t) \in Nat \ {0} /\ Len(rest) = Len(t) - 1
      BY EmptySeq, HeadTailProperties, LenProperties
    <2>2. t = <<h>> \o rest
      <3>1. 1 \in 1..Len(t) /\ Len(t) \in 1..Len(t)
        BY <2>1
      <3>2. SubSeq(t, 1, Len(t)) = << t[1] >> \o SubSeq(t, 2, Len(t))
        BY <3>1, <2>1, SubSeqRecursiveFirst
      <3>3. t[1] = h
        BY DEF h
      <3> QED BY <3>2, <3>3, SubSeqFull, TailIsSubSeq
    <2> QED BY <2>1, <2>2
  <1>3. Append(p, h) = p \o <<h>> /\ Append(p, h) \in Seq(STRING) /\ Len(Append(p, h)) = Len(p) + 1
    BY <1>1, AppendIsConcat, AppendProperties
  <1>4. <<h>> \in Seq(STRING) /\ <<h>> = Append(<<>>, h)
    BY <1>1
  <1>5. Append(p, h) \o rest = p \o t
    BY <1>1, <1>2, <1>3, <1>4, ConcatAssociative
  <1>6. ASSUME Len(t) = 1 PROVE Append(p, h) = p \o t
    <2>1. rest = <<>>
      BY <1>1, <1>2, <1>6, EmptySeq
    <2> QED BY <2>1, <1>3, <1>5, ConcatEmptySeq
  <1>7. Len(t) # 1 => rest # <<>>
    <2>1. Len(<<>>) = 0
      BY EmptySeq
    <2> HIDE DEF rest
    <2> QED BY <1>2, <2>1
  <1> QED BY <1>1, <1>3, <1>5, <1>6, <1>7

\* The prefixes of a longer path are those of the shorter one and itself.
LEMMA PrefixesOfAppend ==
  ASSUME NEW S, NEW p \in Seq(S), NEW n \in S
  PROVE  Prefixes(Append(p, n)) = Prefixes(p) \cup {Append(p, n)}
  <1> DEFINE q == Append(p, n)
  <1>1. q \in Seq(S) /\ Len(q) = Len(p) + 1 /\ Len(p) \in Nat /\ q = p \o <<n>>
    BY AppendProperties, AppendIsConcat, LenProperties
  <1>2. <<n>> \in Seq(S)
    OBVIOUS
  <1>3. SubSeq(q, 1, Len(q)) = q
    BY <1>1, SubSeqFull
  <1>4. ASSUME NEW k \in 1..Len(p)
        PROVE  SubSeq(q, 1, k) = SubSeq(p, 1, k)
    <2>1. 1 \in 1..Len(p)
      BY <1>1
    <2> QED BY <1>1, <1>2, <2>1, SubSeqOfConcat1
  <1>5. 1..Len(q) = (1..Len(p)) \cup {Len(q)}
    BY <1>1
  <1> QED BY <1>3, <1>4, <1>5 DEF Prefixes

LEMMA NoPrefixes == Prefixes(<<>>) = {}
  BY DEF Prefixes

-----------------------------------------------------------------------------
LEMMA WorldType ==
  ASSUME TypeInv
  PROVE  /\ world.maxDepth \in Nat /\ world.maxEntry \in Nat
         /\ world.wanted \subseteq Seq(STRING) \ {<<>>}
         /\ \A p \in DOMAIN world.tree : world.tree[p].size \in Nat
  BY WorldsAssumption DEF TypeInv

\* The initial state satisfies the invariant.
LEMMA InitInv == Init => IInv
  <1> SUFFICES ASSUME Init PROVE IInv
    OBVIOUS
  <1> DEFINE root == [path |-> <<>>, depth |-> 0, inside |-> 0]
  <1>1. world \in Worlds /\ world.maxDepth \in Nat
    BY WorldsAssumption DEF Init
  <1>2. objects = <<root>> /\ DOMAIN objects = {1} /\ objects[1] = root
    BY DEF Init
  <1>3. root \in [path : Seq(STRING), depth : Nat, inside : Nat]
    BY EmptySeq
  <1>4. Idle \in Call /\ Idle.at = "idle"
    BY EmptySeq DEF Idle, Call
  <1>5. TypeInv
    BY <1>1, <1>2, <1>3, <1>4 DEF Init, TypeInv, Outermost
  <1>6. Contents
    BY <1>1, <1>2, NoPrefixes, EmptySeq DEF Contents, Outermost
  <1>7. Cached
    BY DEF Cached, Init
  <1>8. CallsSound
    BY <1>4 DEF CallsSound, OnTheWay, Checked, Init
  <1>9. ReadsWhole
    BY DEF ReadsWhole, Init
  <1> QED BY <1>5, <1>6, <1>7, <1>8, <1>9 DEF IInv

\* A step of one goroutine that opens nothing and delivers nothing.
LEMMA CallsOnly ==
  ASSUME IInv, UNCHANGED <<world, objects, cache, delivered>>,
         NEW r \in Readers, NEW c \in Call, OnTheWay(c), Checked(c),
         calls' = [calls EXCEPT ![r] = c]
  PROVE  IInv'
  <1>1. calls \in [Readers -> Call]
    BY DEF IInv, TypeInv
  <1>2. calls' \in [Readers -> Call]
    BY <1>1
  <1>3. TypeInv'
    BY <1>2 DEF IInv, TypeInv
  <1>4. Contents'
    BY DEF IInv, Contents, Fine
  <1>5. Cached'
    BY DEF IInv, Cached
  <1>6. \A q \in Readers : calls'[q] = IF q = r THEN c ELSE calls[q]
    BY <1>1
  <1>7. \A q \in Readers : OnTheWay(calls'[q]) /\ Checked(calls'[q])
    BY <1>6 DEF IInv, CallsSound
  <1>8. CallsSound'
    BY <1>7 DEF CallsSound, OnTheWay, Checked, Fine
  <1>9. ReadsWhole'
    BY DEF IInv, ReadsWhole, Fine
  <1> QED BY <1>3, <1>4, <1>5, <1>8, <1>9 DEF IInv

\* A goroutine that is done, or refused, is idle.
LEMMA IdleSound == Idle \in Call /\ OnTheWay(Idle) /\ Checked(Idle)
  <1>1. Idle \in Call /\ Idle.at = "idle"
    BY EmptySeq DEF Idle, Call
  <1> QED BY <1>1 DEF OnTheWay, Checked

LEMMA Refused ==
  ASSUME IInv, UNCHANGED <<world, objects, cache, delivered>>,
         NEW r \in Readers, Refuse(r)
  PROVE  IInv'
  BY CallsOnly, IdleSound DEF Refuse, Goto

LEMMA ObjectType ==
  ASSUME IInv, NEW fs \in DOMAIN objects
  PROVE  /\ objects[fs].path \in Seq(STRING)
         /\ objects[fs].depth \in Nat
         /\ objects[fs].depth = Len(objects[fs].path)
  <1> DEFINE FS == [path : Seq(STRING), depth : Nat, inside : Nat]
  <1>1. objects \in Seq(FS)
    BY DEF IInv, TypeInv
  <1>2. fs \in 1..Len(objects)
    BY <1>1, LenProperties
  <1>3. objects[fs] \in FS
    BY <1>1, <1>2, ElementOfSeq
  <1>4. objects[fs].depth = Len(objects[fs].path)
    BY DEF IInv, Contents
  <1> QED BY <1>3, <1>4

LEMMA AskInv ==
  ASSUME IInv, NEW r \in Readers, Ask(r)
  PROVE  IInv'
  <1>1. PICK p \in world.wanted :
          calls' = [calls EXCEPT ![r] = [Idle EXCEPT !.at = "look", !.want = p, !.todo = p]]
    BY DEF Ask, Goto
  <1> DEFINE c == [Idle EXCEPT !.at = "look", !.want = p, !.todo = p]
  <1>2. p \in Seq(STRING) /\ p # <<>>
    BY WorldType DEF IInv
  <1>3. c \in Call /\ c.at = "look" /\ c.want = p /\ c.todo = p /\ c.fs = Outermost /\ c.got = 0
    BY <1>2 DEF Idle, Call, Outermost
  <1>4. Outermost \in DOMAIN objects /\ objects[Outermost].path \o p = p
    BY <1>2, ConcatEmptySeq DEF IInv, Contents
  <1>5. OnTheWay(c) /\ Checked(c)
    BY <1>2, <1>3, <1>4 DEF OnTheWay, Checked
  <1> QED BY <1>1, <1>3, <1>5, CallsOnly DEF Ask

\* The next archive on the way is open: the path is followed into it.
LEMMA EnterSound ==
  ASSUME IInv, NEW r \in Readers, calls[r].at # "idle",
         NEW fs \in DOMAIN objects,
         objects[fs].path = Append(objects[calls[r].fs].path, Name(r)),
         Len(calls[r].todo) # 1
  PROVE  LET c == [Idle EXCEPT !.at = "look", !.want = calls[r].want,
                               !.todo = Tail(calls[r].todo), !.fs = fs]
         IN c \in Call /\ OnTheWay(c) /\ Checked(c)
  <1> DEFINE c == [Idle EXCEPT !.at = "look", !.want = calls[r].want,
                               !.todo = Tail(calls[r].todo), !.fs = fs]
             p == objects[calls[r].fs].path
             todo == calls[r].todo
  <1>1. calls[r] \in Call /\ OnTheWay(calls[r])
    BY DEF IInv, TypeInv, CallsSound
  <1>2. todo \in Seq(STRING) /\ calls[r].want \in Seq(STRING) /\ todo # <<>>
        /\ calls[r].fs \in DOMAIN objects /\ p \o todo = calls[r].want
    BY <1>1 DEF Call, OnTheWay
  <1>3. p \in Seq(STRING)
    BY <1>2, ObjectType
  <1>4. Tail(todo) \in Seq(STRING) /\ Tail(todo) # <<>> /\ Append(p, Head(todo)) \o Tail(todo) = p \o todo
    BY <1>2, <1>3, PathStep
  <1>5. fs \in Nat
    BY LenProperties DEF IInv, TypeInv
  <1>6. /\ c \in Call /\ c.at = "look" /\ c.want = calls[r].want /\ c.todo = Tail(todo)
        /\ c.fs = fs /\ c.got = 0
    BY <1>2, <1>4, <1>5 DEF Idle, Call
  <1>7. objects[fs].path \o Tail(todo) = calls[r].want
    BY <1>2, <1>4 DEF Name
  <1> HIDE DEF c
  <1>8. OnTheWay(c) /\ Checked(c)
    BY <1>4, <1>6, <1>7 DEF OnTheWay, Checked
  <1> QED BY <1>6, <1>8 DEF c

LEMMA LookInv ==
  ASSUME IInv, NEW r \in Readers, Look(r)
  PROVE  IInv'
  <1> DEFINE fs == calls[r].fs
             c == [calls[r] EXCEPT !.at = "read"]
  <1>1. calls[r] \in Call /\ OnTheWay(calls[r]) /\ Checked(calls[r]) /\ calls[r].at = "look"
    BY DEF IInv, TypeInv, CallsSound, Look, In
  <1>2. UNCHANGED <<world, objects, cache, delivered>>
    BY DEF Look
  <1>3. CASE Refuse(r)
    BY <1>2, <1>3, Refused
  <1>4. CASE /\ Name(r) \in DOMAIN cache[fs] /\ ~Last(r)
             /\ Enter(r, cache[fs][Name(r)])
    <2>1. fs \in DOMAIN cache
      BY <1>1 DEF OnTheWay, IInv, TypeInv
    <2>2. cache[fs][Name(r)] \in DOMAIN objects
          /\ objects[cache[fs][Name(r)]].path = Append(objects[fs].path, Name(r))
      BY <1>4, <2>1 DEF IInv, Cached
    <2> QED BY <1>1, <1>2, <1>4, <2>2, EnterSound, CallsOnly DEF Enter, Goto, Last
  <1>5. CASE Goto(r, c) /\ (Last(r) \/ ~(objects[fs].depth + 1 > world.maxDepth))
    <2>1. /\ c \in Call /\ c.at = "read" /\ c.want = calls[r].want /\ c.todo = calls[r].todo
          /\ c.fs = fs /\ c.got = calls[r].got
      BY <1>1 DEF Call
    <2>2. fs \in DOMAIN objects /\ objects[fs].depth \in Nat
      BY <1>1, ObjectType DEF OnTheWay
    <2>3. world.maxDepth \in Nat /\ world.maxEntry \in Nat /\ calls[r].got = 0
      BY <1>1, WorldType DEF IInv, Checked
    <2>4. Len(c.todo) # 1 => objects[c.fs].depth + 1 <= world.maxDepth
      BY <1>5, <2>1, <2>2, <2>3 DEF Last
    <2> HIDE DEF c
    <2>5. OnTheWay(c)
      BY <1>1, <2>1 DEF OnTheWay
    <2>6. c.got <= world.maxEntry
      BY <2>1, <2>3
    <2>7. Checked(c)
      BY <2>1, <2>4, <2>6 DEF Checked
    <2> QED BY <1>2, <1>5, <2>1, <2>5, <2>7, CallsOnly DEF Goto
  <1> QED BY <1>3, <1>4, <1>5 DEF Look

LEMMA CallType ==
  ASSUME IInv, NEW r \in Readers
  PROVE  calls[r] \in Call /\ OnTheWay(calls[r]) /\ Checked(calls[r])
  BY DEF IInv, TypeInv, CallsSound

LEMMA RejectInv ==
  ASSUME IInv, NEW r \in Readers, Reject(r)
  PROVE  IInv'
  BY Refused DEF Reject

LEMMA ChunkInv ==
  ASSUME IInv, NEW r \in Readers, Chunk(r)
  PROVE  IInv'
  <1> DEFINE c == [calls[r] EXCEPT !.got = calls[r].got + 1]
  <1>1. calls[r] \in Call /\ OnTheWay(calls[r]) /\ Checked(calls[r]) /\ calls[r].at = "read"
    BY CallType DEF Chunk, In
  <1>2. CASE Refuse(r)
    BY <1>2, Refused DEF Chunk
  <1>3. CASE Goto(r, c) /\ ~(calls[r].got + 1 > world.maxEntry)
    <2>1. /\ c \in Call /\ c.at = "read" /\ c.want = calls[r].want /\ c.todo = calls[r].todo
          /\ c.fs = calls[r].fs /\ c.got = calls[r].got + 1 /\ c.got \in Nat
      BY <1>1 DEF Call
    <2>2. c.got <= world.maxEntry
      BY <1>3, <2>1, WorldType DEF IInv
    <2> HIDE DEF c
    <2>3. OnTheWay(c)
      BY <1>1, <2>1 DEF OnTheWay
    <2>4. Checked(c)
      BY <1>1, <2>1, <2>2 DEF Checked
    <2> QED BY <1>3, <2>1, <2>3, <2>4, CallsOnly DEF Goto, Chunk
  <1> QED BY <1>2, <1>3 DEF Chunk

LEMMA CatalogInv ==
  ASSUME IInv, NEW r \in Readers, Catalog(r)
  PROVE  IInv'
  <1> DEFINE c == [calls[r] EXCEPT !.listed = @ + 1]
  <1>1. calls[r] \in Call /\ OnTheWay(calls[r]) /\ Checked(calls[r]) /\ calls[r].at = "open"
    BY CallType DEF Catalog, In
  <1>2. CASE Refuse(r)
    BY <1>2, Refused DEF Catalog
  <1>3. CASE Goto(r, c)
    <2>1. /\ c \in Call /\ c.at = "open" /\ c.want = calls[r].want /\ c.todo = calls[r].todo
          /\ c.fs = calls[r].fs /\ c.got = calls[r].got
      BY <1>1 DEF Call
    <2> HIDE DEF c
    <2>2. OnTheWay(c)
      BY <1>1, <2>1 DEF OnTheWay
    <2>3. Checked(c)
      BY <1>1, <2>1 DEF Checked
    <2> QED BY <1>3, <2>1, <2>2, <2>3, CallsOnly DEF Goto, Catalog
  <1> QED BY <1>2, <1>3 DEF Catalog

\* A stream that ends well: an archive is opened next, a file delivered.
LEMMA EndInv ==
  ASSUME IInv, NEW r \in Readers, End(r)
  PROVE  IInv'
  <1> DEFINE k == calls[r]
             p == objects[k.fs].path
             c == [k EXCEPT !.at = "open"]
  <1>1. k \in Call /\ OnTheWay(k) /\ Checked(k) /\ k.at = "read"
    BY CallType DEF End, In
  <1>2. k.fs \in DOMAIN objects /\ k.todo # <<>> /\ p \o k.todo = k.want /\ k.got <= world.maxEntry
    BY <1>1 DEF OnTheWay, Checked
  <1>3. k.todo \in Seq(STRING) /\ p \in Seq(STRING) /\ objects[k.fs].depth = Len(p)
    BY <1>1, <1>2, ObjectType DEF Call
  <1>4. Entry(r) = Append(p, Head(k.todo)) /\ Entry(r) \in DOMAIN world.tree
        /\ k.got = world.tree[Entry(r)].size
    BY DEF Entry, Name, End, Readable
  <1>5. CASE Refuse(r) /\ UNCHANGED delivered
    BY <1>5, Refused DEF End
  <1>6. CASE Goto(r, c) /\ UNCHANGED delivered /\ ~Last(r) /\ ~world.tree[Entry(r)].damaged
    <2>1. /\ c \in Call /\ c.at = "open" /\ c.want = k.want /\ c.todo = k.todo
          /\ c.fs = k.fs /\ c.got = k.got
      BY <1>1 DEF Call
    <2>2. Fine(Append(p, Head(k.todo)))
      BY <1>2, <1>4, <1>6 DEF Fine
    <2> HIDE DEF c
    <2>3. OnTheWay(c)
      BY <1>1, <2>1 DEF OnTheWay
    <2>4. Checked(c)
      BY <1>1, <1>6, <2>1, <2>2 DEF Checked, Last
    <2> QED BY <1>6, <2>1, <2>3, <2>4, CallsOnly DEF Goto, End
  <1>7. CASE /\ Last(r) /\ Refuse(r) /\ ~world.tree[Entry(r)].damaged
             /\ delivered' = delivered \cup {[want |-> k.want, read |-> Entry(r), got |-> k.got]}
    <2> DEFINE d == [want |-> k.want, read |-> Entry(r), got |-> k.got]
    <2>1. UNCHANGED <<world, objects, cache>>
      BY DEF End
    <2>2. Entry(r) = k.want /\ Len(k.want) = Len(p) + 1 /\ Head(k.todo) \in STRING
      <3>1. Head(k.todo) \in STRING /\ Len(Append(p, Head(k.todo))) = Len(p) + 1
        BY <1>2, <1>3, PathStep
      <3>2. Append(p, Head(k.todo)) = p \o k.todo
        BY <1>2, <1>3, <1>7, PathStep DEF Last
      <3> QED BY <1>2, <1>4, <3>1, <3>2
    <2>3. Fine(k.want)
      BY <1>2, <1>4, <1>7, <2>2 DEF Fine
    <2>4. \A q \in Prefixes(k.want) : Fine(q)
      <3>1. Prefixes(k.want) = Prefixes(p) \cup {k.want}
        <4>1. Prefixes(Append(p, Head(k.todo))) = Prefixes(p) \cup {Append(p, Head(k.todo))}
          BY <1>3, <2>2, PrefixesOfAppend
        <4> QED BY <1>4, <2>2, <4>1
      <3> QED BY <1>2, <2>3, <3>1 DEF IInv, Contents
    <2>5. Len(k.want) - 1 <= world.maxDepth
      <3>1. Len(p) <= world.maxDepth /\ Len(p) \in Nat
        BY <1>2, <1>3, LenProperties DEF IInv, Contents
      <3> QED BY <2>2, <3>1
    <2>6. TypeInv' /\ Contents' /\ Cached' /\ CallsSound'
      <3>1. Idle \in Call /\ OnTheWay(Idle) /\ Checked(Idle)
        BY IdleSound
      <3>2. calls \in [Readers -> Call] /\ calls' = [calls EXCEPT ![r] = Idle]
        BY <1>7 DEF IInv, TypeInv, Refuse, Goto
      <3>3. \A q \in Readers : calls'[q] = IF q = r THEN Idle ELSE calls[q]
        BY <3>2
      <3>4. TypeInv' /\ Contents' /\ Cached'
        BY <2>1, <3>1, <3>2 DEF IInv, TypeInv, Contents, Cached, Fine
      <3>5. \A q \in Readers : OnTheWay(calls'[q]) /\ Checked(calls'[q])
        BY <3>1, <3>3 DEF IInv, CallsSound
      <3>6. CallsSound'
        BY <2>1, <3>5 DEF CallsSound, OnTheWay, Checked, Fine
      <3> QED BY <3>4, <3>6
    <2>7. ReadsWhole'
      <3>1. d.want = k.want /\ d.read = Entry(r) /\ d.got = k.got
        OBVIOUS
      <3>2. delivered' = delivered \cup {d}
        BY <1>7
      <3> HIDE DEF d
      <3> QED BY <1>4, <2>1, <2>2, <2>4, <2>5, <3>1, <3>2 DEF IInv, ReadsWhole, Fine
    <2> QED BY <2>6, <2>7 DEF IInv
  <1> QED BY <1>5, <1>6, <1>7 DEF End

\* A new file system, in the cache of its container.
LEMMA OpenedInv ==
  ASSUME IInv, NEW r \in Readers, Opened(r)
  PROVE  IInv'
  <1> DEFINE k == calls[r]
             fs == k.fs
             p == objects[fs].path
             q == Append(p, Head(k.todo))
             new == Len(objects) + 1
             o == [path |-> q, depth |-> objects[fs].depth + 1, inside |-> fs]
             FS == [path : Seq(STRING), depth : Nat, inside : Nat]
             c == [Idle EXCEPT !.at = "look", !.want = k.want, !.todo = Tail(k.todo), !.fs = new]
  <1>1. k \in Call /\ OnTheWay(k) /\ Checked(k) /\ k.at = "open"
    BY CallType DEF Opened, In
  <1>2. fs \in DOMAIN objects /\ k.todo # <<>> /\ p \o k.todo = k.want /\ Len(k.todo) # 1
    BY <1>1 DEF OnTheWay, Checked
  <1>3. k.todo \in Seq(STRING) /\ p \in Seq(STRING) /\ objects[fs].depth = Len(p)
        /\ objects[fs].depth \in Nat /\ fs \in Nat /\ k.want \in Seq(STRING)
    BY <1>1, <1>2, ObjectType DEF Call
  <1>4. q \in Seq(STRING) /\ Len(q) = Len(p) + 1 /\ Head(k.todo) \in STRING
    BY <1>2, <1>3, PathStep
  <1>5. Tail(k.todo) \in Seq(STRING) /\ Tail(k.todo) # <<>> /\ q \o Tail(k.todo) = k.want
    BY <1>2, <1>3, PathStep
  <1>6. Fine(q) /\ objects[fs].depth + 1 <= world.maxDepth
    BY <1>1, <1>2 DEF Checked
  <1>7. objects \in Seq(FS) /\ Len(objects) \in Nat /\ DOMAIN objects = 1..Len(objects)
    BY LenProperties DEF IInv, TypeInv
  <1>8. o \in FS /\ o.path = q /\ o.depth = objects[fs].depth + 1
    BY <1>3, <1>4
  <1>9. objects' = Append(objects, o) /\ UNCHANGED <<world, delivered>>
    BY DEF Opened, Entry, Name
  <1> HIDE DEF o
  <1>10. /\ objects' \in Seq(FS) /\ Len(objects') = new
         /\ \A i \in 1..Len(objects) : objects'[i] = objects[i]
         /\ objects'[new] = o
    BY <1>7, <1>8, <1>9, AppendProperties
  <1>11. new \in Nat /\ new \notin DOMAIN objects /\ DOMAIN objects' = DOMAIN objects \cup {new}
    <2>1. DOMAIN objects' = 1..Len(objects')
      BY <1>10, LenProperties
    <2> QED BY <1>7, <1>10, <2>1
  <1>12. \A i \in DOMAIN objects : objects'[i] = objects[i]
    BY <1>7, <1>10
  <1>13. calls' = [calls EXCEPT ![r] = c]
    BY DEF Opened, Enter, Goto
  <1>14. cache' = [i \in DOMAIN cache \cup {new} |->
                    IF i = new THEN CacheInside(fs)
                    ELSE IF i = fs THEN With(cache[i], Name(r), new) ELSE cache[i]]
    BY DEF Opened
  <1>15. /\ c \in Call /\ c.at = "look" /\ c.want = k.want /\ c.todo = Tail(k.todo)
         /\ c.fs = new /\ c.got = 0
    BY <1>3, <1>5, <1>11 DEF Idle, Call
  <1> HIDE DEF new, c
  <1>16. TypeInv'
    <2>1. calls' \in [Readers -> Call]
      BY <1>13, <1>15 DEF IInv, TypeInv
    <2>2. DOMAIN cache' = DOMAIN objects'
      BY <1>11, <1>14 DEF IInv, TypeInv
    <2> QED BY <1>9, <1>10, <2>1, <2>2 DEF IInv, TypeInv
  <1>17. Contents'
    <2>1. Outermost \in DOMAIN objects' /\ objects'[Outermost].path = <<>>
      BY <1>11, <1>12 DEF IInv, Contents
    <2>2. ASSUME NEW i \in DOMAIN objects
          PROVE  /\ objects'[i].depth = Len(objects'[i].path)
                 /\ objects'[i].depth <= world.maxDepth
                 /\ \A s \in Prefixes(objects'[i].path) : Fine(s)
      BY <1>12 DEF IInv, Contents
    <2>3. /\ objects'[new].depth = Len(objects'[new].path)
          /\ objects'[new].depth <= world.maxDepth
      BY <1>3, <1>4, <1>6, <1>8, <1>10
    <2>4. \A s \in Prefixes(objects'[new].path) : Fine(s)
      <3>1. Prefixes(q) = Prefixes(p) \cup {q}
        BY <1>3, <1>4, PrefixesOfAppend
      <3>2. \A s \in Prefixes(p) : Fine(s)
        BY <1>2 DEF IInv, Contents
      <3> HIDE DEF q
      <3> QED BY <1>6, <1>8, <1>10, <3>1, <3>2
    <2>5. \A s : Fine(s)' = Fine(s)
      BY <1>9 DEF Fine
    <2>6. \A i \in DOMAIN objects' :
            /\ objects'[i].depth = Len(objects'[i].path)
            /\ objects'[i].depth <= world.maxDepth
            /\ \A s \in Prefixes(objects'[i].path) : Fine(s)
      BY <1>11, <2>2, <2>3, <2>4
    <2> QED BY <1>9, <2>1, <2>6 DEF Contents, Fine
  <1>18. Cached'
    <2> SUFFICES ASSUME NEW i \in DOMAIN cache', NEW n \in DOMAIN cache'[i]
                 PROVE  /\ cache'[i][n] \in DOMAIN objects'
                        /\ objects'[cache'[i][n]].path = Append(objects'[i].path, n)
      BY DEF Cached
    <2>1. DOMAIN cache = DOMAIN objects
      BY DEF IInv, TypeInv
    <2>2. CASE i = new
      <3>1. cache'[i] = <<>>
        BY <1>14, <2>2 DEF CacheInside
      <3> QED BY <3>1
    <2>3. CASE i # new /\ i = fs /\ n = Name(r)
      <3>1. cache'[i][n] = new
        BY <1>14, <2>3 DEF With
      <3> QED BY <1>2, <1>8, <1>10, <1>11, <1>12, <2>3, <3>1 DEF Name
    <2>4. CASE i # new /\ ~(i = fs /\ n = Name(r))
      <3>1. i \in DOMAIN cache /\ n \in DOMAIN cache[i] /\ cache'[i][n] = cache[i][n]
        BY <1>14, <2>4 DEF With
      <3>2. /\ cache[i][n] \in DOMAIN objects
            /\ objects[cache[i][n]].path = Append(objects[i].path, n)
        BY <3>1 DEF IInv, Cached
      <3> QED BY <1>11, <1>12, <2>1, <3>1, <3>2
    <2> QED BY <2>2, <2>3, <2>4
  <1>19. CallsSound'
    <2> SUFFICES ASSUME NEW g \in Readers
                 PROVE  OnTheWay(calls[g])' /\ Checked(calls[g])'
      BY DEF CallsSound
    <2>1. CASE g = r
      <3>1. calls'[g] = c
        BY <1>13, <2>1 DEF IInv, TypeInv
      <3>2. objects'[new].path \o Tail(k.todo) = k.want
        BY <1>5, <1>8, <1>10
      <3> QED BY <1>5, <1>11, <1>15, <3>1, <3>2 DEF OnTheWay, Checked
    <2>2. CASE g # r
      <3>1. calls'[g] = calls[g]
        BY <1>13, <2>2 DEF IInv, TypeInv
      <3>2. OnTheWay(calls[g]) /\ Checked(calls[g]) /\ calls[g] \in Call
        BY CallType
      <3>3. CASE calls[g].at = "idle"
        BY <3>1, <3>3 DEF OnTheWay, Checked
      <3>4. CASE calls[g].at # "idle"
        <4>1. calls[g].fs \in DOMAIN objects
          BY <3>2, <3>4 DEF OnTheWay
        <4>2. objects'[calls[g].fs] = objects[calls[g].fs] /\ calls[g].fs \in DOMAIN objects'
          BY <1>11, <1>12, <4>1
        <4>3. OnTheWay(calls[g])'
          BY <3>1, <3>2, <4>2 DEF OnTheWay
        <4>4. Checked(calls[g])'
          BY <1>9, <3>1, <3>2, <4>2 DEF Checked, Fine
        <4> QED BY <4>3, <4>4
      <3> QED BY <3>3, <3>4
    <2> QED BY <2>1, <2>2
  <1>20. ReadsWhole'
    BY <1>9 DEF IInv, ReadsWhole, Fine
  <1> QED BY <1>16, <1>17, <1>18, <1>19, <1>20 DEF IInv
-----------------------------------------------------------------------------
\* Every step keeps the invariant.
LEMMA StepInv == IInv /\ [Next]_vars => IInv'
  <1> SUFFICES ASSUME IInv, [Next]_vars PROVE IInv'
    OBVIOUS
  <1>1. ASSUME UNCHANGED <<world, objects, cache, delivered, calls>> PROVE IInv'
    BY <1>1 DEF IInv, TypeInv, Contents, Cached, CallsSound, OnTheWay, Checked, ReadsWhole, Fine
  <1>2. CASE Exhaust \/ Cancel
    BY <1>1, <1>2 DEF Exhaust, Cancel
  <1>3. ASSUME NEW r \in Readers,
               Ask(r) \/ Look(r) \/ Reject(r) \/ Chunk(r) \/ End(r) \/ Catalog(r) \/ Opened(r)
        PROVE  IInv'
    BY <1>3, AskInv, LookInv, RejectInv, ChunkInv, EndInv, CatalogInv, OpenedInv
  <1>4. CASE UNCHANGED vars
    BY <1>1, <1>4 DEF vars
  <1> QED BY <1>2, <1>3, <1>4 DEF Next

\* Whatever the archives and the limits are, and however goroutines share the
\* caches, a read delivers the entry it was asked for, whole, through archives
\* that are whole and within the limits of depth and size.
THEOREM WholeReads == Spec => []ReadsWhole
  <1>1. Spec => []IInv
    BY InitInv, StepInv, PTL DEF Spec
  <1>2. IInv => ReadsWhole
    BY DEF IInv
  <1> QED BY <1>1, <1>2, PTL
-----------------------------------------------------------------------------
(* What is kept is billed.  The sums of what is open and of what is in     *)
(* hand grow only with the totals.  An entry is opened again only by those *)
(* who were already reading it when it was not in the cache of its         *)
(* container: the copies and those who may still open one are together no  *)
(* more than the goroutines.                                               *)

Copies(fs, n) ==
  {o \in Inner : objects[o].inside = fs /\ objects[o].path = Append(objects[fs].path, n)}

Opening(fs, n) ==
  {r \in Readers : /\ calls[r].at \in {"read", "open"} /\ calls[r].fs = fs
                   /\ ~Last(r) /\ Name(r) = n}

\* An archive is kept with the file system it was read from.
Contained ==
  \A o \in Inner :
    /\ objects[o].inside \in DOMAIN objects
    /\ \E n \in STRING : objects[o].path = Append(objects[objects[o].inside].path, n)

CopiesBounded ==
  \A fs \in DOMAIN objects, n \in STRING :
    /\ n \notin DOMAIN cache[fs] => Copies(fs, n) = {}
    /\ Cardinality(Copies(fs, n)) + Cardinality(Opening(fs, n)) <= Cardinality(Readers)

\* What is about to be opened has been read to its end.
HeldWhole ==
  \A r \in Readers : calls[r].at = "open" => calls[r].got = world.tree[Entry(r)].size

\* The sums, and the limits of the totals.
SumsBilled ==
  /\ total \in Nat /\ entries \in Nat
  /\ SumFunctionOnSet(Sizes, Inner) + SumFunctionOnSet(InHand, Readers) <= total
  /\ SumFunctionOnSet(Files, Inner) + SumFunctionOnSet(Listed, Readers) <= entries
  /\ total <= world.maxTotal /\ entries <= world.maxEntries

BillInv == Contained /\ CopiesBounded /\ HeldWhole /\ SumsBilled

LEMMA OwnPrefix ==
  ASSUME NEW p \in Seq(STRING), p # <<>>
  PROVE  p \in Prefixes(p)
<1>1. Len(p) \in Nat /\ Len(p) # 0
  BY EmptySeq, LenProperties
<1>2. Len(p) \in 1..Len(p) /\ SubSeq(p, 1, Len(p)) = p
  BY <1>1, SubSeqFull
<1> QED
  BY <1>2 DEF Prefixes

\* The archives that are open, and what they are, are finite.
LEMMA InnerType ==
  ASSUME IInv, Contained
  PROVE  /\ Inner \subseteq DOMAIN objects /\ IsFiniteSet(Inner)
         /\ DOMAIN objects = 1..Len(objects) /\ Len(objects) \in Nat
         /\ DOMAIN cache = DOMAIN objects
         /\ \A o \in Inner : Sizes[o] \in Nat /\ Files[o] \in Nat
         /\ \A r \in Readers : InHand[r] \in Nat /\ Listed[r] \in Nat
         /\ \A r \in Readers : InHand[r] = calls[r].got /\ Listed[r] = calls[r].listed
<1>1. /\ objects \in Seq([path : Seq(STRING), depth : Nat, inside : Nat])
      /\ DOMAIN objects = 1..Len(objects) /\ Len(objects) \in Nat
      /\ DOMAIN cache = DOMAIN objects
  BY LenProperties DEF IInv, TypeInv
<1>2. IsFiniteSet(DOMAIN objects)
  BY <1>1, FS_Interval
<1>3. Inner \in SUBSET DOMAIN objects
  BY DEF Inner
<1>4. IsFiniteSet(Inner)
  BY <1>2, <1>3, FS_Subset
<1>5. ASSUME NEW o \in Inner PROVE Sizes[o] \in Nat /\ Files[o] \in Nat
  <2>1. o \in DOMAIN objects /\ objects[o].path \in Seq(STRING)
    BY ObjectType DEF Inner
  <2>2. PICK n \in STRING : objects[o].path = Append(objects[objects[o].inside].path, n)
    BY DEF Contained
  <2>3. objects[objects[o].inside].path \in Seq(STRING)
    BY ObjectType DEF Contained
  <2>4. objects[o].path # <<>>
    BY <2>2, <2>3, AppendProperties
  <2>5. objects[o].path \in Prefixes(objects[o].path)
    BY <2>1, <2>4, OwnPrefix
  <2>6. objects[o].path \in DOMAIN world.tree
    BY <2>1, <2>5 DEF IInv, Contents, Fine
  <2> QED
    BY <2>6, WorldsAssumption DEF Sizes, Files, IInv, TypeInv
<1>6. \A r \in Readers : calls[r] \in Call
  BY CallType
<1> QED
  BY <1>1, <1>3, <1>4, <1>5, <1>6 DEF InHand, Listed, Call

\* The bill of a step: what comes in hand is added to the total.
LEMMA BillSums ==
  ASSUME NEW kept \in Nat, NEW held \in Nat, NEW hold \in Nat,
         NEW had \in Nat, NEW has \in Nat, NEW bill \in Nat, NEW sum \in Nat,
         kept + held <= bill, hold - has = held - had, has + bill <= had + sum
  PROVE  kept + hold <= sum
OBVIOUS

LEMMA BillCopies ==
  ASSUME NEW copies \in Nat, NEW opening \in Nat, NEW most \in Nat, NEW left \in Nat,
         copies + opening <= most
  PROVE  /\ left <= opening => copies + left <= most
         /\ left = opening - 1 => copies + 1 + left <= most
OBVIOUS

\* A step of one goroutine that opens nothing: what it takes in hand it bills,
\* and what it begins to read is not in the cache.
LEMMA BillCall ==
  ASSUME IInv, BillInv, UNCHANGED <<world, objects, cache>>,
         NEW r \in Readers, NEW c \in Call, calls' = [calls EXCEPT ![r] = c],
         total' \in Nat, entries' \in Nat,
         total' <= world.maxTotal, entries' <= world.maxEntries,
         c.got + total <= calls[r].got + total',
         c.listed + entries <= calls[r].listed + entries',
         c.at = "open" => c.got = world.tree[Append(objects[c.fs].path, Head(c.todo))].size,
         c.at \in {"read", "open"} /\ Len(c.todo) # 1 =>
           \/ /\ calls[r].at \in {"read", "open"}
              /\ c.fs = calls[r].fs /\ c.todo = calls[r].todo
           \/ Head(c.todo) \notin DOMAIN cache[c.fs]
  PROVE  BillInv'
<1>1. \A q \in Readers : calls'[q] = IF q = r THEN c ELSE calls[q]
  BY DEF IInv, TypeInv
<1>2. Inner' = Inner /\ Sizes' = Sizes /\ Files' = Files
  BY DEF Inner, Sizes, Files
<1>3. Contained'
  BY <1>2 DEF BillInv, Contained
<1>4. HeldWhole'
  BY <1>1 DEF BillInv, HeldWhole, Entry, Name
<1>5. SumsBilled'
  <2> DEFINE held == SumFunctionOnSet(InHand, Readers)
             listed == SumFunctionOnSet(Listed, Readers)
             sizes == SumFunctionOnSet(Sizes, Inner)
             files == SumFunctionOnSet(Files, Inner)
  <2>1. /\ \A q \in Readers : InHand[q] \in Nat /\ Listed[q] \in Nat
        /\ InHand[r] = calls[r].got /\ Listed[r] = calls[r].listed
        /\ sizes \in Nat /\ files \in Nat
    BY InnerType, SumType DEF BillInv
  <2>2. /\ \A q \in Readers : InHand'[q] = IF q = r THEN c.got ELSE InHand[q]
        /\ \A q \in Readers : Listed'[q] = IF q = r THEN c.listed ELSE Listed[q]
        /\ c.got \in Nat /\ c.listed \in Nat
    BY <1>1 DEF InHand, Listed, Call
  <2>3. held \in Nat /\ held' \in Nat /\ held' - c.got = held - calls[r].got
    <3>1. /\ \A q \in Readers : InHand[q] \in Nat /\ InHand'[q] \in Nat
          /\ \A q \in Readers \ {r} : InHand[q] = InHand'[q]
          /\ InHand'[r] = c.got /\ InHand[r] = calls[r].got
      BY <2>1, <2>2
    <3> QED
      BY <3>1, SumChanged, ReadersAssumption
  <2>4. listed \in Nat /\ listed' \in Nat /\ listed' - c.listed = listed - calls[r].listed
    <3>1. /\ \A q \in Readers : Listed[q] \in Nat /\ Listed'[q] \in Nat
          /\ \A q \in Readers \ {r} : Listed[q] = Listed'[q]
          /\ Listed'[r] = c.listed /\ Listed[r] = calls[r].listed
      BY <2>1, <2>2
    <3> QED
      BY <3>1, SumChanged, ReadersAssumption
  <2>5. /\ total \in Nat /\ entries \in Nat
        /\ sizes + held <= total /\ files + listed <= entries
    BY DEF BillInv, SumsBilled
  <2>6. sizes' = sizes /\ files' = files
    BY <1>2
  <2>7. calls[r].got \in Nat /\ calls[r].listed \in Nat
    BY <2>1
  <2> HIDE DEF held, listed, sizes, files
  <2>8. sizes' + held' <= total'
    <3>1. c.got \in Nat /\ sizes \in Nat /\ total \in Nat
      BY <2>1, <2>2, <2>5
    <3>2. sizes + held' <= total'
      BY <2>3, <2>5, <2>7, <3>1, BillSums
    <3> QED
      BY <2>6, <3>1, <3>2
  <2>9. files' + listed' <= entries'
    <3>1. c.listed \in Nat /\ files \in Nat /\ entries \in Nat
      BY <2>1, <2>2, <2>5
    <3>2. files + listed' <= entries'
      BY <2>4, <2>5, <2>7, <3>1, BillSums
    <3> QED
      BY <2>6, <3>1, <3>2
  <2> QED
    BY <2>8, <2>9 DEF SumsBilled, held, listed, sizes, files
<1>6. CopiesBounded'
  <2> SUFFICES ASSUME NEW fs \in DOMAIN objects, NEW n \in STRING
               PROVE  /\ n \notin DOMAIN cache[fs] => Copies(fs, n)' = {}
                      /\ Cardinality(Copies(fs, n)') + Cardinality(Opening(fs, n)')
                           <= Cardinality(Readers)
    BY DEF CopiesBounded
  <2>1. Copies(fs, n)' = Copies(fs, n)
    BY <1>2 DEF Copies
  <2>2. /\ n \notin DOMAIN cache[fs] => Copies(fs, n) = {}
        /\ Cardinality(Copies(fs, n)) + Cardinality(Opening(fs, n)) <= Cardinality(Readers)
    BY DEF BillInv, CopiesBounded
  <2>3. /\ IsFiniteSet(Opening(fs, n)) /\ Cardinality(Opening(fs, n)) \in Nat
        /\ Opening(fs, n)' \subseteq Readers /\ Cardinality(Readers) \in Nat
    BY ReadersAssumption, FS_Subset, FS_CardinalityType DEF Opening
  <2>4. IsFiniteSet(Copies(fs, n)) /\ Cardinality(Copies(fs, n)) \in Nat
    BY InnerType, FS_Subset, FS_CardinalityType DEF BillInv, Copies
  <2>5. Cardinality(Opening(fs, n)') <= Cardinality(Readers) /\ Cardinality(Opening(fs, n)') \in Nat
    BY <2>3, ReadersAssumption, FS_Subset, FS_CardinalityType
  <2>6. CASE Opening(fs, n)' \subseteq Opening(fs, n)
    <3>1. Cardinality(Opening(fs, n)') <= Cardinality(Opening(fs, n))
      BY <2>3, <2>6, FS_Subset
    <3> QED
      BY <2>1, <2>2, <2>3, <2>4, <2>5, <3>1
  <2>7. CASE ~(Opening(fs, n)' \subseteq Opening(fs, n))
    <3>1. PICK q \in Readers : q \in Opening(fs, n)' /\ q \notin Opening(fs, n)
      BY <2>3, <2>7
    <3>2. q = r
      BY <1>1, <3>1 DEF Opening, Last, Name
    <3>3. c.at \in {"read", "open"} /\ c.fs = fs /\ Len(c.todo) # 1 /\ Head(c.todo) = n
      BY <1>1, <3>1, <3>2 DEF Opening, Last, Name
    <3>4. n \notin DOMAIN cache[fs]
      BY <3>1, <3>2, <3>3 DEF Opening, Last, Name
    <3>5. Cardinality(Copies(fs, n)) = 0
      BY <2>2, <3>4, FS_EmptySet
    <3> QED
      BY <2>1, <2>2, <2>5, <3>5
  <2> QED
    BY <2>6, <2>7
<1> QED
  BY <1>3, <1>4, <1>5, <1>6 DEF BillInv

LEMMA BillRefused ==
  ASSUME IInv, BillInv, UNCHANGED <<world, objects, cache, total, entries>>,
         NEW r \in Readers, Refuse(r)
  PROVE  BillInv'
<1>1. Idle \in Call /\ Idle.at = "idle" /\ Idle.got = 0 /\ Idle.listed = 0
  BY IdleSound DEF Idle
<1>2. calls[r] \in Call /\ calls[r].got \in Nat /\ calls[r].listed \in Nat
  BY CallType DEF Call
<1>3. total \in Nat /\ entries \in Nat /\ total <= world.maxTotal /\ entries <= world.maxEntries
  BY DEF BillInv, SumsBilled
<1>4. 0 + total <= calls[r].got + total' /\ 0 + entries <= calls[r].listed + entries'
  BY <1>2, <1>3
<1> QED
  BY <1>1, <1>3, <1>4, BillCall DEF Refuse, Goto

\* The step of a goroutine that neither reads, lists nor opens.
LEMMA BillSame ==
  ASSUME IInv, BillInv, UNCHANGED <<world, objects, cache, total, entries>>,
         NEW r \in Readers, NEW c \in Call, Goto(r, c),
         c.got <= calls[r].got, c.listed <= calls[r].listed,
         c.at # "open",
         c.at = "read" /\ Len(c.todo) # 1 => Head(c.todo) \notin DOMAIN cache[c.fs]
  PROVE  BillInv'
<1>1. calls[r] \in Call /\ calls[r].got \in Nat /\ calls[r].listed \in Nat
  BY CallType DEF Call
<1>2. total \in Nat /\ entries \in Nat /\ total <= world.maxTotal /\ entries <= world.maxEntries
  BY DEF BillInv, SumsBilled
<1>3. c.got \in Nat /\ c.listed \in Nat
  BY DEF Call
<1>4. c.got + total <= calls[r].got + total /\ c.listed + entries <= calls[r].listed + entries
  BY <1>1, <1>2, <1>3
<1> QED
  BY <1>1, <1>2, <1>4, BillCall DEF Goto

LEMMA BillAsk ==
  ASSUME IInv, BillInv, NEW r \in Readers, Ask(r)
  PROVE  BillInv'
<1>1. PICK p \in world.wanted :
        Goto(r, [Idle EXCEPT !.at = "look", !.want = p, !.todo = p])
  BY DEF Ask
<1> DEFINE c == [Idle EXCEPT !.at = "look", !.want = p, !.todo = p]
<1>2. p \in Seq(STRING)
  BY WorldType DEF IInv
<1>3. c \in Call /\ c.at = "look" /\ c.got = 0 /\ c.listed = 0
  BY <1>2 DEF Idle, Call
<1>4. calls[r].got \in Nat /\ calls[r].listed \in Nat
  BY CallType DEF Call
<1> HIDE DEF c
<1>5. c.got <= calls[r].got /\ c.listed <= calls[r].listed
  BY <1>3, <1>4
<1> QED
  BY <1>1, <1>3, <1>5, BillSame DEF Ask, c

LEMMA BillLook ==
  ASSUME IInv, BillInv, NEW r \in Readers, Look(r)
  PROVE  BillInv'
<1> DEFINE fs == calls[r].fs
           c == [calls[r] EXCEPT !.at = "read"]
           d == [Idle EXCEPT !.at = "look", !.want = calls[r].want,
                             !.todo = Tail(calls[r].todo), !.fs = cache[fs][Name(r)]]
<1>1. /\ calls[r] \in Call /\ OnTheWay(calls[r]) /\ calls[r].at = "look"
      /\ calls[r].got \in Nat /\ calls[r].listed \in Nat
  BY CallType DEF Look, In, Call
<1>2. UNCHANGED <<world, objects, cache, total, entries>>
  BY DEF Look
<1>3. CASE Refuse(r)
  BY <1>2, <1>3, BillRefused
<1>4. CASE Enter(r, cache[fs][Name(r)]) /\ Name(r) \in DOMAIN cache[fs] /\ ~Last(r)
  <2>1. fs \in DOMAIN cache
    BY <1>1 DEF OnTheWay, IInv, TypeInv
  <2>2. /\ cache[fs][Name(r)] \in DOMAIN objects
        /\ objects[cache[fs][Name(r)]].path = Append(objects[fs].path, Name(r))
    BY <1>4, <2>1 DEF IInv, Cached
  <2>3. d \in Call
    BY <1>1, <1>4, <2>2, EnterSound DEF Last
  <2>4. d.at = "look" /\ d.got = 0 /\ d.listed = 0
    BY DEF Idle
  <2>5. Goto(r, d)
    BY <1>4 DEF Enter
  <2> HIDE DEF d
  <2> QED
    BY <1>1, <1>2, <2>3, <2>4, <2>5, BillSame
<1>5. CASE Goto(r, c) /\ (Last(r) \/ Name(r) \notin DOMAIN cache[fs])
  <2>1. /\ c \in Call /\ c.at = "read" /\ c.todo = calls[r].todo /\ c.fs = fs
        /\ c.got = calls[r].got /\ c.listed = calls[r].listed
    BY <1>1 DEF Call
  <2> HIDE DEF c
  <2>2. c.got <= calls[r].got /\ c.listed <= calls[r].listed
    BY <1>1, <2>1
  <2> QED
    BY <1>2, <1>5, <2>1, <2>2, BillSame DEF Last, Name
<1> QED
  BY <1>3, <1>4, <1>5 DEF Look

LEMMA BillReject ==
  ASSUME IInv, BillInv, NEW r \in Readers, Reject(r)
  PROVE  BillInv'
BY BillRefused DEF Reject

\* A chunk is billed, within the limit, before it is in hand.
LEMMA BillChunk ==
  ASSUME IInv, BillInv, NEW r \in Readers, Chunk(r)
  PROVE  BillInv'
<1> DEFINE c == [calls[r] EXCEPT !.got = calls[r].got + 1]
<1>1. /\ calls[r] \in Call /\ calls[r].at = "read"
      /\ calls[r].got \in Nat /\ calls[r].listed \in Nat
  BY CallType DEF Chunk, In, Call
<1>2. /\ total \in Nat /\ entries \in Nat /\ world.maxTotal \in Nat
      /\ total <= world.maxTotal /\ entries <= world.maxEntries
  BY WorldsAssumption DEF BillInv, SumsBilled, IInv, TypeInv
<1>3. UNCHANGED <<world, objects, cache, entries>>
  BY DEF Chunk
<1>4. CASE Refuse(r) /\ UNCHANGED total
  BY <1>3, <1>4, BillRefused
<1>5. CASE Goto(r, c) /\ total' = total + 1 /\ ~(total + 1 > world.maxTotal)
  <2>1. /\ c \in Call /\ c.at = "read" /\ c.todo = calls[r].todo /\ c.fs = calls[r].fs
        /\ c.got = calls[r].got + 1 /\ c.listed = calls[r].listed
    BY <1>1 DEF Call
  <2> HIDE DEF c
  <2>2. /\ total' \in Nat /\ total' <= world.maxTotal
        /\ c.got + total <= calls[r].got + total'
        /\ c.listed + entries <= calls[r].listed + entries'
    BY <1>1, <1>2, <1>3, <1>5, <2>1
  <2> QED
    BY <1>1, <1>2, <1>3, <1>5, <2>1, <2>2, BillCall DEF Goto
<1> QED
  BY <1>4, <1>5 DEF Chunk, Billed

LEMMA BillCatalog ==
  ASSUME IInv, BillInv, NEW r \in Readers, Catalog(r)
  PROVE  BillInv'
<1> DEFINE c == [calls[r] EXCEPT !.listed = @ + 1]
<1>1. /\ calls[r] \in Call /\ calls[r].at = "open"
      /\ calls[r].got \in Nat /\ calls[r].listed \in Nat
  BY CallType DEF Catalog, In, Call
<1>2. /\ total \in Nat /\ entries \in Nat /\ world.maxEntries \in Nat
      /\ total <= world.maxTotal /\ entries <= world.maxEntries
  BY WorldsAssumption DEF BillInv, SumsBilled, IInv, TypeInv
<1>3. UNCHANGED <<world, objects, cache, total>>
  BY DEF Catalog
<1>4. CASE Refuse(r) /\ UNCHANGED entries
  BY <1>3, <1>4, BillRefused
<1>5. CASE Goto(r, c) /\ entries' = entries + 1 /\ ~(entries + 1 > world.maxEntries)
  <2>1. /\ c \in Call /\ c.at = "open" /\ c.todo = calls[r].todo /\ c.fs = calls[r].fs
        /\ c.got = calls[r].got /\ c.listed = calls[r].listed + 1
    BY <1>1 DEF Call
  <2>2. calls[r].got = world.tree[Append(objects[calls[r].fs].path, Head(calls[r].todo))].size
    BY <1>1 DEF BillInv, HeldWhole, Entry, Name
  <2> HIDE DEF c
  <2>3. /\ entries' \in Nat /\ entries' <= world.maxEntries
        /\ c.got + total <= calls[r].got + total'
        /\ c.listed + entries <= calls[r].listed + entries'
    BY <1>1, <1>2, <1>3, <1>5, <2>1
  <2> QED
    BY <1>1, <1>2, <1>3, <1>5, <2>1, <2>2, <2>3, BillCall DEF Goto
<1> QED
  BY <1>4, <1>5 DEF Catalog

LEMMA BillEnd ==
  ASSUME IInv, BillInv, NEW r \in Readers, End(r)
  PROVE  BillInv'
<1> DEFINE c == [calls[r] EXCEPT !.at = "open"]
<1>1. /\ calls[r] \in Call /\ calls[r].at = "read"
      /\ calls[r].got \in Nat /\ calls[r].listed \in Nat
  BY CallType DEF End, In, Call
<1>2. UNCHANGED <<world, objects, cache, total, entries>>
  BY DEF End
<1>3. CASE Refuse(r)
  BY <1>2, <1>3, BillRefused
<1>4. CASE Goto(r, c)
  <2>1. /\ c \in Call /\ c.at = "open" /\ c.todo = calls[r].todo /\ c.fs = calls[r].fs
        /\ c.got = calls[r].got /\ c.listed = calls[r].listed
    BY <1>1 DEF Call
  <2>2. calls[r].got = world.tree[Append(objects[calls[r].fs].path, Head(calls[r].todo))].size
    BY DEF End, Entry, Name
  <2>3. total \in Nat /\ entries \in Nat /\ total <= world.maxTotal /\ entries <= world.maxEntries
    BY DEF BillInv, SumsBilled
  <2> HIDE DEF c
  <2>4. c.got + total <= calls[r].got + total' /\ c.listed + entries <= calls[r].listed + entries'
    BY <1>1, <1>2, <2>1, <2>3
  <2> QED
    BY <1>1, <1>2, <1>4, <2>1, <2>2, <2>3, <2>4, BillCall DEF Goto
<1> QED
  BY <1>3, <1>4 DEF End

\* What was in hand is kept: a copy more, and one less who may open another.
LEMMA BillOpened ==
  ASSUME IInv, BillInv, NEW r \in Readers, Opened(r)
  PROVE  BillInv'
<1> DEFINE k == calls[r]
           fs == k.fs
           p == objects[fs].path
           name == Name(r)
           q == Append(p, name)
           new == Len(objects) + 1
           o == [path |-> q, depth |-> objects[fs].depth + 1, inside |-> fs]
           c == [Idle EXCEPT !.at = "look", !.want = k.want, !.todo = Tail(k.todo), !.fs = new]
           FS == [path : Seq(STRING), depth : Nat, inside : Nat]
<1>1. /\ k \in Call /\ OnTheWay(k) /\ Checked(k) /\ k.at = "open"
      /\ k.got \in Nat /\ k.listed \in Nat
  BY CallType DEF Opened, In, Call
<1>2. /\ fs \in DOMAIN objects /\ p \in Seq(STRING) /\ objects[fs].depth \in Nat
      /\ k.todo # <<>> /\ ~Last(r) /\ k.todo \in Seq(STRING)
  BY <1>1, ObjectType DEF OnTheWay, Checked, Last, Call
<1>3. name \in STRING /\ q \in Seq(STRING) /\ q = Entry(r)
  BY <1>2, PathStep DEF Name, Entry
<1>4. /\ k.got = world.tree[q].size /\ k.listed = world.tree[q].files
      /\ world.tree[q].size \in Nat /\ world.tree[q].files \in Nat
  <2>1. k.got = world.tree[Entry(r)].size /\ k.listed = world.tree[Entry(r)].files
    BY <1>1 DEF BillInv, HeldWhole, Opened
  <2> HIDE DEF q
  <2> QED
    BY <1>1, <1>3, <2>1
<1>5. /\ objects \in Seq(FS) /\ Len(objects) \in Nat /\ DOMAIN objects = 1..Len(objects)
      /\ DOMAIN cache = DOMAIN objects
  BY LenProperties DEF IInv, TypeInv
<1>6. o \in FS /\ o.path = q /\ o.inside = fs
  <2>1. fs \in Nat
    BY <1>2, <1>5
  <2>2. objects[fs].depth + 1 \in Nat
    BY <1>2
  <2>3. q \in Seq(STRING)
    BY <1>3
  <2> HIDE DEF q
  <2> QED
    BY <2>1, <2>2, <2>3
<1>7. objects' = Append(objects, o) /\ UNCHANGED <<world, total, entries>>
  BY <1>3 DEF Opened
<1>8. calls' = [calls EXCEPT ![r] = c]
  BY DEF Opened, Enter, Goto
<1>9. c.at = "look" /\ c.got = 0 /\ c.listed = 0
  BY DEF Idle
<1>10. cache' = [i \in DOMAIN cache \cup {new} |->
                  IF i = new THEN CacheInside(fs)
                  ELSE IF i = fs THEN With(cache[i], name, new) ELSE cache[i]]
  BY DEF Opened
<1> HIDE DEF o, c, q, name
<1>11. /\ objects' \in Seq(FS) /\ DOMAIN objects' = 1..new
       /\ \A i \in DOMAIN objects : objects'[i] = objects[i]
       /\ objects'[new] = o
  <2>1. /\ objects' \in Seq(FS) /\ Len(objects') = new
        /\ \A i \in 1..Len(objects) : objects'[i] = objects[i]
        /\ objects'[new] = o
    BY <1>5, <1>6, <1>7, AppendProperties
  <2> QED
    BY <1>5, <2>1, LenProperties
<1>12. /\ new \notin DOMAIN objects /\ DOMAIN objects' = DOMAIN objects \cup {new}
       /\ new # Outermost /\ Outermost \in DOMAIN objects
  <2>1. Outermost \in DOMAIN objects
    BY DEF IInv, Contents
  <2>2. new \notin 1..Len(objects) /\ 1..new = (1..Len(objects)) \cup {new}
    BY <1>5
  <2> HIDE DEF new
  <2> QED
    BY <1>5, <1>11, <2>1, <2>2
<1> HIDE DEF new
<1>13. Inner' = Inner \cup {new} /\ new \notin Inner /\ Inner \subseteq DOMAIN objects
  BY <1>12 DEF Inner
<1>14. \A g \in Readers : calls'[g] = IF g = r THEN c ELSE calls[g]
  BY <1>8 DEF IInv, TypeInv
<1>15. Contained'
  <2>1. /\ objects'[new].inside = fs /\ fs \in DOMAIN objects'
        /\ objects'[new].path = Append(objects'[fs].path, name)
    BY <1>2, <1>6, <1>11, <1>12 DEF q
  <2>2. ASSUME NEW i \in Inner
        PROVE  /\ objects'[i].inside \in DOMAIN objects'
               /\ \E n \in STRING : objects'[i].path = Append(objects'[objects'[i].inside].path, n)
    <3>1. /\ objects[i].inside \in DOMAIN objects
          /\ \E n \in STRING : objects[i].path = Append(objects[objects[i].inside].path, n)
      BY DEF BillInv, Contained
    <3> QED
      BY <1>11, <1>12, <1>13, <3>1
  <2> QED
    BY <1>3, <1>13, <2>1, <2>2 DEF Contained
<1>16. HeldWhole'
  <2> SUFFICES ASSUME NEW g \in Readers, calls'[g].at = "open"
               PROVE  calls'[g].got = world.tree[Entry(g)'].size
    BY <1>7 DEF HeldWhole
  <2>1. g # r /\ calls'[g] = calls[g]
    BY <1>9, <1>14
  <2>2. calls[g].fs \in DOMAIN objects
    BY <2>1, CallType DEF OnTheWay
  <2>3. Entry(g)' = Entry(g)
    BY <1>11, <2>1, <2>2 DEF Entry, Name
  <2> QED
    BY <2>1, <2>3 DEF BillInv, HeldWhole
<1>17. SumsBilled'
  <2> DEFINE held == SumFunctionOnSet(InHand, Readers)
             listed == SumFunctionOnSet(Listed, Readers)
             sizes == SumFunctionOnSet(Sizes, Inner)
             files == SumFunctionOnSet(Files, Inner)
  <2>1. /\ \A g \in Readers : InHand[g] \in Nat /\ Listed[g] \in Nat
        /\ InHand[r] = k.got /\ Listed[r] = k.listed
        /\ IsFiniteSet(Inner) /\ \A i \in Inner : Sizes[i] \in Nat /\ Files[i] \in Nat
        /\ sizes \in Nat /\ files \in Nat
    BY InnerType, SumType DEF BillInv
  <2>2. /\ \A g \in Readers : InHand'[g] = IF g = r THEN 0 ELSE InHand[g]
        /\ \A g \in Readers : Listed'[g] = IF g = r THEN 0 ELSE Listed[g]
    BY <1>9, <1>14 DEF InHand, Listed
  <2>3. held \in Nat /\ held' \in Nat /\ held' - 0 = held - k.got
    <3>1. /\ \A g \in Readers : InHand[g] \in Nat /\ InHand'[g] \in Nat
          /\ \A g \in Readers \ {r} : InHand[g] = InHand'[g]
          /\ InHand'[r] = 0 /\ InHand[r] = k.got
      BY <2>1, <2>2
    <3> QED
      BY <3>1, SumChanged, ReadersAssumption
  <2>4. listed \in Nat /\ listed' \in Nat /\ listed' - 0 = listed - k.listed
    <3>1. /\ \A g \in Readers : Listed[g] \in Nat /\ Listed'[g] \in Nat
          /\ \A g \in Readers \ {r} : Listed[g] = Listed'[g]
          /\ Listed'[r] = 0 /\ Listed[r] = k.listed
      BY <2>1, <2>2
    <3> QED
      BY <3>1, SumChanged, ReadersAssumption
  <2>5. sizes' = sizes + k.got /\ files' = files + k.listed
    <3>1. /\ Sizes'[new] = k.got /\ Files'[new] = k.listed
          /\ \A i \in Inner : Sizes'[i] = Sizes[i] /\ Files'[i] = Files[i]
      BY <1>4, <1>6, <1>7, <1>11, <1>13 DEF Sizes, Files
    <3>2. SumFunctionOnSet(Sizes', Inner \cup {new}) = SumFunctionOnSet(Sizes, Inner) + Sizes'[new]
      BY <1>1, <1>13, <2>1, <3>1, SumExtended
    <3>3. SumFunctionOnSet(Files', Inner \cup {new}) = SumFunctionOnSet(Files, Inner) + Files'[new]
      BY <1>1, <1>13, <2>1, <3>1, SumExtended
    <3> QED
      BY <1>13, <3>1, <3>2, <3>3
  <2>6. /\ total \in Nat /\ entries \in Nat
        /\ total <= world.maxTotal /\ entries <= world.maxEntries
        /\ sizes + held <= total /\ files + listed <= entries
    BY DEF BillInv, SumsBilled
  <2> HIDE DEF held, listed, sizes, files
  <2>7. sizes' + held' <= total
    BY <1>1, <2>1, <2>3, <2>5, <2>6
  <2>8. files' + listed' <= entries
    BY <1>1, <2>1, <2>4, <2>5, <2>6
  <2> QED
    BY <1>7, <2>6, <2>7, <2>8 DEF SumsBilled, held, listed, sizes, files
<1>18. CopiesBounded'
  <2> SUFFICES ASSUME NEW i \in DOMAIN objects', NEW n \in STRING
               PROVE  /\ n \notin DOMAIN cache'[i] => Copies(i, n)' = {}
                      /\ Cardinality(Copies(i, n)') + Cardinality(Opening(i, n)')
                           <= Cardinality(Readers)
    BY DEF CopiesBounded
  <2>1. \A g \in Readers : calls[g].at # "idle" => calls[g].fs \in DOMAIN objects
    BY CallType DEF OnTheWay
  <2>2. \A j \in Inner : objects[j].inside \in DOMAIN objects
    BY DEF BillInv, Contained
  <2>3. Opening(i, n)' = Opening(i, n) \ {r}
    BY <1>9, <1>14 DEF Opening, Last, Name
  <2>4. /\ IsFiniteSet(Opening(i, n)) /\ Cardinality(Opening(i, n)) \in Nat
        /\ Cardinality(Opening(i, n)') \in Nat
        /\ Cardinality(Opening(i, n)') <= Cardinality(Opening(i, n))
        /\ Cardinality(Readers) \in Nat
        /\ r \in Opening(i, n) => Cardinality(Opening(i, n)') = Cardinality(Opening(i, n)) - 1
    <3>1. Opening(i, n) \in SUBSET Readers
      BY DEF Opening
    <3> QED
      BY <2>3, <3>1, ReadersAssumption, FS_Subset, FS_CardinalityType, FS_RemoveElement
  <2>5. IsFiniteSet(Copies(i, n)) /\ Cardinality(Copies(i, n)) \in Nat
    BY InnerType, FS_Subset, FS_CardinalityType DEF BillInv, Copies
  <2>6. CASE i = new
    <3>1. Copies(i, n)' = {}
      BY <1>2, <1>6, <1>11, <1>12, <1>13, <2>2, <2>6 DEF Copies
    <3>2. Opening(i, n) = {}
      BY <1>12, <2>1, <2>6 DEF Opening
    <3> QED
      BY <2>3, <2>4, <3>1, <3>2, FS_EmptySet
  <2>7. CASE i # new
    <3>1. /\ i \in DOMAIN objects
          /\ n \notin DOMAIN cache[i] => Copies(i, n) = {}
          /\ Cardinality(Copies(i, n)) + Cardinality(Opening(i, n)) <= Cardinality(Readers)
      BY <1>12, <2>7 DEF BillInv, CopiesBounded
    <3>2. objects'[i].path = objects[i].path /\ objects[i].path \in Seq(STRING)
      BY <1>11, <3>1, ObjectType
    <3>3. CASE i = fs /\ n = name
      <4>1. Copies(i, n)' = Copies(i, n) \cup {new} /\ new \notin Copies(i, n)
        BY <1>2, <1>6, <1>11, <1>12, <1>13, <3>2, <3>3 DEF Copies, q
      <4>2. r \in Opening(i, n)
        BY <1>1, <1>2, <3>3 DEF Opening, name
      <4>3. Cardinality(Copies(i, n)') = Cardinality(Copies(i, n)) + 1
        BY <2>5, <4>1, FS_AddElement
      <4>4. n \in DOMAIN cache'[i]
        BY <1>5, <1>10, <2>7, <3>1, <3>3 DEF With
      <4> QED
        BY <2>4, <2>5, <3>1, <4>2, <4>3, <4>4, BillCopies
    <3>4. CASE ~(i = fs /\ n = name)
      <4>1. q # Append(objects[i].path, n) \/ i # fs
        <5>1. CASE i = fs
          <6>1. n # name
            BY <3>4, <5>1
          <6>2. q = Append(p, name) /\ objects[i].path = p
            BY <5>1 DEF q
          <6> QED
            BY <1>2, <1>3, <6>1, <6>2, AppendInjective
        <5> QED
          BY <5>1
      <4>2. Copies(i, n)' = Copies(i, n)
        BY <1>6, <1>11, <1>12, <1>13, <3>2, <4>1 DEF Copies
      <4>3. n \notin DOMAIN cache'[i] => n \notin DOMAIN cache[i]
        BY <1>5, <1>10, <2>7, <3>1 DEF With
      <4> QED
        BY <2>4, <2>5, <3>1, <4>2, <4>3, BillCopies
    <3> QED
      BY <3>3, <3>4
  <2> QED
    BY <2>6, <2>7
<1> QED
  BY <1>15, <1>16, <1>17, <1>18 DEF BillInv

LEMMA BillInit == Init => BillInv
<1> SUFFICES ASSUME Init PROVE BillInv
  OBVIOUS
<1>1. /\ objects = <<[path |-> <<>>, depth |-> 0, inside |-> 0]>>
      /\ DOMAIN objects = {1} /\ Inner = {}
  BY DEF Init, Inner, Outermost
<1>2. \A r \in Readers : calls[r] = Idle
  BY DEF Init
<1>3. Idle.at = "idle" /\ Idle.got = 0 /\ Idle.listed = 0
  BY DEF Idle
<1>4. Contained /\ HeldWhole
  BY <1>1, <1>2, <1>3 DEF Contained, HeldWhole
<1>5. CopiesBounded
  <2>1. \A fs, n : Copies(fs, n) = {} /\ Opening(fs, n) = {}
    BY <1>1, <1>2, <1>3 DEF Copies, Opening
  <2>2. 0 + 0 <= Cardinality(Readers) /\ Cardinality({}) = 0
    BY ReadersAssumption, FS_CardinalityType, FS_EmptySet
  <2> QED
    BY <2>1, <2>2 DEF CopiesBounded
<1>6. SumsBilled
  <2>1. /\ SumFunctionOnSet(InHand, Readers) = 0 /\ SumFunctionOnSet(Listed, Readers) = 0
        /\ SumFunctionOnSet(Sizes, Inner) = 0 /\ SumFunctionOnSet(Files, Inner) = 0
    <3>1. \A r \in Readers : InHand[r] = 0 /\ Listed[r] = 0
      BY <1>2, <1>3 DEF InHand, Listed
    <3> QED
      BY <1>1, <3>1, SumZero, SumEmpty, ReadersAssumption
  <2>2. total = 0 /\ entries = 0 /\ world.maxTotal \in Nat /\ world.maxEntries \in Nat
    BY WorldsAssumption DEF Init
  <2> QED
    BY <2>1, <2>2 DEF SumsBilled
<1> QED
  BY <1>4, <1>5, <1>6 DEF BillInv

LEMMA BillStep == IInv /\ BillInv /\ [Next]_vars => BillInv'
<1> SUFFICES ASSUME IInv, BillInv, [Next]_vars PROVE BillInv'
  OBVIOUS
<1>1. ASSUME UNCHANGED <<world, objects, cache, calls, total, entries>> PROVE BillInv'
  <2>1. /\ Inner' = Inner /\ Sizes' = Sizes /\ Files' = Files
        /\ InHand' = InHand /\ Listed' = Listed
    BY <1>1 DEF Inner, Sizes, Files, InHand, Listed
  <2>2. Contained' /\ HeldWhole' /\ SumsBilled'
    BY <1>1, <2>1 DEF BillInv, Contained, HeldWhole, SumsBilled, Entry, Name
  <2>3. \A fs, n : Copies(fs, n)' = Copies(fs, n) /\ Opening(fs, n)' = Opening(fs, n)
    BY <1>1, <2>1 DEF Copies, Opening, Last, Name
  <2>4. CopiesBounded'
    BY <1>1, <2>3 DEF BillInv, CopiesBounded
  <2> QED
    BY <2>2, <2>4 DEF BillInv
<1>2. CASE Exhaust \/ Cancel
  BY <1>1, <1>2 DEF Exhaust, Cancel
<1>3. ASSUME NEW r \in Readers,
             Ask(r) \/ Look(r) \/ Reject(r) \/ Chunk(r) \/ End(r) \/ Catalog(r) \/ Opened(r)
      PROVE  BillInv'
  BY <1>3, BillAsk, BillLook, BillReject, BillChunk, BillEnd, BillCatalog, BillOpened
<1>4. CASE UNCHANGED vars
  BY <1>1, <1>4 DEF vars
<1> QED BY <1>2, <1>3, <1>4 DEF Next

\* Whatever the archives, the limits and the number of goroutines, all that is
\* kept in memory has been billed within the limits, and of an entry of a file
\* system no more copies are open than there are goroutines.
THEOREM Retention == Spec => []KeptIsBilled
<1>1. Spec => [](IInv /\ BillInv)
  BY InitInv, StepInv, BillInit, BillStep, PTL DEF Spec
<1>2. IInv /\ BillInv => KeptIsBilled
  <2> SUFFICES ASSUME IInv, BillInv, NEW fs \in Inner
               PROVE  Cardinality({o \in Inner : /\ objects[o].inside = objects[fs].inside
                                                 /\ objects[o].path = objects[fs].path})
                        <= Cardinality(Readers)
    BY DEF KeptIsBilled, BillInv, SumsBilled
  <2> DEFINE i == objects[fs].inside
  <2>1. PICK n \in STRING : i \in DOMAIN objects /\ objects[fs].path = Append(objects[i].path, n)
    BY DEF BillInv, Contained
  <2>2. {o \in Inner : objects[o].inside = i /\ objects[o].path = objects[fs].path} = Copies(i, n)
    BY <2>1 DEF Copies
  <2>3. /\ Cardinality(Copies(i, n)) + Cardinality(Opening(i, n)) <= Cardinality(Readers)
        /\ Cardinality(Copies(i, n)) \in Nat /\ Cardinality(Opening(i, n)) \in Nat
        /\ Cardinality(Readers) \in Nat
    <3>1. Copies(i, n) \in SUBSET Inner /\ Opening(i, n) \in SUBSET Readers
      BY DEF Copies, Opening
    <3>2. IsFiniteSet(Inner)
      BY InnerType DEF BillInv
    <3> QED
      BY <2>1, <3>1, <3>2, ReadersAssumption, FS_Subset, FS_CardinalityType
         DEF BillInv, CopiesBounded
  <2>4. Cardinality(Copies(i, n)) <= Cardinality(Readers)
    BY <2>3
  <2> QED
    BY <2>2, <2>4
<1> QED BY <1>1, <1>2, PTL
=============================================================================
