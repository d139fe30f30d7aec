--------------------------- MODULE NestedArchives ---------------------------
(***************************************************************************)
(* Reading an entry of an archive inside an archive: ExpandedZipFS and     *)
(* JarFS open each archive on the way (ReadFile, GetJarFS,                 *)
(* getNestedJarFS), keep it in a cache of the file system that contains    *)
(* it, and bill what they read to the budget of the request, which all     *)
(* goroutines and all nesting levels share.                                *)
(*                                                                         *)
(* Archives are named with one suffix.  Sizes are in chunks of the copy    *)
(* loop.  What else the request charges to its budget, and may exhaust it  *)
(* with, is the action Exhaust; the end of its context is Cancel.          *)
(***************************************************************************)
EXTENDS Integers, Sequences, FiniteSets, Functions

CONSTANTS
  Readers,   \* the goroutines
  Worlds,    \* the archives and limits considered
  MaxReads   \* how many reads they make in all

\* In a world: the entries of the outermost archive and of those inside, by
\* their path, with their declared and their real size, the entries they
\* list (of an archive), and whether their data is damaged; the limits;
\* whether archives are opened inside archives (recursiveParse); the reads.
ASSUME WorldsAssumption ==
  \A w \in Worlds :
    /\ \A p \in DOMAIN w.tree : p # <<>> /\ w.tree[p] \in
         [declared : Nat, size : Nat, files : Nat, damaged : BOOLEAN]
    /\ {w.maxDepth, w.maxEntry, w.maxTotal, w.maxEntries} \subseteq Nat
    /\ w.recursive \in BOOLEAN
    /\ w.wanted \subseteq Seq(STRING) \ {<<>>}

ASSUME ReadersAssumption == IsFiniteSet(Readers)

ASSUME MaxReadsAssumption == MaxReads \in Nat

VARIABLES
  world,
  failed,    \* the budget has refused something
  canceled,  \* the context of the request is done
  total,     \* archive_total_bytes
  entries,   \* archive_entries
  objects,   \* the file systems opened: their content, depth and container
  cache,     \* jarCache of each: name -> file system
  calls,     \* what each goroutine is doing
  reads,     \* how many reads have begun
  delivered  \* the reads that succeeded: what was wanted, what was read

vars ==
  <<world, failed, canceled, total, entries, objects, cache, calls, reads, delivered>>

\* What is wanted; what is left of its path and the file system it is left
\* in; the chunks read and the entries listed of the archive being opened.
Idle == [at |-> "idle", want |-> <<>>, todo |-> <<>>, fs |-> 1, got |-> 0, listed |-> 0]
Outermost == 1

Init ==
  /\ world \in Worlds
  /\ failed = FALSE /\ canceled = FALSE
  /\ total = 0 /\ entries = 0
  /\ objects = <<[path |-> <<>>, depth |-> 0, inside |-> 0]>>
  /\ cache = [fs \in {Outermost} |-> <<>>]
  /\ calls = [r \in Readers |-> Idle]
  /\ reads = 0
  /\ delivered = {}
-----------------------------------------------------------------------------
\* The budget refuses everything.
Dead == failed \/ canceled

In(r, at) == calls[r].at = at
Goto(r, call) == calls' = [calls EXCEPT ![r] = call]
Refuse(r) == Goto(r, Idle)

\* The path r has still to follow, inside the file system calls[r].fs.
Name(r) == Head(calls[r].todo)
Last(r) == Len(calls[r].todo) = 1
Entry(r) == Append(objects[calls[r].fs].path, Name(r))

Ask(r) ==
  /\ In(r, "idle")
  /\ reads < MaxReads
  /\ reads' = reads + 1
  /\ \E p \in world.wanted :
       Goto(r, [Idle EXCEPT !.at = "look", !.want = p, !.todo = p])
  /\ UNCHANGED <<world, failed, canceled, total, entries, objects, cache, delivered>>

\* On, in an archive that is open.
Enter(r, fs) ==
  Goto(r, [Idle EXCEPT !.at = "look", !.want = calls[r].want,
                       !.todo = Tail(calls[r].todo), !.fs = fs])

\* checkJarSelectionWork, then the cache, then chargeNestedDepth.
Look(r) ==
  LET fs == calls[r].fs
      read == Goto(r, [calls[r] EXCEPT !.at = "read"])
  IN
  /\ In(r, "look")
  /\ IF Dead THEN Refuse(r) /\ UNCHANGED failed
     ELSE IF Last(r) THEN read /\ UNCHANGED failed
     ELSE IF fs # Outermost /\ ~world.recursive THEN Refuse(r) /\ UNCHANGED failed
     ELSE IF Name(r) \in DOMAIN cache[fs] THEN Enter(r, cache[fs][Name(r)]) /\ UNCHANGED failed
     ELSE IF objects[fs].depth + 1 > world.maxDepth THEN Refuse(r) /\ failed' = TRUE
     ELSE read /\ UNCHANGED failed
  /\ UNCHANGED <<world, canceled, total, entries, objects, cache, reads, delivered>>
-----------------------------------------------------------------------------
(* ReadArchiveStream, of an entry of calls[r].fs.                          *)

\* There is such an entry, and its header does not admit that it is too large.
Readable(r) ==
  Entry(r) \in DOMAIN world.tree /\ world.tree[Entry(r)].declared <= world.maxEntry

\* The budget does not fail for it.
Reject(r) ==
  /\ In(r, "read")
  /\ ~Readable(r)
  /\ Refuse(r)
  /\ UNCHANGED <<world, failed, canceled, total, entries, objects, cache, reads, delivered>>

\* Mutant: the bytes of an archive are not billed, only those of its entries.
BilledLast(r) == IF Last(r) THEN total + 1 ELSE total

Billed(r) == total + 1

\* The next chunk is checked against the entry's limit, whatever its header
\* says, and billed before it is kept.
Chunk(r) ==
  LET got == calls[r].got + 1 IN
  /\ In(r, "read")
  /\ Readable(r)
  /\ got <= world.tree[Entry(r)].size
  /\ IF Dead \/ got > world.maxEntry \/ Billed(r) > world.maxTotal
     THEN Refuse(r) /\ failed' = TRUE /\ UNCHANGED total
     ELSE /\ Goto(r, [calls[r] EXCEPT !.got = got])
          /\ total' = Billed(r)
          /\ UNCHANGED failed
  /\ UNCHANGED <<world, canceled, entries, objects, cache, reads, delivered>>

\* The end of the stream, where its checksum is compared.  Of the request
\* only the context is asked again, and not even that if the end comes with
\* the last chunk: what the budget has refused meanwhile is not noticed.
End(r) ==
  LET entry == world.tree[Entry(r)] IN
  /\ In(r, "read")
  /\ Readable(r)
  /\ calls[r].got = entry.size
  /\ \/ /\ canceled \/ entry.damaged
        /\ Refuse(r)
        /\ UNCHANGED delivered
     \/ /\ ~entry.damaged
        /\ canceled => calls[r].got > 0
        /\ IF Last(r)
           THEN /\ delivered' = delivered \cup
                     {[want |-> calls[r].want, read |-> Entry(r), got |-> calls[r].got]}
                /\ Refuse(r)
           ELSE /\ Goto(r, [calls[r] EXCEPT !.at = "open"])
                /\ UNCHANGED delivered
  /\ UNCHANGED <<world, failed, canceled, total, entries, objects, cache, reads>>
-----------------------------------------------------------------------------
(* NewZipFSRawWithOptions and what follows it.                             *)

\* catalogArchiveFiles, one entry.
Catalog(r) ==
  /\ In(r, "open")
  /\ calls[r].listed < world.tree[Entry(r)].files
  /\ IF Dead \/ entries + 1 > world.maxEntries
     THEN Refuse(r) /\ failed' = TRUE /\ UNCHANGED entries
     ELSE /\ Goto(r, [calls[r] EXCEPT !.listed = @ + 1])
          /\ entries' = entries + 1
          /\ UNCHANGED failed
  /\ UNCHANGED <<world, canceled, total, objects, cache, reads, delivered>>

\* Mutant: an archive inside an archive shares the cache of its container.
CacheOfContainer(fs) == cache[fs]

\* The cache of an archive opened inside fs.
CacheInside(fs) == <<>>

With(names, name, fs) ==
  [n \in DOMAIN names \cup {name} |-> IF n = name THEN fs ELSE names[n]]

\* The new file system is kept in the cache of its container, in place of
\* one that another goroutine put there meanwhile.
Opened(r) ==
  LET fs == calls[r].fs
      new == Len(objects) + 1
  IN
  /\ In(r, "open")
  /\ calls[r].listed = world.tree[Entry(r)].files
  /\ objects' = Append(objects,
       [path |-> Entry(r), depth |-> objects[fs].depth + 1, inside |-> fs])
  /\ cache' = [o \in DOMAIN cache \cup {new} |->
                 IF o = new THEN CacheInside(fs)
                 ELSE IF o = fs THEN With(cache[o], Name(r), new) ELSE cache[o]]
  /\ Enter(r, new)
  /\ UNCHANGED <<world, failed, canceled, total, entries, reads, delivered>>

Exhaust ==
  /\ ~failed
  /\ failed' = TRUE
  /\ UNCHANGED <<world, canceled, total, entries, objects, cache, calls, reads, delivered>>

Cancel ==
  /\ ~canceled
  /\ canceled' = TRUE
  /\ UNCHANGED <<world, failed, total, entries, objects, cache, calls, reads, delivered>>

Next ==
  \/ Exhaust \/ Cancel
  \/ \E r \in Readers :
       Ask(r) \/ Look(r) \/ Reject(r) \/ Chunk(r) \/ End(r) \/ Catalog(r) \/ Opened(r)

Spec == Init /\ [][Next]_vars
-----------------------------------------------------------------------------
(* Properties.                                                             *)

Prefixes(p) == {SubSeq(p, 1, n) : n \in 1..Len(p)}

Fine(p) ==
  p \in DOMAIN world.tree /\ world.tree[p].size <= world.maxEntry /\ ~world.tree[p].damaged

\* A read delivers the entry at the path that was wanted, and all of it:
\* neither that of another archive with an entry of the same name, whichever
\* copy of an archive the caches hold, nor part of an entry whose stream was
\* refused or damaged; and nothing on the way was too large or too deep.
ReadsWhole ==
  \A d \in delivered :
    /\ d.read = d.want
    /\ d.got = world.tree[d.want].size
    /\ Len(d.want) - 1 <= world.maxDepth
    /\ \A p \in Prefixes(d.want) : Fine(p)

(* The inductive invariant behind it.                                      *)
Call ==
  [at : {"idle", "look", "read", "open"}, want : Seq(STRING), todo : Seq(STRING),
   fs : Nat, got : Nat, listed : Nat]

TypeInv ==
  /\ world \in Worlds
  /\ objects \in Seq([path : Seq(STRING), depth : Nat, inside : Nat])
  /\ DOMAIN cache = DOMAIN objects
  /\ calls \in [Readers -> Call]

\* What each open archive is, and that everything around it is fine.
Contents ==
  /\ Outermost \in DOMAIN objects /\ objects[Outermost].path = <<>>
  /\ \A fs \in DOMAIN objects :
       LET o == objects[fs] IN
       /\ o.depth = Len(o.path)
       /\ o.depth <= world.maxDepth
       /\ \A p \in Prefixes(o.path) : Fine(p)

\* A cached archive is the entry its key names in the container's content.
Cached ==
  \A fs \in DOMAIN cache : \A n \in DOMAIN cache[fs] :
    /\ cache[fs][n] \in DOMAIN objects
    /\ objects[cache[fs][n]].path = Append(objects[fs].path, n)

\* What is left of the path, in the archive it is left in, is what is wanted.
OnTheWay(c) ==
  c.at # "idle" =>
    /\ c.fs \in DOMAIN objects
    /\ c.todo # <<>>
    /\ objects[c.fs].path \o c.todo = c.want

\* What has been checked of the entry that is being read or opened.
Checked(c) ==
  LET deep == Len(c.todo) # 1 => objects[c.fs].depth + 1 <= world.maxDepth IN
  /\ c.at = "look" => c.got = 0
  /\ c.at = "read" => c.got <= world.maxEntry /\ deep
  /\ c.at = "open" =>
       Len(c.todo) # 1 /\ deep /\ Fine(Append(objects[c.fs].path, Head(c.todo)))

CallsSound == \A r \in Readers : OnTheWay(calls[r]) /\ Checked(calls[r])

IInv == TypeInv /\ Contents /\ Cached /\ CallsSound /\ ReadsWhole

Inner == DOMAIN objects \ {Outermost}
Sizes == [fs \in Inner |-> world.tree[objects[fs].path].size]
Files == [fs \in Inner |-> world.tree[objects[fs].path].files]
InHand == [r \in Readers |-> calls[r].got]
Listed == [r \in Readers |-> calls[r].listed]

\* Everything in memory has been billed, within the limits: the archives that
\* are open, those opened twice because two goroutines missed the cache
\* together, and what is being read.  They are not opened again and again: of
\* an entry of a file system, each goroutine opens at most one copy.
KeptIsBilled ==
  /\ SumFunctionOnSet(Sizes, Inner) + SumFunctionOnSet(InHand, Readers) <= total
  /\ SumFunctionOnSet(Files, Inner) + SumFunctionOnSet(Listed, Readers) <= entries
  /\ total <= world.maxTotal /\ entries <= world.maxEntries
  /\ \A fs \in Inner :
       Cardinality({o \in Inner : /\ objects[o].inside = objects[fs].inside
                                  /\ objects[o].path = objects[fs].path})
         <= Cardinality(Readers)
=============================================================================
