-------------------------- MODULE GraphCacheProofs --------------------------
(***************************************************************************)
(* The cache of graph analyses, for any graphs, queries, capacities and    *)
(* analyses.  The bounds of the runs play no part.                         *)
(***************************************************************************)
EXTENDS GraphCache, SequenceTheorems, TLAPS

Distinct(list) == \A i, j \in 1..Len(list) : list[i] = list[j] => i = j

\* A function on 1..n is a list of that length.
LEMMA ListFromFunction ==
  ASSUME NEW S, NEW n \in Nat, NEW f \in [1..n -> S]
  PROVE  f \in Seq(S) /\ Len(f) = n /\ DOMAIN f = 1..n
  BY SeqDef, LenProperties

\* Moving an element to the front keeps the elements of a list.
LEMMA MoveToFrontFacts ==
  ASSUME NEW S, NEW list \in Seq(S), NEW i \in 1..Len(list), Distinct(list)
  PROVE  LET moved == MoveToFront(list, i)
         IN /\ moved \in Seq(S)
            /\ Len(moved) = Len(list)
            /\ Listed(moved) = Listed(list)
            /\ Distinct(moved)
  <1> DEFINE moved == MoveToFront(list, i)
             At(j) == IF j = 1 THEN list[i] ELSE IF j <= i THEN list[j - 1] ELSE list[j]
  <1>1. Len(list) \in Nat /\ \A j \in 1..Len(list) : list[j] \in S
    BY ElementOfSeq, LenProperties
  <1>2. moved = [j \in 1..Len(list) |-> At(j)]
    BY DEF MoveToFront
  <1>3. \A j \in 1..Len(list) : At(j) \in S
    BY <1>1
  <1>4. moved \in [1..Len(list) -> S]
    BY <1>2, <1>3
  <1>5. moved \in Seq(S) /\ Len(moved) = Len(list)
    BY <1>1, <1>4, ListFromFunction
  <1>6. \A j \in 1..Len(list) : moved[j] = At(j)
    BY <1>2
  <1>7. Distinct(moved)
    BY <1>1, <1>5, <1>6 DEF Distinct
  <1>8. \A j \in 1..Len(list) : moved[j] \in Listed(list)
    BY <1>1, <1>6 DEF Listed
  <1>9. \A j \in 1..Len(list) : list[j] \in Listed(moved)
    <2> SUFFICES ASSUME NEW j \in 1..Len(list)
                 PROVE  \E k \in 1..Len(list) : moved[k] = list[j]
      BY <1>5 DEF Listed
    <2>1. CASE j = i
      BY <2>1, <1>1, <1>6
    <2>2. CASE j < i
      <3>1. j + 1 \in 1..Len(list) /\ At(j + 1) = list[j]
        BY <2>2, <1>1
      <3> QED BY <3>1, <1>6
    <2>3. CASE j > i
      BY <2>3, <1>1, <1>6
    <2> QED BY <2>1, <2>2, <2>3
  <1>10. Listed(moved) = Listed(list)
    BY <1>5, <1>8, <1>9 DEF Listed
  <1> QED BY <1>5, <1>7, <1>10

\* A new element in front.
LEMMA PushFrontFacts ==
  ASSUME NEW S, NEW list \in Seq(S), NEW key \in S, Distinct(list), key \notin Listed(list)
  PROVE  LET pushed == PushFront(list, key)
         IN /\ pushed \in Seq(S)
            /\ Len(pushed) = Len(list) + 1
            /\ Listed(pushed) = Listed(list) \cup {key}
            /\ Distinct(pushed)
  <1> DEFINE pushed == PushFront(list, key)
             At(j) == IF j = 1 THEN key ELSE list[j - 1]
  <1>1. Len(list) \in Nat /\ \A j \in 1..Len(list) : list[j] \in S
    BY ElementOfSeq, LenProperties
  <1>2. pushed = [j \in 1..(Len(list) + 1) |-> At(j)]
    BY DEF PushFront
  <1>3. pushed \in [1..(Len(list) + 1) -> S]
    BY <1>1, <1>2
  <1>4. pushed \in Seq(S) /\ Len(pushed) = Len(list) + 1
    BY <1>1, <1>3, ListFromFunction
  <1>5. \A j \in 1..(Len(list) + 1) : pushed[j] = At(j)
    BY <1>2
  <1>6. \A j \in 1..Len(list) : list[j] # key
    BY DEF Listed
  <1>7. Distinct(pushed)
    <2> SUFFICES ASSUME NEW j \in 1..(Len(list) + 1), NEW k \in 1..(Len(list) + 1),
                        pushed[j] = pushed[k]
                 PROVE  j = k
      BY <1>4 DEF Distinct
    <2>1. \A m \in 1..(Len(list) + 1) : m = 1 \/ m - 1 \in 1..Len(list)
      BY <1>1
    <2>2. \A m \in 1..(Len(list) + 1) :
            (pushed[m] = key /\ m = 1) \/ (pushed[m] = list[m - 1] /\ m # 1)
      <3> TAKE m \in 1..(Len(list) + 1)
      <3>1. pushed[m] = At(m)
        BY <1>5
      <3>2. CASE m = 1
        BY <3>1, <3>2
      <3>3. CASE m # 1
        BY <3>1, <3>3
      <3> QED BY <3>2, <3>3
    <2> HIDE DEF pushed
    <2>3. CASE j = 1 \/ k = 1
      BY <2>1, <2>2, <2>3, <1>6
    <2>4. CASE j # 1 /\ k # 1
      <3>1. list[j - 1] = list[k - 1] /\ j - 1 \in 1..Len(list) /\ k - 1 \in 1..Len(list)
        BY <2>1, <2>2, <2>4
      <3>2. j - 1 = k - 1
        BY <3>1 DEF Distinct
      <3> QED BY <3>2, <1>1
    <2> QED BY <2>3, <2>4
  <1>8. Listed(pushed) \subseteq Listed(list) \cup {key}
    BY <1>1, <1>4, <1>5 DEF Listed
  <1>9. \A j \in 1..Len(list) : j + 1 \in 1..(Len(list) + 1) /\ pushed[j + 1] = list[j]
    BY <1>1, <1>5
  <1>10. pushed[1] = key /\ 1 \in 1..(Len(list) + 1)
    BY <1>1, <1>5
  <1>11. Listed(list) \cup {key} \subseteq Listed(pushed)
    BY <1>4, <1>9, <1>10 DEF Listed
  <1> QED BY <1>4, <1>7, <1>8, <1>11

\* Evictions leave a prefix.
LEMMA TrimmedFacts ==
  ASSUME NEW S, NEW list \in Seq(S), NEW size \in Nat, Distinct(list)
  PROVE  LET rest == Trimmed(list, size)
         IN /\ rest \in Seq(S)
            /\ Len(rest) <= size
            /\ Len(rest) <= Len(list)
            /\ \A j \in 1..Len(rest) : rest[j] = list[j]
            /\ Listed(rest) \subseteq Listed(list)
            /\ Distinct(rest)
  <1> DEFINE rest == Trimmed(list, size)
             n == IF Len(list) > size THEN size ELSE Len(list)
  <1>1. Len(list) \in Nat /\ \A j \in 1..Len(list) : list[j] \in S
    BY ElementOfSeq, LenProperties
  <1>2. n \in Nat /\ n <= size /\ n <= Len(list)
    BY <1>1
  <1>3. rest = [j \in 1..n |-> list[j]]
    BY DEF Trimmed
  <1> HIDE DEF n
  <1>4. rest \in [1..n -> S]
    BY <1>1, <1>2, <1>3
  <1>5. rest \in Seq(S) /\ Len(rest) = n
    BY <1>2, <1>4, ListFromFunction
  <1>6. \A j \in 1..n : rest[j] = list[j] /\ j \in 1..Len(list)
    BY <1>1, <1>2, <1>3
  <1>7. Distinct(rest)
    BY <1>5, <1>6 DEF Distinct
  <1>8. Listed(rest) \subseteq Listed(list)
    BY <1>5, <1>6 DEF Listed
  <1> QED BY <1>2, <1>5, <1>6, <1>7, <1>8
-----------------------------------------------------------------------------
(* The inductive invariant.                                                *)

TypeInv ==
  /\ graphs = [id \in GraphIds |-> graphs[id]]
  /\ epoch \in [GraphIds -> Nat]
  /\ capacity \in Nat \ {0}
  /\ lru \in Seq(Keys)
  /\ recent \in Seq(Keys)
  /\ Distinct(recent)

\* No key is of an epoch to come, so an edit leaves no key of its new epoch.
PastKeys == \A k \in DOMAIN entries : k.epoch <= epoch[k.id]

\* What is cached for the present epoch of a graph is of the present graph.
Fresh ==
  \A k \in DOMAIN entries :
    k.epoch = epoch[k.id] => entries[k] = Analyse(graphs[k.id], k.query)

IInv == TypeInv /\ MapMatchesList /\ LeastRecentLeaves /\ PastKeys /\ Fresh

LEMMA InitInvariant == Init => IInv
  <1> SUFFICES ASSUME Init PROVE IInv
    OBVIOUS
  <1>1. lru = <<>> /\ recent = <<>> /\ DOMAIN entries = {}
    BY DEF Init
  <1>2. Len(lru) = 0 /\ Len(recent) = 0 /\ lru \in Seq(Keys) /\ recent \in Seq(Keys)
    BY <1>1
  <1>3. capacity \in Nat \ {0}
    BY CapacitiesAssumption DEF Init, AtLeastOne
  <1>4. TypeInv
    BY <1>2, <1>3, FirstGraphsAssumption DEF Init, TypeInv, Distinct
  <1>5. MapMatchesList
    BY <1>1, <1>2, <1>3 DEF MapMatchesList, Listed
  <1>6. LeastRecentLeaves
    BY <1>2 DEF LeastRecentLeaves
  <1> QED BY <1>1, <1>4, <1>5, <1>6 DEF IInv, PastKeys, Fresh

\* An edit touches one graph and starts a new epoch of it.
LEMMA EditEffect ==
  ASSUME Edit
  PROVE  \E id \in GraphIds : \E graph :
           /\ graphs' = [graphs EXCEPT ![id] = graph]
           /\ epoch' = Bump(id)
           /\ UNCHANGED <<capacity, entries, lru, answer, recent>>
  BY DEF Edit, AddNode, AddEdge, DeleteEdge, ReplaceNode, Edited, cacheVars

LEMMA EditInvariant == IInv /\ Edit => IInv'
  <1> SUFFICES ASSUME IInv, Edit PROVE IInv'
    OBVIOUS
  <1> PICK id \in GraphIds : \E graph :
           /\ graphs' = [graphs EXCEPT ![id] = graph]
           /\ epoch' = Bump(id)
           /\ UNCHANGED <<capacity, entries, lru, answer, recent>>
    BY EditEffect
  <1> PICK graph :
           /\ graphs' = [graphs EXCEPT ![id] = graph]
           /\ epoch' = Bump(id)
           /\ UNCHANGED <<capacity, entries, lru, answer, recent>>
    OBVIOUS
  <1> USE DEF IInv
  <1>1. epoch' = [epoch EXCEPT ![id] = @ + 1] /\ epoch \in [GraphIds -> Nat]
    BY DEF Bump, TypeInv
  <1>2. TypeInv'
    <2>1. graphs' = [x \in GraphIds |-> graphs'[x]]
      <3>1. DOMAIN graphs = GraphIds
        BY DEF TypeInv
      <3> QED BY <3>1
    <2>2. epoch' \in [GraphIds -> Nat]
      BY <1>1
    <2> QED BY <2>1, <2>2 DEF TypeInv, Distinct
  <1>3. MapMatchesList' /\ LeastRecentLeaves'
    BY DEF MapMatchesList, LeastRecentLeaves, Listed
  <1>4. \A k \in DOMAIN entries : k \in Keys
    BY ElementOfSeq DEF MapMatchesList, Listed, TypeInv
  <1>5. PastKeys'
    BY <1>1, <1>4 DEF PastKeys, Keys
  <1>6. ASSUME NEW k \in DOMAIN entries, k.epoch = epoch'[k.id]
        PROVE  entries[k] = Analyse(graphs'[k.id], k.query)
    <2>1. k.id \in GraphIds /\ k.epoch \in Nat /\ k.epoch <= epoch[k.id]
      BY <1>4 DEF PastKeys, Keys
    <2>2. k.id # id
      BY <1>1, <1>6, <2>1
    <2>3. epoch'[k.id] = epoch[k.id] /\ graphs'[k.id] = graphs[k.id]
      BY <1>1, <2>1, <2>2 DEF TypeInv
    <2> QED BY <1>6, <2>3 DEF Fresh
  <1>7. Fresh'
    BY <1>6 DEF Fresh
  <1> QED BY <1>2, <1>3, <1>5, <1>7

\* A use puts the key in front and keeps the rest in order, whichever branch.
LEMMA UsedFacts ==
  ASSUME NEW list \in Seq(Keys), Distinct(list), NEW key \in Keys
  PROVE  LET used == Used(list, key)
         IN /\ used \in Seq(Keys)
            /\ Distinct(used)
            /\ Listed(used) = Listed(list) \cup {key}
            /\ Len(used) >= 1
            /\ Len(used) = IF key \in Listed(list) THEN Len(list) ELSE Len(list) + 1
            /\ key \in Listed(list) => Position(list, key) \in 1..Len(list)
                                       /\ list[Position(list, key)] = key
  <1>1. Len(list) \in Nat
    BY LenProperties
  <1>2. CASE key \in Listed(list)
    <2>1. Position(list, key) \in 1..Len(list) /\ list[Position(list, key)] = key
      BY <1>2 DEF Listed, Position
    <2>2. Used(list, key) = MoveToFront(list, Position(list, key))
      BY <1>2 DEF Used
    <2> QED BY <1>1, <1>2, <2>1, <2>2, MoveToFrontFacts
  <1>3. CASE key \notin Listed(list)
    <2>1. Used(list, key) = PushFront(list, key)
      BY <1>3 DEF Used
    <2> QED BY <1>1, <1>3, <2>1, PushFrontFacts
  <1> QED BY <1>2, <1>3

\* The list stays a prefix of the history when both record a use.
LEMMA PrefixKept ==
  ASSUME NEW list \in Seq(Keys), NEW past \in Seq(Keys), NEW key \in Keys,
         Distinct(list), Distinct(past),
         Len(list) <= Len(past), \A i \in 1..Len(list) : list[i] = past[i]
  PROVE  LET used == Used(list, key)
             history == History(past, key)
         IN Len(used) <= Len(history) /\ \A i \in 1..Len(used) : used[i] = history[i]
  <1>1. Len(list) \in Nat /\ Len(past) \in Nat
    BY LenProperties
  <1>2. History(past, key) = Used(past, key)
    BY DEF History, Used
  <1>3. CASE key \in Listed(list)
    <2> DEFINE p == Position(list, key)
               q == Position(past, key)
    <2>1. p \in 1..Len(list) /\ list[p] = key
      BY <1>3, UsedFacts
    <2>2. key \in Listed(past) /\ p \in 1..Len(past) /\ past[p] = key
      BY <1>1, <2>1 DEF Listed
    <2>3. q \in 1..Len(past) /\ past[q] = key
      BY <2>2, UsedFacts
    <2>4. p = q
      BY <2>2, <2>3 DEF Distinct
    <2>5. Used(list, key) = MoveToFront(list, p) /\ Used(past, key) = MoveToFront(past, p)
      BY <1>3, <2>2, <2>4 DEF Used
    <2> HIDE DEF p, q
    <2>6. Len(Used(list, key)) = Len(list) /\ Len(Used(past, key)) = Len(past)
      BY <1>3, <2>2, UsedFacts
    <2>7. ASSUME NEW i \in 1..Len(list)
          PROVE  MoveToFront(list, p)[i] = MoveToFront(past, p)[i]
      <3>1. i \in 1..Len(past) /\ list[p] = past[p] /\ list[i] = past[i]
        BY <1>1, <2>1
      <3>2. i # 1 => list[i - 1] = past[i - 1]
        BY <1>1
      <3> QED BY <3>1, <3>2 DEF MoveToFront
    <2> QED BY <1>1, <1>2, <2>5, <2>6, <2>7
  <1>4. CASE key \notin Listed(list)
    <2>1. Used(list, key) = PushFront(list, key) /\ Len(Used(list, key)) = Len(list) + 1
      BY <1>4, UsedFacts DEF Used
    <2>2. CASE key \notin Listed(past)
      <3>1. Used(past, key) = PushFront(past, key) /\ Len(Used(past, key)) = Len(past) + 1
        BY <2>2, UsedFacts DEF Used
      <3>2. ASSUME NEW i \in 1..(Len(list) + 1)
            PROVE  PushFront(list, key)[i] = PushFront(past, key)[i]
        <4>1. i \in 1..(Len(past) + 1) /\ (i # 1 => list[i - 1] = past[i - 1])
          BY <1>1
        <4> QED BY <4>1 DEF PushFront
      <3> QED BY <1>1, <1>2, <2>1, <3>1, <3>2
    <2>3. CASE key \in Listed(past)
      <3> DEFINE q == Position(past, key)
      <3>1. q \in 1..Len(past) /\ past[q] = key
        BY <2>3, UsedFacts
      <3>2. q > Len(list)
        <4>1. q \in 1..Len(list) => list[q] = key
          BY <3>1
        <4> QED BY <1>1, <1>4, <3>1, <4>1 DEF Listed
      <3>3. Used(past, key) = MoveToFront(past, q) /\ Len(Used(past, key)) = Len(past)
        BY <2>3, UsedFacts DEF Used
      <3> HIDE DEF q
      <3>4. ASSUME NEW i \in 1..(Len(list) + 1)
            PROVE  PushFront(list, key)[i] = MoveToFront(past, q)[i]
        <4>1. i \in 1..Len(past) /\ i <= q /\ (i # 1 => list[i - 1] = past[i - 1])
          BY <1>1, <3>1, <3>2
        <4> QED BY <3>1, <4>1 DEF PushFront, MoveToFront
      <3> QED BY <1>1, <1>2, <2>1, <3>1, <3>2, <3>3, <3>4
    <2> QED BY <2>2, <2>3
  <1> QED BY <1>3, <1>4
-----------------------------------------------------------------------------
LEMMA KeyInKeys ==
  ASSUME TypeInv, NEW id \in GraphIds, NEW q \in Queries
  PROVE  KeyOf(id, q) \in Keys
  BY DEF KeyOf, Keys, TypeInv

\* The history stays a list without repetitions.
LEMMA HistoryFacts ==
  ASSUME NEW past \in Seq(Keys), Distinct(past), NEW key \in Keys
  PROVE  History(past, key) \in Seq(Keys) /\ Distinct(History(past, key))
  <1>1. History(past, key) = Used(past, key)
    BY DEF History, Used
  <1> QED BY <1>1, UsedFacts

LEMMA HitInvariant ==
  ASSUME IInv, NEW id \in GraphIds, NEW q \in Queries, Hit(id, q)
  PROVE  IInv'
  <1> DEFINE key == KeyOf(id, q)
  <1> USE DEF IInv
  <1>1. key \in Keys /\ lru \in Seq(Keys) /\ recent \in Seq(Keys) /\ Distinct(lru) /\ Distinct(recent)
    BY KeyInKeys DEF TypeInv, MapMatchesList, Distinct
  <1>2. /\ lru' = Used(lru, key) /\ recent' = History(recent, key)
        /\ key \in Listed(lru)
        /\ UNCHANGED <<graphs, epoch, capacity, entries>>
    BY DEF Hit, Answered, MapMatchesList
  <1> HIDE DEF key
  <1>3. TypeInv'
    BY <1>1, <1>2, UsedFacts, HistoryFacts DEF TypeInv
  <1>4. /\ Listed(lru') = Listed(lru) \cup {key}
        /\ Distinct(lru')
        /\ Len(lru') = Len(lru)
    BY <1>1, <1>2, UsedFacts
  <1>5. MapMatchesList'
    BY <1>2, <1>4 DEF MapMatchesList, Distinct
  <1>6. LeastRecentLeaves'
    BY <1>1, <1>2, PrefixKept DEF LeastRecentLeaves
  <1>7. PastKeys' /\ Fresh'
    BY <1>2 DEF PastKeys, Fresh
  <1> QED BY <1>3, <1>5, <1>6, <1>7

LEMMA MissInvariant ==
  ASSUME IInv, NEW id \in GraphIds, NEW q \in Queries, Miss(id, q)
  PROVE  IInv'
  <1> DEFINE key == KeyOf(id, q)
             value == Analyse(graphs[id], q)
             map == [k \in DOMAIN entries \cup {key} |-> IF k = key THEN value ELSE entries[k]]
             used == Used(lru, key)
  <1> USE DEF IInv
  <1>1. key \in Keys /\ lru \in Seq(Keys) /\ recent \in Seq(Keys) /\ Distinct(lru) /\ Distinct(recent)
    BY KeyInKeys DEF TypeInv, MapMatchesList, Distinct
  <1>2. /\ lru' = Trimmed(used, capacity) /\ recent' = History(recent, key)
        /\ entries' = Kept(map, lru')
        /\ key \notin DOMAIN entries
        /\ UNCHANGED <<graphs, epoch, capacity>>
    BY DEF Miss, Answered
  <1>3. capacity \in Nat
    BY DEF TypeInv
  <1>4. used \in Seq(Keys) /\ Distinct(used) /\ Listed(used) = DOMAIN entries \cup {key}
    BY <1>1, UsedFacts DEF MapMatchesList
  <1>5. /\ lru' \in Seq(Keys) /\ Distinct(lru') /\ Len(lru') <= capacity
        /\ Len(lru') <= Len(used)
        /\ \A i \in 1..Len(lru') : lru'[i] = used[i]
        /\ Listed(lru') \subseteq DOMAIN entries \cup {key}
    BY <1>2, <1>3, <1>4, TrimmedFacts
  <1>6. /\ DOMAIN entries' = Listed(lru')
        /\ \A k \in DOMAIN entries' : entries'[k] = IF k = key THEN value ELSE entries[k]
    BY <1>2, <1>5 DEF Kept
  <1>7. TypeInv'
    BY <1>1, <1>2, <1>5, HistoryFacts DEF TypeInv
  <1>8. MapMatchesList'
    BY <1>2, <1>5, <1>6 DEF MapMatchesList, Distinct
  <1>9. LeastRecentLeaves'
    <2>1. Len(used) <= Len(recent') /\ \A i \in 1..Len(used) : used[i] = recent'[i]
      BY <1>1, <1>2, PrefixKept DEF LeastRecentLeaves
    <2>2. Len(lru') \in Nat /\ Len(used) \in Nat /\ Len(recent') \in Nat
      BY <1>4, <1>5, <1>7, LenProperties DEF TypeInv
    <2> QED BY <1>5, <2>1, <2>2 DEF LeastRecentLeaves
  <1>10. key.id = id /\ key.query = q /\ key.epoch = epoch[id] /\ epoch[id] \in Nat
    BY DEF KeyOf, TypeInv
  <1>11. PastKeys'
    BY <1>2, <1>5, <1>6, <1>10 DEF PastKeys
  <1>12. Fresh'
    <2> SUFFICES ASSUME NEW k \in DOMAIN entries', k.epoch = epoch[k.id]
                 PROVE  entries'[k] = Analyse(graphs[k.id], k.query)
      BY <1>2 DEF Fresh
    <2>1. CASE k = key
      BY <2>1, <1>6, <1>10
    <2>2. CASE k # key
      <3>1. k \in DOMAIN entries /\ entries'[k] = entries[k]
        BY <2>2, <1>5, <1>6
      <3> QED BY <3>1 DEF Fresh
    <2> QED BY <2>1, <2>2
  <1> QED BY <1>7, <1>8, <1>9, <1>11, <1>12

LEMMA SetCapacityInvariant ==
  ASSUME IInv, NEW c \in Capacities, SetCapacity(c)
  PROVE  IInv'
  <1> USE DEF IInv
  <1>1. capacity' \in Nat \ {0}
    BY CapacitiesAssumption DEF SetCapacity, AtLeastOne
  <1>2. lru \in Seq(Keys) /\ Distinct(lru)
    BY DEF TypeInv, MapMatchesList, Distinct
  <1>3. /\ lru' = Trimmed(lru, capacity') /\ entries' = Kept(entries, lru')
        /\ UNCHANGED <<graphs, epoch, answer, recent>>
    BY DEF SetCapacity
  <1>4. /\ lru' \in Seq(Keys) /\ Distinct(lru') /\ Len(lru') <= capacity'
        /\ Len(lru') <= Len(lru)
        /\ \A i \in 1..Len(lru') : lru'[i] = lru[i]
        /\ Listed(lru') \subseteq DOMAIN entries
    BY <1>1, <1>2, <1>3, TrimmedFacts DEF MapMatchesList
  <1>5. /\ DOMAIN entries' = Listed(lru')
        /\ \A k \in DOMAIN entries' : k \in DOMAIN entries /\ entries'[k] = entries[k]
    BY <1>3, <1>4 DEF Kept
  <1>6. TypeInv'
    BY <1>1, <1>3, <1>4 DEF TypeInv, Distinct
  <1>7. MapMatchesList'
    BY <1>4, <1>5 DEF MapMatchesList, Distinct
  <1>8. LeastRecentLeaves'
    <2>1. Len(lru') \in Nat /\ Len(lru) \in Nat /\ Len(recent) \in Nat
      BY <1>2, <1>4, LenProperties DEF TypeInv
    <2> QED BY <1>3, <1>4, <2>1 DEF LeastRecentLeaves
  <1>9. PastKeys' /\ Fresh'
    BY <1>3, <1>5 DEF PastKeys, Fresh
  <1> QED BY <1>6, <1>7, <1>8, <1>9

LEMMA NextInvariant == IInv /\ [Next]_vars => IInv'
  <1> SUFFICES ASSUME IInv, [Next]_vars PROVE IInv'
    OBVIOUS
  <1>1. CASE Edit
    BY <1>1, EditInvariant
  <1>2. ASSUME NEW id \in GraphIds, NEW q \in Queries, Hit(id, q) \/ Miss(id, q)
        PROVE  IInv'
    BY <1>2, HitInvariant, MissInvariant
  <1>3. ASSUME NEW c \in Capacities, SetCapacity(c)
        PROVE  IInv'
    BY <1>3, SetCapacityInvariant
  <1>4. CASE UNCHANGED vars
    <2>1. UNCHANGED <<graphs, epoch, capacity, entries, lru, answer, recent>>
      BY <1>4 DEF vars, cacheVars
    <2>2. TypeInv'
      BY <2>1 DEF IInv, TypeInv, Distinct
    <2>3. MapMatchesList' /\ LeastRecentLeaves'
      BY <2>1 DEF IInv, MapMatchesList, LeastRecentLeaves, Listed
    <2>4. PastKeys' /\ Fresh'
      BY <2>1 DEF IInv, PastKeys, Fresh
    <2> QED BY <2>2, <2>3, <2>4 DEF IInv
  <1> QED BY <1>1, <1>2, <1>3, <1>4 DEF Next
-----------------------------------------------------------------------------
\* The map and the list of the cache always name the same keys, within the
\* capacity (getOrCompute, SetCapacity).
THEOREM Coherence == Spec => []MapMatchesList
  <1>1. IInv => MapMatchesList
    BY DEF IInv
  <1> QED BY <1>1, InitInvariant, NextInvariant, PTL DEF Spec

\* The cache holds the keys used last, in the order of use.
THEOREM Recency == Spec => []LeastRecentLeaves
  <1>1. IInv => LeastRecentLeaves
    BY DEF IInv
  <1> QED BY <1>1, InitInvariant, NextInvariant, PTL DEF Spec

\* Every step of the cache is a step of the oracle, which answers each query
\* from the present graph: no epoch, capacity or sharing makes an answer stale.
THEOREM Currency == Spec => AnswersAreCurrent
  <1>1. Init => Oracle!Init
    BY DEF Init, Oracle!Init
  <1>2. ASSUME IInv, [Next]_vars
        PROVE  [Oracle!Next]_(Oracle!vars)
    <2>1. CASE Edit
      <3> PICK id \in GraphIds : \E graph : graphs' = [graphs EXCEPT ![id] = graph]
        BY <2>1, EditEffect
      <3> PICK graph : graphs' = [graphs EXCEPT ![id] = graph]
        OBVIOUS
      <3>2. UNCHANGED answer
        BY <2>1, EditEffect
      <3>1. DOMAIN graphs = GraphIds
        BY <1>2 DEF IInv, TypeInv
      <3> QED BY <3>1, <3>2 DEF Oracle!Next, Oracle!Edit
    <2>2. ASSUME NEW id \in GraphIds, NEW q \in Queries, Hit(id, q) \/ Miss(id, q)
          PROVE  Oracle!Next
      <3>1. UNCHANGED graphs
        BY <2>2 DEF Hit, Miss
      <3>2. CASE Hit(id, q)
        <4>1. KeyOf(id, q) \in DOMAIN entries
          BY <3>2 DEF Hit
        <4>2. entries[KeyOf(id, q)] = Analyse(graphs[id], q)
          BY <1>2, <4>1 DEF IInv, Fresh, KeyOf
        <4>3. answer' = [kind |-> "answer", id |-> id, query |-> q,
                         value |-> Analyse(graphs[id], q)]
          BY <3>2, <4>2 DEF Hit, Answered
        <4> QED BY <3>1, <4>3 DEF Oracle!Next, Oracle!Query
      <3>3. CASE Miss(id, q)
        BY <3>1, <3>3 DEF Miss, Answered, Oracle!Next, Oracle!Query
      <3> QED BY <2>2, <3>2, <3>3
    <2>3. ASSUME NEW c \in Capacities, SetCapacity(c)
          PROVE  UNCHANGED Oracle!vars
      BY <2>3 DEF SetCapacity, Oracle!vars
    <2>4. CASE UNCHANGED vars
      BY <2>4 DEF vars, Oracle!vars
    <2> QED BY <1>2, <2>1, <2>2, <2>3, <2>4 DEF Next
  <1> QED BY <1>1, <1>2, InitInvariant, NextInvariant, PTL DEF Spec, AnswersAreCurrent, Oracle!Spec
=============================================================================
