-------------------------- MODULE MCNestedArchives --------------------------
(* Archives two deep, with the same names at every level, and each limit   *)
(* in turn too tight.                                                      *)
EXTENDS NestedArchives, TLC

CONSTANTS g1, g2

entry(size, files) ==
  [declared |-> size, size |-> size, files |-> files, damaged |-> FALSE]

a == <<"a">>
aa == <<"a", "a">>
f == <<"f">>
af == <<"a", "f">>
aaf == <<"a", "a", "f">>

plain ==
  a :> entry(2, 2) @@ aa :> entry(1, 1) @@ f :> entry(1, 0) @@ af :> entry(2, 0)
    @@ aaf :> entry(1, 0)

roomy ==
  [tree |-> plain, maxDepth |-> 2, maxEntry |-> 2, maxTotal |-> 20, maxEntries |-> 20,
   recursive |-> TRUE, wanted |-> {f, af, aaf}]

MCWorlds ==
  { roomy,
    [roomy EXCEPT !.maxDepth = 1],
    [roomy EXCEPT !.maxTotal = 6],
    [roomy EXCEPT !.maxEntries = 3],
    [roomy EXCEPT !.recursive = FALSE],
    \* its header says so, or does not
    [roomy EXCEPT !.tree[af] = entry(3, 0)],
    [roomy EXCEPT !.tree[aa].size = 3],
    [roomy EXCEPT !.tree[a].damaged = TRUE],
    [roomy EXCEPT !.wanted = @ \cup {<<"a", "g">>}] }

MCReaders == {g1, g2}
Symmetry == Permutations(MCReaders)
=============================================================================
