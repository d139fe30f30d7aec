SPECIFICATION Spec
CONSTANTS
  g1 = g1
  g2 = g2
  Readers <- MCReaders
  Worlds <- MCWorlds
  MaxReads = 4
SYMMETRY Symmetry
INVARIANTS
  ReadsWhole
  KeptIsBilled
\* The reads end.
CHECK_DEADLOCK FALSE
