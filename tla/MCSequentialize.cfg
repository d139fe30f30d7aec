SPECIFICATION Spec
CONSTANTS
  Reserved = 6
  MaxVarID = 9
  Groups <- MCGroups
  Infos <- MCInfos
INVARIANTS
  TypeOK
  ReadersInverse
  HeapsExact
  NoValueLost
  OneTemporaryPerCycle
  MovesKeepTypes
PROPERTY ImplementsParallelCopy
CHECK_DEADLOCK FALSE
