SPECIFICATION Spec
CONSTANTS
  t1 = t1
  t2 = t2
  Threads <- MCThreads
  MaxInt = 3
  Factor = 2
  LimitSets <- MCLimitSets
  Costs <- MCCosts
  Sizes <- MCSizes
  Chunks = {1}
  Held = 1
  MaxDepth = 2
INVARIANTS
  TypeOK
  LimitsHold
  WorkAccounted
  DepthExact
  WriterBounded
  EntriesBilledOnce
PROPERTIES
  FailClosed
  Unwinds
  ImplementsMeter
CHECK_DEADLOCK FALSE
