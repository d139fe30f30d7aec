SPECIFICATION Spec
CONSTANTS
  Graphs <- MCGraphs
  Domains <- MCDomains
INVARIANTS
  DominatorsExact
  PostDominatorsExact
  LoopsNest
  ReducibleExact
CHECK_DEADLOCK FALSE
