SPECIFICATION Spec
CONSTANTS
  GraphIds = {1, 2}
  Queries <- MCQueries
  Analyse <- MCAnalyse
  FirstGraphs <- MCFirstGraphs
  Edges <- MCEdges
  Capacities <- MCCapacities
  MaxNodes = 3
  MaxEpoch <- MCMaxEpoch
  MaxRecent = 4
INVARIANTS
  MapMatchesList
  LeastRecentLeaves
PROPERTIES
  AnswersAreCurrent
CHECK_DEADLOCK FALSE
