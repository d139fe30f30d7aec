SPECIFICATION LowerSpec
CONSTANTS
  ClassNames <- MCClassNames
  IntSize = 2
  Methods <- StartsWithLoop
  Policies <- MCPolicies
INVARIANTS
  PlanComplete
CHECK_DEADLOCK FALSE
