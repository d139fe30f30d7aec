SPECIFICATION LowerSpec
CONSTANTS
  ClassNames <- MCClassNames
  IntSize = 2
  Methods <- EndsWithConstructor
  Policies <- MCPolicies
INVARIANTS
  CopiesInitialised
CHECK_DEADLOCK FALSE
