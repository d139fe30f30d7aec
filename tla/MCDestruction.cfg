SPECIFICATION LowerSpec
CONSTANTS
  ClassNames <- MCClassNames
  IntSize = 2
  Methods <- MCMethodSet
  Policies <- MCPolicies
INVARIANTS
  EmitsSame
  RefusesConversions
CHECK_DEADLOCK FALSE
